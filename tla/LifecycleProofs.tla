---------------------------- MODULE LifecycleProofs ----------------------------
(***************************************************************************)
(* The service implements SessionLifecycle: every step of a session, of a  *)
(* client and of the environment is one the lifecycle allows, or none at   *)
(* all.  ProgressInv says why a triage that goes on is always that of an   *)
(* open session, whose result is assessed once.                            *)
(* And the trace alone leads along such steps to the stored status, by the *)
(* inductive invariant TrailInv.                                           *)
(***************************************************************************)
EXTENDS ProgressProofs

\* No status is left but an open one or the gate's.
LEMMA OnlyOpenMoves ==
  ASSUME NEW from \in Statuses, NEW to, CanTransition(from, to)
  PROVE  from \notin {"completed", "partial_completed"}
BY DEF CanTransition, AllowedTransitions, Statuses

\* The phase and the risk of a stored session are read off its row.
LEMMA StoredLife ==
  ASSUME NEW s \in Sessions,
         s \in DOMAIN store => store[s] \in Rows,
         s \in DOMAIN store' => store'[s] \in Rows
  PROVE  /\ s \in DOMAIN store =>
              /\ Phase[s] = PhaseOf(store[s].status)
              /\ Risk[s] = store[s].report.risky
         /\ s \in DOMAIN store' =>
              /\ Phase'[s] = PhaseOf(store'[s].status)
              /\ Risk'[s] = store'[s].report.risky
BY DEF Phase, Risk, Rows, Reports

\* What a triage's step may do to its own session's life.
LifeStep(s) ==
  \/ Phase'[s] = Phase[s] /\ Risk'[s] = Risk[s]
  \/ Phase[s] = "open" /\ Phase'[s] = "open" /\ Risk'[s] = TRUE
  \/ /\ Phase[s] = "open" /\ Phase'[s] \in {"completed", "degraded"}
     /\ ~Risk[s] /\ Risk'[s] = Risk[s]
  \/ /\ Phase[s] = "open" /\ Phase'[s] = "gated"
     /\ Risk[s] /\ Risk'[s] = Risk[s]

\* It is then a step of the lifecycle.
LEMMA LifeStepIsAllowed ==
  ASSUME NEW s \in Sessions, accepted' = accepted, LifeStep(s),
         \A t \in Sessions \ {s} : Phase'[t] = Phase[t] /\ Risk'[t] = Risk[t]
  PROVE  [Lifecycle!LNext]_(Lifecycle!lvars)
<1>1. /\ Phase = [t \in Sessions |-> Phase[t]]
      /\ Phase' = [t \in Sessions |-> Phase'[t]]
      /\ Risk = [t \in Sessions |-> Risk[t]]
      /\ Risk' = [t \in Sessions |-> Risk'[t]]
  BY DEF Phase, Risk
<1>2. CASE Phase'[s] = Phase[s] /\ Risk'[s] = Risk[s]
  <2>1. Phase' = Phase /\ Risk' = Risk
    BY <1>1, <1>2
  <2> QED  BY <2>1 DEF Lifecycle!lvars
<1>3. CASE Phase[s] = "open" /\ Phase'[s] = "open" /\ Risk'[s] = TRUE
  <2>1. Phase' = Phase /\ Risk' = [Risk EXCEPT ![s] = TRUE]
    BY <1>1, <1>3
  <2> QED  BY <1>3, <2>1 DEF Lifecycle!LNext, Lifecycle!Assess
<1>4. CASE /\ Phase[s] = "open" /\ Phase'[s] \in {"completed", "degraded"}
           /\ ~Risk[s] /\ Risk'[s] = Risk[s]
  <2>1. Phase' = [Phase EXCEPT ![s] = Phase'[s]] /\ Risk' = Risk
    BY <1>1, <1>4
  <2> QED  BY <1>4, <2>1 DEF Lifecycle!LNext, Lifecycle!Settle
<1>5. CASE /\ Phase[s] = "open" /\ Phase'[s] = "gated"
           /\ Risk[s] /\ Risk'[s] = Risk[s]
  <2>1. Phase' = [Phase EXCEPT ![s] = "gated"] /\ Risk' = Risk
    BY <1>1, <1>5
  <2> QED  BY <1>5, <2>1 DEF Lifecycle!LNext, Lifecycle!Gate
<1> QED  BY <1>2, <1>3, <1>4, <1>5 DEF LifeStep

\* A coroutine's step leaves the lives of the others alone.
LEMMA OwnLife ==
  ASSUME GateInv, NEW s \in Sessions, Own(s), LifeStep(s)
  PROVE  [Lifecycle!LNext]_(Lifecycle!lvars)
<1>1. ASSUME NEW t \in Sessions \ {s}
      PROVE  Phase'[t] = Phase[t] /\ Risk'[t] = Risk[t]
  BY DEF Own, Phase, Risk
<1> QED  BY <1>1, LifeStepIsAllowed DEF Own, Rest

\* A row that keeps its status and report keeps the life.
LEMMA SameLifeStep ==
  ASSUME NEW s \in Sessions, Own(s),
         store'[s].status = store[s].status,
         store'[s].report.risky = store[s].report.risky
  PROVE  LifeStep(s)
BY StoredLife DEF LifeStep, Own

\* A status on the way leaves an open session open.
LEMMA PassingLifeStep ==
  ASSUME GateInv, NEW s \in Sessions, Own(s),
         NEW status \in {"validating_input", "planning", "retrieving",
                         "executing_tools", "tool_failed", "analyzing"},
         CanTransition(store[s].status, status),
         StatusSet(store[s], store'[s], status)
  PROVE  LifeStep(s)
<1>1. /\ store[s].status \in Statuses
      /\ s \in DOMAIN store /\ s \in DOMAIN store'
  BY DEF Own, Rows
<1>2. store[s].status \notin {"completed", "partial_completed"}
  BY <1>1, OnlyOpenMoves
<1>3. store[s].status # "waiting_approval"
  BY <1>1 DEF GateInv, SessionInv, RunOk, Own
<1>4. PhaseOf(store[s].status) = "open"
  BY <1>2, <1>3 DEF PhaseOf
<1>5. PhaseOf(status) = "open"
  BY DEF PhaseOf
<1> QED  BY <1>1, <1>4, <1>5, StoredLife DEF Own, StatusSet, LifeStep

\* Storing a report assesses an open session, or keeps its life.
LEMMA ReportLifeStep ==
  ASSUME GateInv, ProgressInv, NEW s \in Sessions, Own(s),
         \/ StoreReport(s) \/ FinalizeReport(s) \/ FinalizeState(s)
         \/ RequestApproval(s)
  PROVE  LifeStep(s)
<1>1. s \in DOMAIN store /\ s \in DOMAIN store' /\ task[s].pc \in Live
  BY DEF Own
<1>2. store'[s].status = store[s].status
  BY ReportEffect
<1>3. store[s].report.risky => task[s].pc \in Deciding
  BY <1>1, RunningFacts
<1>4. store[s].report.risky \in BOOLEAN
  BY DEF Own, Rows, Reports
<1>5. CASE task[s].pc = "report"
  <2>1. /\ store'[s].report = [kind |-> "full", risky |-> Risky(s),
                               notes |-> << >>]
    BY <1>5, ReportEffect
  <2>2. store[s].status = "analyzing" /\ store[s].report.risky = FALSE
    BY <1>1, <1>3, <1>4, <1>5, RunningFacts DEF RunOk, Analysis, Deciding
  <2>3. Phase[s] = "open" /\ Phase'[s] = "open" /\ Risk[s] = FALSE
        /\ Risk'[s] = Risky(s)
    BY <1>1, <1>2, <2>1, <2>2, StoredLife DEF Own, PhaseOf
  <2>4. Risky(s) \in BOOLEAN
    BY DEF Risky
  <2> QED  BY <2>3, <2>4 DEF LifeStep
<1>6. CASE task[s].pc = "fp_report"
  <2>1. store'[s].report = [kind |-> "partial", risky |-> FALSE,
                            notes |-> << >>]
    BY <1>6, ReportEffect
  <2>2. ~store[s].report.risky /\ ~store'[s].report.risky
    BY <1>3, <1>6, <2>1 DEF Deciding
  <2>3. store'[s].report.risky \in BOOLEAN
    BY DEF Own, Rows, Reports
  <2>4. store'[s].report.risky = store[s].report.risky
    BY <1>4, <2>2, <2>3
  <2> QED  BY <1>1, <1>2, <2>4, SameLifeStep
<1>7. CASE task[s].pc \notin {"report", "fp_report"}
  <2>1. store'[s].report = store[s].report
    BY <1>7, ReportEffect
  <2> QED  BY <1>1, <1>2, <2>1, SameLifeStep
<1> QED  BY <1>5, <1>6, <1>7

\* The triage's end settles an open session without risk, or gates one with it.
LEMMA EndLifeStep ==
  ASSUME GateInv, ProgressInv, NEW s \in Sessions, Own(s),
         Complete(s) \/ AwaitApproval(s) \/ FinalizePartial(s)
  PROVE  LifeStep(s)
<1>1. /\ s \in DOMAIN store /\ s \in DOMAIN store' /\ task[s].pc \in Live
      /\ store[s].status \in Statuses /\ store[s].report.risky \in BOOLEAN
  BY DEF Own, Rows, Reports
<1>2. RunOk(s) /\ store[s].status # "waiting_approval"
  BY <1>1, RunningFacts
<1>3. CASE Raises(s)
  BY <1>1, <1>3, SameLifeStep DEF Raises
<1>4. ASSUME NEW status \in Settled, CanTransition(store[s].status, status),
             StatusSet(store[s], store'[s], status),
             store[s].report.risky <=> status = "waiting_approval"
      PROVE  LifeStep(s)
  <2>1. store[s].status \notin {"completed", "partial_completed"}
    BY <1>1, <1>4, OnlyOpenMoves
  <2>2. Phase[s] = "open"
    BY <1>1, <1>2, <2>1, StoredLife DEF Own, PhaseOf
  <2>3. /\ Phase'[s] = PhaseOf(status) /\ Risk'[s] = Risk[s]
        /\ Risk[s] = store[s].report.risky
    BY <1>1, <1>4, StoredLife DEF Own, StatusSet
  <2>4. CASE status = "waiting_approval"
    BY <1>4, <2>2, <2>3, <2>4 DEF LifeStep, PhaseOf
  <2>5. CASE status \in {"completed", "partial_completed"}
    BY <1>4, <2>2, <2>3, <2>5 DEF LifeStep, PhaseOf
  <2> QED  BY <2>4, <2>5 DEF Settled
<1>5. /\ task[s].pc = "decide" /\ ~Risky(s) => ~store[s].report.risky
      /\ task[s].pc = "await_approval" => store[s].report.risky
      /\ task[s].pc = "fp_partial" => ~store[s].report.risky
  BY <1>1, <1>2 DEF RunOk
<1>6. Settled = {"completed", "partial_completed", "waiting_approval"}
  BY DEF Settled
<1> QED  BY <1>3, <1>4, <1>5, <1>6, EndEffect

\* Every step of a triage.
LEMMA TriageLifeStep ==
  ASSUME GateInv, ProgressInv, NEW s \in Sessions, Advance(s) \/ Resume(s)
  PROVE  [Lifecycle!LNext]_(Lifecycle!lvars)
<1>1. Own(s) /\ s \in DOMAIN store /\ s \in DOMAIN store'
  BY OwnStep DEF Own
<1>2. SUFFICES LifeStep(s)
  BY <1>1, OwnLife
<1>3. CASE store' = store
  BY <1>1, <1>3, SameLifeStep
<1>4. CASE Raises(s)
  BY <1>3, <1>4 DEF Raises
<1>5. CASE \/ StorePlan(s) \/ TraceToolsFailed(s) \/ AssembleContext(s)
           \/ BuildPrompt(s) \/ CheckSanitization(s) \/ TraceLlm(s)
           \/ CheckGroundedness(s) \/ TracePolicy(s) \/ FinalizeTrace(s)
           \/ /\ FinalizeNormalize(s)
              /\ Normalized(store[s].status) = store[s].status
  <2>1. StatusSet(store[s], store'[s], store[s].status)
    BY <1>1, <1>5, TraceEffect
  <2> QED  BY <1>1, <2>1, SameLifeStep DEF StatusSet
<1>6. CASE \/ Validate(s) \/ Planning(s) \/ ForceFailure(s) \/ Retrieve(s)
           \/ ToolsFailed(s) \/ Analyze(s) \/ Execute(s)
           \/ /\ FinalizeNormalize(s)
              /\ Normalized(store[s].status) # store[s].status
  <2>1. CASE \E hop \in PassHops :
               /\ CanTransition(store[s].status, hop[2])
               /\ StatusSet(store[s], store'[s], hop[2])
    <3>1. PICK hop \in PassHops :
            /\ CanTransition(store[s].status, hop[2])
            /\ StatusSet(store[s], store'[s], hop[2])
      BY <2>1
    <3>2. hop[2] \in {"validating_input", "planning", "retrieving",
                      "executing_tools", "tool_failed", "analyzing"}
      BY <3>1 DEF PassHops
    <3> QED  BY <1>1, <3>1, <3>2, PassingLifeStep
  <2> QED  BY <1>1, <1>4, <1>6, <2>1, PassEffect
<1>7. CASE ForcedToolFailed(s)
  BY <1>1, <1>4, <1>7, ForcedEffect, PassingLifeStep
<1>8. CASE \/ SyncBudget(s) \/ RecordTool(s) \/ ToolSyncBudget(s)
           \/ ToolObserve(s)
  <2>1. SameResult(store[s], store'[s])
    BY <1>1, <1>8, ToolEffect
  <2> QED  BY <1>1, <2>1, SameLifeStep DEF SameResult
<1>9. CASE \/ StoreReport(s) \/ FinalizeReport(s) \/ FinalizeState(s)
           \/ RequestApproval(s)
  BY <1>1, <1>9, ReportLifeStep
<1>10. CASE Complete(s) \/ AwaitApproval(s) \/ FinalizePartial(s)
  BY <1>1, <1>10, EndLifeStep
<1>11. CASE \/ BudgetSpentAtStart(s) \/ BudgetSpentBeforeTool(s)
            \/ TimeSpentBeforeLlm(s) \/ StartTool(s) \/ StartLlm(s)
            \/ LlmUnimplemented(s) \/ ContextRejected(s)
            \/ ReportRejected(s) \/ BlockByPolicy(s) \/ RequestRejected(s)
            \/ Resume(s)
  BY <1>3, <1>11
     DEF BudgetSpentAtStart, BudgetSpentBeforeTool, TimeSpentBeforeLlm,
         StartTool, StartLlm, LlmUnimplemented, ContextRejected,
         ReportRejected, BlockByPolicy, RequestRejected, Resume, ToolDone,
         ToolRaises, LlmDone, LlmTimeout, LlmRaises
<1> QED  BY <1>5, <1>6, <1>7, <1>8, <1>9, <1>10, <1>11 DEF Advance

-----------------------------------------------------------------------------
\* A created session is open.
LEMMA PostIncidentOpens ==
  ASSUME GateInv, NEW s \in Sessions, PostIncident(s)
  PROVE  Lifecycle!Open(s)
<1>1. TypeOK /\ task[s].pc = "absent" /\ s \notin DOMAIN store
  BY DEF GateInv, SessionInv, PostIncident
<1>2. PICK kind \in IncidentKinds :
        store' = [t \in DOMAIN store \cup {s} |->
                    IF t = s THEN CreateSession(kind) ELSE store[t]]
  BY DEF PostIncident
<1> DEFINE row == CreateSession(kind)
<1>3. row.status = "new" /\ row.report = NoReport
  BY CreateSessionNew, OrchestratorAssumption
<1> HIDE DEF row
<1>4. /\ DOMAIN store' = DOMAIN store \cup {s} /\ store'[s] = row
      /\ \A t \in DOMAIN store : t # s => store'[t] = store[t]
  BY <1>2 DEF row
<1>5. \A t \in Sessions \ {s} : task'[t] = task[t]
  BY <1>1 DEF TypeOK, PostIncident, Goto
<1>6. Phase[s] = "absent" /\ Phase'[s] = "open" /\ ~Risk[s] /\ ~Risk'[s]
  <2>1. row.report.risky = FALSE
    BY <1>3 DEF NoReport
  <2>2. PhaseOf(row.status) = "open"
    BY <1>3 DEF PhaseOf
  <2> QED  BY <1>1, <1>4, <2>1, <2>2 DEF Phase, Risk
<1>7. \A t \in Sessions \ {s} : Phase'[t] = Phase[t] /\ Risk'[t] = Risk[t]
  BY <1>4, <1>5 DEF Phase, Risk
<1>8. Phase' = [Phase EXCEPT ![s] = "open"]
  BY <1>6, <1>7 DEF Phase
<1>9. Risk' = Risk
  BY <1>6, <1>7 DEF Risk
<1> QED  BY <1>6, <1>8, <1>9 DEF Lifecycle!Open, PostIncident, Rest

\* A decision is the lifecycle's, or is refused.
LEMMA PostApprovalDecides ==
  ASSUME GateInv, NEW s \in Sessions, PostApproval(s)
  PROVE  [Lifecycle!LNext]_(Lifecycle!lvars)
<1>1. TypeOK /\ SessionInv(s) /\ task' = task
  BY DEF GateInv, PostApproval
<1>2. CASE UNCHANGED <<store, accepted>>
  BY <1>1, <1>2 DEF Lifecycle!lvars, Phase, Risk
<1>3. CASE \E id \in Sessions, decision \in Decisions :
             /\ Approvable(s, id)
             /\ Write(s, ApplyApproval(store[s], decision))
             /\ accepted' = [accepted EXCEPT ![s] = Append(@, decision)]
  <2>1. PICK id \in Sessions, decision \in Decisions :
          /\ Approvable(s, id)
          /\ Write(s, ApplyApproval(store[s], decision))
          /\ accepted' = [accepted EXCEPT ![s] = Append(@, decision)]
    BY <1>3
  <2>2. /\ s \in DOMAIN store /\ store[s] \in Rows
        /\ store[s].status = "waiting_approval"
        /\ store[s].report \in Reports /\ accepted[s] = << >>
    BY <1>1, <2>1 DEF Approvable, TypeOK, SessionInv, RowOk, Rows
  <2> DEFINE row == ApplyApproval(store[s], decision)
  <2>3. /\ row \in Rows /\ row.status = DecidedStatus(decision)
        /\ row.report = Annotated(store[s].report, decision)
    BY <2>2, ApplyApprovalResolves
  <2> HIDE DEF row
  <2>4. row.report.risky = store[s].report.risky
    BY <2>2, <2>3 DEF Annotated, Reports
  <2>5. /\ DOMAIN store' = DOMAIN store /\ store'[s] = row
        /\ \A t \in DOMAIN store : t # s => store'[t] = store[t]
    BY <2>1, <2>2 DEF Write, row
  <2>6. Risk' = Risk
    BY <2>4, <2>5 DEF Risk
  <2>7. Phase[s] = "gated" /\ Phase'[s] = PhaseOf(DecidedStatus(decision))
    BY <2>2, <2>3, <2>5 DEF Phase, PhaseOf
  <2>8. \A t \in Sessions \ {s} : Phase'[t] = Phase[t]
    BY <1>1, <2>5 DEF Phase
  <2>9. Phase' = [Phase EXCEPT ![s] = PhaseOf(DecidedStatus(decision))]
    BY <2>7, <2>8 DEF Phase
  <2>10. accepted' = [accepted EXCEPT ![s] = <<decision>>]
    BY <1>1, <2>1, <2>2 DEF TypeOK
  <2>11. CASE decision = "approved"
    <3>1. PhaseOf(DecidedStatus(decision)) = "completed"
      BY <2>11 DEF PhaseOf, DecidedStatus
    <3> QED  BY <2>2, <2>6, <2>7, <2>9, <2>10, <2>11, <3>1
             DEF Lifecycle!LNext, Lifecycle!Decide
  <2>12. CASE decision = "rejected"
    <3>1. PhaseOf(DecidedStatus(decision)) = "degraded"
      BY <2>12 DEF PhaseOf, DecidedStatus
    <3> QED  BY <2>2, <2>6, <2>7, <2>9, <2>10, <2>12, <3>1
             DEF Lifecycle!LNext, Lifecycle!Decide
  <2> QED  BY <2>11, <2>12 DEF Decisions
<1> QED  BY <1>2, <1>3 DEF PostApproval

\* A failing commit loses the session it was to create, or changes nothing.
LEMMA CommitFailsLoses ==
  ASSUME GateInv, NEW s \in Sessions, CommitFails(s)
  PROVE  [Lifecycle!LNext]_(Lifecycle!lvars)
<1>1. /\ TypeOK /\ SessionInv(s) /\ store' = store /\ accepted' = accepted
      /\ task'[s].pc = "raised"
      /\ \A t \in Sessions \ {s} : task'[t] = task[t]
  <2>1. Raises(s)
    BY RaiseEffect
  <2> QED  BY <2>1
           DEF GateInv, TypeOK, CommitFails, Raise, Goto, Raises, Moved
<1>2. Risk' = Risk
  BY <1>1 DEF Risk
<1>3. \A t \in Sessions \ {s} : Phase'[t] = Phase[t]
  BY <1>1 DEF Phase
<1>4. CASE task[s].pc = "absent"
  <2>1. s \notin DOMAIN store /\ Phase[s] = "absent"
    BY <1>1, <1>4 DEF SessionInv, Phase
  <2>2. Phase'[s] = "forgotten"
    BY <1>1, <2>1 DEF Phase
  <2>3. Phase' = [Phase EXCEPT ![s] = "forgotten"]
    BY <1>3, <2>2 DEF Phase
  <2> QED  BY <1>1, <1>2, <2>1, <2>3 DEF Lifecycle!LNext, Lifecycle!Lose
<1>5. CASE task[s].pc # "absent"
  <2>1. task[s].pc \in Live
    BY <1>5 DEF CommitFails, Writes, Live
  <2>2. Phase'[s] = Phase[s]
    BY <1>1, <2>1 DEF SessionInv, Phase
  <2>3. Phase' = Phase
    BY <1>3, <2>2 DEF Phase
  <2> QED  BY <1>1, <1>2, <2>3 DEF Lifecycle!lvars
<1> QED  BY <1>4, <1>5

\* A restart forgets what is not durable, and only that.
LEMMA RestartForgets ==
  ASSUME GateInv, Restart
  PROVE  [Lifecycle!LNext]_(Lifecycle!lvars)
<1>1. /\ accepted' = accepted
      /\ \A s \in Sessions : task[s].pc = "absent" => s \notin DOMAIN store
  BY DEF GateInv, SessionInv, Restart
<1>2. ASSUME NEW s \in Sessions
      PROVE  task'[s].pc = "absent" <=> task[s].pc = "absent"
  <2>1. task[s] \in Tasks
    BY DEF GateInv, TypeOK
  <2> QED  BY <2>1 DEF Restart, Tasks
<1>3. CASE Durable
  <2>1. store' = store
    BY <1>3 DEF Restart
  <2>2. Phase' = Phase /\ Risk' = Risk
    BY <1>2, <2>1 DEF Phase, Risk
  <2> QED  BY <1>1, <2>2 DEF Lifecycle!lvars
<1>4. CASE ~Durable
  <2>1. DOMAIN store' = {}
    BY <1>4 DEF Restart
  <2>2. ASSUME NEW s \in Sessions
        PROVE  Phase[s] = "absent" <=> task[s].pc = "absent"
    BY <1>1 DEF Phase, PhaseOf
  <2>3. Phase' = [s \in Sessions |->
                    IF Phase[s] = "absent" THEN "absent" ELSE "forgotten"]
    BY <1>2, <2>1, <2>2 DEF Phase
  <2>4. Risk' = [s \in Sessions |-> FALSE]
    BY <2>1 DEF Risk
  <2> QED  BY <1>1, <1>4, <2>3, <2>4 DEF Lifecycle!LNext, Lifecycle!Forget
<1> QED  BY <1>3, <1>4

\* Every behaviour of the service is one that SessionLifecycle allows, for any
\* number of sessions, on either backend, whatever crashes and fails.
THEOREM LifecycleIsImplemented == Spec => ImplementsLifecycle
<1>1. Init => Lifecycle!LInit
  <2> SUFFICES ASSUME Init PROVE Lifecycle!LInit
    OBVIOUS
  <2>1. DOMAIN store = {} /\ \A s \in Sessions : task[s].pc = "absent"
    BY DEF Init, NoTask
  <2> QED  BY <2>1 DEF Init, Lifecycle!LInit, Phase, Risk
<1>2. GateInv /\ ProgressInv /\ [Next]_vars
        => [Lifecycle!LNext]_(Lifecycle!lvars)
  <2> SUFFICES ASSUME GateInv, ProgressInv, [Next]_vars
               PROVE  [Lifecycle!LNext]_(Lifecycle!lvars)
    OBVIOUS
  <2>1. CASE UNCHANGED <<store, task, accepted>>
    BY <2>1 DEF Lifecycle!lvars, Phase, Risk
  <2>2. CASE \E s \in Sessions : PostIncident(s)
    BY <2>2, PostIncidentOpens DEF Lifecycle!LNext
  <2>3. CASE \E s \in Sessions : PostApproval(s) \/ CommitFails(s)
    BY <2>3, PostApprovalDecides, CommitFailsLoses
  <2>4. CASE Restart
    BY <2>4, RestartForgets
  <2>5. CASE \E s \in Sessions : Advance(s) \/ Resume(s)
    BY <2>5, TriageLifeStep
  <2> QED  BY <2>1, <2>2, <2>3, <2>4, <2>5
           DEF Next, vars, Expire, ApprovalCommitFails
<1> QED  BY <1>1, <1>2, GateHolds, ProgressHolds, PTL
         DEF Spec, ImplementsLifecycle, Lifecycle!LSpec

-----------------------------------------------------------------------------
(* The audit trail. *)

\* An entry that keeps the status, or shows one the last status may move to, or
\* confirms it as a decision, continues the trail.
LEMMA TrailGoesOn ==
  ASSUME NEW trace \in Seq(TraceSteps), NEW status, TrailOk(trace, status),
         NEW entry \in TraceSteps,
         ~Shows(entry) => entry.status = status,
         Shows(entry) => \/ CanTransition(status, entry.status)
                         \/ /\ entry.step = "approval_decision"
                            /\ entry.status = status
  PROVE  TrailOk(Append(trace, entry), entry.status)
<1> DEFINE n == Len(trace)
           new == Append(trace, entry)
<1>1. /\ n \in Nat /\ n > 0 /\ DOMAIN trace = 1..n
      /\ new \in Seq(TraceSteps) /\ Len(new) = n + 1
      /\ DOMAIN new = 1..(n + 1) /\ new[n + 1] = entry
      /\ \A i \in 1..n : new[i] = trace[i]
  BY DEF TrailOk
<1> HIDE DEF n, new
<1>2. ASSUME NEW m \in 0..n, NEW i \in 1..m
      PROVE  LastShown(new, m, i) <=> LastShown(trace, m, i)
  BY <1>1, <1>2 DEF LastShown
<1>3. PICK last \in 1..n :
        LastShown(trace, n, last) /\ trace[last].status = status
  BY <1>1 DEF TrailOk, n
<1>4. \A i \in 1..n : LastShown(trace, n, i) => i = last
  BY <1>1, <1>3 DEF LastShown
<1>5. new # << >> /\ new[1] = [step |-> "session_created", status |-> "new"]
  BY <1>1 DEF TrailOk
<1>6. \E i \in DOMAIN new :
        LastShown(new, Len(new), i) /\ new[i].status = entry.status
  <2>1. CASE Shows(entry)
    <3>1. LastShown(new, n + 1, n + 1)
      BY <1>1, <2>1 DEF LastShown
    <3> QED  BY <1>1, <3>1
  <2>2. CASE ~Shows(entry)
    <3>1. LastShown(new, n + 1, last)
      BY <1>1, <1>3, <2>2 DEF LastShown
    <3> QED  BY <1>1, <1>3, <2>2, <3>1
  <2> QED  BY <2>1, <2>2
<1>7. ASSUME NEW j \in DOMAIN new, Shows(new[j]), NEW i \in DOMAIN new,
             LastShown(new, j - 1, i)
      PROVE  \/ CanTransition(new[i].status, new[j].status)
             \/ /\ new[j].step = "approval_decision"
                /\ new[i].status = new[j].status
  <2>1. i \in 1..(j - 1) /\ j - 1 \in 0..n
    BY <1>1, <1>7 DEF LastShown
  <2>2. LastShown(trace, j - 1, i) /\ i \in 1..n
    BY <1>1, <1>2, <1>7, <2>1
  <2>3. CASE j = n + 1
    <3>1. i = last /\ new[j] = entry /\ new[i].status = status
      BY <1>1, <1>3, <1>4, <2>2, <2>3
    <3> QED  BY <1>7, <3>1
  <2>4. CASE j \in 1..n
    BY <1>1, <1>7, <2>2, <2>4 DEF TrailOk
  <2> QED  BY <1>1, <2>3, <2>4
<1> QED  BY <1>5, <1>6, <1>7 DEF TrailOk, new

\* The type of the entry each step of a triage makes.
EntryOf(pc) ==
  CASE pc = "plan" -> "planning"
    [] pc = "tool_record" -> "tool_call"
    [] pc = "tool_observe" -> "observation"
    [] pc = "tool_failed_trace" -> "tool_failed"
    [] pc = "context" -> "context_assembly"
    [] pc = "prompt" -> "prompt_build"
    [] pc = "sanitize" -> "sanitization_check"
    [] pc = "llm_trace" -> "llm_analysis"
    [] pc = "ground" -> "groundedness_check"
    [] pc \in {"report", "fp_report"} -> "report"
    [] pc = "request" -> "approval_request"
    [] pc = "policy_trace" -> "policy_check"
    [] pc = "fp_trace" -> "degradation"
    [] OTHER -> "status_transition"

\* A step writes nothing, or syncs the row, or makes its entry: one for a
\* status change the table allows, any other for the status as it is.
EntryStep(s) ==
  LET row == store[s]
      new == store'[s]
      pc == task[s].pc
  IN  \/ /\ store' = store
         /\ \/ task'[s].pc = "raised" /\ pc # "tool_sync"
            \/ pc \in {"preflight", "tool", "tool_wait", "llm_call",
                       "llm_wait", "decide", "fp_normalize"}
      \/ /\ pc \in {"sync_budget", "tool_sync", "fp_state"}
         /\ new.trace = row.trace /\ new.status = row.status
         /\ new.lastStep = Len(new.trace)
      \/ /\ new.trace = Append(row.trace, [step |-> EntryOf(pc),
                                           status |-> new.status])
         /\ \/ new.lastStep = Len(new.trace)
            \/ ~Durable /\ pc = "tool_record" /\ task'[s].pc = "tool_sync"
         /\ IF EntryOf(pc) = "status_transition"
            THEN CanTransition(row.status, new.status)
            ELSE new.status = row.status

\* Every step of a triage is one of these.
LEMMA OwnEntry ==
  ASSUME GateInv, NEW s \in Sessions, Own(s), Advance(s) \/ Resume(s)
  PROVE  EntryStep(s)
<1>1. /\ TypeOK /\ s \in DOMAIN store /\ store[s] \in Rows
      /\ task[s] \in Tasks /\ task[s].used \in Nat
  BY DEF GateInv, Own, Tasks
<1>2. \A row : Write(s, row) => store'[s] = row
  BY <1>1 DEF Write
<1>3. \A pc : Goto(s, pc) => task'[s].pc = pc
  BY <1>1 DEF Goto, TypeOK, Tasks
<1>4. ASSUME NEW next \in Statuses,
             \/ Raise(s, {}) /\ UNCHANGED store
             \/ /\ CanTransition(store[s].status, next)
                /\ Write(s, UpdateStatus(store[s], next)),
             EntryOf(task[s].pc) = "status_transition",
             task[s].pc # "tool_sync"
      PROVE  EntryStep(s)
  <2>1. CASE Raise(s, {}) /\ UNCHANGED store
    BY <1>3, <1>4, <2>1 DEF Raise, EntryStep
  <2>2. CASE /\ CanTransition(store[s].status, next)
             /\ Write(s, UpdateStatus(store[s], next))
    <3>1. store'[s] = UpdateStatus(store[s], next)
      BY <1>2, <2>2
    <3>2. /\ store'[s].status = next
          /\ Enters(store[s], store'[s], "status_transition")
      BY <1>1, <3>1, UpdateStatusSets, MethodsEnter
    <3> QED  BY <1>4, <2>2, <3>2 DEF Enters, EntryStep
  <2> QED  BY <1>4, <2>1, <2>2
<1>5. {"validating_input", "planning", "executing_tools", "retrieving",
       "tool_failed", "analyzing", "completed", "waiting_approval",
       "partial_completed"} \subseteq Statuses
  BY DEF Statuses
<1>6. ASSUME NEW step, Enters(store[s], store'[s], step),
             store'[s].status = store[s].status,
             step = EntryOf(task[s].pc), step # "status_transition"
      PROVE  EntryStep(s)
  BY <1>6 DEF Enters, EntryStep
<1>7. CASE \/ TraceToolsFailed(s) \/ AssembleContext(s) \/ BuildPrompt(s)
           \/ CheckSanitization(s) \/ TraceLlm(s) \/ CheckGroundedness(s)
           \/ TracePolicy(s) \/ FinalizeTrace(s)
  <2>1. PICK step \in StepTypes :
          /\ Write(s, AppendTrace(store[s], step))
          /\ step = EntryOf(task[s].pc) /\ step # "status_transition"
    BY <1>7 DEF TraceToolsFailed, AssembleContext, BuildPrompt,
                CheckSanitization, TraceLlm, CheckGroundedness, TracePolicy,
                FinalizeTrace, Call, At, EntryOf, StepTypes
  <2>2. store'[s] = AppendTrace(store[s], step)
    BY <1>2, <2>1
  <2>3. Keeps(store[s], store'[s]) /\ Enters(store[s], store'[s], step)
    BY <1>1, <2>1, <2>2, AppendTraceKeeps, MethodsEnter
  <2> QED  BY <1>6, <2>1, <2>3 DEF Keeps
<1>8. CASE \/ Validate(s) \/ Planning(s) \/ ForceFailure(s) \/ Retrieve(s)
           \/ ToolsFailed(s) \/ Analyze(s)
  BY <1>4, <1>5, <1>8
     DEF Validate, Planning, ForceFailure, Retrieve, ToolsFailed, Analyze,
         ChangeStatus, At, EntryOf
<1>9. CASE \/ ForcedToolFailed(s) \/ Execute(s) \/ Complete(s)
           \/ AwaitApproval(s) \/ FinalizePartial(s)
  BY <1>4, <1>5, <1>9
     DEF ForcedToolFailed, Execute, Complete, AwaitApproval, FinalizePartial,
         ChangeStatus, At, EntryOf
<1>10. CASE FinalizeNormalize(s)
  <2> DEFINE next == Normalized(store[s].status)
  <2>1. CASE next = store[s].status
    BY <1>10, <2>1 DEF FinalizeNormalize, At, EntryStep
  <2>2. CASE next # store[s].status
    <3>1. /\ next \in {"tool_failed", "analyzing"}
          /\ CanTransition(store[s].status, next)
      BY <1>1, <2>2 DEF Normalized
    <3> QED  BY <1>4, <1>5, <1>10, <2>2, <3>1
             DEF FinalizeNormalize, At, EntryOf
  <2> QED  BY <2>1, <2>2
<1>11. CASE StorePlan(s)
  <2>1. store'[s] = UpdateInvestigationPlan(store[s])
    BY <1>2, <1>11 DEF StorePlan, Call
  <2>2. /\ Keeps(store[s], store'[s])
        /\ Enters(store[s], store'[s], "planning")
    BY <1>1, <2>1, UpdateInvestigationPlanKeeps, MethodsEnter
  <2> QED  BY <1>6, <1>11, <2>2 DEF Keeps, StorePlan, At, EntryOf
<1>12. CASE ToolObserve(s)
  <2>1. store'[s] = AddObservation(store[s])
    BY <1>2, <1>12 DEF ToolObserve
  <2>2. /\ Keeps(store[s], store'[s])
        /\ Enters(store[s], store'[s], "observation")
    BY <1>1, <2>1, AddObservationKeeps, MethodsEnter
  <2> QED  BY <1>6, <1>12, <2>2 DEF Keeps, ToolObserve, At, EntryOf
<1>13. CASE SyncBudget(s) \/ ToolSyncBudget(s) \/ FinalizeState(s)
  <2>1. PICK reason \in Reasons :
          store'[s] = UpdateSessionState(store[s], Remaining(s), reason)
    <3>1. store[s].reason \in Reasons /\ task[s].why \in Reasons
      BY <1>1 DEF Rows, Tasks
    <3> QED  BY <1>2, <1>13, <3>1
             DEF SyncBudget, ToolSyncBudget, FinalizeState, Call,
                 CallAndCount
  <2>2. Remaining(s) \in Nat
    BY <1>1, RemainingType
  <2>3. /\ store'[s].status = store[s].status
        /\ store'[s].trace = store[s].trace
        /\ store'[s].lastStep = Len(store'[s].trace)
    BY <1>1, <2>1, <2>2, UpdateSessionStateKeeps, MethodsEnter
  <2> QED  BY <1>13, <2>3
           DEF SyncBudget, ToolSyncBudget, FinalizeState, At, EntryStep
<1>14. CASE RecordTool(s)
  <2> DEFINE call == [tool |-> task[s].tool, ok |-> task[s].ok]
  <2>1. /\ store'[s] = AddToolCall(store[s], call) /\ call \in ToolCalls
        /\ task[s].pc = "tool_record" /\ task'[s].pc = "tool_sync"
    BY <1>1, <1>2, <1>3, <1>14
       DEF RecordTool, Call, Proceed, At, ToolCalls, Tasks
  <2> HIDE DEF call
  <2>2. Keeps(store[s], store'[s])
    BY <1>1, <2>1, AddToolCallKeeps
  <2>3. /\ store'[s].trace =
             Append(store[s].trace, [step |-> "tool_call",
                                     status |-> store'[s].status])
        /\ Durable => store'[s].lastStep = Len(store'[s].trace)
    <3> DEFINE row == store[s]
               new == AddToolCall(row, call)
    <3>1. /\ new.trace = Append(row.trace, [step |-> "tool_call",
                                            status |-> new.status])
          /\ Durable => Enters(row, new, "tool_call")
      BY <1>1, MethodsEnter
    <3> QED  BY <2>1, <3>1 DEF Enters
  <2> QED  BY <2>1, <2>2, <2>3 DEF Keeps, EntryOf, EntryStep
<1>15. CASE StoreReport(s) \/ FinalizeReport(s)
  <2>1. PICK report \in Reports : store'[s] = SetFinalReport(store[s], report)
    <3> DEFINE report(kind, risky) ==
                 [kind |-> kind, risky |-> risky, notes |-> << >>]
    <3>1. /\ report("full", Risky(s)) \in Reports
          /\ report("partial", FALSE) \in Reports
      BY DEF Reports, Risky
    <3>2. \/ store'[s] = SetFinalReport(store[s], report("full", Risky(s)))
          \/ store'[s] = SetFinalReport(store[s], report("partial", FALSE))
      BY <1>2, <1>15 DEF StoreReport, FinalizeReport, Call, CallAndCount
    <3> HIDE DEF report
    <3> QED  BY <3>1, <3>2
  <2>2. /\ store'[s].status = store[s].status
        /\ Enters(store[s], store'[s], "report")
    BY <1>1, <2>1, SetFinalReportSets, MethodsEnter
  <2> QED  BY <1>6, <1>15, <2>2 DEF StoreReport, FinalizeReport, At, EntryOf
<1>16. CASE RequestApproval(s)
  <2>1. store'[s] = SetApprovalRequest(store[s], s)
    BY <1>2, <1>16 DEF RequestApproval, Call
  <2>2. /\ store'[s].status = store[s].status
        /\ Enters(store[s], store'[s], "approval_request")
    BY <1>1, <2>1, SetApprovalRequestSets, MethodsEnter
  <2> QED  BY <1>6, <1>16, <2>2 DEF RequestApproval, At, EntryOf
<1>17. CASE \/ BudgetSpentAtStart(s) \/ BudgetSpentBeforeTool(s)
            \/ TimeSpentBeforeLlm(s) \/ StartTool(s) \/ StartLlm(s)
            \/ BlockByPolicy(s) \/ ToolDone(s) \/ LlmDone(s) \/ LlmTimeout(s)
  BY <1>17
     DEF BudgetSpentAtStart, BudgetSpentBeforeTool, TimeSpentBeforeLlm,
         StartTool, StartLlm, BlockByPolicy, ToolDone, LlmDone, LlmTimeout,
         At, EntryStep
<1>18. CASE \/ LlmUnimplemented(s) \/ ContextRejected(s) \/ ReportRejected(s)
            \/ RequestRejected(s) \/ ToolRaises(s) \/ LlmRaises(s)
  BY <1>18, RaiseEffect
     DEF LlmUnimplemented, ContextRejected, ReportRejected, RequestRejected,
         ToolRaises, LlmRaises, At, Raises, Moved, EntryStep
<1> QED  BY <1>7, <1>8, <1>9, <1>10, <1>11, <1>12, <1>13, <1>14, <1>15,
            <1>16, <1>17, <1>18 DEF Advance, Resume

\* A row in step with its trace.
TrailKept(s) ==
  /\ TrailOk(store[s].trace, store[s].status)
  /\ \/ store[s].lastStep = Len(store[s].trace)
     \/ ~Durable /\ task[s].pc = "tool_sync"

\* A triage's step keeps its own session's trail.
LEMMA OwnKeepsTrail ==
  ASSUME GateInv, TrailInv, NEW s \in Sessions, Own(s), EntryStep(s)
  PROVE  TrailKept(s)'
<1>1. /\ s \in DOMAIN store /\ store[s] \in Rows /\ store'[s] \in Rows
      /\ TrailKept(s)
  BY DEF Own, TrailInv, TrailKept
<1>2. /\ store[s].trace \in Seq(TraceSteps)
      /\ store'[s].status \in Statuses
  BY <1>1 DEF Rows
<1>3. CASE /\ store' = store
           /\ task[s].pc # "tool_sync"
  BY <1>1, <1>3 DEF TrailKept
<1>4. CASE /\ store'[s].trace = store[s].trace
           /\ store'[s].status = store[s].status
           /\ store'[s].lastStep = Len(store'[s].trace)
  BY <1>1, <1>4 DEF TrailKept
<1>5. CASE /\ store'[s].trace =
                Append(store[s].trace, [step |-> EntryOf(task[s].pc),
                                        status |-> store'[s].status])
           /\ \/ store'[s].lastStep = Len(store'[s].trace)
              \/ ~Durable /\ task'[s].pc = "tool_sync"
           /\ IF EntryOf(task[s].pc) = "status_transition"
              THEN CanTransition(store[s].status, store'[s].status)
              ELSE store'[s].status = store[s].status
  <2> DEFINE entry == [step |-> EntryOf(task[s].pc),
                       status |-> store'[s].status]
  <2>1. /\ EntryOf(task[s].pc) \in StepTypes
        /\ EntryOf(task[s].pc) \notin {"session_created", "approval_decision"}
    BY DEF EntryOf, StepTypes
  <2>2. /\ entry \in TraceSteps /\ entry.status = store'[s].status
        /\ Shows(entry) <=> EntryOf(task[s].pc) = "status_transition"
    BY <1>2, <2>1 DEF TraceSteps, Shows
  <2>3. store'[s].trace = Append(store[s].trace, entry)
    BY <1>5
  <2> HIDE DEF entry
  <2>4. TrailOk(store'[s].trace, store'[s].status)
    BY <1>1, <1>2, <1>5, <2>2, <2>3, TrailGoesOn DEF TrailKept
  <2> QED  BY <1>5, <2>4 DEF TrailKept
<1> QED  BY <1>3, <1>4, <1>5 DEF EntryStep

\* A decision ends the trail with its status, in memory twice.
LEMMA DecisionKeepsTrail ==
  ASSUME GateInv, TrailInv, NEW s \in DOMAIN store, NEW decision \in Decisions,
         store[s].status = "waiting_approval",
         store'[s] = ApplyApproval(store[s], decision)
  PROVE  /\ TrailOk(store'[s].trace, store'[s].status)
         /\ store'[s].lastStep = Len(store'[s].trace)
<1> DEFINE row == store[s]
           new == ApplyApproval(row, decision)
           moved == [step |-> "status_transition", status |-> new.status]
           decided == [step |-> "approval_decision", status |-> new.status]
<1>1. /\ row \in Rows /\ row.trace \in Seq(TraceSteps)
      /\ TrailOk(row.trace, row.status)
  BY DEF GateInv, TypeOK, Rows, TrailInv
<1>2. new.status = DecidedStatus(decision)
  BY <1>1, ApplyApprovalResolves
<1>3. /\ new.status \in Statuses
      /\ CanTransition(row.status, new.status)
  BY <1>2 DEF Decisions, DecidedStatus, CanTransition, AllowedTransitions,
              Statuses
<1>4. /\ new.lastStep = Len(new.trace)
      /\ \/ new.trace = Append(row.trace, decided)
         \/ new.trace = Append(Append(row.trace, moved), decided)
  BY <1>1, ApplyApprovalEnters
<1> HIDE DEF new
<1>5. /\ moved \in TraceSteps /\ decided \in TraceSteps
      /\ moved.status = new.status /\ decided.status = new.status
      /\ decided.step = "approval_decision"
      /\ Shows(moved) /\ Shows(decided)
  BY <1>3 DEF TraceSteps, StepTypes, Shows
<1> HIDE DEF moved, decided
<1>6. TrailOk(Append(row.trace, decided), new.status)
  BY <1>1, <1>3, <1>5, TrailGoesOn
<1>7. /\ TrailOk(Append(row.trace, moved), new.status)
      /\ Append(row.trace, moved) \in Seq(TraceSteps)
  BY <1>1, <1>3, <1>5, TrailGoesOn
<1>8. TrailOk(Append(Append(row.trace, moved), decided), new.status)
  BY <1>5, <1>7, TrailGoesOn
<1> QED  BY <1>4, <1>6, <1>8 DEF new

\* Every step keeps every trail.
LEMMA NextKeepsTrail ==
  ASSUME GateInv, TrailInv, [Next]_vars
  PROVE  TrailInv'
<1>1. TypeOK
  BY DEF GateInv
<1>2. CASE UNCHANGED <<store, task>>
  BY <1>2 DEF TrailInv
<1>3. ASSUME NEW s \in Sessions, Advance(s) \/ Resume(s)
      PROVE  TrailInv'
  <2>1. Own(s) /\ EntryStep(s)
    BY <1>3, OwnStep, OwnEntry
  <2>2. TrailKept(s)'
    BY <2>1, OwnKeepsTrail
  <2>3. ASSUME NEW t \in DOMAIN store', t # s
        PROVE  TrailKept(t)'
    <3>1. /\ t \in DOMAIN store /\ store'[t] = store[t]
          /\ task'[t] = task[t]
      BY <1>1, <2>1, <2>3 DEF Own, TypeOK
    <3> QED  BY <3>1 DEF TrailInv, TrailKept
  <2> QED  BY <2>2, <2>3 DEF TrailInv, TrailKept
<1>4. ASSUME NEW s \in Sessions, PostIncident(s)
      PROVE  TrailInv'
  <2>1. PICK kind \in IncidentKinds :
          store' = [t \in DOMAIN store \cup {s} |->
                      IF t = s THEN CreateSession(kind) ELSE store[t]]
    BY <1>4 DEF PostIncident
  <2>2. /\ store'[s].trace = <<[step |-> "session_created",
                               status |-> "new"]>>
        /\ store'[s].lastStep = 1 /\ store'[s].status = "new"
    BY <2>1, CreateSessionEnters, CreateSessionNew, OrchestratorAssumption
  <2>3. /\ TrailOk(store'[s].trace, store'[s].status)
        /\ store'[s].lastStep = Len(store'[s].trace)
    BY <2>2 DEF TrailOk, LastShown, Shows
  <2>4. ASSUME NEW t \in DOMAIN store', t # s
        PROVE  TrailKept(t)'
    <3>1. /\ t \in DOMAIN store /\ store'[t] = store[t]
          /\ task'[t] = task[t]
      BY <1>1, <1>4, <2>1, <2>4 DEF TypeOK, PostIncident, Goto
    <3> QED  BY <3>1 DEF TrailInv, TrailKept
  <2> QED  BY <2>3, <2>4 DEF TrailInv, TrailKept
<1>5. ASSUME NEW s \in Sessions, PostApproval(s)
      PROVE  TrailInv'
  <2>1. task' = task
    BY <1>5 DEF PostApproval
  <2>2. CASE store' = store
    BY <2>1, <2>2 DEF TrailInv
  <2>3. CASE \E id \in Sessions, decision \in Decisions :
               /\ Approvable(s, id)
               /\ Write(s, ApplyApproval(store[s], decision))
    <3>1. PICK id \in Sessions, decision \in Decisions :
            /\ Approvable(s, id)
            /\ Write(s, ApplyApproval(store[s], decision))
      BY <2>3
    <3>2. /\ s \in DOMAIN store /\ store[s].status = "waiting_approval"
          /\ DOMAIN store' = DOMAIN store
          /\ store'[s] = ApplyApproval(store[s], decision)
          /\ \A t \in DOMAIN store : t # s => store'[t] = store[t]
      BY <3>1 DEF Approvable, Write
    <3>3. /\ TrailOk(store'[s].trace, store'[s].status)
          /\ store'[s].lastStep = Len(store'[s].trace)
      BY <3>2, DecisionKeepsTrail
    <3> QED  BY <2>1, <3>2, <3>3 DEF TrailInv
  <2> QED  BY <1>5, <2>2, <2>3 DEF PostApproval
<1>6. ASSUME NEW s \in Sessions, CommitFails(s)
      PROVE  TrailInv'
  BY <1>6 DEF CommitFails, TrailInv
<1>7. CASE Restart
  BY <1>7 DEF Restart, TrailInv
<1> QED  BY <1>2, <1>3, <1>4, <1>5, <1>6, <1>7
         DEF Next, vars, Expire, ApprovalCommitFails

\* Every trace tells how its session came to its status.
THEOREM TrailHolds == Spec => []TrailInv
<1>1. Init => TrailInv
  BY DEF Init, TrailInv
<1>2. GateInv /\ TrailInv /\ [Next]_vars => TrailInv'
  BY NextKeepsTrail
<1> QED  BY <1>1, <1>2, GateHolds, PTL DEF Spec

\* An auditor who reads a trace alone arrives at the stored status along
\* allowed transitions, whatever crashed or failed, on either backend; and
\* last_completed_step is behind the trace between two commits of _run_tool
\* only.
THEOREM TrailsLeadToStatus == Spec => []TrailLeadsToStatus
<1>1. ProgressInv /\ TypeOK /\ TrailInv => TrailLeadsToStatus
  BY DEF ProgressInv, ProgressOk, AnswerOk, Active, TrailInv,
         TrailLeadsToStatus, TypeOK
<1> QED  BY <1>1, TrailHolds, ProgressHolds, TypesHold, PTL

=============================================================================

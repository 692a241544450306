---------------------------- MODULE MetricsProofs ----------------------------
(***************************************************************************)
(* The counters of metrics_registry agree with the sessions of the         *)
(* process: outcomes, lost calls and readiness, by the inductive invariant *)
(* CountersInv, and the LLM calls and the entries of the stored traces,    *)
(* with TallyInv.                                                          *)
(***************************************************************************)
EXTENDS LifecycleProofs, FiniteSetTheorems

-----------------------------------------------------------------------------
(* Counting. *)

\* A set with one element beside another has one element more.
LEMMA OneMore ==
  ASSUME NEW S, NEW T, NEW x, IsFiniteSet(S), T \ {x} = S \ {x},
         x \notin S, x \in T
  PROVE  IsFiniteSet(T) /\ Cardinality(T) = Cardinality(S) + 1
<1>1. T = S \cup {x}
  OBVIOUS
<1> QED  BY <1>1, FS_AddElement

\* A set without one element of another has one element less.
LEMMA OneLess ==
  ASSUME NEW S, NEW T, NEW x, IsFiniteSet(S), T \ {x} = S \ {x},
         x \in S, x \notin T
  PROVE  IsFiniteSet(T) /\ Cardinality(S) = Cardinality(T) + 1
<1>1. T = S \ {x} /\ S = T \cup {x}
  OBVIOUS
<1>2. IsFiniteSet(T)
  BY <1>1, FS_RemoveElement
<1> QED  BY <1>1, <1>2, FS_AddElement

\* A set that agrees with another on the one element is that set.
LEMMA SameElements ==
  ASSUME NEW S, NEW T, NEW x, T \ {x} = S \ {x}, x \in S <=> x \in T
  PROVE  T = S
OBVIOUS

\* Such a set is finite when the other is.
LEMMA StillFinite ==
  ASSUME NEW S, NEW T, NEW x, IsFiniteSet(S), T \ {x} = S \ {x}
  PROVE  IsFiniteSet(T)
<1>1. T \in SUBSET (S \cup {x})
  OBVIOUS
<1> QED  BY <1>1, FS_AddElement, FS_Subset

\* increment adds one to each counter it is given.
LEMMA IncrementedCounts ==
  ASSUME TypeOK, NEW names, metrics' = Incremented(names), NEW n \in Counters
  PROVE  /\ metrics[n] \in Nat
         /\ n \in names => metrics'[n] = metrics[n] + 1
         /\ n \notin names => metrics'[n] = metrics[n]
BY DEF TypeOK, Incremented

\* Counting nothing.
LEMMA NothingCounted ==
  ASSUME TypeOK
  PROVE  metrics = Incremented({})
BY DEF TypeOK, Incremented

\* A session enters the set when it is counted, and else stays where it is.
Joins(s, S, T, counted) ==
  IF counted THEN s \notin S /\ s \in T ELSE s \in S <=> s \in T

\* So a counter that was the size of the set still is.
LEMMA Tallied ==
  ASSUME TypeOK, NEW names, metrics' = Incremented(names), NEW n \in Counters,
         NEW S, NEW T, NEW s, IsFiniteSet(S), T \ {s} = S \ {s},
         Joins(s, S, T, n \in names), metrics[n] = Cardinality(S)
  PROVE  metrics'[n] = Cardinality(T)
<1>1. CASE n \in names
  BY <1>1, IncrementedCounts, OneMore DEF Joins
<1>2. CASE n \notin names
  BY <1>2, IncrementedCounts, SameElements DEF Joins
<1> QED  BY <1>1, <1>2

-----------------------------------------------------------------------------
(* What a step of one session leaves alone. *)

\* The other sessions stay as they are.
Elsewhere(s) ==
  \A t \in Sessions \ {s} :
    /\ task'[t] = task[t] /\ accepted'[t] = accepted[t]
    /\ t \in DOMAIN store' <=> t \in DOMAIN store
    /\ t \in DOMAIN store => store'[t] = store[t]

\* So the sets of sessions differ in the one at most.
LEMMA SetsElsewhere ==
  ASSUME TypeOK, TypeOK', NEW s \in Sessions, Elsewhere(s)
  PROVE  /\ InProcess' \ {s} = InProcess \ {s}
         /\ \A status : Triaged(status)' \ {s} = Triaged(status) \ {s}
         /\ Gated' \ {s} = Gated \ {s}
         /\ \A pcs : AtStep(pcs)' \ {s} = AtStep(pcs) \ {s}
<1>1. InProcess' \ {s} = InProcess \ {s}
  BY DEF InProcess, Elsewhere
<1>2. ASSUME NEW status
      PROVE  Triaged(status)' \ {s} = Triaged(status) \ {s}
  BY DEF Triaged, InProcess, Elsewhere
<1>3. Gated' \ {s} = Gated \ {s}
  BY DEF Gated, InProcess, Elsewhere
<1>4. ASSUME NEW pcs PROVE AtStep(pcs)' \ {s} = AtStep(pcs) \ {s}
  BY DEF AtStep, InProcess, Elsewhere
<1> QED  BY <1>1, <1>2, <1>3, <1>4

\* All of them are finite when the process has finitely many sessions.
LEMMA SetsFinite ==
  ASSUME IsFiniteSet(InProcess)
  PROVE  /\ \A status : IsFiniteSet(Triaged(status))
         /\ IsFiniteSet(Gated)
         /\ \A pcs : IsFiniteSet(AtStep(pcs))
<1>1. /\ \A status : Triaged(status) \in SUBSET InProcess
      /\ Gated \in SUBSET InProcess
      /\ \A pcs : AtStep(pcs) \in SUBSET InProcess
  BY DEF Triaged, Gated, AtStep
<1> QED  BY <1>1, FS_Subset

-----------------------------------------------------------------------------
(* The kinds of steps of a triage, by what they do and count. *)

\* The steps that may raise.
RaisePcs == {"validate", "planning", "preflight", "force_fail", "executing",
             "executed", "analyzing", "context", "tool_wait", "llm_call",
             "llm_wait", "report", "decide", "request", "fp_normalize",
             "fp_partial"}

\* An exception ends the triage.
RaiseStep(s) ==
  /\ Raises(s) /\ task[s].pc \in RaisePcs
  /\ task[s].pc = "llm_call" => "unimplemented" \in LlmOutcomes
  /\ task[s].pc = "llm_wait" => "raise" \in LlmOutcomes
  /\ task[s].pc \in {"report", "decide", "request"} =>
       (task[s].llm = "risky_overlong" <=> task[s].pc = "request")

\* A step is appended to the trace.
TraceStep(s) ==
  \E hop \in TraceHops :
    /\ task[s].pc = hop[1] /\ loop = s /\ Moved(s, hop[2])
    /\ StatusSet(store[s], store'[s], store[s].status)
    /\ Goes

\* The status changes along the triage.
PassStep(s) ==
  \E hop \in PassHops :
    /\ task[s].pc = hop[1] /\ loop = s /\ Moved(s, hop[3])
    /\ CanTransition(store[s].status, hop[2])
    /\ StatusSet(store[s], store'[s], hop[2])
    /\ Goes

\* The triage gives up without a write.
GiveUpStep(s) ==
  \E hop \in DegradeHops :
    /\ task[s].pc = hop.from /\ Degrades(s, hop.why, hop.nested)
    /\ store' = store /\ response' = response /\ loop' = s
    /\ metrics' = Incremented(hop.names)

\* A forced failure makes the status tool_failed and gives up.
ForcedStep(s) ==
  /\ task[s].pc = "force_fail" /\ loop = s
  /\ Degrades(s, "forced_failure", FALSE) /\ Goes
  /\ CanTransition(store[s].status, "tool_failed")
  /\ StatusSet(store[s], store'[s], "tool_failed")

\* An await begins or ends, or the policy blocks: nothing is written.
AwaitStep(s) ==
  /\ UNCHANGED <<store, response>>
  /\ \/ /\ task[s].pc = "tool" /\ task'[s].pc = "tool_wait"
        /\ Locals(s, task[s].used + 1, task[s].tool, task[s].ok, task[s].llm)
        /\ metrics' = metrics
     \/ /\ task[s].pc = "tool_wait" /\ task'[s].pc = "tool_record"
        /\ \E ok \in BOOLEAN :
             /\ Locals(s, task[s].used, task[s].tool, ok, task[s].llm)
             /\ metrics' = Incremented({"tool_calls"} \cup
                             IF ok THEN {} ELSE {"tool_calls_failed"})
     \/ /\ task[s].pc = "llm_call" /\ Moved(s, "llm_wait")
        /\ metrics' = Incremented({"llm_calls"})
     \/ /\ task[s].pc = "llm_wait" /\ task'[s].pc = "llm_trace"
        /\ \E answer \in Answers :
             /\ Locals(s, task[s].used, task[s].tool, task[s].ok, answer)
             /\ metrics' = Incremented(Counted(answer))
     \/ /\ task[s].pc = "decide" /\ Moved(s, "request")
        /\ metrics' = Incremented({"policy_blocks", "approval_requests"})

\* A commit of _run_tool, or the first of the triage.
ToolStep(s) ==
  /\ SameResult(store[s], store'[s]) /\ Goes /\ loop = s
  /\ \/ /\ task[s].pc \in {"sync_budget", "tool_sync"}
        /\ \E pc \in {"validate", "tool_observe"} : Moved(s, pc)
        /\ store'[s].calls = store[s].calls
     \/ /\ task[s].pc = "tool_record" /\ Moved(s, "tool_sync")
        /\ store'[s].calls = Append(store[s].calls,
             [tool |-> task[s].tool, ok |-> task[s].ok])
     \/ /\ task[s].pc = "tool_observe"
        /\ task'[s].pc \in {"executing", "tool", "executed"}
        /\ Locals(s, task[s].used, task'[s].tool, task[s].ok, task[s].llm)
        /\ store'[s].calls = store[s].calls

\* The steps at which a report, its reason or its request is stored.
ReportHops ==
  {<<"report", "decide", {"ttfa"}>>, <<"fp_report", "fp_state", {}>>,
   <<"fp_state", "fp_trace", {"ttfa"}>>, <<"request", "policy_trace", {}>>}

\* A report, its reason or its request is stored.
ReportStep(s) ==
  /\ loop = s /\ UNCHANGED <<loop, response>>
  /\ store'[s].status = store[s].status
  /\ store'[s].calls = store[s].calls
  /\ \E hop \in ReportHops :
       /\ task[s].pc = hop[1] /\ Moved(s, hop[2])
       /\ metrics' = Incremented(hop[3])

\* The triage settles its session.
EndStep(s) ==
  /\ loop = s
  /\ \E status, names :
       /\ status \in Settled
       /\ CanTransition(store[s].status, status)
       /\ StatusSet(store[s], store'[s], status)
       /\ \/ status = "completed" /\ task[s].pc = "decide"
             /\ names = {"completed"} /\ Returns(s, names)
          \/ status = "waiting_approval" /\ task[s].pc = "await_approval"
             /\ names = {"waiting_approval"} /\ Returns(s, names)
          \/ /\ status = "partial_completed" /\ task[s].pc = "fp_partial"
             /\ names = PartialCounters
             /\ \/ ~task[s].nested /\ Returns(s, names)
                \/ /\ task[s].nested
                   /\ task'[s].pc \in {"executing", "tool", "executed"}
                   /\ Locals(s, task[s].used, task'[s].tool, task[s].ok,
                             task[s].llm)
                   /\ metrics' = Incremented(names)

\* There are no others.
LEMMA StepEffect ==
  ASSUME GateInv, NEW s \in Sessions, Own(s), Advance(s) \/ Resume(s)
  PROVE  \/ RaiseStep(s) \/ TraceStep(s) \/ PassStep(s) \/ GiveUpStep(s)
         \/ ForcedStep(s) \/ AwaitStep(s) \/ ToolStep(s) \/ ReportStep(s)
         \/ EndStep(s)
<1>1. TypeOK /\ metrics = Incremented({})
  BY NothingCounted DEF GateInv
<1>2. CASE \/ StorePlan(s) \/ TraceToolsFailed(s) \/ AssembleContext(s)
           \/ BuildPrompt(s) \/ CheckSanitization(s) \/ TraceLlm(s)
           \/ CheckGroundedness(s) \/ TracePolicy(s) \/ FinalizeTrace(s)
           \/ /\ FinalizeNormalize(s)
              /\ Normalized(store[s].status) = store[s].status
  BY <1>2, TraceEffect DEF TraceStep
<1>3. CASE \/ Validate(s) \/ Planning(s) \/ ForceFailure(s) \/ Retrieve(s)
           \/ ToolsFailed(s) \/ Analyze(s) \/ Execute(s)
           \/ /\ FinalizeNormalize(s)
              /\ Normalized(store[s].status) # store[s].status
  <2>1. task[s].pc \in {"validate", "planning", "preflight", "executed",
                        "analyzing", "executing", "fp_normalize"}
    BY <1>3 DEF At, Validate, Planning, ForceFailure, Retrieve, ToolsFailed,
                Analyze, Execute, FinalizeNormalize
  <2>2. Raises(s) => RaiseStep(s)
    BY <2>1 DEF RaiseStep, RaisePcs
  <2> QED  BY <1>3, <2>2, PassEffect DEF PassStep
<1>4. CASE \/ BudgetSpentAtStart(s) \/ BudgetSpentBeforeTool(s)
           \/ TimeSpentBeforeLlm(s) \/ LlmTimeout(s)
  BY <1>4, GiveUpEffect DEF GiveUpStep
<1>5. CASE ForcedToolFailed(s)
  <2>1. Raises(s) => RaiseStep(s)
    BY <1>5 DEF ForcedToolFailed, At, RaiseStep, RaisePcs
  <2> QED  BY <1>5, <2>1, ForcedEffect DEF ForcedStep
<1>6. CASE \/ ToolRaises(s) \/ LlmRaises(s) \/ ContextRejected(s)
           \/ RequestRejected(s) \/ ReportRejected(s) \/ LlmUnimplemented(s)
  BY <1>6, RaiseEffect
     DEF RaiseStep, RaisePcs, At, ToolRaises, LlmRaises, ContextRejected,
         RequestRejected, ReportRejected, LlmUnimplemented
<1>7. CASE StartTool(s)
  BY <1>7, StartToolEffect DEF AwaitStep
<1>8. CASE ToolDone(s)
  BY <1>8, ToolDoneEffect DEF AwaitStep
<1>9. CASE StartLlm(s) \/ LlmDone(s)
  BY <1>9, LlmAwaitEffect DEF AwaitStep
<1>10. CASE BlockByPolicy(s)
  BY <1>10, BlockEffect DEF AwaitStep
<1>11. CASE \/ SyncBudget(s) \/ RecordTool(s) \/ ToolSyncBudget(s)
            \/ ToolObserve(s)
  BY <1>11, ToolEffect DEF ToolStep
<1>12. CASE \/ StoreReport(s) \/ FinalizeReport(s) \/ FinalizeState(s)
            \/ RequestApproval(s)
  BY <1>1, <1>12, ReportEffect DEF ReportStep, ReportHops
<1>13. CASE Complete(s) \/ AwaitApproval(s) \/ FinalizePartial(s)
  <2>1. Raises(s) => RaiseStep(s) \/ task[s].pc = "await_approval"
    BY <1>13 DEF Complete, AwaitApproval, FinalizePartial, At, RaiseStep,
                 RaisePcs, Risky
  <2>2. {"completed", "waiting_approval", "partial_completed"} = Settled
    BY DEF Settled
  <2> QED  BY <1>13, <2>1, <2>2, EndEffect DEF EndStep
<1> QED  BY <1>2, <1>3, <1>4, <1>5, <1>6, <1>7, <1>8, <1>9, <1>10, <1>11,
            <1>12, <1>13 DEF Advance, Resume

-----------------------------------------------------------------------------
(* Outcomes. *)

\* A partial session has no way on.
LEMMA PartialHasNoWayOn ==
  ASSUME NEW from \in Statuses, NEW to, CanTransition(from, to)
  PROVE  from # "partial_completed"
BY DEF CanTransition, AllowedTransitions

\* The counters of outcomes.
OutcomeCounters == Settled \cup {"degraded_sessions"}

\* The triage goes on, or raises, and no outcome is counted.
GoesOn(s, names) ==
  /\ names \cap OutcomeCounters = {}
  /\ \/ store'[s].status = store[s].status
     \/ /\ store[s].status # "partial_completed"
        /\ store'[s].status \notin Settled
  /\ task'[s].pc \in Live \/ task'[s].pc = "raised"
  /\ task'[s].pc = "raised" => "http_requests_failed" \in names
  /\ task'[s].pc \in Asking =>
       task[s].pc \in Asking \/ "approval_requests" \in names

\* The triage reaches an outcome and counts it.
Settles(s, status, names) ==
  /\ store[s].status # "partial_completed"
  /\ store'[s].status = status
  /\ names \cap Settled = {status}
  /\ "degraded_sessions" \in names <=> status = "partial_completed"
  /\ status = "waiting_approval" => task[s].pc = "await_approval" /\ loop = s
  /\ task'[s].pc \in (Live \cup {"returned"}) \ Asking

\* Every step of a triage does one or the other.
LEMMA OwnOutcome ==
  ASSUME GateInv, NEW s \in Sessions, Own(s), Advance(s) \/ Resume(s)
  PROVE  \E names \in SUBSET Counters :
           /\ metrics' = Incremented(names)
           /\ \/ GoesOn(s, names)
              \/ \E status \in Settled : Settles(s, status, names)
<1>1. TypeOK /\ metrics = Incremented({}) /\ {} \in SUBSET Counters
      /\ store[s].status \in Statuses
  BY NothingCounted DEF GateInv, Own, Rows
<1> USE DEF GoesOn, OutcomeCounters, Settled, Asking
<1>2. CASE RaiseStep(s)
  <2>1. {"http_requests_failed"} \in SUBSET Counters
    BY DEF Counters
  <2> QED  BY <1>2, <2>1 DEF RaiseStep, Raises, Moved, Asking
<1>3. CASE TraceStep(s)
  BY <1>1, <1>3 DEF TraceStep, TraceHops, Moved, StatusSet, Goes, Live, Active
<1>4. CASE PassStep(s)
  <2>1. PICK hop \in PassHops :
          /\ task[s].pc = hop[1] /\ Moved(s, hop[3])
          /\ CanTransition(store[s].status, hop[2])
          /\ StatusSet(store[s], store'[s], hop[2]) /\ Goes
    BY <1>4 DEF PassStep
  <2>2. store[s].status # "partial_completed"
    BY <1>1, <2>1, PartialHasNoWayOn
  <2>3. hop[2] \notin Settled /\ hop[3] \in Live /\ hop[3] \notin Asking
    BY DEF PassHops, Live, Active
  <2>4. store'[s].status \notin Settled /\ task'[s].pc \in Live
        /\ task'[s].pc \notin Asking /\ task'[s].pc # "raised"
    BY <2>1, <2>3 DEF StatusSet, Moved, Live, Active, Suspended
  <2>5. GoesOn(s, {})
    BY <2>2, <2>4
  <2> QED  BY <1>1, <2>1, <2>5 DEF Goes
<1>5. CASE GiveUpStep(s)
  <2>1. \A hop \in DegradeHops :
          /\ hop.names \in SUBSET Counters
          /\ hop.names \cap OutcomeCounters = {}
    BY DEF DegradeHops, GiveUp, Counters
  <2>2. "fp_report" \in Live
    BY DEF Live, Active
  <2> QED  BY <1>5, <2>1, <2>2 DEF GiveUpStep, Degrades
<1>6. CASE ForcedStep(s)
  <2>1. store[s].status # "partial_completed"
    BY <1>1, <1>6, PartialHasNoWayOn DEF ForcedStep
  <2>2. "fp_report" \in Live
    BY DEF Live, Active
  <2> QED  BY <1>1, <1>6, <2>1, <2>2 DEF ForcedStep, Degrades, StatusSet, Goes
<1>7. CASE AwaitStep(s)
  <2>1. {"tool_wait", "tool_record", "llm_wait", "llm_trace", "request"}
          \subseteq Live
    BY DEF Live, Active, Suspended
  <2>2. /\ \A ok \in BOOLEAN :
             /\ {"tool_calls"} \cup (IF ok THEN {} ELSE {"tool_calls_failed"})
                  \in SUBSET Counters
             /\ ({"tool_calls"} \cup (IF ok THEN {} ELSE {"tool_calls_failed"}))
                  \cap OutcomeCounters = {}
        /\ \A answer \in Answers :
             /\ Counted(answer) \in SUBSET Counters
             /\ Counted(answer) \cap OutcomeCounters = {}
        /\ {"llm_calls"} \in SUBSET Counters
        /\ {"policy_blocks", "approval_requests"} \in SUBSET Counters
    BY DEF Counters, Counted
  <2> QED  BY <1>1, <1>7, <2>1, <2>2 DEF AwaitStep, Moved
<1>8. CASE ToolStep(s)
  BY <1>1, <1>8 DEF ToolStep, SameResult, Goes, Moved, Live, Active
<1>9. CASE ReportStep(s)
  <2>1. PICK hop \in ReportHops :
          /\ task[s].pc = hop[1] /\ Moved(s, hop[2])
          /\ metrics' = Incremented(hop[3])
    BY <1>9 DEF ReportStep
  <2>2. /\ hop[3] \in SUBSET Counters /\ hop[3] \cap OutcomeCounters = {}
        /\ hop[2] \in Live /\ hop[2] # "raised"
        /\ hop[2] \in Asking => hop[1] \in Asking
    BY DEF ReportHops, Counters, Live, Active
  <2>3. GoesOn(s, hop[3])
    BY <1>9, <2>1, <2>2 DEF ReportStep, Moved
  <2> QED  BY <2>1, <2>2, <2>3
<1>10. CASE EndStep(s)
  <2>1. PICK status, names :
          /\ status \in Settled
          /\ CanTransition(store[s].status, status)
          /\ StatusSet(store[s], store'[s], status)
          /\ \/ status = "completed" /\ task[s].pc = "decide"
                /\ names = {"completed"} /\ Returns(s, names)
             \/ status = "waiting_approval" /\ task[s].pc = "await_approval"
                /\ names = {"waiting_approval"} /\ Returns(s, names)
             \/ /\ status = "partial_completed" /\ task[s].pc = "fp_partial"
                /\ names = PartialCounters
                /\ \/ ~task[s].nested /\ Returns(s, names)
                   \/ /\ task[s].nested
                      /\ task'[s].pc \in {"executing", "tool", "executed"}
                      /\ metrics' = Incremented(names)
    BY <1>10 DEF EndStep
  <2>2. store[s].status # "partial_completed" /\ loop = s
    BY <1>1, <1>10, <2>1, PartialHasNoWayOn DEF EndStep
  <2>3. /\ names \in SUBSET Counters
        /\ names \cup {"http_requests"} \in SUBSET Counters
        /\ names \cap Settled = {status}
        /\ (names \cup {"http_requests"}) \cap Settled = {status}
        /\ "degraded_sessions" \in names <=> status = "partial_completed"
    BY <2>1 DEF Counters, PartialCounters
  <2>4. task'[s].pc \in (Live \cup {"returned"}) \ Asking
    BY <2>1 DEF Returns, Moved, Live, Active
  <2>5. /\ Settles(s, status, names)
        /\ Settles(s, status, names \cup {"http_requests"})
    BY <2>1, <2>2, <2>3, <2>4 DEF Settles, StatusSet
  <2>6. \/ metrics' = Incremented(names)
        \/ metrics' = Incremented(names \cup {"http_requests"})
    BY <2>1 DEF Returns
  <2> QED  BY <2>3, <2>5, <2>6
<1> QED  BY <1>2, <1>3, <1>4, <1>5, <1>6, <1>7, <1>8, <1>9, <1>10, StepEffect

\* A step of one session keeps the outcomes when the session enters the set of
\* each outcome it counts, and no other.
LEMMA OutcomesKept ==
  ASSUME TypeOK, TypeOK', IsFiniteSet(InProcess), OutcomesCounted,
         RequestsCounted, NEW s \in Sessions, Elsewhere(s),
         NEW names \in SUBSET Counters, metrics' = Incremented(names),
         Joins(s, Triaged("completed"), Triaged("completed")',
               "completed" \in names),
         Joins(s, Triaged("partial_completed"), Triaged("partial_completed")',
               "partial_completed" \in names),
         Joins(s, Gated, Gated', "waiting_approval" \in names),
         "degraded_sessions" \in names <=> "partial_completed" \in names,
         \/ "http_requests_failed" \in names
         \/ s \in AtStep({"raised"})' => s \in AtStep({"raised"}),
         \/ /\ "waiting_approval" \in names
            /\ AtStep(Asking) # {} /\ AtStep(Asking)' = {}
         \/ /\ "waiting_approval" \notin names
            /\ \/ "approval_requests" \in names
               \/ s \in AtStep(Asking)' => s \in AtStep(Asking)
  PROVE  IsFiniteSet(InProcess') /\ OutcomesCounted' /\ RequestsCounted'
<1>1. /\ InProcess' \ {s} = InProcess \ {s}
      /\ \A status : Triaged(status)' \ {s} = Triaged(status) \ {s}
      /\ Gated' \ {s} = Gated \ {s}
      /\ \A pcs : AtStep(pcs)' \ {s} = AtStep(pcs) \ {s}
  BY SetsElsewhere
<1>2. /\ \A status : IsFiniteSet(Triaged(status))
      /\ IsFiniteSet(Gated)
      /\ \A pcs : IsFiniteSet(AtStep(pcs))
  BY SetsFinite
<1>3. IsFiniteSet(InProcess')
  BY <1>1, StillFinite
<1>4. {"completed", "partial_completed", "waiting_approval",
       "degraded_sessions", "http_requests_failed", "approval_requests"}
        \subseteq Counters
  BY DEF Counters
<1>5. metrics'["completed"] = Cardinality(Triaged("completed")')
  BY <1>1, <1>2, <1>4, Tallied DEF OutcomesCounted
<1>6. metrics'["partial_completed"] = Cardinality(Triaged("partial_completed")')
  BY <1>1, <1>2, <1>4, Tallied DEF OutcomesCounted
<1>7. metrics'["waiting_approval"] = Cardinality(Gated')
  BY <1>1, <1>2, <1>4, Tallied DEF OutcomesCounted
<1>8. metrics'["degraded_sessions"] = metrics'["partial_completed"]
  <2>1. CASE "degraded_sessions" \in names
    BY <1>4, <2>1, IncrementedCounts DEF OutcomesCounted
  <2>2. CASE "degraded_sessions" \notin names
    BY <1>4, <2>2, IncrementedCounts DEF OutcomesCounted
  <2> QED  BY <2>1, <2>2
<1>9. metrics'["http_requests_failed"] >= Cardinality(AtStep({"raised"})')
  <2> DEFINE S == AtStep({"raised"})
             T == AtStep({"raised"})'
  <2>1. T \ {s} = S \ {s} /\ IsFiniteSet(S)
    BY <1>1, <1>2
  <2>2. Cardinality(S) \in Nat
    BY <2>1, FS_CardinalityType
  <2>3. /\ metrics["http_requests_failed"] \in Nat
        /\ metrics["http_requests_failed"] >= Cardinality(S)
        /\ "http_requests_failed" \in names =>
             metrics'["http_requests_failed"] =
               metrics["http_requests_failed"] + 1
        /\ "http_requests_failed" \notin names =>
             metrics'["http_requests_failed"] = metrics["http_requests_failed"]
    BY <1>4, IncrementedCounts DEF OutcomesCounted
  <2>4. "http_requests_failed" \in names \/ (s \in T => s \in S)
    OBVIOUS
  <2> HIDE DEF S, T
  <2>5. CASE s \in S /\ s \notin T
    <3>1. IsFiniteSet(T) /\ Cardinality(S) = Cardinality(T) + 1
      BY <2>1, <2>5, OneLess
    <3>2. Cardinality(T) \in Nat
      BY <3>1, FS_CardinalityType
    <3>3. metrics'["http_requests_failed"] >= Cardinality(T)
      BY <2>2, <2>3, <3>1, <3>2
    <3> QED  BY <3>3 DEF T
  <2>6. CASE s \notin S /\ s \in T
    <3>1. Cardinality(T) = Cardinality(S) + 1
      BY <2>1, <2>6, OneMore
    <3>2. metrics'["http_requests_failed"] >= Cardinality(T)
      BY <2>2, <2>3, <2>4, <2>6, <3>1
    <3> QED  BY <3>2 DEF T
  <2>7. CASE s \in S <=> s \in T
    <3>1. T = S
      BY <2>1, <2>7, SameElements
    <3>2. metrics'["http_requests_failed"] >= Cardinality(T)
      BY <2>2, <2>3, <3>1
    <3> QED  BY <3>2 DEF T
  <2> QED  BY <2>5, <2>6, <2>7
<1>10. /\ metrics["approval_requests"] \in Nat
       /\ metrics["waiting_approval"] \in Nat
       /\ "waiting_approval" \in names =>
            metrics'["waiting_approval"] = metrics["waiting_approval"] + 1
       /\ "waiting_approval" \notin names =>
            metrics'["waiting_approval"] = metrics["waiting_approval"]
       /\ "approval_requests" \in names =>
            metrics'["approval_requests"] = metrics["approval_requests"] + 1
       /\ "approval_requests" \notin names =>
            metrics'["approval_requests"] = metrics["approval_requests"]
  BY <1>4, IncrementedCounts
<1>11. /\ AtStep(Asking) # {} =>
            metrics["approval_requests"] >= metrics["waiting_approval"] + 1
       /\ metrics["approval_requests"] >= metrics["waiting_approval"]
  BY <1>10 DEF RequestsCounted
<1>12. /\ AtStep(Asking)' # {} =>
            metrics'["approval_requests"] >= metrics'["waiting_approval"] + 1
       /\ metrics'["approval_requests"] >= metrics'["waiting_approval"]
  <2>1. CASE /\ "waiting_approval" \in names
             /\ AtStep(Asking) # {} /\ AtStep(Asking)' = {}
    <3>1. metrics'["approval_requests"] >= metrics'["waiting_approval"]
      BY <1>10, <1>11, <2>1
    <3> QED  BY <2>1, <3>1
  <2>2. CASE /\ "waiting_approval" \notin names
             /\ "approval_requests" \in names
    BY <1>10, <1>11, <2>2
  <2>3. CASE /\ "waiting_approval" \notin names
             /\ s \in AtStep(Asking)' => s \in AtStep(Asking)
    <3>1. AtStep(Asking)' # {} => AtStep(Asking) # {}
      BY <1>1, <2>3
    <3> QED  BY <1>10, <1>11, <2>3, <3>1
  <2> QED  BY <2>1, <2>2, <2>3
<1>13. RequestsCounted'
  <2>1. /\ metrics'["approval_requests"] \in Nat
        /\ metrics'["waiting_approval"] \in Nat
    BY <1>4 DEF TypeOK
  <2>2. CASE AtStep(Asking)' = {}
    <3>1. metrics'["waiting_approval"] + 0 = metrics'["waiting_approval"]
      BY <2>1
    <3> QED  BY <1>12, <2>2, <3>1 DEF RequestsCounted
  <2>3. CASE AtStep(Asking)' # {}
    BY <1>12, <2>3 DEF RequestsCounted
  <2> QED  BY <2>2, <2>3
<1> QED  BY <1>3, <1>5, <1>6, <1>7, <1>8, <1>9, <1>12, <1>13
         DEF OutcomesCounted

\* A step of a triage leaves the others alone.
LEMMA OwnElsewhere ==
  ASSUME NEW s \in Sessions, Own(s)
  PROVE  Elsewhere(s)
BY DEF Own, Rest, Elsewhere

\* A step of a triage leaves it known to the process.
LEMMA StaysInProcess ==
  ASSUME GateInv, NEW s \in Sessions, Own(s), Advance(s) \/ Resume(s)
  PROVE  s \in InProcess'
BY OwnOutcome
   DEF GoesOn, Settles, InProcess, Live, Active, Suspended

\* A step of a triage keeps the outcomes.
LEMMA OwnKeepsOutcomes ==
  ASSUME GateInv, ProgressInv, CountersInv, NEW s \in Sessions, Own(s),
         Advance(s) \/ Resume(s)
  PROVE  IsFiniteSet(InProcess') /\ OutcomesCounted' /\ RequestsCounted'
<1>1. PICK names \in SUBSET Counters :
        /\ metrics' = Incremented(names)
        /\ \/ GoesOn(s, names)
           \/ \E status \in Settled : Settles(s, status, names)
  BY OwnOutcome
<1>2. /\ TypeOK /\ IsFiniteSet(InProcess) /\ OutcomesCounted
      /\ RequestsCounted
  BY DEF GateInv, CountersInv
<1>3. TypeOK'
  BY NextKeepsGate DEF Next, GateInv
<1>4. Elsewhere(s)
  BY OwnElsewhere
<1>5. /\ s \in DOMAIN store /\ s \in DOMAIN store' /\ task[s].pc \in Live
      /\ store[s].status \notin {"completed", "waiting_approval"}
      /\ accepted[s] = << >> /\ accepted'[s] = << >>
  BY RunningFacts DEF Own, Rest
<1>6. /\ s \in InProcess /\ task[s].pc # "raised"
      /\ (task'[s].pc \in Live \cup {"returned", "raised"} => s \in InProcess')
  BY <1>5 DEF InProcess, Live, Active, Suspended
<1>7. /\ s \notin Triaged("completed") /\ s \notin Gated
      /\ s \in Triaged("partial_completed") <=>
           store[s].status = "partial_completed"
      /\ s \notin AtStep({"raised"})
      /\ s \in AtStep(Asking) <=> task[s].pc \in Asking
  BY <1>5, <1>6 DEF Triaged, Gated, AtStep
<1>8. ASSUME s \in InProcess'
      PROVE  /\ s \in Triaged("completed")' <=> store'[s].status = "completed"
             /\ s \in Gated' <=> store'[s].status = "waiting_approval"
             /\ s \in Triaged("partial_completed")' <=>
                  store'[s].status = "partial_completed"
             /\ s \in AtStep({"raised"})' <=> task'[s].pc = "raised"
             /\ s \in AtStep(Asking)' <=> task'[s].pc \in Asking
  BY <1>5, <1>8 DEF Triaged, Gated, AtStep
<1>9. CASE GoesOn(s, names)
  <2>1. s \in InProcess'
    BY <1>6, <1>9 DEF GoesOn
  <2>2. /\ "completed" \notin names /\ "partial_completed" \notin names
        /\ "waiting_approval" \notin names /\ "degraded_sessions" \notin names
    BY <1>9 DEF GoesOn, OutcomeCounters, Settled
  <2>3. /\ Joins(s, Triaged("completed"), Triaged("completed")',
                 "completed" \in names)
        /\ Joins(s, Triaged("partial_completed"),
                 Triaged("partial_completed")', "partial_completed" \in names)
        /\ Joins(s, Gated, Gated', "waiting_approval" \in names)
    BY <1>5, <1>7, <1>8, <1>9, <2>1, <2>2 DEF Joins, GoesOn, Settled
  <2>4. \/ "http_requests_failed" \in names
        \/ s \in AtStep({"raised"})' => s \in AtStep({"raised"})
    BY <1>8, <1>9, <2>1 DEF GoesOn
  <2>5. \/ "approval_requests" \in names
        \/ s \in AtStep(Asking)' => s \in AtStep(Asking)
    BY <1>7, <1>8, <1>9, <2>1 DEF GoesOn
  <2> QED  BY <1>1, <1>2, <1>3, <1>4, <2>2, <2>3, <2>4, <2>5, OutcomesKept
<1>10. CASE \E status \in Settled : Settles(s, status, names)
  <2>1. PICK status \in Settled : Settles(s, status, names)
    BY <1>10
  <2>2. s \in InProcess'
    BY <1>6, <2>1 DEF Settles
  <2>3. \A c \in Settled : c \in names <=> store'[s].status = c
    BY <2>1 DEF Settles
  <2>4. /\ Joins(s, Triaged("completed"), Triaged("completed")',
                 "completed" \in names)
        /\ Joins(s, Triaged("partial_completed"),
                 Triaged("partial_completed")', "partial_completed" \in names)
        /\ Joins(s, Gated, Gated', "waiting_approval" \in names)
    BY <1>7, <1>8, <2>1, <2>2, <2>3 DEF Joins, Settles, Settled
  <2>5. "degraded_sessions" \in names <=> "partial_completed" \in names
    BY <2>1, <2>3 DEF Settles, Settled
  <2>6. s \notin AtStep({"raised"})' /\ s \notin AtStep(Asking)'
    BY <1>8, <2>1, <2>2 DEF Settles, Live, Active, Suspended
  <2>7. ASSUME "waiting_approval" \in names
        PROVE  AtStep(Asking) # {} /\ AtStep(Asking)' = {}
    <3>1. task[s].pc = "await_approval" /\ loop = s
      BY <2>1, <2>3, <2>7 DEF Settles, Settled
    <3>2. s \in AtStep(Asking)
      BY <1>7, <3>1 DEF Asking
    <3>3. ASSUME NEW t \in Sessions \ {s} PROVE task'[t].pc \notin Asking
      <4>1. task[t].pc \in Active => loop = t
        BY DEF ProgressInv, ProgressOk, AnswerOk
      <4> QED  BY <1>4, <3>1, <4>1 DEF Elsewhere, Asking, Active
    <3>4. AtStep(Asking)' = {}
      BY <2>6, <3>3 DEF AtStep, InProcess
    <3> QED  BY <3>2, <3>4
  <2> QED  BY <1>1, <1>2, <1>3, <1>4, <2>4, <2>5, <2>6, <2>7, OutcomesKept
<1> QED  BY <1>1, <1>9, <1>10

\* A new session is in none of the sets, and nothing is counted.
LEMMA CreateKeepsOutcomes ==
  ASSUME GateInv, CountersInv, NEW s \in Sessions, PostIncident(s)
  PROVE  /\ IsFiniteSet(InProcess') /\ OutcomesCounted' /\ RequestsCounted'
         /\ Elsewhere(s) /\ s \in DOMAIN store'
         /\ task'[s] = [task[s] EXCEPT !.pc = "sync_budget"]
         /\ store'[s].calls = << >>
<1>1. /\ TypeOK /\ IsFiniteSet(InProcess) /\ OutcomesCounted
      /\ RequestsCounted /\ SessionInv(s) /\ task[s].pc = "absent"
  BY DEF GateInv, CountersInv, PostIncident
<1>2. TypeOK'
  BY NextKeepsGate DEF Next, GateInv
<1>3. s \notin DOMAIN store /\ accepted[s] = << >>
  BY <1>1 DEF SessionInv
<1>4. PICK kind \in IncidentKinds :
        store' = [t \in DOMAIN store \cup {s} |->
                    IF t = s THEN CreateSession(kind) ELSE store[t]]
  BY DEF PostIncident
<1>5. /\ CreateSession(kind).status = "new"
      /\ CreateSession(kind).calls = << >>
  BY CreateSessionNew, CreateSessionEmpty, OrchestratorAssumption
<1>6. /\ DOMAIN store' = DOMAIN store \cup {s}
      /\ store'[s].status = "new" /\ store'[s].calls = << >>
      /\ \A t \in DOMAIN store : t # s => store'[t] = store[t]
  BY <1>4, <1>5
<1>7. /\ task'[s] = [task[s] EXCEPT !.pc = "sync_budget"]
      /\ \A t \in Sessions \ {s} : task'[t] = task[t]
      /\ accepted' = accepted /\ metrics' = metrics
  BY <1>1 DEF PostIncident, Goto, Rest, TypeOK
<1>8. Elsewhere(s)
  BY <1>6, <1>7 DEF Elsewhere
<1>9. task'[s].pc = "sync_budget"
  BY <1>1, <1>7 DEF TypeOK, Tasks
<1>10. /\ s \notin Triaged("completed") /\ s \notin Gated
       /\ s \notin Triaged("partial_completed")
       /\ s \notin Triaged("completed")' /\ s \notin Gated'
       /\ s \notin Triaged("partial_completed")'
       /\ s \notin AtStep({"raised"})' /\ s \notin AtStep(Asking)'
  BY <1>3, <1>6, <1>7, <1>9 DEF Triaged, Gated, AtStep, Asking
<1>11. metrics' = Incremented({}) /\ {} \in SUBSET Counters
  BY <1>1, <1>7, NothingCounted
<1>12. /\ Joins(s, Triaged("completed"), Triaged("completed")',
                "completed" \in {})
       /\ Joins(s, Triaged("partial_completed"),
                Triaged("partial_completed")', "partial_completed" \in {})
       /\ Joins(s, Gated, Gated', "waiting_approval" \in {})
  BY <1>10 DEF Joins
<1> QED  BY <1>1, <1>2, <1>6, <1>7, <1>8, <1>10, <1>11, <1>12, OutcomesKept

\* A decision moves a session from those that wait to those that have waited.
LEMMA DecisionKeepsOutcomes ==
  ASSUME GateInv, CountersInv, NEW s \in Sessions, PostApproval(s)
  PROVE  /\ IsFiniteSet(InProcess') /\ OutcomesCounted' /\ RequestsCounted'
         /\ Elsewhere(s) /\ DOMAIN store' = DOMAIN store
         /\ s \in DOMAIN store => /\ store'[s].calls = store[s].calls
                                  /\ Finalized(s)' <=> Finalized(s)
<1>1. /\ TypeOK /\ IsFiniteSet(InProcess) /\ OutcomesCounted
      /\ RequestsCounted /\ SessionInv(s)
  BY DEF GateInv, CountersInv
<1>2. TypeOK'
  BY NextKeepsGate DEF Next, GateInv
<1>3. task' = task /\ metrics' = Incremented({"http_requests"})
  BY DEF PostApproval
<1>4. {"http_requests"} \in SUBSET Counters
  BY DEF Counters
<1>5. CASE UNCHANGED <<store, accepted>>
  <2>1. /\ InProcess' = InProcess /\ Gated' = Gated
        /\ \A status : Triaged(status)' = Triaged(status)
        /\ \A pcs : AtStep(pcs)' = AtStep(pcs)
    BY <1>3, <1>5 DEF InProcess, Triaged, Gated, AtStep
  <2>2. Elsewhere(s)
    BY <1>3, <1>5 DEF Elsewhere
  <2>3. \A S : \A c \in Counters \ {"http_requests"} :
          Joins(s, S, S, c \in {"http_requests"})
    BY DEF Joins
  <2>4. /\ Joins(s, Triaged("completed"), Triaged("completed")',
                 "completed" \in {"http_requests"})
        /\ Joins(s, Triaged("partial_completed"),
                 Triaged("partial_completed")',
                 "partial_completed" \in {"http_requests"})
        /\ Joins(s, Gated, Gated', "waiting_approval" \in {"http_requests"})
    BY <2>1, <2>3 DEF Counters
  <2>5. IsFiniteSet(InProcess') /\ OutcomesCounted' /\ RequestsCounted'
    BY <1>1, <1>2, <1>3, <1>4, <2>1, <2>2, <2>4, OutcomesKept
  <2> QED  BY <1>5, <2>2, <2>5 DEF Finalized
<1>6. CASE \E id \in Sessions, decision \in Decisions :
             /\ Approvable(s, id)
             /\ Write(s, ApplyApproval(store[s], decision))
             /\ accepted' = [accepted EXCEPT ![s] = Append(@, decision)]
  <2>1. PICK id \in Sessions, decision \in Decisions :
          /\ Approvable(s, id)
          /\ Write(s, ApplyApproval(store[s], decision))
          /\ accepted' = [accepted EXCEPT ![s] = Append(@, decision)]
    BY <1>6
  <2>2. /\ s \in DOMAIN store /\ store[s] \in Rows
        /\ store[s].status = "waiting_approval" /\ accepted[s] = << >>
    BY <1>1, <2>1 DEF Approvable, TypeOK, SessionInv, RowOk
  <2>3. /\ DOMAIN store' = DOMAIN store
        /\ store'[s] = ApplyApproval(store[s], decision)
        /\ \A t \in DOMAIN store : t # s => store'[t] = store[t]
    BY <2>1, <2>2 DEF Write
  <2>4. /\ accepted'[s] = <<decision>>
        /\ \A t \in Sessions \ {s} : accepted'[t] = accepted[t]
    BY <1>1, <2>1, <2>2 DEF TypeOK
  <2>5. accepted'[s] # << >>
    BY <2>4
  <2>6. Elsewhere(s)
    BY <1>3, <2>3, <2>4 DEF Elsewhere
  <2>7. /\ s \notin Triaged("completed") /\ s \notin Triaged("completed")'
        /\ s \notin Triaged("partial_completed")
        /\ s \notin Triaged("partial_completed")'
        /\ s \in Gated <=> s \in Gated'
        /\ \A pcs : s \in AtStep(pcs)' <=> s \in AtStep(pcs)
    BY <1>3, <2>2, <2>3, <2>5 DEF Triaged, Gated, AtStep, InProcess
  <2>8. /\ Joins(s, Triaged("completed"), Triaged("completed")',
                 "completed" \in {"http_requests"})
        /\ Joins(s, Triaged("partial_completed"),
                 Triaged("partial_completed")',
                 "partial_completed" \in {"http_requests"})
        /\ Joins(s, Gated, Gated', "waiting_approval" \in {"http_requests"})
    BY <2>7 DEF Joins
  <2>9. IsFiniteSet(InProcess') /\ OutcomesCounted' /\ RequestsCounted'
    BY <1>1, <1>2, <1>3, <1>4, <2>6, <2>7, <2>8, OutcomesKept
  <2>10. store'[s].calls = store[s].calls
    BY <2>2, <2>3, EvidenceKept DEF SameEvidence
  <2> QED  BY <2>2, <2>3, <2>5, <2>6, <2>9, <2>10 DEF Finalized
<1> QED  BY <1>5, <1>6 DEF PostApproval

\* A failing commit of the triage raises, and writes nothing.
LEMMA CommitFailsKeepsOutcomes ==
  ASSUME GateInv, CountersInv, NEW s \in Sessions, CommitFails(s)
  PROVE  /\ IsFiniteSet(InProcess') /\ OutcomesCounted' /\ RequestsCounted'
         /\ Elsewhere(s) /\ Raises(s) /\ task[s].pc \in {"absent"} \cup Active
<1>1. /\ TypeOK /\ IsFiniteSet(InProcess) /\ OutcomesCounted
      /\ RequestsCounted /\ SessionInv(s)
  BY DEF GateInv, CountersInv
<1>2. TypeOK'
  BY NextKeepsGate DEF Next, GateInv
<1>3. Raises(s)
  BY RaiseEffect
<1>4. Elsewhere(s)
  BY <1>1 DEF CommitFails, Raise, Goto, Elsewhere, TypeOK
<1>5. task[s].pc \in {"absent"} \cup Active
  BY DEF CommitFails, Writes
<1>6. /\ store' = store /\ accepted' = accepted
      /\ metrics' = Incremented({"http_requests_failed"})
      /\ task'[s].pc = "raised"
  BY <1>3 DEF Raises, Moved, CommitFails
<1>7. /\ s \notin AtStep(Asking)'
      /\ s \in InProcess => s \in InProcess'
      /\ s \in DOMAIN store => s \in InProcess /\ s \in InProcess'
  BY <1>1, <1>5, <1>6 DEF AtStep, Asking, InProcess, SessionInv, Active
<1>8. /\ s \in Triaged("completed") <=> s \in Triaged("completed")'
      /\ s \in Triaged("partial_completed") <=>
           s \in Triaged("partial_completed")'
      /\ s \in Gated <=> s \in Gated'
  BY <1>6, <1>7 DEF Triaged, Gated
<1>9. /\ Joins(s, Triaged("completed"), Triaged("completed")',
               "completed" \in {"http_requests_failed"})
      /\ Joins(s, Triaged("partial_completed"), Triaged("partial_completed")',
               "partial_completed" \in {"http_requests_failed"})
      /\ Joins(s, Gated, Gated',
               "waiting_approval" \in {"http_requests_failed"})
  BY <1>8 DEF Joins
<1>10. {"http_requests_failed"} \in SUBSET Counters
  BY DEF Counters
<1>11. IsFiniteSet(InProcess') /\ OutcomesCounted' /\ RequestsCounted'
  BY <1>1, <1>2, <1>4, <1>6, <1>7, <1>9, <1>10, OutcomesKept
<1> QED  BY <1>3, <1>4, <1>5, <1>11

\* A process that has triaged nothing has counted nothing.
LEMMA NoneInProcess ==
  InProcess = {} /\ metrics = [n \in Counters |-> 0] =>
    /\ IsFiniteSet(InProcess) /\ OutcomesCounted /\ RequestsCounted
    /\ LossesCounted
<1> SUFFICES ASSUME InProcess = {}, metrics = [n \in Counters |-> 0]
             PROVE  /\ IsFiniteSet(InProcess) /\ OutcomesCounted
                    /\ RequestsCounted /\ LossesCounted
  OBVIOUS
<1>1. /\ \A status : Triaged(status) = {}
      /\ Gated = {} /\ \A pcs : AtStep(pcs) = {}
  BY DEF Triaged, Gated, AtStep
<1>2. Cardinality({}) = 0 /\ IsFiniteSet({})
  BY FS_EmptySet
<1>3. \A n \in Counters : metrics[n] = 0
  OBVIOUS
<1>4. {"completed", "partial_completed", "waiting_approval",
       "degraded_sessions", "http_requests_failed", "approval_requests",
       "tool_calls_failed", "llm_calls_failed"} \subseteq Counters
  BY DEF Counters
<1>5. OutcomesCounted
  <2>1. /\ Cardinality(Triaged("completed")) = 0
        /\ Cardinality(Triaged("partial_completed")) = 0
        /\ Cardinality(Gated) = 0
        /\ Cardinality(AtStep({"raised"})) = 0
    BY <1>1, <1>2
  <2>2. /\ metrics["completed"] = 0 /\ metrics["partial_completed"] = 0
        /\ metrics["waiting_approval"] = 0
        /\ metrics["degraded_sessions"] = 0
        /\ metrics["http_requests_failed"] = 0
        /\ metrics["approval_requests"] = 0
    BY <1>3, <1>4
  <2> QED  BY <2>1, <2>2 DEF OutcomesCounted
<1>6. RequestsCounted
  BY <1>1, <1>3, <1>4 DEF RequestsCounted
<1>7. LossesCounted
  BY <1>3, <1>4 DEF LossesCounted
<1> QED  BY <1>2, <1>5, <1>6, <1>7

-----------------------------------------------------------------------------
(* The way a triage has come. *)

\* A step of a triage keeps what the locals say of it.
LEMMA OwnKeepsWay ==
  ASSUME GateInv, ProgressInv, CountersInv, NEW s \in Sessions, Own(s),
         Advance(s) \/ Resume(s)
  PROVE  WayOk(s)'
<1>1. /\ task[s].pc \in Live /\ s \in DOMAIN store'
      /\ store[s].status \in Statuses /\ WayOk(s)
  BY DEF Own, CountersInv, Rows
<1> USE DEF Answered, Deciding, Finalizing, Ended
<1>2. CASE RaiseStep(s)
  BY <1>1, <1>2
     DEF WayOk, RaiseStep, Raises, Moved, Live, Active, Suspended
<1>3. CASE TraceStep(s)
  <2>1. PICK hop \in TraceHops :
          /\ task[s].pc = hop[1] /\ Moved(s, hop[2])
          /\ StatusSet(store[s], store'[s], store[s].status)
    BY <1>3 DEF TraceStep
  <2>2. /\ hop[2] \in Live
        /\ hop[1] \in Answered <=> hop[2] \in Answered
        /\ hop[1] \in Finalizing <=> hop[2] \in Finalizing
        /\ hop[1] \notin Ended
    BY DEF TraceHops, Live, Active
  <2>3. store'[s].status = store[s].status
    BY <2>1 DEF StatusSet
  <2> HIDE DEF Answered, Finalizing, Ended
  <2>4. "absent" \notin Live
    BY DEF Live, Active, Suspended
  <2> QED  BY <1>1, <2>1, <2>2, <2>3, <2>4 DEF WayOk, Moved
<1>4. CASE PassStep(s)
  <2>1. PICK hop \in PassHops :
          /\ task[s].pc = hop[1] /\ Moved(s, hop[3])
          /\ CanTransition(store[s].status, hop[2])
    BY <1>4 DEF PassStep
  <2>2. /\ hop[3] \in Live
        /\ hop[1] \notin Answered /\ hop[3] \notin Answered
        /\ hop[1] \in Finalizing <=> hop[3] \in Finalizing
        /\ hop[1] \notin Ended
    BY DEF PassHops, Live, Active
  <2>3. store[s].status # "partial_completed"
    BY <1>1, <2>1, PartialHasNoWayOn
  <2> HIDE DEF Answered, Finalizing, Ended
  <2>4. "absent" \notin Live
    BY DEF Live, Active, Suspended
  <2> QED  BY <1>1, <2>1, <2>2, <2>3, <2>4 DEF WayOk, Moved
<1>5. CASE GiveUpStep(s)
  <2>1. PICK hop \in DegradeHops :
          task[s].pc = hop.from /\ Degrades(s, hop.why, hop.nested)
    BY <1>5 DEF GiveUpStep
  <2>2. /\ hop.from \in {"preflight", "tool", "llm_call", "llm_wait"}
        /\ hop.why = "llm_timeout" => ~hop.nested
    BY DEF DegradeHops, GiveUp
  <2> QED  BY <1>1, <2>1, <2>2 DEF WayOk, Degrades, Live, Active, Suspended
<1>6. CASE ForcedStep(s)
  BY <1>1, <1>6 DEF WayOk, ForcedStep, Degrades, Live, Active
<1>7. CASE AwaitStep(s)
  <2>1. store'[s].status = store[s].status
    BY <1>7 DEF AwaitStep
  <2>2. task'[s].why = task[s].why /\ task'[s].nested = task[s].nested
    BY <1>7 DEF AwaitStep, Moved, Locals
  <2>3. \/ /\ task[s].pc \in {"tool", "tool_wait", "llm_call"}
           /\ task'[s].pc \in {"tool_wait", "tool_record", "llm_wait"}
           /\ task'[s].llm = task[s].llm
        \/ /\ task[s].pc \in {"llm_wait", "decide"}
           /\ task'[s].pc \in {"llm_trace", "request"}
    BY <1>7 DEF AwaitStep, Moved, Locals
  <2> QED  BY <1>1, <2>1, <2>2, <2>3 DEF WayOk, Live, Active, Suspended
<1>8. CASE ToolStep(s)
  <2>1. store'[s].status = store[s].status
    BY <1>8 DEF ToolStep, SameResult
  <2>2. /\ task'[s].why = task[s].why /\ task'[s].nested = task[s].nested
        /\ task'[s].llm = task[s].llm
        /\ task[s].pc \in {"sync_budget", "tool_sync", "tool_record",
                           "tool_observe"}
        /\ task'[s].pc \in {"validate", "tool_observe", "tool_sync",
                            "executing", "tool", "executed"}
    BY <1>8 DEF ToolStep, Moved, Locals
  <2> QED  BY <1>1, <2>1, <2>2 DEF WayOk, Live, Active
<1>9. CASE ReportStep(s)
  <2>1. PICK hop \in ReportHops : task[s].pc = hop[1] /\ Moved(s, hop[2])
    BY <1>9 DEF ReportStep
  <2>2. store'[s].status = store[s].status
    BY <1>9 DEF ReportStep
  <2>3. /\ hop[2] \in Live
        /\ hop[1] \in Answered <=> hop[2] \in Answered
        /\ hop[1] \in Finalizing <=> hop[2] \in Finalizing
        /\ hop[1] \notin Ended
    BY DEF ReportHops, Live, Active
  <2> HIDE DEF Answered, Finalizing, Ended
  <2>4. "absent" \notin Live
    BY DEF Live, Active, Suspended
  <2> QED  BY <1>1, <2>1, <2>2, <2>3, <2>4 DEF WayOk, Moved
<1>10. CASE EndStep(s)
  <2>1. CASE \E names : Returns(s, names)
    BY <1>1, <2>1 DEF WayOk, Returns, Moved, Live, Active, Suspended
  <2>2. CASE /\ task[s].pc = "fp_partial" /\ task[s].nested
             /\ task'[s].pc \in {"executing", "tool", "executed"}
             /\ Locals(s, task[s].used, task'[s].tool, task[s].ok,
                       task[s].llm)
             /\ store'[s].status = "partial_completed"
    BY <1>1, <2>2 DEF WayOk, Locals, Live, Active
  <2> QED  BY <1>10, <2>1, <2>2 DEF EndStep, StatusSet
<1> QED  BY <1>2, <1>3, <1>4, <1>5, <1>6, <1>7, <1>8, <1>9, <1>10, StepEffect

-----------------------------------------------------------------------------
(* Lost calls. *)

\* A counter of losses goes up when the session has lost something, and else
\* the session has lost what it had lost before.
Loses(n, before, after) ==
  \/ metrics'[n] = metrics[n] + 1 /\ after
  \/ metrics'[n] = metrics[n] /\ (after <=> before)

\* A step of one session keeps the losses of the process explained.
LEMMA LossesKept ==
  ASSUME TypeOK, \A t \in Sessions : WayOk(t), LossesCounted,
         NEW s \in Sessions, Elsewhere(s),
         ~Durable => /\ Loses("tool_calls_failed",
                              s \in InProcess /\ LostTool(s),
                              (s \in InProcess /\ LostTool(s))')
                     /\ Loses("llm_calls_failed",
                              s \in InProcess /\ LostLlm(s),
                              (s \in InProcess /\ LostLlm(s))')
  PROVE  LossesCounted'
<1> SUFFICES ASSUME ~Durable
             PROVE  /\ metrics'["tool_calls_failed"] > 0 <=>
                         \E t \in InProcess' : LostTool(t)'
                    /\ metrics'["llm_calls_failed"] > 0 <=>
                         \E t \in InProcess' : LostLlm(t)'
  BY DEF LossesCounted, Durable
<1>1. {"tool_calls_failed", "llm_calls_failed"} \subseteq Counters
  BY DEF Counters
<1>2. /\ metrics["tool_calls_failed"] \in Nat
      /\ metrics["llm_calls_failed"] \in Nat
      /\ InProcess \subseteq Sessions /\ InProcess' \subseteq Sessions
  BY <1>1 DEF TypeOK, InProcess
<1>3. ASSUME NEW t \in Sessions \ {s}
      PROVE  /\ t \in InProcess' <=> t \in InProcess
             /\ t \in InProcess => /\ LostTool(t)' <=> LostTool(t)
                                   /\ LostLlm(t)' <=> LostLlm(t)
  <2>1. t \in InProcess => t \in DOMAIN store
    BY DEF WayOk
  <2>2. task'[t] = task[t] /\ (t \in DOMAIN store => store'[t] = store[t])
    BY DEF Elsewhere
  <2> QED  BY <2>1, <2>2 DEF InProcess, LostTool, LostLlm
<1>4. /\ metrics["tool_calls_failed"] > 0 <=>
           \E t \in InProcess : LostTool(t)
      /\ metrics["llm_calls_failed"] > 0 <=> \E t \in InProcess : LostLlm(t)
  BY DEF LossesCounted
<1>5. metrics'["tool_calls_failed"] > 0 <=> \E t \in InProcess' : LostTool(t)'
  <2>1. Loses("tool_calls_failed", s \in InProcess /\ LostTool(s),
              (s \in InProcess /\ LostTool(s))')
    OBVIOUS
  <2>2. CASE /\ metrics'["tool_calls_failed"] = metrics["tool_calls_failed"] + 1
             /\ s \in InProcess' /\ LostTool(s)'
    <3>1. metrics'["tool_calls_failed"] > 0
      BY <1>2, <2>2
    <3> QED  BY <2>2, <3>1
  <2>3. CASE /\ metrics'["tool_calls_failed"] = metrics["tool_calls_failed"]
             /\ s \in InProcess' /\ LostTool(s)' <=>
                  s \in InProcess /\ LostTool(s)
    <3>1. (\E t \in InProcess' : LostTool(t)') <=>
            \E t \in InProcess : LostTool(t)
      BY <1>2, <1>3, <2>3, Zenon
    <3> QED  BY <1>4, <2>3, <3>1
  <2> QED  BY <2>1, <2>2, <2>3 DEF Loses
<1>6. metrics'["llm_calls_failed"] > 0 <=> \E t \in InProcess' : LostLlm(t)'
  <2>1. Loses("llm_calls_failed", s \in InProcess /\ LostLlm(s),
              (s \in InProcess /\ LostLlm(s))')
    OBVIOUS
  <2>2. CASE /\ metrics'["llm_calls_failed"] = metrics["llm_calls_failed"] + 1
             /\ s \in InProcess' /\ LostLlm(s)'
    <3>1. metrics'["llm_calls_failed"] > 0
      BY <1>2, <2>2
    <3> QED  BY <2>2, <3>1
  <2>3. CASE /\ metrics'["llm_calls_failed"] = metrics["llm_calls_failed"]
             /\ s \in InProcess' /\ LostLlm(s)' <=>
                  s \in InProcess /\ LostLlm(s)
    <3>1. (\E t \in InProcess' : LostLlm(t)') <=>
            \E t \in InProcess : LostLlm(t)
      BY <1>2, <1>3, <2>3, Zenon
    <3> QED  BY <1>4, <2>3, <3>1
  <2> QED  BY <2>1, <2>2, <2>3 DEF Loses
<1> QED  BY <1>5, <1>6

\* A call that is recorded was at hand before, so nothing more is lost.
LEMMA RecordedLoss ==
  ASSUME NEW calls \in Seq(ToolCalls), NEW call \in ToolCalls
  PROVE  (\E i \in DOMAIN Append(calls, call) : ~Append(calls, call)[i].ok)
           <=> ~call.ok \/ \E i \in DOMAIN calls : ~calls[i].ok
<1> DEFINE new == Append(calls, call)
<1>1. /\ DOMAIN new = 1..(Len(calls) + 1) /\ DOMAIN calls = 1..Len(calls)
      /\ Len(calls) \in Nat /\ new[Len(calls) + 1] = call
      /\ \A i \in 1..Len(calls) : new[i] = calls[i]
  OBVIOUS
<1> HIDE DEF new
<1>2. \A i \in DOMAIN new : i \in DOMAIN calls \/ i = Len(calls) + 1
  BY <1>1
<1>3. Len(calls) + 1 \in DOMAIN new /\ DOMAIN calls \subseteq DOMAIN new
  BY <1>1
<1>4. (\E i \in DOMAIN new : ~new[i].ok)
        <=> ~call.ok \/ \E i \in DOMAIN calls : ~calls[i].ok
  BY <1>1, <1>2, <1>3
<1> QED  BY <1>4 DEF new

\* A step that keeps the calls, away from a call at hand, loses no tool.
LEMMA NoToolLost ==
  ASSUME NEW s \in Sessions, store'[s].calls = store[s].calls,
         task[s].pc # "tool_record", task'[s].pc # "tool_record"
  PROVE  LostTool(s)' <=> LostTool(s)
BY DEF LostTool

\* A step of a triage counts what it loses.
LEMMA OwnLosses ==
  ASSUME GateInv, ProgressInv, CountersInv, NEW s \in Sessions, Own(s),
         Advance(s) \/ Resume(s)
  PROVE  /\ Loses("tool_calls_failed", LostTool(s), LostTool(s)')
         /\ Loses("llm_calls_failed", LostLlm(s), LostLlm(s)')
<1>1. /\ TypeOK /\ task[s].pc \in Live /\ WayOk(s)
      /\ store[s].calls \in Seq(ToolCalls)
      /\ task[s].ok \in BOOLEAN /\ task[s].tool \in Tools
  BY DEF Own, CountersInv, GateInv, Rows, Tasks
<1>2. {"tool_calls_failed", "llm_calls_failed"} \subseteq Counters
  BY DEF Counters
<1>3. ASSUME NEW names, metrics' = Incremented(names),
             NEW n \in {"tool_calls_failed", "llm_calls_failed"}
      PROVE  /\ n \in names => metrics'[n] = metrics[n] + 1
             /\ n \notin names => metrics'[n] = metrics[n]
  BY <1>1, <1>2, <1>3, IncrementedCounts
<1>4. task[s].pc \notin Answered \cup Finalizing =>
        task[s].llm = "none" /\ task[s].why # "llm_timeout"
  BY <1>1 DEF WayOk, Ended, Live, Active, Suspended
<1> USE DEF Loses
<1>5. CASE RaiseStep(s)
  <2>1. /\ store' = store /\ Moved(s, "raised")
        /\ metrics' = Incremented({"http_requests_failed"})
        /\ task[s].pc # "tool_record"
    BY <1>5 DEF RaiseStep, RaisePcs, Raises
  <2>2. LostTool(s)' <=> LostTool(s)
    BY <2>1, NoToolLost DEF Moved
  <2>3. LostLlm(s)' <=> LostLlm(s)
    BY <2>1 DEF LostLlm, Moved
  <2> QED  BY <1>3, <2>1, <2>2, <2>3
<1>6. CASE TraceStep(s) \/ PassStep(s)
  <2>1. /\ metrics' = metrics /\ store'[s].calls = store[s].calls
        /\ task'[s].llm = task[s].llm /\ task'[s].why = task[s].why
    BY <1>6 DEF TraceStep, PassStep, Goes, StatusSet, SameEvidence, Moved
  <2>2. task[s].pc # "tool_record" /\ task'[s].pc # "tool_record"
    BY <1>6 DEF TraceStep, PassStep, TraceHops, PassHops, Moved
  <2>3. LostTool(s)' <=> LostTool(s)
    BY <2>1, <2>2, NoToolLost
  <2>4. LostLlm(s)' <=> LostLlm(s)
    BY <2>1 DEF LostLlm
  <2> QED  BY <2>1, <2>3, <2>4
<1>7. CASE GiveUpStep(s)
  <2>1. PICK hop \in DegradeHops :
          /\ task[s].pc = hop.from /\ Degrades(s, hop.why, hop.nested)
          /\ store' = store /\ metrics' = Incremented(hop.names)
    BY <1>7 DEF GiveUpStep
  <2>2. /\ hop.from \in {"preflight", "tool", "llm_call", "llm_wait"}
        /\ hop.why = "llm_timeout" <=> "llm_calls_failed" \in hop.names
        /\ "tool_calls_failed" \notin hop.names
    BY DEF DegradeHops, GiveUp
  <2>3. LostTool(s)' <=> LostTool(s)
    BY <2>1, <2>2, NoToolLost DEF Degrades
  <2>4. task[s].llm = "none" /\ task[s].why # "llm_timeout"
    BY <1>4, <2>1, <2>2 DEF Answered, Deciding, Finalizing
  <2>5. ~LostLlm(s) /\ (LostLlm(s)' <=> "llm_calls_failed" \in hop.names)
    BY <2>1, <2>2, <2>4 DEF LostLlm, Degrades
  <2> QED  BY <1>3, <2>1, <2>2, <2>3, <2>5
<1>8. CASE ForcedStep(s)
  <2>1. /\ metrics' = metrics /\ store'[s].calls = store[s].calls
        /\ task[s].pc = "force_fail" /\ Degrades(s, "forced_failure", FALSE)
    BY <1>8 DEF ForcedStep, Goes, StatusSet, SameEvidence
  <2>2. LostTool(s)' <=> LostTool(s)
    BY <2>1, NoToolLost DEF Degrades
  <2>3. ~LostLlm(s) /\ ~LostLlm(s)'
    BY <1>4, <2>1 DEF LostLlm, Degrades, Answered, Deciding, Finalizing
  <2> QED  BY <2>1, <2>2, <2>3
<1>9. CASE AwaitStep(s)
  <2>1. store' = store /\ task'[s].why = task[s].why
    BY <1>9 DEF AwaitStep, Moved, Locals
  <2>2. CASE /\ task[s].pc = "tool" /\ task'[s].pc = "tool_wait"
             /\ task'[s].llm = task[s].llm /\ metrics' = metrics
    BY <2>1, <2>2, NoToolLost DEF LostLlm
  <2>3. ASSUME /\ task[s].pc = "tool_wait" /\ task'[s].pc = "tool_record"
               /\ task'[s].llm = task[s].llm,
               NEW ok \in BOOLEAN, task'[s].ok = ok,
               metrics' = Incremented({"tool_calls"} \cup
                            IF ok THEN {} ELSE {"tool_calls_failed"})
        PROVE  /\ Loses("tool_calls_failed", LostTool(s), LostTool(s)')
               /\ Loses("llm_calls_failed", LostLlm(s), LostLlm(s)')
    <3>1. /\ "llm_calls_failed" \notin {"tool_calls"} \cup
               IF ok THEN {} ELSE {"tool_calls_failed"}
          /\ "tool_calls_failed" \in ({"tool_calls"} \cup
               IF ok THEN {} ELSE {"tool_calls_failed"}) <=> ~ok
      OBVIOUS
    <3>2. LostTool(s)' <=> ~ok \/ LostTool(s)
      BY <2>1, <2>3 DEF LostTool
    <3>3. LostLlm(s)' <=> LostLlm(s)
      BY <2>1, <2>3 DEF LostLlm
    <3> QED  BY <1>3, <2>3, <3>1, <3>2, <3>3
  <2>4. CASE /\ task[s].pc = "llm_call" /\ Moved(s, "llm_wait")
             /\ metrics' = Incremented({"llm_calls"})
    BY <1>3, <2>1, <2>4, NoToolLost DEF LostLlm, Moved
  <2>5. ASSUME task[s].pc = "llm_wait", task'[s].pc = "llm_trace",
               NEW answer \in Answers, task'[s].llm = answer,
               metrics' = Incremented(Counted(answer))
        PROVE  /\ Loses("tool_calls_failed", LostTool(s), LostTool(s)')
               /\ Loses("llm_calls_failed", LostLlm(s), LostLlm(s)')
    <3>1. /\ "tool_calls_failed" \notin Counted(answer)
          /\ "llm_calls_failed" \in Counted(answer) <=> answer = "fallback"
      BY DEF Counted
    <3>2. LostTool(s)' <=> LostTool(s)
      BY <2>1, <2>5, NoToolLost
    <3>3. task[s].llm = "none" /\ task[s].why # "llm_timeout"
      BY <1>4, <2>5 DEF Answered, Deciding, Finalizing
    <3>4. ~LostLlm(s) /\ (LostLlm(s)' <=> answer = "fallback")
      BY <2>1, <2>5, <3>3 DEF LostLlm
    <3> QED  BY <1>3, <2>5, <3>1, <3>2, <3>4
  <2>6. CASE /\ task[s].pc = "decide" /\ Moved(s, "request")
             /\ metrics' = Incremented({"policy_blocks", "approval_requests"})
    BY <1>3, <2>1, <2>6, NoToolLost DEF LostLlm, Moved
  <2> QED  BY <1>9, <2>2, <2>3, <2>4, <2>5, <2>6 DEF AwaitStep, Locals
<1>10. CASE ToolStep(s)
  <2>1. /\ metrics' = metrics /\ task'[s].why = task[s].why
        /\ task'[s].llm = task[s].llm
    BY <1>10 DEF ToolStep, Goes, Moved, Locals
  <2>2. LostLlm(s)' <=> LostLlm(s)
    BY <2>1 DEF LostLlm
  <2>3. CASE /\ task[s].pc = "tool_record" /\ Moved(s, "tool_sync")
             /\ store'[s].calls = Append(store[s].calls,
                  [tool |-> task[s].tool, ok |-> task[s].ok])
    <3> DEFINE call == [tool |-> task[s].tool, ok |-> task[s].ok]
    <3>1. /\ call \in ToolCalls /\ (call.ok <=> task[s].ok)
          /\ store'[s].calls = Append(store[s].calls, call)
      BY <1>1, <2>3 DEF ToolCalls
    <3> HIDE DEF call
    <3>2. (\E i \in DOMAIN store'[s].calls : ~store'[s].calls[i].ok) <=>
            ~task[s].ok \/ \E i \in DOMAIN store[s].calls :
                             ~store[s].calls[i].ok
      BY <1>1, <3>1, RecordedLoss
    <3>3. LostTool(s)' <=> LostTool(s)
      BY <2>3, <3>2 DEF LostTool, Moved
    <3> QED  BY <2>1, <2>2, <3>3
  <2>4. CASE /\ task[s].pc # "tool_record"
             /\ task'[s].pc # "tool_record"
             /\ store'[s].calls = store[s].calls
    BY <2>1, <2>2, <2>4, NoToolLost
  <2> QED  BY <1>10, <2>3, <2>4 DEF ToolStep, Moved
<1>11. CASE ReportStep(s)
  <2>1. PICK hop \in ReportHops :
          /\ task[s].pc = hop[1] /\ Moved(s, hop[2])
          /\ metrics' = Incremented(hop[3])
    BY <1>11 DEF ReportStep
  <2>2. /\ hop[1] # "tool_record" /\ hop[2] # "tool_record"
        /\ "tool_calls_failed" \notin hop[3]
        /\ "llm_calls_failed" \notin hop[3]
    BY DEF ReportHops
  <2>3. LostTool(s)' <=> LostTool(s)
    BY <1>11, <2>1, <2>2, NoToolLost DEF ReportStep, Moved
  <2>4. LostLlm(s)' <=> LostLlm(s)
    BY <2>1 DEF LostLlm, Moved
  <2> QED  BY <1>3, <2>1, <2>2, <2>3, <2>4
<1>12. CASE EndStep(s)
  <2>1. PICK status, names :
          /\ status \in Settled
          /\ StatusSet(store[s], store'[s], status)
          /\ names \in {{"completed"}, {"waiting_approval"}, PartialCounters}
          /\ \/ Returns(s, names)
             \/ /\ task'[s].pc \in {"executing", "tool", "executed"}
                /\ Locals(s, task[s].used, task'[s].tool, task[s].ok,
                          task[s].llm)
                /\ metrics' = Incremented(names)
    BY <1>12 DEF EndStep
  <2>2. /\ task[s].pc # "tool_record" /\ task'[s].pc # "tool_record"
        /\ task'[s].llm = task[s].llm /\ task'[s].why = task[s].why
    BY <1>12, <2>1 DEF EndStep, Returns, Moved, Locals
  <2>3. LostTool(s)' <=> LostTool(s)
    BY <2>1, <2>2, NoToolLost DEF StatusSet, SameEvidence
  <2>4. LostLlm(s)' <=> LostLlm(s)
    BY <2>2 DEF LostLlm
  <2>5. /\ {"tool_calls_failed", "llm_calls_failed"} \cap names = {}
        /\ {"tool_calls_failed", "llm_calls_failed"} \cap
             (names \cup {"http_requests"}) = {}
    BY <2>1 DEF PartialCounters
  <2>6. \/ metrics' = Incremented(names)
        \/ metrics' = Incremented(names \cup {"http_requests"})
    BY <2>1 DEF Returns
  <2> QED  BY <1>3, <2>3, <2>4, <2>5, <2>6
<1> QED  BY <1>5, <1>6, <1>7, <1>8, <1>9, <1>10, <1>11, <1>12, StepEffect

-----------------------------------------------------------------------------
(* The counters agree with the sessions. *)

\* The other sessions have come the way they had.
LEMMA OthersKeepWay ==
  ASSUME GateInv, \A t \in Sessions : WayOk(t), NEW s \in Sessions,
         Elsewhere(s), NEW t \in Sessions \ {s}
  PROVE  WayOk(t)'
<1>1. WayOk(t) /\ (task[t].pc \in Live => t \in DOMAIN store)
  BY DEF GateInv, SessionInv
<1>2. /\ task'[t] = task[t]
      /\ t \in DOMAIN store' <=> t \in DOMAIN store
      /\ t \in DOMAIN store => store'[t] = store[t]
  BY DEF Elsewhere
<1> QED  BY <1>1, <1>2 DEF WayOk, InProcess, Durable

\* Every step keeps the counters' invariant: one case per actor.
LEMMA NextKeepsCounters ==
  ASSUME GateInv, ProgressInv, CountersInv, [Next]_vars
  PROVE  CountersInv'
<1>1. /\ TypeOK /\ \A t \in Sessions : WayOk(t)
      /\ LossesCounted /\ IsFiniteSet(InProcess)
      /\ OutcomesCounted /\ RequestsCounted
  BY DEF GateInv, CountersInv
<1>2. TypeOK'
  BY NextKeepsGate DEF GateInv
<1>3. ASSUME NEW s \in Sessions, Advance(s) \/ Resume(s)
      PROVE  CountersInv'
  <2>1. Own(s)
    BY <1>3, OwnStep
  <2>2. Elsewhere(s) /\ task[s].pc \in Live /\ s \in InProcess
    BY <2>1, OwnElsewhere DEF Own, InProcess, Live, Active, Suspended
  <2>3. IsFiniteSet(InProcess') /\ OutcomesCounted' /\ RequestsCounted'
    BY <1>3, <2>1, OwnKeepsOutcomes
  <2>4. \A t \in Sessions : WayOk(t)'
    BY <1>1, <1>3, <2>1, <2>2, OwnKeepsWay, OthersKeepWay
  <2>5. s \in InProcess'
    BY <1>3, <2>1, StaysInProcess
  <2>6. /\ Loses("tool_calls_failed", LostTool(s), LostTool(s)')
        /\ Loses("llm_calls_failed", LostLlm(s), LostLlm(s)')
    BY <1>3, <2>1, OwnLosses
  <2>7. /\ Loses("tool_calls_failed", s \in InProcess /\ LostTool(s),
                 (s \in InProcess /\ LostTool(s))')
        /\ Loses("llm_calls_failed", s \in InProcess /\ LostLlm(s),
                 (s \in InProcess /\ LostLlm(s))')
    BY <2>2, <2>5, <2>6 DEF Loses
  <2>8. LossesCounted'
    BY <1>1, <2>2, <2>7, LossesKept
  <2> QED  BY <2>3, <2>4, <2>8 DEF CountersInv
<1>4. ASSUME NEW s \in Sessions, PostIncident(s)
      PROVE  CountersInv'
  <2>1. /\ IsFiniteSet(InProcess') /\ OutcomesCounted' /\ RequestsCounted'
        /\ Elsewhere(s) /\ s \in DOMAIN store'
        /\ task'[s] = [task[s] EXCEPT !.pc = "sync_budget"]
        /\ store'[s].calls = << >>
    BY <1>4, CreateKeepsOutcomes
  <2>2. task[s] \in Tasks /\ task[s].pc = "absent" /\ metrics' = metrics
    BY <1>1, <1>4 DEF TypeOK, PostIncident
  <2>3. task[s].llm = "none" /\ task[s].why = "none"
    BY <1>1, <2>2 DEF WayOk
  <2>4. /\ task'[s].pc = "sync_budget"
        /\ task'[s].llm = "none" /\ task'[s].why = "none"
    BY <2>1, <2>2, <2>3 DEF Tasks
  <2>5. WayOk(s)'
    BY <2>1, <2>4 DEF WayOk
  <2>6. s \notin InProcess /\ ~LostTool(s)' /\ ~LostLlm(s)'
    BY <2>1, <2>2, <2>4 DEF InProcess, LostTool, LostLlm
  <2>7. /\ Loses("tool_calls_failed", s \in InProcess /\ LostTool(s),
                 (s \in InProcess /\ LostTool(s))')
        /\ Loses("llm_calls_failed", s \in InProcess /\ LostLlm(s),
                 (s \in InProcess /\ LostLlm(s))')
    BY <2>2, <2>6 DEF Loses
  <2>8. LossesCounted'
    BY <1>1, <2>1, <2>7, LossesKept
  <2> QED  BY <1>1, <2>1, <2>5, <2>8, OthersKeepWay DEF CountersInv
<1>5. ASSUME NEW s \in Sessions, PostApproval(s)
      PROVE  CountersInv'
  <2>1. /\ IsFiniteSet(InProcess') /\ OutcomesCounted' /\ RequestsCounted'
        /\ Elsewhere(s) /\ DOMAIN store' = DOMAIN store
        /\ s \in DOMAIN store => store'[s].calls = store[s].calls
    BY <1>5, DecisionKeepsOutcomes
  <2>2. /\ task' = task /\ metrics' = Incremented({"http_requests"})
        /\ WayOk(s)
    BY <1>1, <1>5 DEF PostApproval
  <2>3. task[s].pc \in Live => store' = store
    BY <1>5 DEF PostApproval, Approvable, GateInv, SessionInv, RunOk
  <2>4. WayOk(s)'
    BY <2>1, <2>2, <2>3 DEF WayOk, InProcess, Durable
  <2>5. s \in InProcess' <=> s \in InProcess
    BY <2>2 DEF InProcess
  <2>6. ~Durable /\ s \in InProcess =>
          /\ LostTool(s)' <=> LostTool(s)
          /\ LostLlm(s)' <=> LostLlm(s)
    BY <2>1, <2>2 DEF LostTool, LostLlm, WayOk
  <2>7. /\ metrics'["tool_calls_failed"] = metrics["tool_calls_failed"]
        /\ metrics'["llm_calls_failed"] = metrics["llm_calls_failed"]
    BY <1>1, <2>2, IncrementedCounts DEF Counters
  <2>8. ~Durable =>
          /\ Loses("tool_calls_failed", s \in InProcess /\ LostTool(s),
                   (s \in InProcess /\ LostTool(s))')
          /\ Loses("llm_calls_failed", s \in InProcess /\ LostLlm(s),
                   (s \in InProcess /\ LostLlm(s))')
    BY <2>5, <2>6, <2>7 DEF Loses
  <2>9. LossesCounted'
    BY <1>1, <2>1, <2>8, LossesKept
  <2> QED  BY <1>1, <2>1, <2>4, <2>9, OthersKeepWay DEF CountersInv
<1>6. ASSUME NEW s \in Sessions, CommitFails(s)
      PROVE  CountersInv'
  <2>1. /\ IsFiniteSet(InProcess') /\ OutcomesCounted' /\ RequestsCounted'
        /\ Elsewhere(s) /\ Raises(s) /\ Durable
    BY <1>6, CommitFailsKeepsOutcomes DEF CommitFails
  <2>2. WayOk(s) /\ task[s] \in Tasks
    BY <1>1 DEF TypeOK
  <2>3. /\ task'[s].pc = "raised" /\ task'[s].why = task[s].why
        /\ task'[s].nested = task[s].nested
    BY <2>1 DEF Raises, Moved
  <2>4. WayOk(s)'
    BY <2>1, <2>2, <2>3
       DEF WayOk, Ended, Live, Active, Suspended, Durable
  <2>5. LossesCounted'
    BY <2>1 DEF LossesCounted, Durable
  <2> QED  BY <1>1, <2>1, <2>4, <2>5, OthersKeepWay DEF CountersInv
<1>7. CASE Restart
  <2>1. metrics' = [n \in Counters |-> 0]
    BY <1>7 DEF Restart
  <2>2. ASSUME NEW s \in Sessions
        PROVE  /\ task'[s].pc = "absent" => task'[s] = task[s]
               /\ task'[s].pc \in {"absent", "gone"}
               /\ task'[s].why = task[s].why
               /\ task'[s].nested = task[s].nested
    <3>1. task[s] \in Tasks
      BY <1>1 DEF TypeOK
    <3>2. task'[s] = IF task[s].pc = "absent" THEN task[s]
                     ELSE [task[s] EXCEPT !.pc = "gone"]
      BY <1>7 DEF Restart
    <3> QED  BY <3>1, <3>2 DEF Tasks
  <2>3. InProcess' = {}
    BY <2>2 DEF InProcess
  <2>4. /\ IsFiniteSet(InProcess') /\ OutcomesCounted' /\ RequestsCounted'
        /\ LossesCounted'
    <3>1. (InProcess = {} /\ metrics = [n \in Counters |-> 0] =>
             /\ IsFiniteSet(InProcess) /\ OutcomesCounted
             /\ RequestsCounted /\ LossesCounted)'
      BY NoneInProcess, PTL
    <3> QED  BY <2>1, <2>3, <3>1
  <2>5. ASSUME NEW s \in Sessions PROVE WayOk(s)'
    BY <1>1, <2>2, <2>3
       DEF WayOk, Ended, Live, Active, Suspended
  <2> QED  BY <2>4, <2>5 DEF CountersInv
<1>8. ASSUME UNCHANGED <<store, task, accepted>>,
             NEW names, metrics' = Incremented(names),
             names \subseteq {"http_requests_failed"}
      PROVE  CountersInv'
  <2>1. /\ InProcess' = InProcess /\ Gated' = Gated
        /\ \A status : Triaged(status)' = Triaged(status)
        /\ \A pcs : AtStep(pcs)' = AtStep(pcs)
        /\ \A t \in Sessions : /\ WayOk(t)' <=> WayOk(t)
                               /\ LostTool(t)' <=> LostTool(t)
                               /\ LostLlm(t)' <=> LostLlm(t)
    BY <1>8 DEF InProcess, Gated, Triaged, AtStep, WayOk, LostTool, LostLlm,
                Durable
  <2>2. /\ \A n \in Counters \ {"http_requests_failed"} :
             metrics'[n] = metrics[n]
        /\ metrics["http_requests_failed"] \in Nat
        /\ metrics'["http_requests_failed"] >= metrics["http_requests_failed"]
    <3> DEFINE c == "http_requests_failed"
    <3>1. c \in Counters
      BY DEF Counters
    <3> HIDE DEF c
    <3>2. ASSUME NEW n \in Counters
          PROVE  /\ metrics[n] \in Nat
                 /\ n # c => metrics'[n] = metrics[n]
                 /\ metrics'[n] = metrics[n] \/ metrics'[n] = metrics[n] + 1
      <4>1. n # c => n \notin names
        BY <1>8 DEF c
      <4> QED  BY <1>1, <1>8, <4>1, IncrementedCounts
    <3>3. metrics[c] \in Nat /\ metrics'[c] >= metrics[c]
      BY <3>1, <3>2
    <3> QED  BY <3>2, <3>3 DEF c
  <2>3. {"completed", "partial_completed", "waiting_approval",
         "degraded_sessions", "approval_requests", "tool_calls_failed",
         "llm_calls_failed"} \subseteq Counters \ {"http_requests_failed"}
    BY DEF Counters
  <2>4. Cardinality(AtStep({"raised"})) \in Nat
    BY <1>1, SetsFinite, FS_CardinalityType
  <2>5. OutcomesCounted'
    <3>1. metrics'["http_requests_failed"] >= Cardinality(AtStep({"raised"}))
      <4> DEFINE old == metrics["http_requests_failed"]
                 new == metrics'["http_requests_failed"]
                 raised == Cardinality(AtStep({"raised"}))
      <4>1. old >= raised
        BY <1>1 DEF OutcomesCounted
      <4>2. old \in Nat /\ new >= old /\ raised \in Nat /\ new \in Nat
        BY <1>2, <2>2, <2>4 DEF TypeOK, Counters
      <4> HIDE DEF old, new, raised
      <4>3. new >= raised
        BY <4>1, <4>2
      <4> QED  BY <4>3 DEF new, raised
    <3>2. /\ metrics'["completed"] = metrics["completed"]
          /\ metrics'["partial_completed"] = metrics["partial_completed"]
          /\ metrics'["waiting_approval"] = metrics["waiting_approval"]
          /\ metrics'["degraded_sessions"] = metrics["degraded_sessions"]
          /\ metrics'["approval_requests"] = metrics["approval_requests"]
      BY <2>2, <2>3
    <3>3. /\ Triaged("completed")' = Triaged("completed")
          /\ Triaged("partial_completed")' = Triaged("partial_completed")
          /\ AtStep({"raised"})' = AtStep({"raised"})
      BY <2>1
    <3> QED  BY <1>1, <2>1, <3>1, <3>2, <3>3 DEF OutcomesCounted
  <2>6. RequestsCounted'
    BY <1>1, <2>1, <2>2, <2>3 DEF RequestsCounted
  <2>7. LossesCounted'
    BY <1>1, <2>1, <2>2, <2>3 DEF LossesCounted, InProcess, Durable
  <2> QED  BY <1>1, <2>1, <2>5, <2>6, <2>7 DEF CountersInv
<1>9. CASE \E s \in Sessions : ApprovalCommitFails(s)
  BY <1>8, <1>9 DEF ApprovalCommitFails
<1>10. CASE UNCHANGED vars \/ \E s \in Sessions : Expire(s)
  BY <1>1, <1>8, <1>10, NothingCounted DEF vars, Expire
<1> QED  BY <1>3, <1>4, <1>5, <1>6, <1>7, <1>9, <1>10 DEF Next

\* The invariant holds in every reachable state.
THEOREM CountersHold == Spec => []CountersInv
<1>1. Init => CountersInv
  <2> SUFFICES ASSUME Init PROVE CountersInv
    OBVIOUS
  <2>1. \A s \in Sessions : task[s] = NoTask /\ NoTask.pc = "absent"
    BY DEF Init, NoTask
  <2>2. InProcess = {} /\ metrics = [n \in Counters |-> 0]
    BY <2>1 DEF InProcess, Init
  <2>3. \A s \in Sessions : WayOk(s)
    BY <2>1, <2>2 DEF WayOk, NoTask, Live, Active, Suspended
  <2> QED  BY <2>2, <2>3, NoneInProcess DEF CountersInv
<1>2. GateInv /\ ProgressInv /\ CountersInv /\ [Next]_vars => CountersInv'
  BY NextKeepsCounters
<1> QED  BY <1>1, <1>2, GateHolds, ProgressHolds, PTL DEF Spec

\* Each outcome counter is the number of the process' sessions the triage
\* brought to that outcome.
THEOREM OutcomesAreCounted == Spec => []OutcomesCounted
<1>1. CountersInv => OutcomesCounted
  BY DEF CountersInv
<1> QED  BY <1>1, CountersHold, PTL

\* GET /ready answers "degraded" exactly while the process knows a session
\* that lost a call or was finalized as partial.
THEOREM ReadinessIsExplained == Spec => []ReadinessExplained
<1>1. CountersInv => ReadinessExplained
  <2> SUFFICES ASSUME CountersInv, ~Durable
               PROVE  ReadyDegraded <=>
                        \E s \in InProcess :
                          LostTool(s) \/ LostLlm(s) \/ Finalized(s)
    BY DEF ReadinessExplained
  <2> DEFINE partial == Triaged("partial_completed")
  <2>1. /\ IsFiniteSet(partial)
        /\ metrics["degraded_sessions"] = Cardinality(partial)
    BY SetsFinite DEF CountersInv, OutcomesCounted
  <2>2. partial # {} <=> \E s \in InProcess : Finalized(s)
    <3>1. \A s \in InProcess : s \in DOMAIN store
      BY DEF CountersInv, WayOk, InProcess
    <3> QED  BY <3>1 DEF Triaged, Finalized
  <2> HIDE DEF partial
  <2>3. metrics["degraded_sessions"] > 0 <=> partial # {}
    <3>1. /\ Cardinality(partial) \in Nat
          /\ Cardinality(partial) = 0 <=> partial = {}
      BY <2>1, FS_CardinalityType, FS_EmptySet
    <3> QED  BY <2>1, <3>1
  <2>4. /\ metrics["tool_calls_failed"] > 0 <=>
             \E s \in InProcess : LostTool(s)
        /\ metrics["llm_calls_failed"] > 0 <=> \E s \in InProcess : LostLlm(s)
    BY DEF CountersInv, LossesCounted
  <2> QED  BY <2>2, <2>3, <2>4 DEF ReadyDegraded
<1> QED  BY <1>1, CountersHold, PTL

-----------------------------------------------------------------------------
(* What a step adds to its session's trace. *)

\* The entry, if any.
Made(s) ==
  IF store'[s].trace = store[s].trace THEN "none" ELSE EntryOf(task[s].pc)

\* The steps that may make none although they do not raise.
Silent == {"preflight", "tool", "tool_wait", "llm_call", "llm_wait", "decide",
           "fp_normalize", "sync_budget", "tool_sync", "fp_state"}

\* The entry is the last of the trace and the only new one.
LEMMA OwnMakes ==
  ASSUME NEW s \in Sessions, Own(s), EntryStep(s)
  PROVE  /\ store[s].trace \in Seq(TraceSteps)
         /\ store'[s].trace \in Seq(TraceSteps)
         /\ store' = store => Made(s) = "none"
         /\ Made(s) = "none" => /\ store'[s].trace = store[s].trace
                                /\ \/ task'[s].pc = "raised"
                                   \/ task[s].pc \in Silent
         /\ Made(s) # "none" =>
              /\ Made(s) = EntryOf(task[s].pc)
              /\ \E entry : /\ entry.step = Made(s)
                            /\ store'[s].trace = Append(store[s].trace, entry)
<1>1. /\ store[s].trace \in Seq(TraceSteps)
      /\ store'[s].trace \in Seq(TraceSteps)
  BY DEF Own, Rows
<1>2. EntryOf(task[s].pc) # "none"
  BY DEF EntryOf
<1>3. \A entry : Append(store[s].trace, entry) # store[s].trace
  BY <1>1
<1>4. CASE /\ store' = store
           /\ \/ task'[s].pc = "raised"
              \/ task[s].pc \in Silent
  BY <1>1, <1>4 DEF Made
<1>5. CASE /\ task[s].pc \in {"sync_budget", "tool_sync", "fp_state"}
           /\ store'[s].trace = store[s].trace
  BY <1>1, <1>5 DEF Made, Silent
<1>6. CASE store'[s].trace =
             Append(store[s].trace, [step |-> EntryOf(task[s].pc),
                                     status |-> store'[s].status])
  <2> DEFINE entry == [step |-> EntryOf(task[s].pc),
                       status |-> store'[s].status]
  <2>1. entry.step = EntryOf(task[s].pc)
        /\ store'[s].trace = Append(store[s].trace, entry)
    BY <1>6
  <2> HIDE DEF entry
  <2>2. Made(s) = EntryOf(task[s].pc)
    BY <1>3, <2>1 DEF Made
  <2> QED  BY <1>1, <1>2, <2>1, <2>2
<1> QED  BY <1>4, <1>5, <1>6 DEF EntryStep, Silent

\* What the LLM's accounting reads off the trace.
Checked(s) == Last(store[s].trace).step = "sanitization_check"

\* A step that writes a trace entry decides on its last one.
LEMMA OwnChecks ==
  ASSUME NEW s \in Sessions, Own(s), EntryStep(s)
  PROVE  Checked(s)' <=> \/ Made(s) = "sanitization_check"
                         \/ Made(s) = "none" /\ Checked(s)
<1>1. CASE Made(s) = "none"
  BY <1>1, OwnMakes DEF Checked, Last
<1>2. CASE Made(s) # "none"
  <2>1. PICK entry : /\ entry.step = Made(s)
                     /\ store'[s].trace = Append(store[s].trace, entry)
    BY <1>2, OwnMakes
  <2>2. store[s].trace \in Seq(TraceSteps)
    BY DEF Own, Rows
  <2>3. Append(store[s].trace, entry)[Len(store[s].trace) + 1] = entry
        /\ Len(Append(store[s].trace, entry)) = Len(store[s].trace) + 1
    BY <2>2
  <2>4. Last(store'[s].trace) = entry
    BY <2>1, <2>3 DEF Last
  <2> QED  BY <1>2, <2>1, <2>4 DEF Checked
<1> QED  BY <1>1, <1>2

\* A step of a triage keeps what its trace, its locals and its status say of
\* each other.
LEMMA OwnKeepsTally ==
  ASSUME GateInv, ProgressInv, CountersInv, NEW s \in Sessions, Own(s),
         Advance(s) \/ Resume(s), TallyOk(s)
  PROVE  TallyOk(s)'
<1>1. /\ task[s].pc \in Live /\ EntryStep(s)
      /\ store[s].status # "waiting_approval"
      /\ Checked(s)' <=> \/ Made(s) = "sanitization_check"
                         \/ Made(s) = "none" /\ Checked(s)
      /\ store' = store => Made(s) = "none"
      /\ Made(s) # "none" => Made(s) = EntryOf(task[s].pc)
      /\ Made(s) = "none" => \/ task'[s].pc = "raised"
                             \/ task[s].pc \in Silent
  BY OwnEntry, OwnChecks, OwnMakes, RunningFacts DEF Own
<1>2. EntryOf(task[s].pc) = "sanitization_check" <=> task[s].pc = "sanitize"
  BY DEF EntryOf
<1>3. /\ task[s].pc \in {"llm_call", "llm_wait"} => Checked(s)
      /\ Checked(s) => task[s].pc \in {"llm_call", "llm_wait", "llm_trace"}
                                        \cup Finalizing
      /\ task[s].pc \in Finalizing => task[s].why # "none"
  BY <1>1 DEF TallyOk, Checked
<1>4. SUFFICES
        /\ task'[s].pc \in {"llm_call", "llm_wait"} => Checked(s)'
        /\ task'[s].pc \in Live /\ Checked(s)' =>
             task'[s].pc \in {"llm_call", "llm_wait", "llm_trace"}
                               \cup Finalizing
        /\ task'[s].pc \in Finalizing => task'[s].why # "none"
        /\ store'[s].status = "waiting_approval" => task'[s].pc = "returned"
  BY DEF TallyOk, Checked
<1> USE DEF Finalizing
<1>5. CASE RaiseStep(s)
  BY <1>1, <1>5 DEF RaiseStep, Raises, Moved, Live, Active, Suspended
<1>6. CASE TraceStep(s)
  <2>1. PICK hop \in TraceHops :
          /\ task[s].pc = hop[1] /\ Moved(s, hop[2])
          /\ store'[s].status = store[s].status
    BY <1>6 DEF TraceStep, StatusSet
  <2>2. /\ hop[1] = "sanitize" <=> hop[2] = "llm_call"
        /\ hop[2] # "llm_wait" /\ hop[2] # "raised"
        /\ hop[1] \in Finalizing <=> hop[2] \in Finalizing
        /\ hop[1] \in Silent => hop[1] = "fp_normalize"
    BY DEF TraceHops, Silent
  <2>3. /\ Made(s) = "sanitization_check" <=> hop[1] = "sanitize"
        /\ Made(s) = "none" => hop[1] = "fp_normalize"
    BY <1>1, <1>2, <2>1, <2>2 DEF Moved, Silent
  <2> QED  BY <1>1, <1>3, <2>1, <2>2, <2>3 DEF Moved
<1>7. CASE PassStep(s)
  <2>1. PICK hop \in PassHops :
          /\ task[s].pc = hop[1] /\ Moved(s, hop[3])
          /\ store'[s].status = hop[2]
    BY <1>7 DEF PassStep, StatusSet
  <2>2. /\ hop[3] \notin {"llm_call", "llm_wait"} /\ hop[1] # "sanitize"
        /\ hop[1] \in Finalizing <=> hop[3] \in Finalizing
        /\ hop[1] \notin {"llm_call", "llm_wait", "llm_trace"}
        /\ hop[2] # "waiting_approval"
    BY DEF PassHops
  <2> QED  BY <1>1, <1>2, <1>3, <2>1, <2>2 DEF Moved
<1>8. CASE GiveUpStep(s)
  <2>1. PICK hop \in DegradeHops : Degrades(s, hop.why, hop.nested)
    BY <1>8 DEF GiveUpStep
  <2>2. hop.why # "none"
    BY DEF DegradeHops, GiveUp
  <2> QED  BY <1>1, <1>8, <2>1, <2>2 DEF GiveUpStep, Degrades
<1>9. CASE ForcedStep(s)
  BY <1>9 DEF ForcedStep, Degrades, StatusSet
<1>10. CASE AwaitStep(s)
  BY <1>1, <1>3, <1>10 DEF AwaitStep, Moved
<1>11. CASE ToolStep(s)
  BY <1>1, <1>2, <1>3, <1>11 DEF ToolStep, SameResult, Moved
<1>12. CASE ReportStep(s)
  <2>1. PICK hop \in ReportHops : task[s].pc = hop[1] /\ Moved(s, hop[2])
    BY <1>12 DEF ReportStep
  <2>2. /\ hop[2] \notin {"llm_call", "llm_wait"} /\ hop[1] # "sanitize"
        /\ hop[1] \in Finalizing <=> hop[2] \in Finalizing
        /\ hop[1] \notin {"llm_call", "llm_wait", "llm_trace"}
    BY DEF ReportHops
  <2> QED  BY <1>1, <1>2, <1>3, <1>12, <2>1, <2>2 DEF ReportStep, Moved
<1>13. CASE EndStep(s)
  <2>1. task[s].pc \in {"decide", "await_approval", "fp_partial"}
    BY <1>13 DEF EndStep
  <2>2. \/ task'[s].pc = "returned"
        \/ /\ task[s].pc = "fp_partial"
           /\ task'[s].pc \in {"executing", "tool", "executed"}
           /\ store'[s].status = "partial_completed"
    BY <1>13 DEF EndStep, Returns, Moved, StatusSet
  <2>3. task[s].pc \notin Silent => Made(s) # "none" \/ task'[s].pc = "raised"
    BY <1>1
  <2>4. CASE task'[s].pc = "returned"
    BY <2>4 DEF Live, Active, Suspended
  <2>5. CASE /\ task[s].pc = "fp_partial"
             /\ task'[s].pc \in {"executing", "tool", "executed"}
             /\ store'[s].status = "partial_completed"
    BY <1>1, <1>2, <2>3, <2>5 DEF Silent
  <2> QED  BY <2>2, <2>4, <2>5
<1> QED  BY <1>5, <1>6, <1>7, <1>8, <1>9, <1>10, <1>11, <1>12, <1>13,
            StepEffect

\* Every step keeps it.
LEMMA NextKeepsTally ==
  ASSUME GateInv, ProgressInv, CountersInv, TallyInv, [Next]_vars
  PROVE  TallyInv'
<1>1. TypeOK
  BY DEF GateInv
<1>2. CASE UNCHANGED <<store, task>>
  BY <1>2 DEF TallyInv, TallyOk
<1>3. ASSUME NEW s \in Sessions, Advance(s) \/ Resume(s)
      PROVE  TallyInv'
  <2>1. Own(s) /\ s \in DOMAIN store
    BY <1>3, OwnStep DEF Own
  <2>2. TallyOk(s)'
    BY <1>3, <2>1, OwnKeepsTally DEF TallyInv
  <2>3. ASSUME NEW t \in DOMAIN store', t # s
        PROVE  TallyOk(t)'
    <3>1. /\ t \in DOMAIN store /\ store'[t] = store[t]
          /\ task'[t] = task[t]
      BY <1>1, <2>1, <2>3 DEF Own, TypeOK
    <3> QED  BY <3>1 DEF TallyInv, TallyOk
  <2> QED  BY <2>2, <2>3 DEF TallyInv
<1>4. ASSUME NEW s \in Sessions, PostIncident(s)
      PROVE  TallyInv'
  <2>1. PICK kind \in IncidentKinds :
          store' = [t \in DOMAIN store \cup {s} |->
                      IF t = s THEN CreateSession(kind) ELSE store[t]]
    BY <1>4 DEF PostIncident
  <2>2. /\ store'[s].trace = <<[step |-> "session_created",
                               status |-> "new"]>>
        /\ store'[s].status = "new"
    BY <2>1, CreateSessionEnters, CreateSessionNew, OrchestratorAssumption
  <2>3. task'[s].pc = "sync_budget"
    BY <1>1, <1>4 DEF TypeOK, Tasks, PostIncident, Goto
  <2>4. TallyOk(s)'
    BY <2>2, <2>3 DEF TallyOk, Last, Finalizing
  <2>5. ASSUME NEW t \in DOMAIN store', t # s
        PROVE  TallyOk(t)'
    <3>1. /\ t \in DOMAIN store /\ store'[t] = store[t]
          /\ task'[t] = task[t]
      BY <1>1, <1>4, <2>1, <2>5 DEF TypeOK, PostIncident, Goto
    <3> QED  BY <3>1 DEF TallyInv, TallyOk
  <2> QED  BY <2>4, <2>5 DEF TallyInv
<1>5. ASSUME NEW s \in Sessions, PostApproval(s)
      PROVE  TallyInv'
  <2>1. task' = task
    BY <1>5 DEF PostApproval
  <2>2. CASE store' = store
    BY <2>1, <2>2 DEF TallyInv, TallyOk
  <2>3. CASE \E id \in Sessions, decision \in Decisions :
               /\ Approvable(s, id)
               /\ Write(s, ApplyApproval(store[s], decision))
    <3>1. PICK id \in Sessions, decision \in Decisions :
            /\ Approvable(s, id)
            /\ Write(s, ApplyApproval(store[s], decision))
      BY <2>3
    <3>2. /\ s \in DOMAIN store /\ store[s].status = "waiting_approval"
          /\ DOMAIN store' = DOMAIN store
          /\ \A t \in DOMAIN store : t # s => store'[t] = store[t]
      BY <3>1 DEF Approvable, Write
    <3>3. task[s].pc \in {"returned", "gone"}
      BY <3>2 DEF TallyInv, TallyOk
    <3>4. TallyOk(s)'
      BY <2>1, <3>3 DEF TallyOk, Live, Active, Suspended, Finalizing
    <3>5. ASSUME NEW t \in DOMAIN store', t # s
          PROVE  TallyOk(t)'
      BY <2>1, <3>2, <3>5 DEF TallyInv, TallyOk
    <3> QED  BY <3>4, <3>5 DEF TallyInv
  <2> QED  BY <1>5, <2>2, <2>3 DEF PostApproval
<1>6. ASSUME NEW s \in Sessions, CommitFails(s)
      PROVE  TallyInv'
  <2>1. /\ store' = store /\ task'[s].pc = "raised"
        /\ \A t \in Sessions \ {s} : task'[t] = task[t]
        /\ task[s].pc \in {"absent"} \cup Live
    BY <1>1, <1>6
       DEF CommitFails, Raise, Goto, Writes, TypeOK, Tasks, Live, Ended
  <2>2. s \in DOMAIN store => store[s].status # "waiting_approval"
    BY <2>1 DEF GateInv, SessionInv, RunOk
  <2>3. ASSUME NEW t \in DOMAIN store'
        PROVE  TallyOk(t)'
    <3>1. CASE t = s
      BY <2>1, <2>2, <2>3, <3>1
         DEF TallyOk, Live, Active, Suspended, Finalizing
    <3>2. CASE t # s
      BY <1>1, <2>1, <2>3, <3>2 DEF TallyInv, TallyOk, TypeOK
    <3> QED  BY <3>1, <3>2
  <2> QED  BY <2>3 DEF TallyInv
<1>7. CASE Restart
  <2>1. ASSUME NEW s \in DOMAIN store' PROVE TallyOk(s)'
    <3>1. s \in DOMAIN store /\ s \in Sessions /\ task[s] \in Tasks
      BY <1>1, <1>7, <2>1 DEF Restart, TypeOK
    <3>2. task[s].pc # "absent"
      BY <3>1 DEF GateInv, SessionInv
    <3>3. task'[s].pc = "gone"
      BY <1>7, <3>1, <3>2 DEF Restart, Tasks
    <3> QED  BY <3>3 DEF TallyOk, Live, Active, Suspended, Finalizing
  <2> QED  BY <2>1 DEF TallyInv
<1> QED  BY <1>2, <1>3, <1>4, <1>5, <1>6, <1>7
         DEF Next, vars, Expire, ApprovalCommitFails

\* What a trace, the locals and the status say of each other holds in every
\* reachable state.
THEOREM TallyHolds == Spec => []TallyInv
<1>1. Init => TallyInv
  BY DEF Init, TallyInv
<1>2. GateInv /\ ProgressInv /\ CountersInv /\ TallyInv /\ [Next]_vars
        => TallyInv'
  BY NextKeepsTally
<1> QED  BY <1>1, <1>2, GateHolds, ProgressHolds, CountersHold, PTL DEF Spec

-----------------------------------------------------------------------------
(* LLM calls. *)

\* The size of a set that differs from another in one element at most.
LEMMA SizeMoves ==
  ASSUME NEW S, NEW T, NEW x, IsFiniteSet(S), T \ {x} = S \ {x}
  PROVE  /\ IsFiniteSet(T) /\ Cardinality(S) \in Nat /\ Cardinality(T) \in Nat
         /\ x \notin S /\ x \in T => Cardinality(T) = Cardinality(S) + 1
         /\ x \in S /\ x \notin T => Cardinality(S) = Cardinality(T) + 1
         /\ (x \in S <=> x \in T) => Cardinality(T) = Cardinality(S)
<1>1. IsFiniteSet(T)
  BY StillFinite
<1> QED  BY <1>1, OneMore, OneLess, SameElements, FS_CardinalityType

\* How a session stands to a set before and after a step.
Stays(s, S, T) == s \in S <=> s \in T
Enrols(s, S, T) == s \notin S /\ s \in T
Quits(s, S, T) == s \in S /\ s \notin T

\* What is counted of the LLM calls, and the sessions that await one.
LlmCounters == {"llm_calls", "llm_calls_failed", "llm_structured_success",
                "llm_fallback"}
Asked == AtStep({"llm_wait"})

\* What a step counts of the LLM, and how its session stands to its call.
LlmStep(s, names) ==
  \/ /\ names \cap LlmCounters = {}
     /\ "fallback" \in names <=> "degraded_sessions" \in names
     /\ Stays(s, Asked, Asked') /\ Stays(s, TimedOut, TimedOut')
     /\ Stays(s, Broken, Broken') /\ Stays(s, GivenUp, GivenUp')
  \/ /\ names = {"llm_calls"}
     /\ Enrols(s, Asked, Asked') /\ Stays(s, TimedOut, TimedOut')
     /\ Stays(s, Broken, Broken') /\ Stays(s, GivenUp, GivenUp')
  \/ /\ \E answer \in Answers :
          /\ names = Counted(answer)
          /\ IF answer = "fallback" THEN Enrols(s, GivenUp, GivenUp')
             ELSE Stays(s, GivenUp, GivenUp')
     /\ Quits(s, Asked, Asked') /\ Stays(s, TimedOut, TimedOut')
     /\ Stays(s, Broken, Broken')
  \/ /\ names = {"llm_calls_failed", "fallback"}
     /\ Quits(s, Asked, Asked') /\ Enrols(s, TimedOut, TimedOut')
     /\ Stays(s, Broken, Broken') /\ Stays(s, GivenUp, GivenUp')
  \/ /\ names = {"http_requests_failed"}
     /\ Quits(s, Asked, Asked') /\ Enrols(s, Broken, Broken')
     /\ Stays(s, TimedOut, TimedOut') /\ Stays(s, GivenUp, GivenUp')

\* Such a step keeps the accounts.
LEMMA LlmCallsKept ==
  ASSUME TypeOK, ~Durable, IsFiniteSet(InProcess), LlmCallsCounted,
         NEW s, NEW names, metrics' = Incremented(names),
         Asked' \ {s} = Asked \ {s}, TimedOut' \ {s} = TimedOut \ {s},
         Broken' \ {s} = Broken \ {s}, GivenUp' \ {s} = GivenUp \ {s},
         LlmStep(s, names)
  PROVE  LlmCallsCounted'
<1> DEFINE w == Cardinality(Asked)      w2 == Cardinality(Asked')
           t == Cardinality(TimedOut)   t2 == Cardinality(TimedOut')
           b == Cardinality(Broken)     b2 == Cardinality(Broken')
           g == Cardinality(GivenUp)    g2 == Cardinality(GivenUp')
           calls == metrics["llm_calls"]
           failed == metrics["llm_calls_failed"]
           good == metrics["llm_structured_success"]
           poor == metrics["llm_fallback"]
           lost == metrics["fallback"]
           ended == metrics["degraded_sessions"]
<1>1. /\ IsFiniteSet(Asked) /\ IsFiniteSet(TimedOut)
      /\ IsFiniteSet(Broken) /\ IsFiniteSet(GivenUp)
  <2>1. /\ Asked \in SUBSET InProcess /\ TimedOut \in SUBSET InProcess
        /\ Broken \in SUBSET InProcess /\ GivenUp \in SUBSET InProcess
    BY DEF Asked, AtStep, TimedOut, Broken, GivenUp
  <2> QED  BY <2>1, FS_Subset
<1>2. /\ w \in Nat /\ w2 \in Nat
      /\ Enrols(s, Asked, Asked') => w2 = w + 1
      /\ Quits(s, Asked, Asked') => w = w2 + 1
      /\ Stays(s, Asked, Asked') => w2 = w
  BY <1>1, SizeMoves DEF Enrols, Quits, Stays
<1>3. /\ t \in Nat /\ t2 \in Nat
      /\ Enrols(s, TimedOut, TimedOut') => t2 = t + 1
      /\ Stays(s, TimedOut, TimedOut') => t2 = t
  BY <1>1, SizeMoves DEF Enrols, Stays
<1>4. /\ b \in Nat /\ b2 \in Nat
      /\ Enrols(s, Broken, Broken') => b2 = b + 1
      /\ Stays(s, Broken, Broken') => b2 = b
  BY <1>1, SizeMoves DEF Enrols, Stays
<1>5. /\ g \in Nat /\ g2 \in Nat
      /\ Enrols(s, GivenUp, GivenUp') => g2 = g + 1
      /\ Stays(s, GivenUp, GivenUp') => g2 = g
  BY <1>1, SizeMoves DEF Enrols, Stays
<1>6. {"llm_calls", "llm_calls_failed", "llm_structured_success",
       "llm_fallback", "fallback", "degraded_sessions"} \subseteq Counters
  BY DEF Counters
<1>7. /\ calls \in Nat /\ failed \in Nat /\ good \in Nat /\ poor \in Nat
      /\ lost \in Nat /\ ended \in Nat
  BY <1>6, IncrementedCounts
<1>8. \A n \in LlmCounters \cup {"fallback", "degraded_sessions"} :
        /\ n \in names => metrics'[n] = metrics[n] + 1
        /\ n \notin names => metrics'[n] = metrics[n]
  BY <1>6, IncrementedCounts DEF LlmCounters
<1>9. /\ calls = good + poor + w + t + b
      /\ failed = g + t
      /\ lost = poor + t + ended
  BY DEF LlmCallsCounted, Asked
<1>10. SUFFICES
         /\ calls' = good' + poor' + w2 + t2 + b2
         /\ failed' = g2 + t2
         /\ lost' = poor' + t2 + ended'
  BY DEF LlmCallsCounted, Asked
<1> HIDE DEF w, w2, t, t2, b, b2, g, g2
<1>11. CASE /\ names \cap LlmCounters = {}
            /\ "fallback" \in names <=> "degraded_sessions" \in names
            /\ Stays(s, Asked, Asked') /\ Stays(s, TimedOut, TimedOut')
            /\ Stays(s, Broken, Broken') /\ Stays(s, GivenUp, GivenUp')
  <2>1. /\ calls' = calls /\ failed' = failed /\ good' = good /\ poor' = poor
        /\ w2 = w /\ t2 = t /\ b2 = b /\ g2 = g
    BY <1>2, <1>3, <1>4, <1>5, <1>8, <1>11 DEF LlmCounters
  <2>2. \/ lost' = lost /\ ended' = ended
        \/ lost' = lost + 1 /\ ended' = ended + 1
    BY <1>8, <1>11
  <2> HIDE DEF calls, failed, good, poor, lost, ended
  <2> QED  BY <1>2, <1>3, <1>4, <1>5, <1>7, <1>9, <2>1, <2>2
<1>12. CASE /\ names = {"llm_calls"}
            /\ Enrols(s, Asked, Asked') /\ Stays(s, TimedOut, TimedOut')
            /\ Stays(s, Broken, Broken') /\ Stays(s, GivenUp, GivenUp')
  <2>1. /\ calls' = calls + 1 /\ failed' = failed /\ good' = good
        /\ poor' = poor /\ lost' = lost /\ ended' = ended
        /\ w2 = w + 1 /\ t2 = t /\ b2 = b /\ g2 = g
    BY <1>2, <1>3, <1>4, <1>5, <1>8, <1>12 DEF LlmCounters
  <2> HIDE DEF calls, failed, good, poor, lost, ended
  <2> QED  BY <1>2, <1>3, <1>4, <1>5, <1>7, <1>9, <2>1
<1>13. ASSUME NEW answer \in Answers, names = Counted(answer),
              IF answer = "fallback" THEN Enrols(s, GivenUp, GivenUp')
              ELSE Stays(s, GivenUp, GivenUp'),
              Quits(s, Asked, Asked'), Stays(s, TimedOut, TimedOut'),
              Stays(s, Broken, Broken')
       PROVE  /\ calls' = good' + poor' + w2 + t2 + b2
              /\ failed' = g2 + t2
              /\ lost' = poor' + t2 + ended'
  <2>1. /\ calls' = calls /\ ended' = ended
        /\ w = w2 + 1 /\ t2 = t /\ b2 = b
    BY <1>2, <1>3, <1>4, <1>8, <1>13 DEF LlmCounters, Counted
  <2>2. \/ /\ good' = good + 1 /\ poor' = poor /\ failed' = failed
           /\ lost' = lost /\ g2 = g
        \/ /\ good' = good /\ poor' = poor + 1 /\ failed' = failed
           /\ lost' = lost + 1 /\ g2 = g
        \/ /\ good' = good /\ poor' = poor + 1 /\ failed' = failed + 1
           /\ lost' = lost + 1 /\ g2 = g + 1
    BY <1>5, <1>8, <1>13 DEF LlmCounters, Counted
  <2> HIDE DEF calls, failed, good, poor, lost, ended
  <2> QED  BY <1>2, <1>3, <1>4, <1>5, <1>7, <1>9, <2>1, <2>2
<1>14. CASE /\ names = {"llm_calls_failed", "fallback"}
            /\ Quits(s, Asked, Asked') /\ Enrols(s, TimedOut, TimedOut')
            /\ Stays(s, Broken, Broken') /\ Stays(s, GivenUp, GivenUp')
  <2>1. /\ calls' = calls /\ failed' = failed + 1 /\ good' = good
        /\ poor' = poor /\ lost' = lost + 1 /\ ended' = ended
        /\ w = w2 + 1 /\ t2 = t + 1 /\ b2 = b /\ g2 = g
    BY <1>2, <1>3, <1>4, <1>5, <1>8, <1>14 DEF LlmCounters
  <2> HIDE DEF calls, failed, good, poor, lost, ended
  <2> QED  BY <1>2, <1>3, <1>4, <1>5, <1>7, <1>9, <2>1
<1>15. CASE /\ names = {"http_requests_failed"}
            /\ Quits(s, Asked, Asked') /\ Enrols(s, Broken, Broken')
            /\ Stays(s, TimedOut, TimedOut') /\ Stays(s, GivenUp, GivenUp')
  <2>1. /\ calls' = calls /\ failed' = failed /\ good' = good
        /\ poor' = poor /\ lost' = lost /\ ended' = ended
        /\ w = w2 + 1 /\ t2 = t /\ b2 = b + 1 /\ g2 = g
    BY <1>2, <1>3, <1>4, <1>5, <1>8, <1>15 DEF LlmCounters
  <2> HIDE DEF calls, failed, good, poor, lost, ended
  <2> QED  BY <1>2, <1>3, <1>4, <1>5, <1>7, <1>9, <2>1
<1> QED  BY <1>11, <1>12, <1>13, <1>14, <1>15 DEF LlmStep

\* A provider is a stub without an adapter, or may raise, but not both.
OneProvider == ~({"raise", "unimplemented"} \subseteq LlmOutcomes)

\* Every step of a triage is such a step.
LEMMA OwnLlm ==
  ASSUME GateInv, ProgressInv, CountersInv, TallyInv, OneProvider,
         NEW s \in Sessions, Own(s), Advance(s) \/ Resume(s)
  PROVE  \E names : metrics' = Incremented(names) /\ LlmStep(s, names)
<1>1. /\ task[s].pc \in Live /\ WayOk(s) /\ TallyOk(s) /\ RunOk(s)
      /\ s \in InProcess' /\ metrics = Incremented({})
  BY StaysInProcess, RunningFacts, NothingCounted
     DEF Own, CountersInv, TallyInv, GateInv
<1>2. /\ s \in Asked <=> task[s].pc = "llm_wait"
      /\ s \in TimedOut <=> task[s].why = "llm_timeout"
      /\ s \in GivenUp <=> task[s].llm = "fallback"
      /\ s \notin Broken
  BY <1>1 DEF Asked, AtStep, TimedOut, GivenUp, Broken, InProcess, Live,
              Active, Suspended
<1>3. /\ s \in Asked' <=> task'[s].pc = "llm_wait"
      /\ s \in TimedOut' <=> task'[s].why = "llm_timeout"
      /\ s \in GivenUp' <=> task'[s].llm = "fallback"
      /\ s \in Broken' <=> /\ task'[s].pc = "raised"
                           /\ "raise" \in LlmOutcomes
                           /\ task'[s].why = "none" /\ Checked(s)'
  BY <1>1 DEF Asked, AtStep, TimedOut, GivenUp, Broken, Checked
<1>4. task[s].pc \in {"llm_call", "llm_wait"} =>
        /\ task[s].why = "none" /\ task[s].llm = "none" /\ Checked(s)
  <2>1. {"llm_call", "llm_wait"} \subseteq
          (Live \ Answered) \cap (Live \ Finalizing) \cap Analysis
    BY DEF Live, Active, Suspended, Answered, Deciding, Finalizing, Analysis
  <2> QED  BY <1>1, <2>1 DEF WayOk, TallyOk, RunOk, Checked
<1>5. /\ Checked(s) => task[s].pc \in {"llm_call", "llm_wait", "llm_trace"}
                                        \cup Finalizing
      /\ task[s].pc \in Finalizing => task[s].why # "none"
  BY <1>1 DEF TallyOk, Checked
<1>6. task[s].pc \notin Answered \cup Finalizing =>
        task[s].llm = "none" /\ task[s].why # "llm_timeout"
  BY <1>1 DEF WayOk, Ended, Live, Active, Suspended
<1> USE DEF Stays, Enrols, Quits
<1>7. ASSUME NEW names, metrics' = Incremented(names),
             names \cap LlmCounters = {},
             "fallback" \in names <=> "degraded_sessions" \in names,
             task[s].pc # "llm_wait", task'[s].pc # "llm_wait",
             task'[s].llm = task[s].llm,
             task'[s].why = "llm_timeout" <=> task[s].why = "llm_timeout",
             s \notin Broken'
      PROVE  \E n : metrics' = Incremented(n) /\ LlmStep(s, n)
  BY <1>2, <1>3, <1>7 DEF LlmStep
<1>8. CASE RaiseStep(s)
  <2>1. /\ store' = store /\ Moved(s, "raised")
        /\ metrics' = Incremented({"http_requests_failed"})
        /\ task[s].pc \in RaisePcs
        /\ task[s].pc = "llm_call" => "unimplemented" \in LlmOutcomes
        /\ task[s].pc = "llm_wait" => "raise" \in LlmOutcomes
    BY <1>8 DEF RaiseStep, Raises
  <2>2. Checked(s)' <=> Checked(s)
    BY <2>1 DEF Checked
  <2>3. CASE task[s].pc = "llm_wait"
    BY <1>2, <1>3, <1>4, <2>1, <2>2, <2>3 DEF LlmStep, Moved
  <2>4. CASE task[s].pc # "llm_wait"
    <3>1. s \notin Broken'
      BY <1>3, <1>5, <2>1, <2>2, <2>4 DEF Moved, RaisePcs, OneProvider
    <3>2. {"http_requests_failed"} \cap LlmCounters = {}
      BY DEF LlmCounters
    <3> QED  BY <1>7, <2>1, <2>4, <3>1, <3>2 DEF Moved
  <2> QED  BY <2>3, <2>4
<1>9. CASE TraceStep(s) \/ PassStep(s) \/ ToolStep(s)
  <2>1. /\ metrics' = metrics /\ task'[s].llm = task[s].llm
        /\ task'[s].why = task[s].why
    BY <1>9 DEF TraceStep, PassStep, ToolStep, Goes, Moved, Locals
  <2>2. /\ task[s].pc # "llm_wait" /\ task'[s].pc # "llm_wait"
        /\ task'[s].pc # "raised"
    BY <1>9 DEF TraceStep, PassStep, ToolStep, TraceHops, PassHops, Moved
  <2> QED  BY <1>1, <1>3, <1>7, <2>1, <2>2
<1>10. CASE GiveUpStep(s)
  <2>1. PICK hop \in DegradeHops :
          /\ task[s].pc = hop.from /\ Degrades(s, hop.why, hop.nested)
          /\ metrics' = Incremented(hop.names)
    BY <1>10 DEF GiveUpStep
  <2>2. \/ /\ hop.from = "llm_wait" /\ hop.why = "llm_timeout"
           /\ hop.names = {"llm_calls_failed", "fallback"}
        \/ /\ hop.from \in {"preflight", "tool", "llm_call"}
           /\ hop.why # "llm_timeout"
           /\ hop.names \cap LlmCounters = {}
           /\ "fallback" \notin hop.names
           /\ "degraded_sessions" \notin hop.names
    BY DEF DegradeHops, GiveUp, LlmCounters
  <2>3. task[s].why # "llm_timeout" /\ task'[s].pc = "fp_report"
        /\ task'[s].llm = task[s].llm /\ task'[s].why = hop.why
    BY <1>6, <2>1, <2>2 DEF Degrades, Answered, Deciding, Finalizing
  <2>4. CASE hop.from = "llm_wait"
    BY <1>2, <1>3, <2>1, <2>2, <2>3, <2>4 DEF LlmStep
  <2>5. CASE hop.from # "llm_wait"
    BY <1>3, <1>7, <2>1, <2>2, <2>3, <2>5
  <2> QED  BY <2>4, <2>5
<1>11. CASE ForcedStep(s)
  <2>1. /\ metrics' = metrics /\ task[s].pc = "force_fail"
        /\ task'[s].pc = "fp_report" /\ task'[s].llm = task[s].llm
        /\ task'[s].why = "forced_failure"
    BY <1>11 DEF ForcedStep, Goes, Degrades
  <2>2. task[s].why # "llm_timeout"
    BY <1>6, <2>1 DEF Answered, Deciding, Finalizing
  <2> QED  BY <1>1, <1>3, <1>7, <2>1, <2>2
<1>12. CASE AwaitStep(s)
  <2>1. task'[s].why = task[s].why /\ task'[s].pc # "raised"
    BY <1>12 DEF AwaitStep, Moved, Locals
  <2>2. CASE task[s].pc \in {"tool", "tool_wait", "decide"}
    <3>1. PICK names : /\ metrics' = Incremented(names)
                       /\ names \cap LlmCounters = {}
                       /\ "fallback" \notin names
                       /\ "degraded_sessions" \notin names
      <4>1. \A ok \in BOOLEAN :
              LET names == {"tool_calls"} \cup
                             IF ok THEN {} ELSE {"tool_calls_failed"}
              IN  /\ names \cap LlmCounters = {}
                  /\ "fallback" \notin names
                  /\ "degraded_sessions" \notin names
        BY DEF LlmCounters
      <4>2. {"policy_blocks", "approval_requests"} \cap LlmCounters = {}
        BY DEF LlmCounters
      <4> QED  BY <1>1, <1>12, <2>2, <4>1, <4>2 DEF AwaitStep
    <3>2. task'[s].pc # "llm_wait" /\ task'[s].llm = task[s].llm
      BY <1>12, <2>2 DEF AwaitStep, Moved, Locals
    <3> QED  BY <1>3, <1>7, <2>1, <2>2, <3>1, <3>2
  <2>3. CASE /\ task[s].pc = "llm_call" /\ Moved(s, "llm_wait")
             /\ metrics' = Incremented({"llm_calls"})
    BY <1>2, <1>3, <2>1, <2>3 DEF LlmStep, Moved
  <2>4. ASSUME task[s].pc = "llm_wait", task'[s].pc = "llm_trace",
               NEW answer \in Answers, task'[s].llm = answer,
               metrics' = Incremented(Counted(answer))
        PROVE  \E n : metrics' = Incremented(n) /\ LlmStep(s, n)
    BY <1>2, <1>3, <1>4, <2>1, <2>4 DEF LlmStep
  <2> QED  BY <1>12, <2>2, <2>3, <2>4 DEF AwaitStep, Locals
<1>13. CASE ReportStep(s)
  <2>1. PICK hop \in ReportHops :
          /\ task[s].pc = hop[1] /\ Moved(s, hop[2])
          /\ metrics' = Incremented(hop[3])
    BY <1>13 DEF ReportStep
  <2>2. /\ hop[1] # "llm_wait" /\ hop[2] # "llm_wait" /\ hop[2] # "raised"
        /\ hop[3] \cap LlmCounters = {}
        /\ "fallback" \notin hop[3] /\ "degraded_sessions" \notin hop[3]
    BY DEF ReportHops, LlmCounters
  <2> QED  BY <1>3, <1>7, <2>1, <2>2 DEF Moved
<1>14. CASE EndStep(s)
  <2>1. PICK names :
          /\ metrics' = Incremented(names)
          /\ names \cap LlmCounters = {}
          /\ "fallback" \in names <=> "degraded_sessions" \in names
    <3>1. \A names \in {{"completed"}, {"waiting_approval"}, PartialCounters} :
            /\ names \cap LlmCounters = {}
            /\ (names \cup {"http_requests"}) \cap LlmCounters = {}
            /\ "fallback" \in names <=> "degraded_sessions" \in names
      BY DEF PartialCounters, LlmCounters
    <3> QED  BY <1>14, <3>1 DEF EndStep, Returns
  <2>2. /\ task[s].pc # "llm_wait"
        /\ task'[s].pc \in {"returned", "executing", "tool", "executed"}
        /\ task'[s].llm = task[s].llm /\ task'[s].why = task[s].why
    BY <1>14 DEF EndStep, Returns, Moved, Locals
  <2> QED  BY <1>3, <1>7, <2>1, <2>2
<1> QED  BY <1>8, <1>9, <1>10, <1>11, <1>12, <1>13, <1>14, StepEffect

\* The other sessions stand to their calls as they did.
LEMMA LlmElsewhere ==
  ASSUME CountersInv, ~Durable, NEW s \in Sessions, Elsewhere(s)
  PROVE  /\ Asked' \ {s} = Asked \ {s} /\ TimedOut' \ {s} = TimedOut \ {s}
         /\ Broken' \ {s} = Broken \ {s} /\ GivenUp' \ {s} = GivenUp \ {s}
<1>1. ASSUME NEW t \in Sessions \ {s}
      PROVE  /\ task'[t] = task[t] /\ (t \in InProcess' <=> t \in InProcess)
             /\ t \in InProcess => store'[t] = store[t]
  BY DEF Elsewhere, InProcess, CountersInv, WayOk
<1>2. InProcess \subseteq Sessions /\ InProcess' \subseteq Sessions
  BY DEF InProcess
<1>3. Asked' \ {s} = Asked \ {s}
  BY <1>1, <1>2 DEF Asked, AtStep
<1>4. TimedOut' \ {s} = TimedOut \ {s}
  BY <1>1, <1>2 DEF TimedOut
<1>5. GivenUp' \ {s} = GivenUp \ {s}
  BY <1>1, <1>2 DEF GivenUp
<1>6. Broken' \ {s} = Broken \ {s}
  BY <1>1, <1>2 DEF Broken, AtStep
<1> QED  BY <1>3, <1>4, <1>5, <1>6

\* Every step keeps the LLM's accounts.
LEMMA NextKeepsLlm ==
  ASSUME GateInv, ProgressInv, CountersInv, TallyInv, LlmCallsCounted,
         OneProvider, [Next]_vars
  PROVE  LlmCallsCounted'
<1> SUFFICES ASSUME ~Durable PROVE LlmCallsCounted'
  BY DEF LlmCallsCounted, Durable
<1>1. TypeOK /\ IsFiniteSet(InProcess) /\ metrics = Incremented({})
  BY NothingCounted DEF GateInv, CountersInv
<1>2. ASSUME NEW s \in Sessions, Elsewhere(s), NEW names,
             metrics' = Incremented(names), LlmStep(s, names)
      PROVE  LlmCallsCounted'
  <2>1. /\ Asked' \ {s} = Asked \ {s} /\ TimedOut' \ {s} = TimedOut \ {s}
        /\ Broken' \ {s} = Broken \ {s} /\ GivenUp' \ {s} = GivenUp \ {s}
    BY <1>2, LlmElsewhere
  <2> QED  BY <1>1, <1>2, <2>1, LlmCallsKept
<1>3. ASSUME NEW s \in Sessions, Advance(s) \/ Resume(s)
      PROVE  LlmCallsCounted'
  <2>1. Own(s)
    BY <1>3, OwnStep
  <2>2. Elsewhere(s)
    BY <2>1, OwnElsewhere
  <2>3. \E names : metrics' = Incremented(names) /\ LlmStep(s, names)
    BY <1>3, <2>1, OwnLlm
  <2> QED  BY <1>2, <2>2, <2>3
<1>4. ASSUME NEW s \in Sessions, PostIncident(s)
      PROVE  LlmCallsCounted'
  <2>1. /\ Elsewhere(s) /\ metrics' = metrics
        /\ task'[s] = [task[s] EXCEPT !.pc = "sync_budget"]
        /\ task[s] \in Tasks /\ task[s].pc = "absent"
    BY <1>1, <1>4, CreateKeepsOutcomes DEF PostIncident, TypeOK
  <2>2. task[s].llm = "none" /\ task[s].why = "none"
    BY <2>1 DEF CountersInv, WayOk
  <2>3. /\ task'[s].pc = "sync_budget"
        /\ task'[s].llm = "none" /\ task'[s].why = "none"
    BY <2>1, <2>2 DEF Tasks
  <2>4. /\ s \notin Asked /\ s \notin TimedOut /\ s \notin Broken
        /\ s \notin GivenUp
    BY <2>1 DEF Asked, TimedOut, Broken, GivenUp, AtStep, InProcess
  <2>5. /\ s \notin Asked' /\ s \notin TimedOut' /\ s \notin Broken'
        /\ s \notin GivenUp'
    BY <2>3 DEF Asked, TimedOut, Broken, GivenUp, AtStep
  <2>6. LlmStep(s, {})
    BY <2>4, <2>5 DEF LlmStep, Stays
  <2> QED  BY <1>1, <1>2, <2>1, <2>6
<1>5. ASSUME NEW s \in Sessions, PostApproval(s)
      PROVE  LlmCallsCounted'
  <2>1. /\ Elsewhere(s) /\ task' = task
        /\ metrics' = Incremented({"http_requests"})
    BY <1>5, DecisionKeepsOutcomes DEF PostApproval
  <2>2. InProcess' = InProcess /\ Asked' = Asked /\ TimedOut' = TimedOut
        /\ GivenUp' = GivenUp
    BY <2>1 DEF InProcess, Asked, AtStep, TimedOut, GivenUp
  <2>3. s \in Broken <=> s \in Broken'
    <3>1. CASE store' = store
      BY <2>1, <2>2, <3>1 DEF Broken, AtStep
    <3>2. CASE \E id \in Sessions : Approvable(s, id)
      <4>1. task[s].pc \in {"returned", "gone"}
        BY <3>2 DEF Approvable, TallyInv, TallyOk
      <4> QED  BY <2>1, <4>1 DEF Broken, AtStep
    <3> QED  BY <1>5, <3>1, <3>2 DEF PostApproval
  <2>4. LlmStep(s, {"http_requests"})
    BY <2>2, <2>3 DEF LlmStep, Stays, LlmCounters
  <2> QED  BY <1>2, <2>1, <2>4
<1>6. CASE UNCHANGED <<store, task, metrics>>
  <2>1. /\ AtStep({"llm_wait"})' = AtStep({"llm_wait"})
        /\ TimedOut' = TimedOut /\ Broken' = Broken /\ GivenUp' = GivenUp
    BY <1>6 DEF InProcess, AtStep, TimedOut, GivenUp, Broken
  <2> QED  BY <1>6, <2>1 DEF LlmCallsCounted
<1>7. CASE Restart
  <2>1. InProcess' = {}
    <3>1. ASSUME NEW s \in Sessions PROVE task'[s].pc \in {"absent", "gone"}
      BY <1>1, <1>7 DEF Restart, TypeOK, Tasks
    <3> QED  BY <3>1 DEF InProcess
  <2>2. /\ AtStep({"llm_wait"})' = {} /\ TimedOut' = {} /\ Broken' = {}
        /\ GivenUp' = {}
    BY <2>1 DEF AtStep, TimedOut, GivenUp, Broken
  <2>3. Cardinality({}) = 0
    BY FS_EmptySet
  <2>4. /\ Cardinality(AtStep({"llm_wait"})') = 0
        /\ Cardinality(TimedOut') = 0 /\ Cardinality(Broken') = 0
        /\ Cardinality(GivenUp') = 0
    BY <2>2, <2>3
  <2>5. \A n \in {"llm_calls", "llm_calls_failed", "llm_structured_success",
                  "llm_fallback", "fallback", "degraded_sessions"} :
          metrics'[n] = 0
    BY <1>7 DEF Restart, Counters
  <2> QED  BY <2>4, <2>5 DEF LlmCallsCounted
<1> QED  BY <1>3, <1>4, <1>5, <1>6, <1>7
         DEF Next, vars, Expire, CommitFails, ApprovalCommitFails

\* Every LLM call is in flight, cut off, broken, or counted as the answer it
\* got, and each failure is counted once by the calls and, if it timed out,
\* twice by the fallbacks; for a provider that is a stub or may raise, but not
\* both.
THEOREM LlmCallsAreCounted ==
  ASSUME ~({"raise", "unimplemented"} \subseteq LlmOutcomes)
  PROVE  Spec => []LlmCallsCounted
<1>1. Init => LlmCallsCounted
  <2> SUFFICES ASSUME Init PROVE LlmCallsCounted
    OBVIOUS
  <2>1. \A s \in Sessions : task[s].pc = "absent"
    BY DEF Init, NoTask
  <2>2. /\ AtStep({"llm_wait"}) = {} /\ TimedOut = {} /\ Broken = {}
        /\ GivenUp = {}
    BY <2>1 DEF AtStep, TimedOut, GivenUp, Broken, InProcess
  <2>3. Cardinality({}) = 0
    BY FS_EmptySet
  <2>4. /\ Cardinality(AtStep({"llm_wait"})) = 0
        /\ Cardinality(TimedOut) = 0 /\ Cardinality(Broken) = 0
        /\ Cardinality(GivenUp) = 0
    BY <2>2, <2>3
  <2>5. \A n \in {"llm_calls", "llm_calls_failed", "llm_structured_success",
                  "llm_fallback", "fallback", "degraded_sessions"} :
          metrics[n] = 0
    BY DEF Init, Counters
  <2> QED  BY <2>4, <2>5 DEF LlmCallsCounted
<1>2. GateInv /\ ProgressInv /\ CountersInv /\ TallyInv /\ LlmCallsCounted
        /\ [Next]_vars => LlmCallsCounted'
  BY NextKeepsLlm DEF OneProvider
<1> QED  BY <1>1, <1>2, GateHolds, ProgressHolds, CountersHold, TallyHolds,
            PTL DEF Spec

-----------------------------------------------------------------------------
(* Metrics and traces. *)

\* The entries of one type grow by the one a step makes.
LEMMA RecordedMoves ==
  ASSUME CountersInv, ~Durable, NEW s \in Sessions, Own(s), EntryStep(s),
         s \in InProcess', NEW step, step # "none"
  PROVE  LET new == <<s, Len(store[s].trace) + 1>>
         IN  /\ Made(s) # step => Recorded(step)' = Recorded(step)
             /\ Made(s) = step =>
                  /\ new \notin Recorded(step)
                  /\ Recorded(step)' = Recorded(step) \cup {new}
<1> DEFINE new == <<s, Len(store[s].trace) + 1>>
           known == InProcess \cap DOMAIN store
<1>1. /\ s \in known /\ DOMAIN store' = DOMAIN store
      /\ InProcess' \cap DOMAIN store' = known
      /\ \A t \in known : t # s => store'[t] = store[t]
  BY OwnElsewhere
     DEF Own, Elsewhere, InProcess, Live, Active, Suspended
<1>2. \A p : p \in Recorded(step) <=>
        \E t \in known : \E i \in DOMAIN store[t].trace :
          p = <<t, i>> /\ store[t].trace[i].step = step
  BY DEF Recorded
<1>3. \A p : p \in Recorded(step)' <=>
        \E t \in known : \E i \in DOMAIN store'[t].trace :
          p = <<t, i>> /\ store'[t].trace[i].step = step
  BY <1>1 DEF Recorded
<1> HIDE DEF known
<1>4. CASE Made(s) = "none"
  <2>1. store'[s].trace = store[s].trace
    BY <1>4, OwnMakes
  <2>2. \A t \in known : store'[t].trace = store[t].trace
    BY <1>1, <2>1
  <2>3. Recorded(step)' = Recorded(step)
    BY <1>2, <1>3, <2>2
  <2> QED  BY <1>4, <2>3
<1>5. CASE Made(s) # "none"
  <2>1. PICK entry : /\ entry.step = Made(s)
                     /\ store'[s].trace = Append(store[s].trace, entry)
    BY <1>5, OwnMakes
  <2> DEFINE trace == store[s].trace
             n == Len(trace)
             next == store'[s].trace
  <2>2. /\ n \in Nat /\ DOMAIN trace = 1..n /\ DOMAIN next = 1..(n + 1)
        /\ next[n + 1] = entry /\ \A i \in 1..n : next[i] = trace[i]
    <3>1. trace \in Seq(TraceSteps)
      BY OwnMakes
    <3> QED  BY <2>1, <3>1
  <2> HIDE DEF next, trace, n
  <2>3. /\ n + 1 \notin DOMAIN trace /\ n + 1 \in DOMAIN next
        /\ \A i \in DOMAIN next : i \in DOMAIN trace \/ i = n + 1
        /\ \A i \in DOMAIN trace : i \in DOMAIN next /\ next[i] = trace[i]
    BY <2>2
  <2>4. new = <<s, n + 1>>
    BY DEF n, trace
  <2> HIDE DEF new
  <2>5. \A p : p \in Recorded(step)' <=>
          \/ \E t \in known \ {s} : \E i \in DOMAIN store[t].trace :
               p = <<t, i>> /\ store[t].trace[i].step = step
          \/ \E i \in DOMAIN next : p = <<s, i>> /\ next[i].step = step
    BY <1>1, <1>3 DEF next
  <2>6. \A p : p \in Recorded(step) <=>
          \/ \E t \in known \ {s} : \E i \in DOMAIN store[t].trace :
               p = <<t, i>> /\ store[t].trace[i].step = step
          \/ \E i \in DOMAIN trace : p = <<s, i>> /\ trace[i].step = step
    BY <1>1, <1>2 DEF trace
  <2>7. \A p : (\E i \in DOMAIN next : p = <<s, i>> /\ next[i].step = step)
          <=> \/ \E i \in DOMAIN trace : p = <<s, i>> /\ trace[i].step = step
              \/ p = new /\ Made(s) = step
    BY <2>1, <2>2, <2>3, <2>4
  <2>8. new \notin Recorded(step)
    BY <2>3, <2>4, <2>6
  <2>9. \A p : p \in Recorded(step)' <=> \/ p \in Recorded(step)
                                         \/ p = new /\ Made(s) = step
    BY <2>5, <2>6, <2>7
  <2> QED  BY <2>8, <2>9 DEF new
<1> QED  BY <1>4, <1>5

\* How the trace, the steps and the counters move together.
TallyStep(s, names) ==
  LET pc == task[s].pc
      next == task'[s].pc
      made == Made(s)
  IN  /\ IF pc = "tool_record"
         THEN /\ made = "tool_call" /\ next # "tool_record"
              /\ "tool_calls" \notin names
         ELSE /\ made # "tool_call"
              /\ next = "tool_record" <=> "tool_calls" \in names
      /\ IF pc = "fp_state"
         THEN made # "report" /\ next # "fp_state" /\ "ttfa" \in names
         ELSE /\ made = "report" <=> next = "fp_state" \/ "ttfa" \in names
              /\ ~(next = "fp_state" /\ "ttfa" \in names)
      /\ IF pc = "request"
         THEN /\ next # "request" /\ "policy_blocks" \notin names
              /\ made = "approval_request" <=> s \notin Overlong'
         ELSE /\ made # "approval_request" /\ s \notin Overlong'
              /\ next = "request" <=> "policy_blocks" \in names
      /\ "approval_requests" \in names <=> "policy_blocks" \in names

\* Every step of a triage moves them so.
LEMMA OwnTally ==
  ASSUME GateInv, ProgressInv, CountersInv, NEW s \in Sessions, Own(s),
         Advance(s) \/ Resume(s)
  PROVE  \E names : metrics' = Incremented(names) /\ TallyStep(s, names)
<1>1. /\ task[s].pc \in Live /\ WayOk(s) /\ EntryStep(s)
      /\ metrics = Incremented({})
  BY OwnEntry, NothingCounted DEF Own, CountersInv, GateInv
<1>2. /\ store' = store => Made(s) = "none"
      /\ Made(s) # "none" => Made(s) = EntryOf(task[s].pc)
      /\ Made(s) = "none" => \/ task'[s].pc = "raised"
                             \/ task[s].pc \in Silent
  BY <1>1, OwnMakes
<1>3. /\ EntryOf(task[s].pc) = "tool_call" <=> task[s].pc = "tool_record"
      /\ EntryOf(task[s].pc) = "report" <=>
           task[s].pc \in {"report", "fp_report"}
      /\ EntryOf(task[s].pc) = "approval_request" <=> task[s].pc = "request"
  BY DEF EntryOf
<1>4. /\ Made(s) = "tool_call" => task[s].pc = "tool_record"
      /\ Made(s) = "report" => task[s].pc \in {"report", "fp_report"}
      /\ Made(s) = "approval_request" => task[s].pc = "request"
  BY <1>2, <1>3
<1>5. s \in Overlong' <=> /\ task'[s].pc = "raised"
                          /\ task'[s].llm = "risky_overlong"
  BY StaysInProcess DEF Overlong, AtStep
<1>6. task[s].pc \in RaisePcs \ {"report", "decide", "request"} =>
        task[s].llm = "none"
  BY <1>1 DEF WayOk, RaisePcs, Live, Active, Suspended, Answered, Deciding
\* The steps that make no entry of the three types and count none of them.
<1>7. ASSUME NEW names, metrics' = Incremented(names),
             names \cap {"tool_calls", "ttfa", "policy_blocks",
                         "approval_requests"} = {},
             task[s].pc \notin {"tool_record", "report", "fp_report",
                                "fp_state", "request"},
             task'[s].pc \notin {"tool_record", "fp_state", "request",
                                 "raised"}
      PROVE  \E n : metrics' = Incremented(n) /\ TallyStep(s, n)
  BY <1>4, <1>5, <1>7 DEF TallyStep
<1>8. CASE RaiseStep(s)
  <2>1. /\ store' = store /\ Moved(s, "raised")
        /\ metrics' = Incremented({"http_requests_failed"})
        /\ task[s].pc \in RaisePcs
        /\ task[s].pc \in {"report", "decide", "request"} =>
             (task[s].llm = "risky_overlong" <=> task[s].pc = "request")
    BY <1>8 DEF RaiseStep, Raises
  <2>2. Made(s) = "none"
    BY <1>2, <2>1
  <2>3. s \in Overlong' <=> task[s].pc = "request"
    BY <1>5, <1>6, <2>1 DEF Moved
  <2>4. task[s].pc \notin {"tool_record", "fp_state"}
    BY <2>1 DEF RaisePcs
  <2> QED  BY <2>1, <2>2, <2>3, <2>4 DEF TallyStep, Moved
<1>9. CASE TraceStep(s) \/ PassStep(s)
  <2>1. metrics' = metrics
    BY <1>9 DEF TraceStep, PassStep, Goes
  <2>2. /\ task[s].pc \notin {"tool_record", "report", "fp_report",
                              "fp_state", "request"}
        /\ task'[s].pc \notin {"tool_record", "fp_state", "request",
                               "raised"}
    BY <1>9 DEF TraceStep, PassStep, TraceHops, PassHops, Moved
  <2> QED  BY <1>1, <1>7, <2>1, <2>2
<1>10. CASE GiveUpStep(s)
  <2>1. PICK hop \in DegradeHops :
          /\ task[s].pc = hop.from /\ task'[s].pc = "fp_report"
          /\ metrics' = Incremented(hop.names)
    BY <1>10 DEF GiveUpStep, Degrades
  <2>2. /\ hop.from \in {"preflight", "tool", "llm_call", "llm_wait"}
        /\ hop.names \cap {"tool_calls", "ttfa", "policy_blocks",
                           "approval_requests"} = {}
    BY DEF DegradeHops, GiveUp
  <2> QED  BY <1>7, <2>1, <2>2
<1>11. CASE ForcedStep(s)
  BY <1>1, <1>7, <1>11 DEF ForcedStep, Goes, Degrades
<1>12. CASE AwaitStep(s)
  <2>1. Made(s) = "none"
    BY <1>2, <1>12 DEF AwaitStep
  <2>2. CASE task[s].pc = "tool" /\ task'[s].pc = "tool_wait"
             /\ metrics' = metrics
    BY <1>1, <1>7, <2>2
  <2>3. ASSUME task[s].pc = "tool_wait", task'[s].pc = "tool_record",
               NEW ok \in BOOLEAN,
               metrics' = Incremented({"tool_calls"} \cup
                            IF ok THEN {} ELSE {"tool_calls_failed"})
        PROVE  \E n : metrics' = Incremented(n) /\ TallyStep(s, n)
    <3> DEFINE names == {"tool_calls"} \cup
                          IF ok THEN {} ELSE {"tool_calls_failed"}
    <3>1. /\ "tool_calls" \in names /\ "ttfa" \notin names
          /\ "policy_blocks" \notin names /\ "approval_requests" \notin names
      OBVIOUS
    <3>2. metrics' = Incremented(names)
      BY <2>3
    <3> HIDE DEF names
    <3>3. TallyStep(s, names)
      BY <1>5, <2>1, <2>3, <3>1 DEF TallyStep
    <3> QED  BY <3>2, <3>3
  <2>4. CASE task[s].pc = "llm_call" /\ Moved(s, "llm_wait")
             /\ metrics' = Incremented({"llm_calls"})
    BY <1>7, <2>4 DEF Moved
  <2>5. ASSUME task[s].pc = "llm_wait", task'[s].pc = "llm_trace",
               NEW answer \in Answers,
               metrics' = Incremented(Counted(answer))
        PROVE  \E n : metrics' = Incremented(n) /\ TallyStep(s, n)
    <3>1. Counted(answer) \cap {"tool_calls", "ttfa", "policy_blocks",
                                "approval_requests"} = {}
      BY DEF Counted
    <3> QED  BY <1>7, <2>5, <3>1
  <2>6. CASE task[s].pc = "decide" /\ Moved(s, "request")
             /\ metrics' = Incremented({"policy_blocks", "approval_requests"})
    BY <1>5, <2>1, <2>6 DEF TallyStep, Moved
  <2> QED  BY <1>12, <2>2, <2>3, <2>4, <2>5, <2>6 DEF AwaitStep
<1>13. CASE ToolStep(s)
  <2>1. metrics' = Incremented({})
    BY <1>1, <1>13 DEF ToolStep, Goes
  <2>2. CASE task[s].pc = "tool_record" /\ Moved(s, "tool_sync")
    <3>1. Made(s) = "tool_call"
      BY <1>2, <1>3, <2>2 DEF Moved, Silent
    <3> QED  BY <1>5, <2>1, <2>2, <3>1 DEF TallyStep, Moved
  <2>3. CASE /\ task[s].pc \in {"sync_budget", "tool_sync", "tool_observe"}
             /\ task'[s].pc \in {"validate", "tool_observe", "executing",
                                 "tool", "executed"}
    BY <1>7, <2>1, <2>3
  <2> QED  BY <1>13, <2>2, <2>3 DEF ToolStep, Moved
<1>14. CASE ReportStep(s)
  <2>1. PICK hop \in ReportHops :
          /\ task[s].pc = hop[1] /\ Moved(s, hop[2])
          /\ metrics' = Incremented(hop[3])
    BY <1>14 DEF ReportStep
  <2>2. hop[2] # "raised" /\ (hop[1] # "fp_state" => hop[1] \notin Silent)
    BY DEF ReportHops, Silent
  <2>3. hop[1] # "fp_state" => Made(s) = EntryOf(hop[1])
    BY <1>2, <2>1, <2>2 DEF Moved
  <2>4. TallyStep(s, hop[3])
    BY <1>3, <1>4, <1>5, <2>1, <2>3 DEF ReportHops, TallyStep, Moved
  <2> QED  BY <2>1, <2>4
<1>15. CASE EndStep(s)
  <2>1. PICK names :
          /\ metrics' = Incremented(names)
          /\ names \cap {"tool_calls", "ttfa", "policy_blocks",
                         "approval_requests"} = {}
    <3>1. \A names \in {{"completed"}, {"waiting_approval"}, PartialCounters} :
            /\ names \cap {"tool_calls", "ttfa", "policy_blocks",
                           "approval_requests"} = {}
            /\ (names \cup {"http_requests"}) \cap
                 {"tool_calls", "ttfa", "policy_blocks",
                  "approval_requests"} = {}
      BY DEF PartialCounters
    <3> QED  BY <1>15, <3>1 DEF EndStep, Returns
  <2>2. /\ task[s].pc \in {"decide", "await_approval", "fp_partial"}
        /\ task'[s].pc \in {"returned", "executing", "tool", "executed"}
    BY <1>15 DEF EndStep, Returns, Moved
  <2> QED  BY <1>7, <2>1, <2>2
<1> QED  BY <1>8, <1>9, <1>10, <1>11, <1>12, <1>13, <1>14, <1>15, StepEffect

\* The entries the counters are compared with, finitely many of them.
RecordedFinite ==
  ~Durable => \A step \in {"tool_call", "report", "approval_request"} :
                IsFiniteSet(Recorded(step))

\* A step of a triage keeps counters and traces in agreement.
LEMMA OwnKeepsMetrics ==
  ASSUME GateInv, ProgressInv, CountersInv, MetricsMatchTraces,
         RecordedFinite, ~Durable, NEW s \in Sessions, Own(s),
         Advance(s) \/ Resume(s)
  PROVE  MetricsMatchTraces' /\ RecordedFinite'
<1>1. PICK names : metrics' = Incremented(names) /\ TallyStep(s, names)
  BY OwnTally
<1>2. /\ TypeOK /\ TypeOK' /\ IsFiniteSet(InProcess) /\ s \in InProcess'
      /\ s \in InProcess /\ EntryStep(s) /\ Elsewhere(s)
      /\ task[s].pc # "raised"
  BY NextKeepsGate, StaysInProcess, OwnEntry, OwnElsewhere
     DEF Next, GateInv, CountersInv, Own, InProcess, Live, Active, Suspended
<1> DEFINE R(step) == Recorded(step)
           S(pc) == AtStep({pc})
           r(step) == Cardinality(R(step))
           n(pc) == Cardinality(S(pc))
           o == Cardinality(Overlong)
\* The traces.
<1>3. ASSUME NEW step \in {"tool_call", "report", "approval_request"}
      PROVE  /\ IsFiniteSet(R(step)') /\ r(step) \in Nat /\ r(step)' \in Nat
             /\ Made(s) = step => r(step)' = r(step) + 1
             /\ Made(s) # step => r(step)' = r(step)
  <2> DEFINE new == <<s, Len(store[s].trace) + 1>>
  <2>1. /\ Made(s) # step => R(step)' = R(step)
        /\ Made(s) = step => /\ new \notin R(step)
                             /\ R(step)' = R(step) \cup {new}
    BY <1>2, RecordedMoves
  <2>2. IsFiniteSet(R(step))
    BY DEF RecordedFinite
  <2> HIDE DEF new, R
  <2>3. /\ Made(s) # step => R(step)' \ {new} = R(step) \ {new}
        /\ Made(s) = step => R(step)' \ {new} = R(step) \ {new}
                             /\ new \in R(step)'
    BY <2>1
  <2> QED  BY <2>1, <2>2, <2>3, SizeMoves
\* The sessions.
<1>4. /\ \A pc : IsFiniteSet(S(pc)) /\ S(pc)' \ {s} = S(pc) \ {s}
      /\ IsFiniteSet(Overlong) /\ Overlong' \ {s} = Overlong \ {s}
  <2>1. \A pcs : /\ IsFiniteSet(AtStep(pcs))
                 /\ AtStep(pcs)' \ {s} = AtStep(pcs) \ {s}
    BY <1>2, SetsFinite, SetsElsewhere
  <2>2. Overlong \in SUBSET AtStep({"raised"})
    BY DEF Overlong
  <2>3. IsFiniteSet(Overlong)
    BY <2>1, <2>2, FS_Subset
  <2>4. Overlong' \ {s} = Overlong \ {s}
    BY <1>2 DEF Overlong, AtStep, InProcess, Elsewhere
  <2> QED  BY <2>1, <2>3, <2>4
<1>5. ASSUME NEW pc
      PROVE  /\ s \in S(pc) <=> task[s].pc = pc
             /\ s \in S(pc)' <=> task'[s].pc = pc
  BY <1>2 DEF AtStep
<1>6. s \notin Overlong
  BY <1>2 DEF Overlong, AtStep
<1>7. ASSUME NEW pc
      PROVE  /\ n(pc) \in Nat /\ n(pc)' \in Nat
             /\ task[s].pc # pc /\ task'[s].pc = pc => n(pc)' = n(pc) + 1
             /\ task[s].pc = pc /\ task'[s].pc # pc => n(pc) = n(pc)' + 1
             /\ (task[s].pc = pc <=> task'[s].pc = pc) => n(pc)' = n(pc)
  <2>1. /\ IsFiniteSet(S(pc)) /\ S(pc)' \ {s} = S(pc) \ {s}
        /\ s \in S(pc) <=> task[s].pc = pc
        /\ s \in S(pc)' <=> task'[s].pc = pc
    BY <1>4, <1>5
  <2> HIDE DEF S
  <2> QED  BY <2>1, SizeMoves
<1>8. /\ o \in Nat /\ o' \in Nat
      /\ s \in Overlong' => o' = o + 1
      /\ s \notin Overlong' => o' = o
  BY <1>4, <1>6, SizeMoves
\* The counters.
<1>9. {"tool_calls", "ttfa", "policy_blocks", "approval_requests"}
        \subseteq Counters
  BY DEF Counters
<1>10. \A c \in {"tool_calls", "ttfa", "policy_blocks", "approval_requests"} :
         /\ metrics[c] \in Nat
         /\ c \in names => metrics'[c] = metrics[c] + 1
         /\ c \notin names => metrics'[c] = metrics[c]
  BY <1>1, <1>2, <1>9, IncrementedCounts
<1>11. /\ metrics["tool_calls"] = r("tool_call") + n("tool_record")
       /\ metrics["ttfa"] = r("report") - n("fp_state")
       /\ metrics["policy_blocks"] =
            r("approval_request") + n("request") + o
       /\ metrics["approval_requests"] = metrics["policy_blocks"]
  BY DEF MetricsMatchTraces
<1> HIDE DEF r, n, o
<1>12. metrics'["tool_calls"] = r("tool_call")' + n("tool_record")'
  <2>1. CASE task[s].pc = "tool_record"
    <3>1. /\ metrics'["tool_calls"] = metrics["tool_calls"]
          /\ r("tool_call")' = r("tool_call") + 1
          /\ n("tool_record") = n("tool_record")' + 1
      BY <1>1, <1>3, <1>7, <1>10, <2>1 DEF TallyStep
    <3> QED  BY <1>3, <1>7, <1>11, <3>1
  <2>2. CASE task[s].pc # "tool_record"
    <3>1. /\ r("tool_call")' = r("tool_call")
          /\ \/ /\ metrics'["tool_calls"] = metrics["tool_calls"] + 1
                /\ n("tool_record")' = n("tool_record") + 1
             \/ /\ metrics'["tool_calls"] = metrics["tool_calls"]
                /\ n("tool_record")' = n("tool_record")
      BY <1>1, <1>3, <1>7, <1>10, <2>2 DEF TallyStep
    <3> QED  BY <1>3, <1>7, <1>10, <1>11, <3>1
  <2> QED  BY <2>1, <2>2
<1>13. metrics'["ttfa"] = r("report")' - n("fp_state")'
  <2>1. CASE task[s].pc = "fp_state"
    <3>1. /\ metrics'["ttfa"] = metrics["ttfa"] + 1
          /\ r("report")' = r("report")
          /\ n("fp_state") = n("fp_state")' + 1
      BY <1>1, <1>3, <1>7, <1>10, <2>1 DEF TallyStep
    <3> QED  BY <1>3, <1>7, <1>10, <1>11, <3>1
  <2>2. CASE task[s].pc # "fp_state"
    <3>1. \/ /\ metrics'["ttfa"] = metrics["ttfa"] + 1
             /\ r("report")' = r("report") + 1
             /\ n("fp_state")' = n("fp_state")
          \/ /\ metrics'["ttfa"] = metrics["ttfa"]
             /\ r("report")' = r("report") + 1
             /\ n("fp_state")' = n("fp_state") + 1
          \/ /\ metrics'["ttfa"] = metrics["ttfa"]
             /\ r("report")' = r("report")
             /\ n("fp_state")' = n("fp_state")
      BY <1>1, <1>3, <1>7, <1>10, <2>2 DEF TallyStep
    <3> QED  BY <1>3, <1>7, <1>10, <1>11, <3>1
  <2> QED  BY <2>1, <2>2
<1>14. metrics'["policy_blocks"] =
         r("approval_request")' + n("request")' + o'
  <2>1. CASE task[s].pc = "request"
    <3>1. /\ metrics'["policy_blocks"] = metrics["policy_blocks"]
          /\ n("request") = n("request")' + 1
          /\ \/ /\ r("approval_request")' = r("approval_request") + 1
                /\ o' = o
             \/ /\ r("approval_request")' = r("approval_request")
                /\ o' = o + 1
      BY <1>1, <1>3, <1>7, <1>8, <1>10, <2>1 DEF TallyStep
    <3> QED  BY <1>3, <1>7, <1>8, <1>10, <1>11, <3>1
  <2>2. CASE task[s].pc # "request"
    <3>1. /\ r("approval_request")' = r("approval_request") /\ o' = o
          /\ \/ /\ metrics'["policy_blocks"] = metrics["policy_blocks"] + 1
                /\ n("request")' = n("request") + 1
             \/ /\ metrics'["policy_blocks"] = metrics["policy_blocks"]
                /\ n("request")' = n("request")
      BY <1>1, <1>3, <1>7, <1>8, <1>10, <2>2 DEF TallyStep
    <3> QED  BY <1>3, <1>7, <1>8, <1>10, <1>11, <3>1
  <2> QED  BY <2>1, <2>2
<1>15. metrics'["approval_requests"] = metrics'["policy_blocks"]
  BY <1>1, <1>10, <1>11 DEF TallyStep
<1>16. MetricsMatchTraces'
  BY <1>12, <1>13, <1>14, <1>15 DEF MetricsMatchTraces, r, n, o
<1>17. RecordedFinite'
  BY <1>3 DEF RecordedFinite
<1> QED  BY <1>16, <1>17

\* An entry of another type adds none of this one.
LEMMA OtherEntry ==
  ASSUME NEW trace \in Seq(TraceSteps), NEW entry, NEW step,
         entry.step # step
  PROVE  LET new == Append(trace, entry)
         IN  {j \in DOMAIN new : new[j].step = step} =
               {j \in DOMAIN trace : trace[j].step = step}
<1> DEFINE n == Len(trace)
           new == Append(trace, entry)
<1>1. /\ n \in Nat /\ DOMAIN trace = 1..n /\ DOMAIN new = 1..(n + 1)
      /\ new[n + 1] = entry /\ \A i \in 1..n : new[i] = trace[i]
  OBVIOUS
<1> HIDE DEF n, new
<1>2. \A j : j \in DOMAIN new <=> j \in DOMAIN trace \/ j = n + 1
  BY <1>1
<1> QED  BY <1>1, <1>2 DEF new

\* A step that adds no entry of a type to a known session, and makes no session
\* with one known, adds none.
LEMMA RecordedStays ==
  ASSUME NEW step,
         InProcess \cap DOMAIN store \subseteq InProcess' \cap DOMAIN store',
         \A t \in InProcess' \cap DOMAIN store' :
           {j \in DOMAIN store'[t].trace : store'[t].trace[j].step = step} =
             IF t \in InProcess \cap DOMAIN store
             THEN {j \in DOMAIN store[t].trace :
                     store[t].trace[j].step = step}
             ELSE {}
  PROVE  Recorded(step)' = Recorded(step)
<1> DEFINE known == InProcess \cap DOMAIN store
           E(t) == {j \in DOMAIN store[t].trace : store[t].trace[j].step = step}
<1>1. Recorded(step) = UNION {{<<t, i>> : i \in E(t)} : t \in known}
  BY DEF Recorded
<1>2. Recorded(step)' = UNION {{<<t, i>> : i \in E(t)'} : t \in known'}
  BY DEF Recorded
<1>3. /\ known \subseteq known'
      /\ \A t \in known' : E(t)' = IF t \in known THEN E(t) ELSE {}
  OBVIOUS
<1> HIDE DEF known, E
<1> QED  BY <1>1, <1>2, <1>3

\* A process that knows no session has recorded nothing.
LEMMA NothingRecorded ==
  InProcess = {} /\ metrics = [n \in Counters |-> 0] =>
    MetricsMatchTraces /\ RecordedFinite
<1> SUFFICES ASSUME InProcess = {}, metrics = [n \in Counters |-> 0]
             PROVE  MetricsMatchTraces /\ RecordedFinite
  OBVIOUS
<1>1. /\ \A step : Recorded(step) = {}
      /\ \A pcs : AtStep(pcs) = {}
      /\ Overlong = {}
  BY DEF Recorded, AtStep, Overlong
<1>2. Cardinality({}) = 0 /\ IsFiniteSet({})
  BY FS_EmptySet
<1>3. /\ metrics["tool_calls"] = 0 /\ metrics["ttfa"] = 0
      /\ metrics["policy_blocks"] = 0 /\ metrics["approval_requests"] = 0
  BY DEF Counters
<1>4. /\ \A step : Cardinality(Recorded(step)) = 0
      /\ \A pcs : Cardinality(AtStep(pcs)) = 0
      /\ Cardinality(Overlong) = 0
  BY <1>1, <1>2
<1>5. MetricsMatchTraces
  BY <1>3, <1>4 DEF MetricsMatchTraces
<1> QED  BY <1>1, <1>2, <1>5 DEF RecordedFinite

\* Every step keeps counters and traces in agreement.
LEMMA NextKeepsMetrics ==
  ASSUME GateInv, ProgressInv, CountersInv, MetricsMatchTraces,
         RecordedFinite, [Next]_vars
  PROVE  MetricsMatchTraces' /\ RecordedFinite'
<1> SUFFICES ASSUME ~Durable PROVE MetricsMatchTraces' /\ RecordedFinite'
  BY DEF MetricsMatchTraces, RecordedFinite, Durable
<1>1. TypeOK
  BY DEF GateInv
<1>2. ASSUME \A step \in {"tool_call", "report", "approval_request"} :
               Recorded(step)' = Recorded(step),
             \A pc \in {"tool_record", "fp_state", "request"} :
               AtStep({pc})' = AtStep({pc}),
             Overlong' = Overlong,
             \A n \in Counters \ {"http_requests"} : metrics'[n] = metrics[n]
      PROVE  MetricsMatchTraces' /\ RecordedFinite'
  <2>1. /\ metrics'["tool_calls"] = metrics["tool_calls"]
        /\ metrics'["ttfa"] = metrics["ttfa"]
        /\ metrics'["policy_blocks"] = metrics["policy_blocks"]
        /\ metrics'["approval_requests"] = metrics["approval_requests"]
    BY <1>2 DEF Counters
  <2>2. RecordedFinite'
    BY <1>2 DEF RecordedFinite
  <2>3. MetricsMatchTraces'
    BY <1>2, <2>1 DEF MetricsMatchTraces
  <2> QED  BY <2>2, <2>3
<1>3. ASSUME NEW s \in Sessions, Advance(s) \/ Resume(s)
      PROVE  MetricsMatchTraces' /\ RecordedFinite'
  BY <1>3, OwnStep, OwnKeepsMetrics
<1>4. ASSUME NEW s \in Sessions, PostIncident(s)
      PROVE  MetricsMatchTraces' /\ RecordedFinite'
  <2>1. PICK kind \in IncidentKinds :
          store' = [t \in DOMAIN store \cup {s} |->
                      IF t = s THEN CreateSession(kind) ELSE store[t]]
    BY <1>4 DEF PostIncident
  <2>2. store'[s].trace = <<[step |-> "session_created", status |-> "new"]>>
    BY <2>1, CreateSessionEnters, CreateSessionNew, OrchestratorAssumption
  <2>3. /\ task[s].pc = "absent" /\ task'[s].pc = "sync_budget"
        /\ \A t \in Sessions \ {s} : task'[t] = task[t]
        /\ metrics' = metrics
    BY <1>1, <1>4 DEF PostIncident, Goto, TypeOK, Tasks
  <2>4. /\ InProcess' = InProcess \cup {s} /\ s \notin InProcess
        /\ s \notin DOMAIN store
    BY <1>4, <2>3 DEF InProcess, GateInv, SessionInv
  <2>5. ASSUME NEW step \in {"tool_call", "report", "approval_request"}
        PROVE  Recorded(step)' = Recorded(step)
    <3>1. {j \in DOMAIN store'[s].trace : store'[s].trace[j].step = step} = {}
      BY <2>2
    <3>2. \A t \in DOMAIN store : t # s => store'[t] = store[t]
      BY <2>1
    <3>3. InProcess' \cap DOMAIN store' =
            (InProcess \cap DOMAIN store) \cup {s}
      BY <2>1, <2>4
    <3>4. \A t \in InProcess' \cap DOMAIN store' :
            {j \in DOMAIN store'[t].trace : store'[t].trace[j].step = step} =
              IF t \in InProcess \cap DOMAIN store
              THEN {j \in DOMAIN store[t].trace :
                      store[t].trace[j].step = step}
              ELSE {}
      BY <2>4, <3>1, <3>2, <3>3
    <3> QED  BY <3>3, <3>4, RecordedStays
  <2>6. ASSUME NEW pc \in {"tool_record", "fp_state", "request"}
        PROVE  AtStep({pc})' = AtStep({pc})
    BY <2>3, <2>4 DEF AtStep, InProcess
  <2>7. Overlong' = Overlong
    BY <2>3, <2>4 DEF Overlong, AtStep, InProcess
  <2> QED  BY <1>2, <2>3, <2>5, <2>6, <2>7
<1>5. ASSUME NEW s \in Sessions, PostApproval(s)
      PROVE  MetricsMatchTraces' /\ RecordedFinite'
  <2>1. task' = task /\ metrics' = Incremented({"http_requests"})
    BY <1>5 DEF PostApproval
  <2>2. /\ \A n \in Counters \ {"http_requests"} : metrics'[n] = metrics[n]
        /\ InProcess' = InProcess /\ Overlong' = Overlong
        /\ \A pcs : AtStep(pcs)' = AtStep(pcs)
    BY <2>1 DEF Incremented, InProcess, Overlong, AtStep
  <2>3. ASSUME NEW step \in {"tool_call", "report", "approval_request"}
        PROVE  Recorded(step)' = Recorded(step)
    <3>1. CASE store' = store
      BY <2>2, <3>1 DEF Recorded
    <3>2. CASE \E id \in Sessions, decision \in Decisions :
                 /\ Approvable(s, id)
                 /\ Write(s, ApplyApproval(store[s], decision))
      <4>1. PICK id \in Sessions, decision \in Decisions :
              /\ Approvable(s, id)
              /\ Write(s, ApplyApproval(store[s], decision))
        BY <3>2
      <4> DEFINE row == store[s]
                 new == ApplyApproval(row, decision)
                 E(trace) == {j \in DOMAIN trace : trace[j].step = step}
      <4>2. /\ s \in DOMAIN store /\ row \in Rows
            /\ row.trace \in Seq(TraceSteps)
            /\ row.status = "waiting_approval"
        BY <1>1, <4>1 DEF Approvable, TypeOK, Rows
      <4>3. /\ DOMAIN store' = DOMAIN store /\ store'[s] = new
            /\ \A t \in DOMAIN store : t # s => store'[t] = store[t]
        BY <4>1, <4>2 DEF Write
      <4> DEFINE moved == [step |-> "status_transition", status |-> new.status]
                 decided == [step |-> "approval_decision",
                             status |-> new.status]
      <4>4. \/ new.trace = Append(row.trace, decided)
            \/ new.trace = Append(Append(row.trace, moved), decided)
        BY <4>2, ApplyApprovalEnters
      <4>5. /\ moved.step # step /\ decided.step # step
            /\ moved \in TraceSteps
        <5>1. new.status \in Statuses
          BY <4>2, ApplyApprovalResolves
             DEF DecidedStatus, Statuses
        <5> QED  BY <5>1 DEF TraceSteps, StepTypes
      <4> HIDE DEF new, moved, decided
      <4>6. E(Append(row.trace, decided)) = E(row.trace)
        BY <4>2, <4>5, OtherEntry
      <4>7. /\ E(Append(row.trace, moved)) = E(row.trace)
            /\ Append(row.trace, moved) \in Seq(TraceSteps)
        BY <4>2, <4>5, OtherEntry
      <4>8. E(Append(Append(row.trace, moved), decided)) = E(row.trace)
        BY <4>5, <4>7, OtherEntry
      <4>9. E(store'[s].trace) = E(store[s].trace)
        BY <4>3, <4>4, <4>6, <4>8
      <4>10. \A t \in InProcess' \cap DOMAIN store' :
               /\ t \in InProcess \cap DOMAIN store
               /\ E(store'[t].trace) = E(store[t].trace)
        BY <2>2, <4>3, <4>9
      <4>11. InProcess \cap DOMAIN store \subseteq
               InProcess' \cap DOMAIN store'
        BY <2>2, <4>3
      <4> QED  BY <4>10, <4>11, RecordedStays
    <3> QED  BY <1>5, <3>1, <3>2 DEF PostApproval
  <2> QED  BY <1>2, <2>2, <2>3
<1>6. CASE UNCHANGED <<store, task, metrics>>
  <2>1. /\ \A step : Recorded(step)' = Recorded(step)
        /\ \A pcs : AtStep(pcs)' = AtStep(pcs)
        /\ Overlong' = Overlong
    BY <1>6 DEF InProcess, AtStep, Overlong, Recorded
  <2> QED  BY <1>2, <1>6, <2>1
<1>7. CASE Restart
  <2>1. /\ \A s \in Sessions : task'[s].pc \in {"absent", "gone"}
        /\ metrics' = [n \in Counters |-> 0]
    BY <1>1, <1>7 DEF Restart, TypeOK, Tasks
  <2>2. InProcess' = {}
    BY <2>1 DEF InProcess
  <2>3. (InProcess = {} /\ metrics = [n \in Counters |-> 0] =>
           MetricsMatchTraces /\ RecordedFinite)'
    BY NothingRecorded, PTL
  <2> QED  BY <2>1, <2>2, <2>3
<1> QED  BY <1>3, <1>4, <1>5, <1>6, <1>7
         DEF Next, vars, Expire, CommitFails, ApprovalCommitFails

\* Tool calls, results and policy blocks are counted as often as the stored
\* traces show them, up to the one step between a commit and its counter.
THEOREM MetricsMatchTheTraces == Spec => []MetricsMatchTraces
<1>1. Init => MetricsMatchTraces /\ RecordedFinite
  <2> SUFFICES ASSUME Init PROVE MetricsMatchTraces /\ RecordedFinite
    OBVIOUS
  <2>1. \A s \in Sessions : task[s].pc = "absent"
    BY DEF Init, NoTask
  <2>2. InProcess = {} /\ metrics = [n \in Counters |-> 0]
    BY <2>1 DEF InProcess, Init
  <2> QED  BY <2>2, NothingRecorded
<1>2. GateInv /\ ProgressInv /\ CountersInv /\ MetricsMatchTraces
        /\ RecordedFinite /\ [Next]_vars
        => (MetricsMatchTraces /\ RecordedFinite)'
  BY NextKeepsMetrics
<1> QED  BY <1>1, <1>2, GateHolds, ProgressHolds, CountersHold, PTL DEF Spec
=============================================================================

---------------------------- MODULE ProgressProofs ----------------------------
(***************************************************************************)
(* What each step of a triage does to its own session, kind by kind, and   *)
(* from it the inductive invariant ProgressInv: the evidence is accounted  *)
(* for, reports fit their outcome, pending requests are explained and a    *)
(* client is answered 201 for a settled session only.                      *)
(***************************************************************************)
EXTENDS TriageProofs

-----------------------------------------------------------------------------
(* Kinds of steps. *)

\* A coroutine's step leaves the other sessions, and what only clients and the
\* environment change, alone.
Own(s) ==
  /\ loop \in {s, Idle}
  /\ task[s].pc \in Live
  /\ s \in DOMAIN store /\ DOMAIN store' = DOMAIN store
  /\ \A t \in DOMAIN store \ {s} : store'[t] = store[t]
  /\ \A t \in Sessions \ {s} : task'[t] = task[t] /\ response'[t] = response[t]
  /\ Rest
  /\ store[s] \in Rows /\ store'[s] \in Rows
  /\ task[s] \in Tasks /\ task'[s] \in Tasks

\* The session's coroutine goes to another step and keeps its locals, but for
\* tool_calls_before_executing, which only AnyToolFailed reads.
Moved(s, pc) ==
  /\ task'[s].pc = pc
  /\ task'[s].used = task[s].used /\ task'[s].tool = task[s].tool
  /\ task'[s].ok = task[s].ok /\ task'[s].llm = task[s].llm
  /\ task'[s].why = task[s].why /\ task'[s].nested = task[s].nested

\* The row is given a status, and keeps its report, request and evidence.
StatusSet(row, new, status) ==
  /\ new.status = status
  /\ new.report = row.report /\ new.request = row.request
  /\ new.reason = row.reason
  /\ SameEvidence(row, new)

\* The coroutine keeps the loop, and answers and counts nothing.
Goes == UNCHANGED <<loop, response, metrics>>

\* The coroutine ends with an exception and writes nothing.
Raises(s) ==
  /\ store' = store
  /\ Moved(s, "raised")
  /\ loop' = Idle
  /\ response'[s] = "500"
  /\ metrics' = Incremented({"http_requests_failed"})

\* A coroutine's step keeps to its own session.
LEMMA OwnStep ==
  ASSUME GateInv, NEW s \in Sessions, Advance(s) \/ Resume(s)
  PROVE  Own(s)
<1>1. GateInv'
  BY NextKeepsGate DEF Next
<1>2. TypeOK /\ TypeOK' /\ SessionInv(s)
  BY <1>1 DEF GateInv
<1>3. /\ task[s].pc \in Live
      /\ \A t \in DOMAIN store : t # s => store'[t] = store[t]
  BY OwnRowOnly
<1>4. s \in DOMAIN store
  BY <1>2, <1>3 DEF SessionInv
<1>5. /\ loop \in {s, Idle} /\ DOMAIN store' = DOMAIN store
      /\ Rest
      /\ \A t \in Sessions \ {s} :
           task'[t] = task[t] /\ response'[t] = response[t]
  <2>1. task \in [Sessions -> Tasks] /\ DOMAIN response = Sessions
    BY <1>2 DEF TypeOK
  <2> USE <2>1 DEF At, Call, CallAndCount, Write, ChangeStatus, Proceed, Goto,
                   Raise, Return, Degrade, LeaveTool
  <2>2. CASE \/ SyncBudget(s) \/ Validate(s) \/ Planning(s) \/ StorePlan(s)
             \/ BudgetSpentAtStart(s) \/ ForceFailure(s) \/ ForcedToolFailed(s)
             \/ Retrieve(s) \/ BudgetSpentBeforeTool(s) \/ StartTool(s)
             \/ RecordTool(s) \/ ToolSyncBudget(s) \/ ToolObserve(s)
    BY <2>2 DEF SyncBudget, Validate, Planning, StorePlan, BudgetSpentAtStart,
                ForceFailure, ForcedToolFailed, Retrieve,
                BudgetSpentBeforeTool, StartTool, RecordTool, ToolSyncBudget,
                ToolObserve
  <2>3. CASE \/ Execute(s) \/ ToolsFailed(s) \/ TraceToolsFailed(s)
             \/ Analyze(s) \/ ContextRejected(s) \/ AssembleContext(s)
             \/ BuildPrompt(s) \/ CheckSanitization(s)
             \/ TimeSpentBeforeLlm(s) \/ StartLlm(s) \/ TraceLlm(s)
             \/ CheckGroundedness(s) \/ StoreReport(s) \/ ReportRejected(s)
             \/ LlmUnimplemented(s)
    BY <2>3 DEF Execute, ToolsFailed, TraceToolsFailed, Analyze,
                ContextRejected, AssembleContext, BuildPrompt,
                CheckSanitization, TimeSpentBeforeLlm, StartLlm, TraceLlm,
                CheckGroundedness, StoreReport, ReportRejected,
                LlmUnimplemented
  <2>4. CASE \/ Complete(s) \/ BlockByPolicy(s) \/ RequestApproval(s)
             \/ RequestRejected(s) \/ TracePolicy(s) \/ AwaitApproval(s)
             \/ FinalizeReport(s) \/ FinalizeState(s) \/ FinalizeTrace(s)
             \/ FinalizeNormalize(s) \/ FinalizePartial(s)
    BY <2>4 DEF Complete, BlockByPolicy, RequestApproval, RequestRejected,
                TracePolicy, AwaitApproval, FinalizeReport, FinalizeState,
                FinalizeTrace, FinalizeNormalize, FinalizePartial
  <2>5. CASE Resume(s)
    BY <2>5 DEF Resume, ToolDone, ToolRaises, LlmDone, LlmTimeout, LlmRaises
  <2> QED  BY <2>2, <2>3, <2>4, <2>5 DEF Advance
<1> QED  BY <1>2, <1>3, <1>4, <1>5 DEF Own, TypeOK

\* Goto keeps the locals.
LEMMA GotoMoves ==
  ASSUME TypeOK, NEW s \in Sessions, NEW pc \in Pcs, Goto(s, pc)
  PROVE  Moved(s, pc)
<1>1. task[s] \in Tasks /\ task'[s] = [task[s] EXCEPT !.pc = pc]
  BY GotoEffect DEF TypeOK
<1> QED  BY <1>1 DEF Moved, Tasks

\* An exception leaves the loop to the others and answers 500.
LEMMA RaiseRaises ==
  ASSUME TypeOK, NEW s \in Sessions, Raise(s, {}), UNCHANGED store
  PROVE  Raises(s)
<1>1. "raised" \in Pcs
  BY DEF Pcs, Ended
<1>2. Moved(s, "raised")
  BY <1>1, GotoMoves DEF Raise
<1>3. response'[s] = "500" /\ loop' = Idle
  BY DEF Raise, TypeOK
<1>4. {} \cup {"http_requests_failed"} = {"http_requests_failed"}
  OBVIOUS
<1>5. metrics' = Incremented({"http_requests_failed"})
  BY <1>4 DEF Raise
<1> QED  BY <1>2, <1>3, <1>5 DEF Raises

\* A repository call followed by the next step.
LEMMA CallMoves ==
  ASSUME TypeOK, NEW s \in DOMAIN store, NEW row, NEW pc \in Live,
         Call(s, row, pc)
  PROVE  Moved(s, pc) /\ store'[s] = row /\ Goes
<1>1. s \in Sessions /\ pc \in Pcs
  BY DEF TypeOK, Pcs
<1> QED  BY <1>1, GotoMoves DEF Call, Proceed, Write, Goes

\* The same with counters.
LEMMA CountingCallMoves ==
  ASSUME TypeOK, NEW s \in DOMAIN store, NEW row, NEW pc \in Live, NEW names,
         CallAndCount(s, row, pc, names)
  PROVE  /\ Moved(s, pc) /\ store'[s] = row
         /\ metrics' = Incremented(names) /\ UNCHANGED <<loop, response>>
<1>1. s \in Sessions /\ pc \in Pcs
  BY DEF TypeOK, Pcs
<1> QED  BY <1>1, GotoMoves DEF CallAndCount, Write

\* The steps that only trace, with the step after each.
TraceHops ==
  {<<"plan", "preflight">>, <<"tool_failed_trace", "analyzing">>,
   <<"context", "prompt">>, <<"prompt", "sanitize">>,
   <<"sanitize", "llm_call">>, <<"llm_trace", "ground">>,
   <<"ground", "report">>, <<"policy_trace", "await_approval">>,
   <<"fp_trace", "fp_normalize">>, <<"fp_normalize", "fp_partial">>}

\* Recording a step, or finding nothing to normalize.
LEMMA TraceEffect ==
  ASSUME GateInv, NEW s \in Sessions, Own(s),
         \/ StorePlan(s) \/ TraceToolsFailed(s) \/ AssembleContext(s)
         \/ BuildPrompt(s) \/ CheckSanitization(s) \/ TraceLlm(s)
         \/ CheckGroundedness(s) \/ TracePolicy(s) \/ FinalizeTrace(s)
         \/ /\ FinalizeNormalize(s)
            /\ Normalized(store[s].status) = store[s].status
  PROVE  \E hop \in TraceHops :
           /\ task[s].pc = hop[1] /\ loop = s /\ Moved(s, hop[2])
           /\ StatusSet(store[s], store'[s], store[s].status)
           /\ Goes
<1> USE DEF At, TraceHops
<1>1. TypeOK /\ s \in DOMAIN store /\ store[s] \in Rows
  BY DEF GateInv, Own
<1>2. ASSUME NEW step \in StepTypes, NEW pc \in Live,
             Call(s, AppendTrace(store[s], step), pc)
      PROVE  /\ Moved(s, pc) /\ Goes
             /\ StatusSet(store[s], store'[s], store[s].status)
  <2>1. Moved(s, pc) /\ store'[s] = AppendTrace(store[s], step) /\ Goes
    BY <1>1, <1>2, CallMoves
  <2>2. Keeps(store[s], store'[s]) /\ SameEvidence(store[s], store'[s])
    BY <1>1, <2>1, AppendTraceKeeps, EvidenceKept
  <2> QED  BY <2>1, <2>2 DEF Keeps, StatusSet
<1>3. {"tool_failed", "context_assembly", "prompt_build",
       "sanitization_check", "llm_analysis", "groundedness_check",
       "policy_check", "degradation"} \subseteq StepTypes
  BY DEF StepTypes
<1>4. {"preflight", "analyzing", "prompt", "sanitize", "llm_call", "ground",
       "report", "await_approval", "fp_normalize", "fp_partial"}
        \subseteq Live
  BY DEF Live, Active
<1>5. CASE StorePlan(s)
  <2>1. /\ Moved(s, "preflight") /\ Goes
        /\ store'[s] = UpdateInvestigationPlan(store[s])
    BY <1>1, <1>4, <1>5, CallMoves DEF StorePlan
  <2>2. Keeps(store[s], store'[s]) /\ SameEvidence(store[s], store'[s])
    BY <1>1, <2>1, UpdateInvestigationPlanKeeps, EvidenceKept
  <2> QED  BY <1>5, <2>1, <2>2 DEF StorePlan, Keeps, StatusSet
<1>6. CASE /\ FinalizeNormalize(s)
           /\ Normalized(store[s].status) = store[s].status
  <2>1. "fp_partial" \in Pcs /\ Goto(s, "fp_partial") /\ Goes
    BY <1>6 DEF FinalizeNormalize, Proceed, Goes, Pcs, Live, Active
  <2>2. Moved(s, "fp_partial")
    BY <1>1, <2>1, GotoMoves
  <2> QED  BY <1>6, <2>1, <2>2
           DEF FinalizeNormalize, StatusSet, SameEvidence
<1>7. CASE TraceToolsFailed(s)
  BY <1>2, <1>3, <1>4, <1>7 DEF TraceToolsFailed
<1>8. CASE AssembleContext(s)
  BY <1>2, <1>3, <1>4, <1>8 DEF AssembleContext
<1>9. CASE BuildPrompt(s)
  BY <1>2, <1>3, <1>4, <1>9 DEF BuildPrompt
<1>10. CASE CheckSanitization(s)
  BY <1>2, <1>3, <1>4, <1>10 DEF CheckSanitization
<1>11. CASE TraceLlm(s)
  BY <1>2, <1>3, <1>4, <1>11 DEF TraceLlm
<1>12. CASE CheckGroundedness(s)
  BY <1>2, <1>3, <1>4, <1>12 DEF CheckGroundedness
<1>13. CASE TracePolicy(s)
  BY <1>2, <1>3, <1>4, <1>13 DEF TracePolicy
<1>14. CASE FinalizeTrace(s)
  BY <1>2, <1>3, <1>4, <1>14 DEF FinalizeTrace
<1> QED  BY <1>5, <1>6, <1>7, <1>8, <1>9, <1>10, <1>11, <1>12, <1>13, <1>14

\* The statuses a triage passes through, with the steps before and after.
PassHops ==
  {<<"validate", "validating_input", "planning">>,
   <<"planning", "planning", "plan">>,
   <<"preflight", "executing_tools", "force_fail">>,
   <<"preflight", "retrieving", "tool">>,
   <<"executed", "tool_failed", "tool_failed_trace">>,
   <<"executed", "analyzing", "context">>,
   <<"analyzing", "analyzing", "context">>,
   <<"executing", "executing_tools", "tool">>,
   <<"fp_normalize", "tool_failed", "fp_partial">>,
   <<"fp_normalize", "analyzing", "fp_partial">>}

\* A status change on the way is made, or raises.
LEMMA PassEffect ==
  ASSUME GateInv, NEW s \in Sessions, Own(s),
         \/ Validate(s) \/ Planning(s) \/ ForceFailure(s) \/ Retrieve(s)
         \/ ToolsFailed(s) \/ Analyze(s) \/ Execute(s)
         \/ /\ FinalizeNormalize(s)
            /\ Normalized(store[s].status) # store[s].status
  PROVE  \/ Raises(s)
         \/ \E hop \in PassHops :
              /\ task[s].pc = hop[1] /\ loop = s /\ Moved(s, hop[3])
              /\ CanTransition(store[s].status, hop[2])
              /\ StatusSet(store[s], store'[s], hop[2])
              /\ Goes
<1> USE DEF At, PassHops
<1>1. TypeOK /\ s \in DOMAIN store /\ store[s] \in Rows
  BY DEF GateInv, Own
<1>2. ASSUME NEW status \in Statuses, NEW pc \in Live,
             ChangeStatus(s, status, Proceed(s, pc))
      PROVE  \/ Raises(s)
             \/ /\ Moved(s, pc) /\ Goes
                /\ CanTransition(store[s].status, status)
                /\ StatusSet(store[s], store'[s], status)
  <2>1. CASE Raise(s, {}) /\ UNCHANGED store
    BY <1>1, <2>1, RaiseRaises
  <2>2. CASE /\ CanTransition(store[s].status, status)
             /\ Call(s, UpdateStatus(store[s], status), pc)
    <3>1. Moved(s, pc) /\ store'[s] = UpdateStatus(store[s], status) /\ Goes
      BY <1>1, <2>2, CallMoves
    <3> QED  BY <1>1, <2>2, <3>1, UpdateStatusSets, EvidenceKept DEF StatusSet
  <2> QED  BY <1>2, <2>1, <2>2 DEF ChangeStatus, Call
<1>3. {"validating_input", "planning", "executing_tools", "retrieving",
       "tool_failed", "analyzing"} \subseteq Statuses
  BY DEF Statuses
<1>4. {"planning", "plan", "force_fail", "tool", "tool_failed_trace",
       "context"} \subseteq Live
  BY DEF Live, Active
<1>5. CASE Validate(s)
  BY <1>2, <1>3, <1>4, <1>5 DEF Validate
<1>6. CASE Planning(s)
  BY <1>2, <1>3, <1>4, <1>6 DEF Planning
<1>7. CASE ForceFailure(s)
  BY <1>2, <1>3, <1>4, <1>7 DEF ForceFailure
<1>8. CASE Retrieve(s)
  BY <1>2, <1>3, <1>4, <1>8 DEF Retrieve
<1>9. CASE ToolsFailed(s)
  BY <1>2, <1>3, <1>4, <1>9 DEF ToolsFailed
<1>10. CASE Analyze(s)
  BY <1>2, <1>3, <1>4, <1>10 DEF Analyze
<1>11. CASE Execute(s)
  <2>1. CASE Raise(s, {}) /\ UNCHANGED store
    BY <1>1, <2>1, RaiseRaises
  <2>2. CASE /\ CanTransition(store[s].status, "executing_tools")
             /\ Write(s, UpdateStatus(store[s], "executing_tools"))
             /\ task' = [task EXCEPT ![s].pc = "tool",
                                     ![s].base = Len(store[s].calls)]
             /\ UNCHANGED <<loop, metrics, response>>
    <3>1. task[s] \in Tasks /\ s \in DOMAIN task
      BY <1>1 DEF TypeOK
    <3>2. Moved(s, "tool") /\ Goes
      BY <2>2, <3>1 DEF Moved, Goes, Tasks
    <3>3. store'[s] = UpdateStatus(store[s], "executing_tools")
      BY <1>1, <2>2 DEF Write
    <3> QED  BY <1>1, <1>3, <1>11, <2>2, <3>2, <3>3, UpdateStatusSets,
                EvidenceKept
             DEF StatusSet, Execute
  <2> QED  BY <1>11, <2>1, <2>2 DEF Execute, ChangeStatus
<1>12. CASE /\ FinalizeNormalize(s)
            /\ Normalized(store[s].status) # store[s].status
  <2> DEFINE next == Normalized(store[s].status)
  <2>1. /\ next \in {"tool_failed", "analyzing"}
        /\ CanTransition(store[s].status, next)
    BY <1>12 DEF Normalized
  <2> HIDE DEF next
  <2>2. Call(s, UpdateStatus(store[s], next), "fp_partial")
    BY <1>12 DEF FinalizeNormalize, Call, next
  <2>3. /\ Moved(s, "fp_partial") /\ Goes
        /\ store'[s] = UpdateStatus(store[s], next)
    BY <1>1, <2>2, CallMoves DEF Live, Active
  <2>4. StatusSet(store[s], store'[s], next)
    <3>1. next \in Statuses
      BY <1>3, <2>1
    <3> HIDE DEF PassHops
    <3> QED  BY <1>1, <2>3, <3>1, UpdateStatusSets, EvidenceKept DEF StatusSet
  <2>5. task[s].pc = "fp_normalize" /\ loop = s
    BY <1>12 DEF FinalizeNormalize
  <2>6. <<"fp_normalize", next, "fp_partial">> \in PassHops
    BY <2>1
  <2> QED  BY <2>1, <2>3, <2>4, <2>5, <2>6
<1> QED  BY <1>5, <1>6, <1>7, <1>8, <1>9, <1>10, <1>11, <1>12

\* _finalize_partial is called with a reason.
Degrades(s, why, nested) ==
  /\ task'[s].pc = "fp_report" /\ task'[s].why = why
  /\ task'[s].nested = nested
  /\ task'[s].used = task[s].used /\ task'[s].tool = task[s].tool
  /\ task'[s].ok = task[s].ok /\ task'[s].llm = task[s].llm

\* Degrade does that.
LEMMA DegradeDegrades ==
  ASSUME TypeOK, NEW s \in Sessions, NEW why, NEW nested,
         Degrade(s, why, nested)
  PROVE  Degrades(s, why, nested) /\ response' = response
<1>1. task[s] \in Tasks /\ s \in DOMAIN task
  BY DEF TypeOK
<1> QED  BY <1>1 DEF Degrade, Degrades, Tasks

\* Where the triage gives up, why, whether in a tool, and what it counts.
GiveUp(from, why, nested, names) ==
  [from |-> from, why |-> why, nested |-> nested, names |-> names]

\* The steps at which a triage gives up.
DegradeHops ==
  {GiveUp("preflight", "budget_before_start", FALSE,
          {"session_budget_exhausted"}),
   GiveUp("tool", "budget_before_tool", TRUE, {}),
   GiveUp("llm_call", "time_before_llm", FALSE, {"session_budget_exhausted"}),
   GiveUp("llm_wait", "llm_timeout", FALSE, {"llm_calls_failed", "fallback"})}

\* Giving up writes nothing.
LEMMA GiveUpEffect ==
  ASSUME GateInv, NEW s \in Sessions, Own(s),
         \/ BudgetSpentAtStart(s) \/ BudgetSpentBeforeTool(s)
         \/ TimeSpentBeforeLlm(s) \/ LlmTimeout(s)
  PROVE  \E hop \in DegradeHops :
           /\ task[s].pc = hop.from /\ Degrades(s, hop.why, hop.nested)
           /\ store' = store /\ response' = response /\ loop' = s
           /\ metrics' = Incremented(hop.names)
<1> USE DEF At, DegradeHops, GiveUp
<1>1. TypeOK
  BY DEF GateInv
<1>2. metrics = Incremented({})
  BY <1>1 DEF Incremented, TypeOK
<1>3. CASE BudgetSpentAtStart(s)
  BY <1>1, <1>3, DegradeDegrades DEF BudgetSpentAtStart
<1>4. CASE BudgetSpentBeforeTool(s)
  BY <1>1, <1>2, <1>4, DegradeDegrades DEF BudgetSpentBeforeTool
<1>5. CASE TimeSpentBeforeLlm(s)
  BY <1>1, <1>5, DegradeDegrades DEF TimeSpentBeforeLlm
<1>6. CASE LlmTimeout(s)
  BY <1>1, <1>6, DegradeDegrades DEF LlmTimeout
<1> QED  BY <1>3, <1>4, <1>5, <1>6

\* The forced failure degrades from the status of a failed tool.
LEMMA ForcedEffect ==
  ASSUME GateInv, NEW s \in Sessions, Own(s), ForcedToolFailed(s)
  PROVE  \/ Raises(s)
         \/ /\ task[s].pc = "force_fail" /\ loop = s
            /\ Degrades(s, "forced_failure", FALSE) /\ Goes
            /\ CanTransition(store[s].status, "tool_failed")
            /\ StatusSet(store[s], store'[s], "tool_failed")
<1>1. TypeOK /\ s \in DOMAIN store /\ store[s] \in Rows
  BY DEF GateInv, Own
<1>2. CASE Raise(s, {}) /\ UNCHANGED store
  BY <1>1, <1>2, RaiseRaises
<1>3. CASE /\ CanTransition(store[s].status, "tool_failed")
           /\ Write(s, UpdateStatus(store[s], "tool_failed"))
           /\ Degrade(s, "forced_failure", FALSE) /\ UNCHANGED <<loop, metrics>>
  <2>1. Degrades(s, "forced_failure", FALSE) /\ Goes
    BY <1>1, <1>3, DegradeDegrades DEF Goes
  <2>2. /\ store'[s] = UpdateStatus(store[s], "tool_failed")
        /\ "tool_failed" \in Statuses
    BY <1>1, <1>3 DEF Write, Statuses
  <2>3. StatusSet(store[s], store'[s], "tool_failed")
    BY <1>1, <2>2, UpdateStatusSets, EvidenceKept DEF StatusSet
  <2> QED  BY <1>3, <2>1, <2>3 DEF ForcedToolFailed, At
<1> QED  BY <1>2, <1>3 DEF ForcedToolFailed, ChangeStatus

\* The exceptions that no handler turns into a result.
LEMMA RaiseEffect ==
  ASSUME GateInv, NEW s \in Sessions,
         \/ ToolRaises(s) \/ LlmRaises(s) \/ ContextRejected(s)
         \/ RequestRejected(s) \/ ReportRejected(s) \/ LlmUnimplemented(s)
         \/ CommitFails(s)
  PROVE  Raises(s)
BY RaiseRaises DEF GateInv, ToolRaises, LlmRaises, ContextRejected,
   RequestRejected, ReportRejected, LlmUnimplemented, CommitFails

-----------------------------------------------------------------------------
(* The steps that touch the evidence, the report or the answer. *)

\* What a step does to the locals that the invariants read.
Locals(s, used, tool, ok, llm) ==
  /\ task'[s].used = used /\ task'[s].tool = tool
  /\ task'[s].ok = ok /\ task'[s].llm = llm
  /\ task'[s].why = task[s].why /\ task'[s].nested = task[s].nested

\* The two awaits and what ends them, and the policy's block, write nothing.
LEMMA StartToolEffect ==
  ASSUME GateInv, NEW s \in Sessions, Own(s), StartTool(s)
  PROVE  /\ task[s].pc = "tool" /\ task[s].used < MaxToolCalls
         /\ task'[s].pc = "tool_wait"
         /\ Locals(s, task[s].used + 1, task[s].tool, task[s].ok, task[s].llm)
         /\ loop' = Idle /\ UNCHANGED <<store, metrics, response>>
<1>1. task[s] \in Tasks /\ s \in DOMAIN task
  BY DEF GateInv, TypeOK
<1>2. task[s].used \in Nat
  BY <1>1 DEF Tasks
<1>3. task[s].used < MaxToolCalls
  BY <1>2, OrchestratorAssumption DEF StartTool, Exhausted
<1> QED  BY <1>1, <1>3 DEF StartTool, At, Locals, Tasks

\* A tool call ends: its outcome is kept and counted.
LEMMA ToolDoneEffect ==
  ASSUME GateInv, NEW s \in Sessions, Own(s), ToolDone(s)
  PROVE  \E ok \in BOOLEAN :
           /\ task[s].pc = "tool_wait" /\ task'[s].pc = "tool_record"
           /\ Locals(s, task[s].used, task[s].tool, ok, task[s].llm)
           /\ loop = Idle /\ loop' = s /\ UNCHANGED <<store, response>>
           /\ metrics' = Incremented({"tool_calls"} \cup
                           IF ok THEN {} ELSE {"tool_calls_failed"})
<1>1. task[s] \in Tasks /\ s \in DOMAIN task
  BY DEF GateInv, TypeOK
<1>2. PICK outcome \in ToolOutcomes \ {"raise"} :
        /\ metrics' = Incremented({"tool_calls"} \cup
             IF outcome = "failed" THEN {"tool_calls_failed"} ELSE {})
        /\ task' = [task EXCEPT ![s].pc = "tool_record",
                                ![s].ok = (outcome = "success")]
  BY DEF ToolDone
<1>3. outcome = "success" \/ outcome = "failed"
  BY OrchestratorAssumption
<1> DEFINE ok == outcome = "success"
<1>4. ok \in BOOLEAN
  OBVIOUS
<1>5. /\ task'[s].pc = "tool_record"
      /\ Locals(s, task[s].used, task[s].tool, ok, task[s].llm)
  BY <1>1, <1>2 DEF Locals, Tasks
<1>6. metrics' = Incremented({"tool_calls"} \cup
                   IF ok THEN {} ELSE {"tool_calls_failed"})
  <2>1. CASE outcome = "success"
    BY <1>2, <2>1
  <2>2. CASE outcome = "failed"
    BY <1>2, <2>2
  <2> QED  BY <1>3, <2>1, <2>2
<1> HIDE DEF ok
<1> QED  BY <1>4, <1>5, <1>6 DEF ToolDone

\* The LLM call begins, or is answered.
LEMMA LlmAwaitEffect ==
  ASSUME GateInv, NEW s \in Sessions, Own(s), StartLlm(s) \/ LlmDone(s)
  PROVE  \/ /\ task[s].pc = "llm_call" /\ Moved(s, "llm_wait")
            /\ loop = s /\ loop' = Idle /\ UNCHANGED <<store, response>>
            /\ metrics' = Incremented({"llm_calls"})
         \/ \E answer \in Answers :
              /\ task[s].pc = "llm_wait" /\ task'[s].pc = "llm_trace"
              /\ Locals(s, task[s].used, task[s].tool, task[s].ok, answer)
              /\ loop = Idle /\ loop' = s /\ UNCHANGED <<store, response>>
              /\ metrics' = Incremented(Counted(answer))
<1>1. TypeOK /\ task[s] \in Tasks /\ s \in DOMAIN task
  BY DEF GateInv, TypeOK
<1>2. CASE StartLlm(s)
  <2>1. "llm_wait" \in Pcs
    BY DEF Pcs, Live, Suspended
  <2> QED  BY <1>1, <1>2, <2>1, GotoMoves DEF StartLlm, At
<1>3. CASE LlmDone(s)
  <2>1. PICK answer \in Answers :
          /\ metrics' = Incremented(Counted(answer))
          /\ task' = [task EXCEPT ![s].pc = "llm_trace", ![s].llm = answer]
    BY <1>3 DEF LlmDone
  <2>2. /\ task'[s].pc = "llm_trace"
        /\ Locals(s, task[s].used, task[s].tool, task[s].ok, answer)
    BY <1>1, <2>1 DEF Locals, Tasks
  <2> QED  BY <1>3, <2>1, <2>2 DEF LlmDone
<1> QED  BY <1>2, <1>3

\* The policy blocks a risky report, and counts it twice.
LEMMA BlockEffect ==
  ASSUME GateInv, NEW s \in Sessions, Own(s), BlockByPolicy(s)
  PROVE  /\ task[s].pc = "decide" /\ Risky(s) /\ Moved(s, "request")
         /\ loop = s /\ UNCHANGED <<store, loop, response>>
         /\ metrics' = Incremented({"policy_blocks", "approval_requests"})
<1>1. TypeOK /\ "request" \in Pcs
  BY DEF GateInv, Pcs, Live, Active
<1> QED  BY <1>1, GotoMoves DEF BlockByPolicy, At

\* The status, report, request and reason of a row.
SameResult(row, new) ==
  /\ new.status = row.status /\ new.report = row.report
  /\ new.request = row.request /\ new.reason = row.reason

\* _run_tool returns with the next tool at hand.
LEMMA LeaveToolLocals ==
  ASSUME TypeOK, NEW s \in Sessions, LeaveTool(s)
  PROVE  Locals(s, task[s].used, task'[s].tool, task[s].ok, task[s].llm)
<1>1. task[s] \in Tasks /\ s \in DOMAIN task
  BY DEF TypeOK
<1> QED  BY <1>1 DEF LeaveTool, Locals, Tasks

\* The commits of _run_tool and the first one of the triage.
LEMMA ToolEffect ==
  ASSUME GateInv, NEW s \in Sessions, Own(s),
         \/ SyncBudget(s) \/ RecordTool(s) \/ ToolSyncBudget(s)
         \/ ToolObserve(s)
  PROVE  /\ SameResult(store[s], store'[s]) /\ Goes /\ loop = s
         /\ \/ /\ task[s].pc = "sync_budget" /\ Moved(s, "validate")
               /\ store'[s].calls = store[s].calls
               /\ store'[s].observations = store[s].observations
               /\ store'[s].budget = Remaining(s)
            \/ /\ task[s].pc = "tool_record" /\ Moved(s, "tool_sync")
               /\ store'[s].calls = Append(store[s].calls,
                    [tool |-> task[s].tool, ok |-> task[s].ok])
               /\ store'[s].observations = store[s].observations
               /\ store'[s].budget = store[s].budget
            \/ /\ task[s].pc = "tool_sync" /\ Moved(s, "tool_observe")
               /\ store'[s].calls = store[s].calls
               /\ store'[s].observations = store[s].observations
               /\ store'[s].budget = Remaining(s)
            \/ /\ task[s].pc = "tool_observe"
               /\ task'[s].pc \in {"executing", "tool", "executed"}
               /\ Locals(s, task[s].used, task'[s].tool, task[s].ok,
                         task[s].llm)
               /\ store'[s].calls = store[s].calls
               /\ store'[s].observations = store[s].observations + 1
               /\ store'[s].budget = store[s].budget
<1>1. /\ TypeOK /\ s \in DOMAIN store /\ store[s] \in Rows
      /\ task[s] \in Tasks /\ s \in DOMAIN task
  BY DEF GateInv, Own, TypeOK
<1>2. /\ Remaining(s) \in Nat /\ store[s].reason \in Reasons
      /\ store[s].reason = store[s].reason
  BY <1>1, RemainingType DEF Rows
<1>3. LET new == UpdateSessionState(store[s], Remaining(s), store[s].reason)
      IN  /\ SameResult(store[s], new)
          /\ new.calls = store[s].calls
          /\ new.observations = store[s].observations
          /\ new.budget = Remaining(s)
  BY <1>1, <1>2, UpdateSessionStateKeeps, EvidenceAdded DEF SameResult
<1>4. CASE SyncBudget(s)
  <2>1. /\ Moved(s, "validate") /\ Goes
        /\ store'[s] = UpdateSessionState(store[s], Remaining(s),
                                          store[s].reason)
    BY <1>1, <1>4, CallMoves DEF SyncBudget, Live, Active
  <2> QED  BY <1>3, <1>4, <2>1 DEF SyncBudget, At
<1>5. CASE ToolSyncBudget(s)
  <2>1. /\ Moved(s, "tool_observe") /\ Goes
        /\ store'[s] = UpdateSessionState(store[s], Remaining(s),
                                          store[s].reason)
    BY <1>1, <1>5, CallMoves DEF ToolSyncBudget, Live, Active
  <2> QED  BY <1>3, <1>5, <2>1 DEF ToolSyncBudget, At
<1>6. CASE RecordTool(s)
  <2> DEFINE call == [tool |-> task[s].tool, ok |-> task[s].ok]
  <2>1. /\ Moved(s, "tool_sync") /\ Goes
        /\ store'[s] = AddToolCall(store[s], call)
    BY <1>1, <1>6, CallMoves DEF RecordTool, Live, Active
  <2>2. call \in ToolCalls
    BY <1>1 DEF Tasks, ToolCalls
  <2> HIDE DEF call
  <2>3. Keeps(store[s], AddToolCall(store[s], call))
    BY <1>1, <2>2, AddToolCallKeeps
  <2>4. /\ store'[s].calls = Append(store[s].calls, call)
        /\ store'[s].observations = store[s].observations
        /\ store'[s].budget = store[s].budget
    BY <1>1, <2>1, EvidenceAdded
  <2>5. SameResult(store[s], store'[s])
    BY <2>1, <2>3 DEF SameResult, Keeps
  <2> QED  BY <1>6, <2>1, <2>4, <2>5 DEF RecordTool, At, call
<1>7. CASE ToolObserve(s)
  <2>1. store'[s] = AddObservation(store[s]) /\ Goes /\ LeaveTool(s)
    BY <1>1, <1>7 DEF ToolObserve, Write, Goes
  <2>2. Keeps(store[s], AddObservation(store[s]))
    BY <1>1, AddObservationKeeps
  <2>3. /\ task'[s].pc \in {"executing", "tool", "executed"}
        /\ Locals(s, task[s].used, task'[s].tool, task[s].ok, task[s].llm)
    BY <1>1, <2>1, LeaveToolEffect, LeaveToolLocals
  <2>4. /\ store'[s].calls = store[s].calls
        /\ store'[s].observations = store[s].observations + 1
        /\ store'[s].budget = store[s].budget
    BY <1>1, <2>1, EvidenceAdded
  <2> QED  BY <1>7, <2>1, <2>2, <2>3, <2>4
           DEF ToolObserve, At, SameResult, Keeps
<1> QED  BY <1>4, <1>5, <1>6, <1>7

\* A report is stored: the full one with the decision ahead, or the partial one
\* with its reason still to come; then the reason; then the request.
LEMMA ReportEffect ==
  ASSUME GateInv, NEW s \in Sessions, Own(s),
         \/ StoreReport(s) \/ FinalizeReport(s) \/ FinalizeState(s)
         \/ RequestApproval(s)
  PROVE  /\ loop = s /\ UNCHANGED <<loop, response>>
         /\ store'[s].status = store[s].status
         /\ store'[s].calls = store[s].calls
         /\ store'[s].observations = store[s].observations
         /\ \/ /\ task[s].pc = "report" /\ Moved(s, "decide")
               /\ store'[s].report = [kind |-> "full", risky |-> Risky(s),
                                      notes |-> << >>]
               /\ store'[s].request = store[s].request
               /\ store'[s].reason = store[s].reason
               /\ store'[s].budget = store[s].budget
               /\ metrics' = Incremented({"ttfa"})
            \/ /\ task[s].pc = "fp_report" /\ Moved(s, "fp_state")
               /\ store'[s].report = [kind |-> "partial", risky |-> FALSE,
                                      notes |-> << >>]
               /\ store'[s].request = store[s].request
               /\ store'[s].reason = store[s].reason
               /\ store'[s].budget = store[s].budget
               /\ metrics' = metrics
            \/ /\ task[s].pc = "fp_state" /\ Moved(s, "fp_trace")
               /\ store'[s].report = store[s].report
               /\ store'[s].request = store[s].request
               /\ store'[s].reason = task[s].why
               /\ store'[s].budget = Remaining(s)
               /\ metrics' = Incremented({"ttfa"})
            \/ /\ task[s].pc = "request" /\ Moved(s, "policy_trace")
               /\ store'[s].report = store[s].report
               /\ store'[s].request = s
               /\ store'[s].reason = store[s].reason
               /\ store'[s].budget = store[s].budget
               /\ metrics' = metrics
<1>1. /\ TypeOK /\ s \in DOMAIN store /\ store[s] \in Rows
      /\ task[s] \in Tasks
  BY DEF GateInv, Own, TypeOK
<1>2. CASE StoreReport(s)
  <2> DEFINE report == [kind |-> "full", risky |-> Risky(s), notes |-> << >>]
  <2>1. /\ Moved(s, "decide") /\ store'[s] = SetFinalReport(store[s], report)
        /\ metrics' = Incremented({"ttfa"}) /\ UNCHANGED <<loop, response>>
    BY <1>1, <1>2, CountingCallMoves DEF StoreReport, Live, Active
  <2>2. report \in Reports
    <3>1. Risky(s) \in BOOLEAN
      BY DEF Risky
    <3> QED  BY <3>1 DEF Reports
  <2> HIDE DEF report
  <2>3. SameEvidence(store[s], store'[s])
    BY <1>1, <2>1, EvidenceKept
  <2>4. /\ store'[s].status = store[s].status /\ store'[s].report = report
        /\ store'[s].request = store[s].request
        /\ store'[s].reason = store[s].reason
    BY <1>1, <2>1, <2>2, SetFinalReportSets
  <2>5. task[s].pc = "report" /\ loop = s
    BY <1>2 DEF StoreReport, At
  <2> QED  BY <2>1, <2>3, <2>4, <2>5 DEF SameEvidence, report
<1>3. CASE FinalizeReport(s)
  <2> DEFINE report == [kind |-> "partial", risky |-> FALSE, notes |-> << >>]
  <2>1. /\ Moved(s, "fp_state") /\ store'[s] = SetFinalReport(store[s], report)
        /\ Goes
    BY <1>1, <1>3, CallMoves DEF FinalizeReport, Live, Active
  <2>2. report \in Reports
    BY DEF Reports
  <2> HIDE DEF report
  <2>3. SameEvidence(store[s], store'[s])
    BY <1>1, <2>1, EvidenceKept
  <2>4. /\ store'[s].status = store[s].status /\ store'[s].report = report
        /\ store'[s].request = store[s].request
        /\ store'[s].reason = store[s].reason
    BY <1>1, <2>1, <2>2, SetFinalReportSets
  <2>5. task[s].pc = "fp_report" /\ loop = s
    BY <1>3 DEF FinalizeReport, At
  <2> QED  BY <2>1, <2>3, <2>4, <2>5 DEF SameEvidence, report, Goes
<1>4. CASE FinalizeState(s)
  <2>1. /\ Moved(s, "fp_trace") /\ metrics' = Incremented({"ttfa"})
        /\ store'[s] = UpdateSessionState(store[s], Remaining(s), task[s].why)
        /\ UNCHANGED <<loop, response>>
    BY <1>1, <1>4, CountingCallMoves DEF FinalizeState, Live, Active
  <2>2. Remaining(s) \in Nat /\ task[s].why \in Reasons
    BY <1>1, RemainingType DEF Tasks
  <2>3. /\ store'[s].status = store[s].status
        /\ store'[s].report = store[s].report
        /\ store'[s].request = store[s].request
        /\ store'[s].reason = task[s].why
    BY <1>1, <2>1, <2>2, UpdateSessionStateKeeps
  <2>4. /\ store'[s].calls = store[s].calls
        /\ store'[s].observations = store[s].observations
        /\ store'[s].budget = Remaining(s)
    BY <1>1, <2>1, EvidenceAdded
  <2> QED  BY <1>4, <2>1, <2>3, <2>4 DEF FinalizeState, At
<1>5. CASE RequestApproval(s)
  <2>1. /\ Moved(s, "policy_trace") /\ Goes
        /\ store'[s] = SetApprovalRequest(store[s], s)
    BY <1>1, <1>5, CallMoves DEF RequestApproval, Live, Active
  <2>2. SameEvidence(store[s], store'[s])
    BY <1>1, <2>1, EvidenceKept
  <2>3. /\ store'[s].status = store[s].status
        /\ store'[s].report = store[s].report
        /\ store'[s].request = s
        /\ store'[s].reason = store[s].reason
    BY <1>1, <2>1, SetApprovalRequestSets
  <2> QED  BY <1>5, <2>1, <2>2, <2>3
           DEF RequestApproval, At, SameEvidence, Goes
<1> QED  BY <1>2, <1>3, <1>4, <1>5

\* The coroutine returns and the client is answered 201.
Returns(s, names) ==
  /\ Moved(s, "returned")
  /\ loop' = Idle
  /\ response'[s] = "201"
  /\ metrics' = Incremented(names \cup {"http_requests"})

\* What Return does.
LEMMA ReturnReturns ==
  ASSUME TypeOK, NEW s \in Sessions, NEW names, Return(s, names)
  PROVE  Returns(s, names)
<1>1. "returned" \in Pcs
  BY DEF Pcs, Ended
<1>2. Moved(s, "returned")
  BY <1>1, GotoMoves DEF Return
<1> QED  BY <1>2 DEF Return, Returns, TypeOK

\* A validated status change with what follows it.
LEMMA ChangeEffect ==
  ASSUME GateInv, NEW s \in Sessions, Own(s), NEW status \in Statuses,
         CanTransition(store[s].status, status),
         Write(s, UpdateStatus(store[s], status))
  PROVE  StatusSet(store[s], store'[s], status)
<1>1. s \in DOMAIN store /\ store[s] \in Rows
  BY DEF Own
<1>2. store'[s] = UpdateStatus(store[s], status)
  BY <1>1 DEF Write
<1> QED  BY <1>1, <1>2, UpdateStatusSets, EvidenceKept DEF StatusSet

\* What _finalize_partial counts.
PartialCounters == {"fallback", "degraded_sessions", "partial_completed"}

\* The triage settles its session, or raises.
LEMMA EndEffect ==
  ASSUME GateInv, NEW s \in Sessions, Own(s),
         Complete(s) \/ AwaitApproval(s) \/ FinalizePartial(s)
  PROVE  \/ Raises(s) /\ task[s].pc # "await_approval"
         \/ /\ task[s].pc = "decide" /\ ~Risky(s) /\ loop = s
            /\ CanTransition(store[s].status, "completed")
            /\ StatusSet(store[s], store'[s], "completed")
            /\ Returns(s, {"completed"})
         \/ /\ task[s].pc = "await_approval" /\ loop = s
            /\ CanTransition(store[s].status, "waiting_approval")
            /\ StatusSet(store[s], store'[s], "waiting_approval")
            /\ Returns(s, {"waiting_approval"})
         \/ /\ task[s].pc = "fp_partial" /\ ~task[s].nested /\ loop = s
            /\ CanTransition(store[s].status, "partial_completed")
            /\ StatusSet(store[s], store'[s], "partial_completed")
            /\ Returns(s, PartialCounters)
         \/ /\ task[s].pc = "fp_partial" /\ task[s].nested /\ loop = s
            /\ CanTransition(store[s].status, "partial_completed")
            /\ StatusSet(store[s], store'[s], "partial_completed")
            /\ task'[s].pc \in {"executing", "tool", "executed"}
            /\ Locals(s, task[s].used, task'[s].tool, task[s].ok,
                      task[s].llm)
            /\ metrics' = Incremented(PartialCounters)
            /\ UNCHANGED <<loop, response>>
<1> USE DEF At
<1>1. /\ TypeOK /\ s \in DOMAIN store /\ store[s] \in Rows
      /\ {"completed", "waiting_approval", "partial_completed"}
           \subseteq Statuses
  BY DEF GateInv, Own, Statuses
<1>2. CASE Complete(s)
  <2>1. CASE Raise(s, {}) /\ UNCHANGED store
    BY <1>1, <1>2, <2>1, RaiseRaises DEF Complete
  <2>2. CASE /\ CanTransition(store[s].status, "completed")
             /\ Write(s, UpdateStatus(store[s], "completed"))
             /\ Return(s, {"completed"})
    BY <1>1, <1>2, <2>2, ChangeEffect, ReturnReturns DEF Complete
  <2> QED  BY <1>2, <2>1, <2>2 DEF Complete, ChangeStatus
<1>3. CASE AwaitApproval(s)
  <2>1. store[s].status = "analyzing"
    BY <1>3 DEF AwaitApproval, GateInv, SessionInv, RunOk, Live, Active,
                Analysis
  <2>2. CanTransition(store[s].status, "waiting_approval")
    BY <2>1 DEF CanTransition, AllowedTransitions, Statuses
  <2>3. /\ Write(s, UpdateStatus(store[s], "waiting_approval"))
        /\ Return(s, {"waiting_approval"})
    BY <1>3, <2>2 DEF AwaitApproval, ChangeStatus
  <2> QED  BY <1>1, <1>3, <2>2, <2>3, ChangeEffect, ReturnReturns
           DEF AwaitApproval
<1>4. CASE FinalizePartial(s)
  <2>1. CASE Raise(s, {}) /\ UNCHANGED store
    BY <1>1, <1>4, <2>1, RaiseRaises DEF FinalizePartial
  <2>2. CASE /\ CanTransition(store[s].status, "partial_completed")
             /\ Write(s, UpdateStatus(store[s], "partial_completed"))
             /\ \/ /\ task[s].nested /\ LeaveTool(s)
                   /\ metrics' = Incremented(PartialCounters)
                   /\ UNCHANGED <<loop, response>>
                \/ ~task[s].nested /\ Return(s, PartialCounters)
    BY <1>1, <1>4, <2>2, ChangeEffect, ReturnReturns, LeaveToolEffect,
       LeaveToolLocals
       DEF FinalizePartial
  <2> QED  BY <1>4, <2>1, <2>2
           DEF FinalizePartial, ChangeStatus, PartialCounters
<1> QED  BY <1>2, <1>3, <1>4

-----------------------------------------------------------------------------
(* Each kind of step keeps its own session's part of the invariant. *)

\* The other sessions keep theirs.
LEMMA OthersKeepProgress ==
  ASSUME GateInv, ProgressInv, NEW s \in Sessions, NEW t \in Sessions \ {s},
         loop \in {s, Idle}, task'[t] = task[t], response'[t] = response[t],
         accepted'[t] = accepted[t], t \in DOMAIN store' <=> t \in DOMAIN store,
         t \in DOMAIN store => store'[t] = store[t]
  PROVE  ProgressOk(t)'
<1>1. ProgressOk(t) /\ loop # t
  BY OrchestratorAssumption DEF ProgressInv
<1>2. task[t].pc \notin Active
  BY <1>1 DEF ProgressOk, AnswerOk
<1>3. AnswerOk(t)'
  BY <1>1, <1>2 DEF ProgressOk, AnswerOk
<1>4. t \in DOMAIN store => EvidenceOk(t)'
  BY <1>1 DEF ProgressOk, EvidenceOk
<1>5. t \in DOMAIN store => ResultOk(t)'
  BY <1>1 DEF ProgressOk, ResultOk
<1> QED  BY <1>3, <1>4, <1>5 DEF ProgressOk

\* So the session's own part is all there is to check.
LEMMA OwnProgress ==
  ASSUME GateInv, ProgressInv, NEW s \in Sessions, Own(s), ProgressOk(s)'
  PROVE  ProgressInv'
BY OthersKeepProgress DEF ProgressInv, Own, Rest, GateInv, TypeOK

\* The steps of _run_tool, and the first of the triage.
Toolish == {"sync_budget", "tool_wait", "tool_record", "tool_sync",
            "tool_observe"}

\* Away from them the evidence stands as it is.
LEMMA EvidenceSteady ==
  ASSUME NEW s \in Sessions, EvidenceOk(s),
         SameEvidence(store[s], store'[s]),
         task'[s].used = task[s].used,
         \/ task'[s].pc \notin Live \cup {"returned"}
         \/ /\ task[s].pc \in Live \ Toolish
            /\ task'[s].pc \in (Live \cup {"returned"}) \ Toolish
  PROVE  EvidenceOk(s)'
BY DEF EvidenceOk, SameEvidence, Toolish

\* A running triage has no answer yet, holds no request but at the gate, and no
\* risky report but in the decision.
LEMMA RunningFacts ==
  ASSUME GateInv, ProgressInv, NEW s \in Sessions, task[s].pc \in Live
  PROVE  /\ s \in DOMAIN store /\ store[s] \in Rows /\ task[s] \in Tasks
         /\ RunOk(s) /\ EvidenceOk(s) /\ ResultOk(s)
         /\ store[s].status \notin {"completed", "waiting_approval"}
         /\ accepted[s] = << >>
         /\ response[s] = "none" /\ (task[s].pc \in Active => loop = s)
         /\ store[s].request # NoRequest =>
              task[s].pc \in {"policy_trace", "await_approval"}
         /\ store[s].report.risky => task[s].pc \in Deciding
<1>1. SessionInv(s) /\ ProgressOk(s) /\ TypeOK
  BY DEF GateInv, ProgressInv
<1>2. /\ task[s].pc \notin {"raised", "gone"}
      /\ task[s].pc \notin {"absent", "returned"}
  BY DEF Live, Active, Suspended
<1>3. s \in DOMAIN store /\ RunOk(s)
  BY <1>1 DEF SessionInv
<1>4. EvidenceOk(s) /\ ResultOk(s) /\ AnswerOk(s)
  BY <1>1, <1>3 DEF ProgressOk
<1>5. /\ store[s].status \notin {"completed", "waiting_approval"}
      /\ accepted[s] = << >>
  BY <1>3 DEF RunOk
<1>6. response[s] = "none" /\ (task[s].pc \in Active => loop = s)
  BY <1>4 DEF AnswerOk
<1>7. /\ store[s].request # NoRequest =>
           task[s].pc \in {"policy_trace", "await_approval"}
      /\ store[s].report.risky => task[s].pc \in Deciding
  BY <1>2, <1>4, <1>5 DEF ResultOk
<1> QED  BY <1>1, <1>3, <1>4, <1>5, <1>6, <1>7 DEF TypeOK

\* An exception.
LEMMA RaisesKeepProgress ==
  ASSUME GateInv, ProgressInv, NEW s \in Sessions, Raises(s),
         accepted' = accepted
  PROVE  ProgressOk(s)'
<1>1. ProgressOk(s)
  BY DEF ProgressInv
<1>2. "raised" \notin Live /\ "raised" \notin Active
  BY DEF Live, Active, Suspended
<1>3. AnswerOk(s)'
  BY <1>2 DEF AnswerOk, Raises, Moved
<1>4. ASSUME s \in DOMAIN store PROVE EvidenceOk(s)'
  BY <1>1, <1>2, <1>4, EvidenceSteady
     DEF ProgressOk, Raises, Moved, SameEvidence
<1>5. ASSUME s \in DOMAIN store PROVE ResultOk(s)'
  BY <1>1, <1>2, <1>5 DEF ProgressOk, ResultOk, Raises, Moved
<1> QED  BY <1>3, <1>4, <1>5 DEF ProgressOk, Raises

\* Recording a step.
LEMMA TraceKeepsProgress ==
  ASSUME GateInv, ProgressInv, NEW s \in Sessions, Own(s),
         NEW hop \in TraceHops, task[s].pc = hop[1], Moved(s, hop[2]),
         StatusSet(store[s], store'[s], store[s].status), Goes
  PROVE  ProgressOk(s)'
<1> USE DEF TraceHops
<1>1. hop[1] \in Live /\ hop[2] \in Live /\ hop[2] \in Active
  BY DEF Live, Active
<1>2. hop[1] \notin Toolish /\ hop[2] \notin Toolish
  BY DEF Toolish
<1>3. /\ EvidenceOk(s) /\ ResultOk(s) /\ loop = s /\ response[s] = "none"
      /\ store[s].status \notin {"completed", "waiting_approval"}
      /\ store[s].request # NoRequest =>
           task[s].pc \in {"policy_trace", "await_approval"}
      /\ store[s].report.risky => task[s].pc \in Deciding
  <2>1. hop[1] \in Active
    BY DEF Active
  <2> QED  BY <1>1, <2>1, RunningFacts
<1>4. AnswerOk(s)'
  BY <1>1, <1>3 DEF AnswerOk, Moved, Goes
<1>5. EvidenceOk(s)'
  BY <1>1, <1>2, <1>3, EvidenceSteady DEF Moved, StatusSet
<1>6. ResultOk(s)'
  BY <1>3 DEF ResultOk, Moved, StatusSet, Own, Rest, Deciding
<1> QED  BY <1>4, <1>5, <1>6 DEF ProgressOk

\* A status on the way.
LEMMA PassKeepsProgress ==
  ASSUME GateInv, ProgressInv, NEW s \in Sessions, Own(s),
         NEW hop \in PassHops, task[s].pc = hop[1], Moved(s, hop[3]),
         StatusSet(store[s], store'[s], hop[2]), Goes
  PROVE  ProgressOk(s)'
<1> USE DEF PassHops
<1>1. /\ hop[1] \in Live /\ hop[1] \in Active
      /\ hop[3] \in Live /\ hop[3] \in Active
  BY DEF Live, Active
<1>2. hop[1] \notin Toolish /\ hop[3] \notin Toolish
  BY DEF Toolish
<1>3. hop[1] \notin Deciding
  BY DEF Deciding
<1>4. /\ EvidenceOk(s) /\ ResultOk(s) /\ loop = s /\ response[s] = "none"
      /\ store[s].request = NoRequest /\ ~store[s].report.risky
  BY <1>1, <1>3, RunningFacts DEF Deciding, Own, Rows, Reports
<1>5. AnswerOk(s)'
  BY <1>1, <1>4 DEF AnswerOk, Moved, Goes
<1>6. EvidenceOk(s)'
  BY <1>1, <1>2, <1>4, EvidenceSteady DEF Moved, StatusSet
<1>7. ResultOk(s)'
  BY <1>4 DEF ResultOk, Moved, StatusSet, Own, Rest
<1> QED  BY <1>5, <1>6, <1>7 DEF ProgressOk

\* The triage gives up, with a reason.
LEMMA DegradeKeepsProgress ==
  ASSUME GateInv, ProgressInv, NEW s \in Sessions, Own(s), NEW why, NEW nested,
         task[s].pc \in {"preflight", "tool", "llm_call", "llm_wait",
                         "force_fail"},
         Degrades(s, why, nested), why # "none", loop' = s,
         response' = response,
         \/ store' = store
         \/ StatusSet(store[s], store'[s], "tool_failed")
  PROVE  ProgressOk(s)'
<1>1. task[s].pc \in Live /\ "fp_report" \in Live /\ "fp_report" \in Active
  BY DEF Live, Active, Suspended
<1>2. task[s].pc \notin Toolish /\ "fp_report" \notin Toolish
      /\ task[s].pc \notin Deciding
  BY DEF Toolish, Deciding
<1>3. /\ EvidenceOk(s) /\ ResultOk(s) /\ response[s] = "none"
      /\ store[s].request = NoRequest /\ ~store[s].report.risky
  BY <1>1, <1>2, RunningFacts DEF Deciding, Own, Rows, Reports
<1>4. AnswerOk(s)'
  BY <1>1, <1>3 DEF AnswerOk, Degrades
<1>5. EvidenceOk(s)'
  BY <1>1, <1>2, <1>3, EvidenceSteady DEF Degrades, StatusSet, SameEvidence
<1>6. ResultOk(s)'
  BY <1>3 DEF ResultOk, Degrades, StatusSet, Own, Rest
<1> QED  BY <1>4, <1>5, <1>6 DEF ProgressOk

\* A step that keeps the result, in which neither a decision nor a partial
\* report is under way.
LEMMA ResultSteady ==
  ASSUME GateInv, ProgressInv, NEW s \in Sessions, Own(s),
         task[s].pc \in Live \ Deciding, SameResult(store[s], store'[s]),
         task'[s].pc \notin {"fp_report", "fp_state", "fp_trace",
                            "fp_normalize", "fp_partial"}
  PROVE  ResultOk(s)'
<1>1. /\ ResultOk(s) /\ store[s].request = NoRequest
      /\ ~store[s].report.risky
  BY RunningFacts DEF Deciding, Own, Rows, Reports
<1> QED  BY <1>1 DEF ResultOk, SameResult, Own, Rest

\* The await on a tool, and its end.
LEMMA ToolAwaitKeepsProgress ==
  ASSUME GateInv, ProgressInv, NEW s \in Sessions, Own(s),
         StartTool(s) \/ ToolDone(s)
  PROVE  ProgressOk(s)'
<1>1. {"tool", "tool_wait"} \subseteq Live \ Deciding
  BY DEF Live, Active, Suspended, Deciding
<1>2. "tool_record" \in Live /\ "tool_wait" \notin Active
  BY DEF Live, Active
<1>3. store' = store
  BY DEF StartTool, ToolDone
<1>4. SameResult(store[s], store'[s])
  BY <1>3 DEF SameResult
<1>5. CASE StartTool(s)
  <2>1. /\ task[s].pc = "tool" /\ task[s].used < MaxToolCalls
        /\ task'[s].pc = "tool_wait" /\ task'[s].used = task[s].used + 1
        /\ loop' = Idle /\ response' = response
    BY <1>5, StartToolEffect DEF Locals
  <2>2. EvidenceOk(s) /\ response[s] = "none" /\ task[s].used \in Nat
    BY <1>1, <2>1, RunningFacts DEF Tasks
  <2>3. AnswerOk(s)'
    BY <1>1, <1>2, <2>1, <2>2 DEF AnswerOk
  <2>4. EvidenceOk(s)'
    BY <1>1, <1>3, <2>1, <2>2, OrchestratorAssumption DEF EvidenceOk
  <2>5. ResultOk(s)'
    BY <1>1, <1>4, <2>1, ResultSteady
  <2> QED  BY <2>3, <2>4, <2>5 DEF ProgressOk
<1>6. CASE ToolDone(s)
  <2>1. /\ task[s].pc = "tool_wait" /\ task'[s].pc = "tool_record"
        /\ task'[s].used = task[s].used
        /\ loop' = s /\ response' = response
    BY <1>6, ToolDoneEffect DEF Locals
  <2>2. EvidenceOk(s) /\ response[s] = "none"
    BY <1>1, <2>1, RunningFacts
  <2>3. AnswerOk(s)'
    BY <1>2, <2>1, <2>2 DEF AnswerOk
  <2>4. EvidenceOk(s)'
    BY <1>1, <1>3, <2>1, <2>2 DEF EvidenceOk
  <2>5. ResultOk(s)'
    BY <1>1, <1>4, <2>1, ResultSteady
  <2> QED  BY <2>3, <2>4, <2>5 DEF ProgressOk
<1> QED  BY <1>5, <1>6

\* The commits of _run_tool: the call, the budget and the observation, one
\* after the other.
LEMMA ToolKeepsProgress ==
  ASSUME GateInv, ProgressInv, NEW s \in Sessions, Own(s),
         \/ SyncBudget(s) \/ RecordTool(s) \/ ToolSyncBudget(s)
         \/ ToolObserve(s)
  PROVE  ProgressOk(s)'
<1> DEFINE from == {"sync_budget", "tool_record", "tool_sync", "tool_observe"}
           to == {"validate", "tool_sync", "tool_observe", "executing", "tool",
                  "executed"}
<1>1. from \subseteq Live \ Deciding /\ to \subseteq Live /\ to \subseteq Active
  BY DEF Live, Active, Deciding
<1>2. task[s].pc \in from /\ task'[s].pc \in to /\ loop = s
      /\ task'[s].used = task[s].used
      /\ SameResult(store[s], store'[s]) /\ Goes
  BY ToolEffect DEF Moved, Locals
<1>3. EvidenceOk(s) /\ response[s] = "none" /\ task[s].used \in Nat
      /\ store[s].calls \in Seq(ToolCalls) /\ store[s].observations \in Nat
      /\ task[s] \in Tasks
  <2>1. EvidenceOk(s) /\ response[s] = "none" /\ task[s] \in Tasks
        /\ store[s] \in Rows
    BY <1>1, <1>2, RunningFacts
  <2> QED  BY <2>1 DEF Tasks, Rows
<1>4. AnswerOk(s)'
  BY <1>1, <1>2, <1>3 DEF AnswerOk, Goes
<1>5. ResultOk(s)'
  BY <1>1, <1>2, ResultSteady
<1>6. Len(store[s].calls) \in Nat /\ MaxToolCalls \in Nat
  BY <1>3, OrchestratorAssumption
<1>7. task[s].pc \in Live /\ task'[s].pc \in Live
  BY <1>1, <1>2
<1>8. task[s].used <= MaxToolCalls
  BY <1>3, <1>7 DEF EvidenceOk
<1>9. Remaining(s) = MaxToolCalls - task[s].used
  BY <1>3, <1>6, <1>8 DEF Remaining
<1> DEFINE call == [tool |-> task[s].tool, ok |-> task[s].ok]
<1>10. Len(Append(store[s].calls, call)) = Len(store[s].calls) + 1
  <2>1. call \in ToolCalls
    BY <1>3 DEF Tasks, ToolCalls
  <2> HIDE DEF call
  <2> QED  BY <1>3, <2>1
<1>11. EvidenceOk(s)'
  <2>1. /\ task[s].pc \in {"sync_budget", "tool_sync"} =>
             /\ store'[s].calls = store[s].calls
             /\ store'[s].observations = store[s].observations
             /\ store'[s].budget = Remaining(s)
             /\ task'[s].pc = IF task[s].pc = "sync_budget" THEN "validate"
                              ELSE "tool_observe"
        /\ task[s].pc = "tool_record" =>
             /\ store'[s].calls = Append(store[s].calls, call)
             /\ store'[s].observations = store[s].observations
             /\ store'[s].budget = store[s].budget
             /\ task'[s].pc = "tool_sync"
        /\ task[s].pc = "tool_observe" =>
             /\ store'[s].calls = store[s].calls
             /\ store'[s].observations = store[s].observations + 1
             /\ store'[s].budget = store[s].budget
             /\ task'[s].pc \in {"executing", "tool", "executed"}
    BY ToolEffect DEF Moved
  <2> HIDE DEF from, to, call
  <2> DEFINE calls == Len(store[s].calls)
  <2>2. CASE task[s].pc \in {"sync_budget", "tool_sync"}
    <3>1. /\ task[s].used = calls
          /\ task[s].pc = "sync_budget" => store[s].observations = calls
          /\ task[s].pc = "tool_sync" => store[s].observations = calls - 1
      BY <1>3, <1>7, <2>2 DEF EvidenceOk
    <3>2. /\ Len(store'[s].calls) = calls
          /\ store'[s].budget = MaxToolCalls - calls
          /\ store'[s].observations = store[s].observations
          /\ task'[s].pc \in {"validate", "tool_observe"}
          /\ task'[s].pc = "tool_observe" <=> task[s].pc = "tool_sync"
      BY <1>9, <2>1, <2>2, <3>1
    <3> QED  BY <1>2, <1>3, <1>6, <1>8, <2>2, <3>1, <3>2 DEF EvidenceOk
  <2>3. CASE task[s].pc = "tool_record"
    <3>1. /\ task[s].used = calls + 1 /\ store[s].observations = calls
          /\ store[s].budget = MaxToolCalls - calls
      BY <1>3, <1>7, <2>3 DEF EvidenceOk
    <3>2. /\ Len(store'[s].calls) = calls + 1
          /\ store'[s].budget = MaxToolCalls - calls
          /\ store'[s].observations = calls
          /\ task'[s].pc = "tool_sync" /\ task'[s].used = calls + 1
      BY <1>2, <1>10, <2>1, <2>3, <3>1
    <3>3. MaxToolCalls - calls = MaxToolCalls - (calls + 1) + 1
      BY <1>6
    <3> QED  BY <1>6, <1>8, <3>1, <3>2, <3>3 DEF EvidenceOk
  <2>4. CASE task[s].pc = "tool_observe"
    <3>1. /\ task[s].used = calls /\ store[s].observations = calls - 1
          /\ store[s].budget = MaxToolCalls - calls
      BY <1>3, <1>7, <2>4 DEF EvidenceOk
    <3>2. /\ Len(store'[s].calls) = calls
          /\ store'[s].budget = MaxToolCalls - calls
          /\ store'[s].observations = calls
          /\ task'[s].pc \in {"executing", "tool", "executed"}
          /\ task'[s].used = calls
      BY <1>2, <1>6, <2>1, <2>4, <3>1
    <3> QED  BY <1>6, <1>8, <3>1, <3>2 DEF EvidenceOk
  <2> QED  BY <1>2, <2>2, <2>3, <2>4 DEF from
<1> QED  BY <1>4, <1>5, <1>11 DEF ProgressOk

\* The await on the LLM, its end, and the policy's block.
LEMMA LlmKeepsProgress ==
  ASSUME GateInv, ProgressInv, NEW s \in Sessions, Own(s),
         StartLlm(s) \/ LlmDone(s) \/ BlockByPolicy(s)
  PROVE  ProgressOk(s)'
<1>1. \/ /\ task[s].pc = "llm_call" /\ task'[s].pc = "llm_wait"
      \/ /\ task[s].pc = "llm_wait" /\ task'[s].pc = "llm_trace" /\ loop' = s
      \/ /\ task[s].pc = "decide" /\ task'[s].pc = "request" /\ loop' = s
  BY LlmAwaitEffect, BlockEffect DEF Moved
<1>2. /\ task'[s].used = task[s].used /\ store' = store /\ response' = response
  BY LlmAwaitEffect, BlockEffect DEF Moved, Locals
<1>3. /\ task[s].pc \in Live \ Toolish /\ task'[s].pc \in Live \ Toolish
      /\ "llm_wait" \notin Active
  BY <1>1 DEF Live, Active, Suspended, Toolish
<1>4. /\ EvidenceOk(s) /\ ResultOk(s) /\ response[s] = "none"
      /\ store[s].request = NoRequest
      /\ store[s].report.risky => task[s].pc \in Deciding
  BY <1>1, <1>3, RunningFacts
<1>5. AnswerOk(s)'
  BY <1>1, <1>2, <1>3, <1>4 DEF AnswerOk, Live, Suspended
<1>6. EvidenceOk(s)'
  BY <1>2, <1>3, <1>4, EvidenceSteady DEF SameEvidence
<1>7. ResultOk(s)'
  BY <1>1, <1>2, <1>4 DEF ResultOk, Own, Rest, Deciding
<1> QED  BY <1>5, <1>6, <1>7 DEF ProgressOk

\* What is left of the budget while it is not overspent.
LEMMA RemainingLeft ==
  ASSUME NEW s, task[s].used \in Nat, MaxToolCalls \in Nat,
         task[s].used <= MaxToolCalls
  PROVE  Remaining(s) = MaxToolCalls - task[s].used
BY DEF Remaining

\* A report, a reason or a request is stored.
LEMMA ReportKeepsProgress ==
  ASSUME GateInv, ProgressInv, NEW s \in Sessions, Own(s),
         \/ StoreReport(s) \/ FinalizeReport(s) \/ FinalizeState(s)
         \/ RequestApproval(s)
  PROVE  ProgressOk(s)'
<1> DEFINE from == {"report", "fp_report", "fp_state", "request"}
           to == {"decide", "fp_state", "fp_trace", "policy_trace"}
<1>1. /\ from \subseteq Live \ Toolish /\ to \subseteq Live \ Toolish
      /\ to \subseteq Active
  BY DEF Live, Active, Toolish
<1>2. /\ task[s].pc \in from /\ task'[s].pc \in to /\ loop = s /\ loop' = s
      /\ response' = response /\ task'[s].used = task[s].used
      /\ task'[s].why = task[s].why
      /\ store'[s].status = store[s].status
      /\ store'[s].calls = store[s].calls
      /\ store'[s].observations = store[s].observations
  BY ReportEffect DEF Moved
<1>3. /\ EvidenceOk(s) /\ ResultOk(s) /\ RunOk(s) /\ response[s] = "none"
      /\ store[s].request = NoRequest
      /\ store[s].status \notin {"completed", "waiting_approval"}
      /\ store[s].report.risky => task[s].pc \in Deciding
      /\ task[s] \in Tasks
  BY <1>1, <1>2, RunningFacts
<1>4. AnswerOk(s)'
  BY <1>1, <1>2, <1>3 DEF AnswerOk
<1>5. EvidenceOk(s)'
  <2>1. task[s].used \in Nat /\ MaxToolCalls \in Nat
    BY <1>3, OrchestratorAssumption DEF Tasks
  <2>2. task[s].pc \in Live /\ task[s].pc \notin Toolish
         /\ Len(store[s].calls) \in Nat
    <3>1. store[s].calls \in Seq(ToolCalls)
      BY DEF Own, Rows
    <3> QED  BY <1>1, <1>2, <3>1
  <2> HIDE DEF from, to
  <2>3. task[s].used = Len(store[s].calls) /\ task[s].used <= MaxToolCalls
        /\ store[s].budget = MaxToolCalls - Len(store[s].calls)
    BY <1>3, <2>1, <2>2 DEF EvidenceOk, Toolish
  <2>4. Remaining(s) = MaxToolCalls - Len(store[s].calls)
    BY <2>1, <2>3, RemainingLeft
  <2>5. store'[s].budget \in {store[s].budget, Remaining(s)}
    BY ReportEffect
  <2>6. SameEvidence(store[s], store'[s])
    BY <1>2, <2>3, <2>4, <2>5 DEF SameEvidence
  <2> QED  BY <1>1, <1>2, <1>3, <2>6, EvidenceSteady
<1>6. ResultOk(s)'
  <2>1. CASE task[s].pc = "report"
    <3>1. /\ task'[s].pc = "decide"
          /\ store'[s].request = store[s].request
          /\ store'[s].status = "analyzing"
      BY <1>2, <1>3, <2>1, ReportEffect DEF Moved, RunOk, Analysis
    <3> QED  BY <1>3, <3>1 DEF ResultOk, Deciding
  <2>2. CASE task[s].pc = "fp_report"
    <3>1. /\ task'[s].pc = "fp_state" /\ store'[s].request = store[s].request
          /\ store'[s].report = [kind |-> "partial", risky |-> FALSE,
                                 notes |-> << >>]
          /\ store'[s].reason = store[s].reason
      BY <2>2, ReportEffect DEF Moved
    <3>2. task[s].why # "none" /\ accepted[s] = << >>
      BY <1>1, <1>2, <1>3, <2>2 DEF ResultOk, RunOk
    <3>3. store[s].status = "partial_completed" => store[s].reason # "none"
      BY <1>3, <3>2 DEF ResultOk
    <3> QED  BY <1>2, <1>3, <3>1, <3>2, <3>3 DEF ResultOk
  <2>3. CASE task[s].pc = "fp_state"
    <3>1. /\ task'[s].pc = "fp_trace" /\ store'[s].request = store[s].request
          /\ store'[s].report = store[s].report
          /\ store'[s].reason = task[s].why
      BY <2>3, ReportEffect DEF Moved
    <3>2. /\ task[s].why # "none" /\ store[s].report.kind = "partial"
      BY <1>3, <2>3 DEF ResultOk
    <3> QED  BY <1>2, <1>3, <2>3, <3>1, <3>2 DEF ResultOk, Deciding
  <2>4. CASE task[s].pc = "request"
    <3>1. /\ task'[s].pc = "policy_trace"
          /\ store'[s].status = "analyzing"
      BY <1>2, <1>3, <2>4, ReportEffect DEF Moved, RunOk, Analysis
    <3> QED  BY <3>1 DEF ResultOk, Deciding
  <2> QED  BY <1>2, <2>1, <2>2, <2>3, <2>4
<1> QED  BY <1>4, <1>5, <1>6 DEF ProgressOk

\* The triage settles its session.
LEMMA EndKeepsProgress ==
  ASSUME GateInv, ProgressInv, NEW s \in Sessions, Own(s),
         Complete(s) \/ AwaitApproval(s) \/ FinalizePartial(s)
  PROVE  ProgressOk(s)'
<1> USE DEF Own, Rest
<1>1. {"decide", "await_approval", "fp_partial"} \subseteq Live \ Toolish
  BY DEF Live, Active, Toolish
<1>2. /\ "returned" \notin Live \cup Active \cup Toolish
      /\ {"executing", "tool", "executed"} \subseteq Active \ Toolish
      /\ Active \subseteq Live
  BY DEF Live, Active, Suspended, Toolish
<1>3. CASE Raises(s)
  BY <1>3, RaisesKeepProgress
<1>4. ASSUME task[s].pc \in {"decide", "await_approval", "fp_partial"},
             NEW status \in Settled, StatusSet(store[s], store'[s], status),
             task[s].pc = "decide" => status = "completed",
             task[s].pc = "await_approval" => status = "waiting_approval",
             task[s].pc = "fp_partial" => status = "partial_completed",
             task'[s].used = task[s].used, NEW names,
             \/ Returns(s, names)
             \/ /\ task'[s].pc \in {"executing", "tool", "executed"}
                /\ UNCHANGED <<loop, response>> /\ task[s].pc = "fp_partial"
      PROVE  ProgressOk(s)'
  <2>1. /\ EvidenceOk(s) /\ ResultOk(s) /\ RunOk(s) /\ response[s] = "none"
        /\ task[s].pc \in Active => loop = s
        /\ store[s].request # NoRequest =>
             task[s].pc \in {"policy_trace", "await_approval"}
        /\ store[s].report.risky => task[s].pc \in Deciding
    BY <1>1, <1>4, RunningFacts
  <2>2. task[s].pc \in Active
    BY <1>4 DEF Active
  <2>3. AnswerOk(s)'
    BY <1>2, <1>4, <2>1, <2>2 DEF AnswerOk, Returns, Moved, StatusSet
  <2>4. EvidenceOk(s)'
    BY <1>1, <1>2, <1>4, <2>1, EvidenceSteady DEF Returns, Moved, StatusSet
  <2>5. /\ store'[s].status = status /\ store'[s].report = store[s].report
        /\ store'[s].request = store[s].request
        /\ store'[s].reason = store[s].reason
        /\ task'[s].pc \in {"returned", "executing", "tool", "executed"}
        /\ task'[s].pc \in Live => task[s].pc = "fp_partial"
    BY <1>2, <1>4 DEF StatusSet, Returns, Moved
  <2>6. /\ status = "completed" => store[s].report.kind = "full"
        /\ status = "partial_completed" =>
             store[s].report.kind = "partial" /\ store[s].reason # "none"
        /\ status # "waiting_approval" => store[s].request = NoRequest
        /\ task'[s].pc \in Live => ~store[s].report.risky
    BY <1>4, <2>1, <2>5 DEF RunOk, ResultOk, Deciding, Rows, Reports
  <2>7. ResultOk(s)'
    BY <2>5, <2>6 DEF ResultOk
  <2> QED  BY <2>3, <2>4, <2>7 DEF ProgressOk
<1> QED  BY <1>3, <1>4, EndEffect DEF Settled, Returns, Moved, Locals

-----------------------------------------------------------------------------
(* The clients, the environment, and the invariant. *)

\* A new session has nothing to account for.
LEMMA PostIncidentKeepsProgress ==
  ASSUME GateInv, ProgressInv, NEW s \in Sessions, PostIncident(s)
  PROVE  ProgressInv'
<1>1. TypeOK /\ task[s] \in Tasks /\ task[s].pc = "absent" /\ loop = Idle
  BY DEF GateInv, TypeOK, PostIncident
<1>2. s \notin DOMAIN store /\ task[s].used = 0 /\ response[s] = "none"
  BY <1>1 DEF GateInv, SessionInv, ProgressInv, ProgressOk, AnswerOk
<1>3. PICK kind \in IncidentKinds :
        store' = [t \in DOMAIN store \cup {s} |->
                    IF t = s THEN CreateSession(kind) ELSE store[t]]
  BY DEF PostIncident
<1> DEFINE row == CreateSession(kind)
<1>4. /\ row.status = "new" /\ row.report = NoReport
      /\ row.request = NoRequest /\ row.calls = << >>
      /\ row.observations = 0 /\ row.budget = NoBudget
  BY CreateSessionNew, CreateSessionEmpty, OrchestratorAssumption
<1> HIDE DEF row
<1>5. /\ DOMAIN store' = DOMAIN store \cup {s} /\ store'[s] = row
      /\ \A t \in DOMAIN store : t # s => store'[t] = store[t]
  BY <1>3 DEF row
<1>6. "sync_budget" \in Pcs /\ "sync_budget" \in Live
      /\ "sync_budget" # "absent"
  BY DEF Pcs, Live, Active
<1>7. task'[s].pc = "sync_budget" /\ task'[s].used = 0
  BY <1>1, <1>2, <1>6, GotoMoves DEF PostIncident, Moved
<1>8. AnswerOk(s)'
  BY <1>2, <1>6, <1>7 DEF AnswerOk, PostIncident
<1>9. EvidenceOk(s)'
  <2>1. Len(<< >>) = 0 /\ MaxToolCalls \in Nat
    BY OrchestratorAssumption
  <2> QED  BY <1>4, <1>5, <1>7, <2>1 DEF EvidenceOk
<1>10. ResultOk(s)'
  BY <1>4, <1>5, <1>7 DEF ResultOk, NoReport
<1>11. ProgressOk(s)'
  BY <1>8, <1>9, <1>10 DEF ProgressOk
<1>12. ASSUME NEW t \in Sessions \ {s} PROVE ProgressOk(t)'
  <2>1. task'[t] = task[t] /\ response'[t] = response[t]
        /\ accepted'[t] = accepted[t]
    BY <1>1 DEF TypeOK, PostIncident, Goto, Rest
  <2> QED  BY <1>1, <1>5, <2>1, OthersKeepProgress
<1> QED  BY <1>11, <1>12 DEF ProgressInv

\* A decision settles what waited, and leaves the evidence and the answer.
LEMMA PostApprovalKeepsProgress ==
  ASSUME GateInv, ProgressInv, NEW s \in Sessions, PostApproval(s)
  PROVE  ProgressInv'
<1>1. TypeOK /\ ProgressOk(s) /\ SessionInv(s)
  BY DEF GateInv, ProgressInv
<1>2. loop' = loop /\ task' = task /\ response' = response /\ loop = Idle
  BY DEF PostApproval
<1>3. CASE UNCHANGED <<store, accepted>>
  BY <1>2, <1>3 DEF ProgressInv, ProgressOk, AnswerOk, EvidenceOk, ResultOk
<1>4. CASE \E id \in Sessions, decision \in Decisions :
             /\ Approvable(s, id)
             /\ Write(s, ApplyApproval(store[s], decision))
             /\ accepted' = [accepted EXCEPT ![s] = Append(@, decision)]
  <2>1. PICK id \in Sessions, decision \in Decisions :
          /\ Approvable(s, id)
          /\ Write(s, ApplyApproval(store[s], decision))
          /\ accepted' = [accepted EXCEPT ![s] = Append(@, decision)]
    BY <1>4
  <2>2. /\ s \in DOMAIN store /\ store[s] \in Rows
        /\ store[s].status = "waiting_approval"
        /\ store[s].report.kind = "full" /\ store[s].report \in Reports
        /\ accepted[s] = << >> /\ task[s].pc \notin Live
    BY <1>1, <2>1 DEF Approvable, TypeOK, SessionInv, RunOk, RowOk, Rows
  <2>3. /\ DOMAIN store' = DOMAIN store
        /\ store'[s] = ApplyApproval(store[s], decision)
        /\ \A t \in DOMAIN store : t # s => store'[t] = store[t]
    BY <2>1, <2>2 DEF Write
  <2>4. /\ store'[s].status = DecidedStatus(decision)
        /\ store'[s].report = Annotated(store[s].report, decision)
        /\ store'[s].request = NoRequest
    BY <2>2, <2>3, ApplyApprovalResolves
  <2>5. accepted'[s] = <<decision>>
        /\ \A t \in Sessions \ {s} : accepted'[t] = accepted[t]
    BY <1>1, <2>1, <2>2 DEF TypeOK
  <2>6. SameEvidence(store[s], store'[s])
    BY <2>2, <2>3, EvidenceKept
  <2>7. store'[s].report.kind = "full"
    BY <2>2, <2>4 DEF Annotated, Reports
  <2>8. store'[s].status = IF decision = "approved" THEN "completed"
                           ELSE "partial_completed"
    BY <2>4 DEF DecidedStatus
  <2>9. decision = "approved" \/ decision = "rejected"
    BY DEF Decisions
  <2>10. AnswerOk(s)'
    BY <1>1, <1>2, <2>2, <2>8, <2>9
       DEF ProgressOk, AnswerOk, Settled
  <2>11. EvidenceOk(s)'
    BY <1>1, <1>2, <2>2, <2>6 DEF ProgressOk, EvidenceOk, SameEvidence
  <2>12. ResultOk(s)'
    <3>1. task[s].pc \notin {"fp_report", "fp_state", "fp_trace",
                             "fp_normalize", "fp_partial"}
      BY <2>2 DEF Live, Active
    <3> QED  BY <1>2, <2>2, <2>4, <2>5, <2>7, <2>8, <2>9, <3>1 DEF ResultOk
  <2>13. ASSUME NEW t \in Sessions \ {s} PROVE ProgressOk(t)'
    BY <1>2, <2>3, <2>5, OthersKeepProgress
  <2> QED  BY <2>2, <2>10, <2>11, <2>12, <2>13 DEF ProgressInv, ProgressOk
<1> QED  BY <1>3, <1>4 DEF PostApproval

\* A failing commit ends its coroutine like any exception.
LEMMA CommitFailsKeepsProgress ==
  ASSUME GateInv, ProgressInv, NEW s \in Sessions, CommitFails(s)
  PROVE  ProgressInv'
<1>1. Raises(s) /\ accepted' = accepted
  BY RaiseEffect DEF CommitFails
<1>2. loop \in {s, Idle} /\ store' = store
  BY DEF CommitFails, Writes
<1>3. ASSUME NEW t \in Sessions \ {s} PROVE ProgressOk(t)'
  <2>1. task'[t] = task[t] /\ response'[t] = response[t]
    BY DEF GateInv, TypeOK, CommitFails, Raise, Goto
  <2> QED  BY <1>1, <1>2, <2>1, OthersKeepProgress
<1> QED  BY <1>1, <1>3, RaisesKeepProgress DEF ProgressInv

\* A restart ends every coroutine where it is.
LEMMA RestartKeepsProgress ==
  ASSUME GateInv, ProgressInv, Restart
  PROVE  ProgressInv'
<1>1. TypeOK /\ response' = response /\ accepted' = accepted
  BY DEF GateInv, Restart
<1>2. SUFFICES ASSUME NEW s \in Sessions PROVE ProgressOk(s)'
  BY DEF ProgressInv
<1>3. ProgressOk(s) /\ task[s] \in Tasks /\ SessionInv(s)
  BY <1>1 DEF ProgressInv, TypeOK, GateInv
<1>4. CASE task[s].pc = "absent"
  <2>1. task'[s] = task[s] /\ s \notin DOMAIN store
    BY <1>3, <1>4 DEF Restart, SessionInv
  <2>2. s \notin DOMAIN store'
    BY <2>1 DEF Restart
  <2>3. "absent" \notin Active
    BY DEF Active
  <2> QED  BY <1>1, <1>3, <1>4, <2>1, <2>2, <2>3 DEF ProgressOk, AnswerOk
<1>5. CASE task[s].pc # "absent"
  <2>1. task'[s] = [task[s] EXCEPT !.pc = "gone"]
    BY <1>5 DEF Restart
  <2>2. task'[s].pc = "gone" /\ "gone" \notin Live /\ "gone" \notin Active
    BY <1>3, <2>1 DEF Tasks, Live, Active, Suspended
  <2>3. s \in DOMAIN store' => s \in DOMAIN store /\ store'[s] = store[s]
    BY DEF Restart
  <2>4. AnswerOk(s)'
    BY <1>1, <1>3, <2>2, <2>3 DEF ProgressOk, AnswerOk
  <2>5. s \in DOMAIN store' => EvidenceOk(s)'
    BY <1>3, <2>2, <2>3 DEF ProgressOk, EvidenceOk
  <2>6. s \in DOMAIN store' => ResultOk(s)'
    <3>1. task[s].pc \in {"policy_trace", "await_approval"} =>
            response[s] = "none"
      BY <1>3 DEF ProgressOk, AnswerOk, Live, Active
    <3> QED  BY <1>1, <1>3, <2>2, <2>3, <3>1 DEF ProgressOk, ResultOk
  <2> QED  BY <2>4, <2>5, <2>6 DEF ProgressOk
<1> QED  BY <1>4, <1>5

\* Every step keeps the invariant: one case per kind.
LEMMA NextKeepsProgress ==
  ASSUME GateInv, ProgressInv, [Next]_vars
  PROVE  ProgressInv'
<1>1. CASE UNCHANGED <<store, loop, task, response, accepted>>
  BY <1>1 DEF ProgressInv, ProgressOk, AnswerOk, EvidenceOk, ResultOk
<1>2. CASE Restart
  BY <1>2, RestartKeepsProgress
<1>3. CASE \E s \in Sessions :
             PostIncident(s) \/ PostApproval(s) \/ CommitFails(s)
  BY <1>3, PostIncidentKeepsProgress, PostApprovalKeepsProgress,
     CommitFailsKeepsProgress
<1>4. CASE \E s \in Sessions : Advance(s) \/ Resume(s)
  <2>1. PICK s \in Sessions : Advance(s) \/ Resume(s)
    BY <1>4
  <2>2. Own(s) /\ accepted' = accepted
    BY <2>1, OwnStep DEF Own, Rest
  <2>3. CASE Raises(s)
    BY <2>2, <2>3, RaisesKeepProgress, OwnProgress
  <2>4. CASE \/ StorePlan(s) \/ TraceToolsFailed(s) \/ AssembleContext(s)
             \/ BuildPrompt(s) \/ CheckSanitization(s) \/ TraceLlm(s)
             \/ CheckGroundedness(s) \/ TracePolicy(s) \/ FinalizeTrace(s)
             \/ /\ FinalizeNormalize(s)
                /\ Normalized(store[s].status) = store[s].status
    BY <2>2, <2>4, TraceEffect, TraceKeepsProgress, OwnProgress
  <2>5. CASE \/ Validate(s) \/ Planning(s) \/ ForceFailure(s) \/ Retrieve(s)
             \/ ToolsFailed(s) \/ Analyze(s) \/ Execute(s)
             \/ /\ FinalizeNormalize(s)
                /\ Normalized(store[s].status) # store[s].status
    BY <2>2, <2>3, <2>5, PassEffect, PassKeepsProgress, OwnProgress
  <2>6. CASE \/ BudgetSpentAtStart(s) \/ BudgetSpentBeforeTool(s)
             \/ TimeSpentBeforeLlm(s) \/ LlmTimeout(s)
    <3>1. PICK hop \in DegradeHops :
            /\ task[s].pc = hop.from /\ Degrades(s, hop.why, hop.nested)
            /\ store' = store /\ response' = response /\ loop' = s
      BY <2>2, <2>6, GiveUpEffect
    <3>2. /\ hop.from \in {"preflight", "tool", "llm_call", "llm_wait"}
          /\ hop.why # "none"
      BY <3>1 DEF DegradeHops, GiveUp
    <3>3. task[s].pc \in {"preflight", "tool", "llm_call", "llm_wait",
                          "force_fail"}
      BY <3>1, <3>2
    <3>4. ProgressOk(s)'
      BY <2>2, <3>1, <3>2, <3>3, DegradeKeepsProgress
    <3> QED  BY <2>2, <3>4, OwnProgress
  <2>7. CASE ForcedToolFailed(s)
    <3>1. CASE /\ task[s].pc = "force_fail" /\ loop = s
               /\ Degrades(s, "forced_failure", FALSE) /\ Goes
               /\ StatusSet(store[s], store'[s], "tool_failed")
      <4>1. loop' = s /\ response' = response
        BY <3>1 DEF Goes
      <4>2. task[s].pc \in {"preflight", "tool", "llm_call", "llm_wait",
                            "force_fail"}
        BY <3>1
      <4> DEFINE why == "forced_failure"
                 nested == FALSE
      <4>3. Degrades(s, why, nested) /\ why # "none"
        BY <3>1
      <4> HIDE DEF why, nested
      <4>4. ProgressOk(s)'
        BY <2>2, <3>1, <4>1, <4>2, <4>3, DegradeKeepsProgress
      <4> QED  BY <2>2, <4>4, OwnProgress
    <3> QED  BY <2>2, <2>3, <2>7, <3>1, ForcedEffect
  <2>8. CASE \/ ToolRaises(s) \/ LlmRaises(s) \/ ContextRejected(s)
             \/ RequestRejected(s) \/ ReportRejected(s)
             \/ LlmUnimplemented(s)
    BY <2>3, <2>8, RaiseEffect
  <2>9. CASE StartTool(s) \/ ToolDone(s)
    BY <2>2, <2>9, ToolAwaitKeepsProgress, OwnProgress
  <2>10. CASE \/ SyncBudget(s) \/ RecordTool(s) \/ ToolSyncBudget(s)
              \/ ToolObserve(s)
    BY <2>2, <2>10, ToolKeepsProgress, OwnProgress
  <2>11. CASE StartLlm(s) \/ LlmDone(s) \/ BlockByPolicy(s)
    BY <2>2, <2>11, LlmKeepsProgress, OwnProgress
  <2>12. CASE \/ StoreReport(s) \/ FinalizeReport(s) \/ FinalizeState(s)
              \/ RequestApproval(s)
    BY <2>2, <2>12, ReportKeepsProgress, OwnProgress
  <2>13. CASE Complete(s) \/ AwaitApproval(s) \/ FinalizePartial(s)
    BY <2>2, <2>13, EndKeepsProgress, OwnProgress
  <2> QED  BY <2>1, <2>4, <2>5, <2>6, <2>7, <2>8, <2>9, <2>10, <2>11, <2>12,
              <2>13 DEF Advance, Resume
<1> QED  BY <1>1, <1>2, <1>3, <1>4
         DEF Next, vars, Expire, ApprovalCommitFails

\* The invariant holds in every reachable state.
THEOREM ProgressHolds == Spec => []ProgressInv
<1>1. Init => ProgressInv
  <2> SUFFICES ASSUME Init, NEW s \in Sessions PROVE ProgressOk(s)
    BY DEF ProgressInv
  <2>1. task[s].pc = "absent" /\ task[s].used = 0 /\ response[s] = "none"
        /\ s \notin DOMAIN store /\ "absent" \notin Active
    BY DEF Init, NoTask, Active
  <2> QED  BY <2>1 DEF ProgressOk, AnswerOk
<1>2. GateInv /\ ProgressInv /\ [Next]_vars => ProgressInv'
  BY NextKeepsProgress
<1> QED  BY <1>1, <1>2, GateHolds, PTL DEF Spec

\* At every moment, after a crash too, at most one tool call lacks its
\* observation and the stored budget lags the calls by at most one.
THEOREM EvidenceIsAccounted == Spec => []EvidenceAccounted
<1>1. GateInv /\ ProgressInv => EvidenceAccounted
  <2> SUFFICES ASSUME GateInv, ProgressInv PROVE EvidenceAccounted
    OBVIOUS
  <2>1. DOMAIN store \subseteq Sessions
    BY DEF GateInv, TypeOK
  <2>2. \A s \in DOMAIN store : EvidenceOk(s)
    BY <2>1 DEF ProgressInv, ProgressOk
  <2>3. ASSUME NEW s \in DOMAIN store
        PROVE  task[s].pc \in {"tool_wait", "tool_record"} =>
                 task[s].pc \in Live \ {"sync_budget", "tool_sync",
                                        "tool_observe"}
    BY DEF Live, Active, Suspended
  <2>4. ASSUME NEW s \in DOMAIN store
        PROVE  /\ task[s].used \in Nat /\ Len(store[s].calls) \in Nat
               /\ store[s].observations \in Nat
    <3>1. task[s] \in Tasks /\ store[s] \in Rows
      BY <2>1 DEF GateInv, TypeOK
    <3>2. store[s].calls \in Seq(ToolCalls)
      BY <3>1 DEF Rows
    <3> QED  BY <3>1, <3>2 DEF Tasks, Rows
  <2>5. ASSUME NEW s \in DOMAIN store, task[s].pc \in Live \cup {"returned"}
        PROVE  task[s].used = Len(store[s].calls) +
                 (IF task[s].pc \in {"tool_wait", "tool_record"} THEN 1 ELSE 0)
    <3>1. CASE task[s].pc \in {"tool_wait", "tool_record"}
      BY <2>2, <2>5, <3>1 DEF EvidenceOk
    <3>2. CASE task[s].pc \notin {"tool_wait", "tool_record"}
      <4>1. task[s].used = Len(store[s].calls)
        BY <2>2, <2>5, <3>2 DEF EvidenceOk
      <4>2. Len(store[s].calls) + 0 = Len(store[s].calls)
        BY <2>4
      <4> QED  BY <3>2, <4>1, <4>2
    <3> QED  BY <3>1, <3>2
  <2> QED  BY <2>2, <2>3, <2>5 DEF EvidenceOk, EvidenceAccounted
<1> QED  BY <1>1, GateHolds, ProgressHolds, PTL

\* A settled session has the report of its outcome, and a partial one a reason
\* or its rejection.
THEOREM SettledReportsFit == Spec => []SettledHasReport
<1>1. GateInv /\ ProgressInv => SettledHasReport
  <2> SUFFICES ASSUME GateInv, ProgressInv, NEW s \in DOMAIN store
               PROVE  ResultOk(s)
    BY DEF ResultOk, SettledHasReport
  <2> QED  BY DEF GateInv, TypeOK, ProgressInv, ProgressOk
<1> QED  BY <1>1, GateHolds, ProgressHolds, PTL

\* A pending request is stored only at the gate, or where the triage was cut
\* off between its two commits.
THEOREM RequestsAreExplained == Spec => []OrphanedRequest
<1>1. GateInv /\ ProgressInv => OrphanedRequest
  <2> SUFFICES ASSUME GateInv, ProgressInv, NEW s \in DOMAIN store,
                      store[s].request # NoRequest,
                      store[s].status # "waiting_approval"
               PROVE  /\ store[s].status = "analyzing"
                      /\ \/ /\ loop = s
                            /\ task[s].pc \in {"policy_trace",
                                                "await_approval"}
                         \/ /\ task[s].pc \in {"raised", "gone"}
                            /\ response[s] # "201"
    BY DEF OrphanedRequest
  <2>1. ResultOk(s) /\ AnswerOk(s)
    BY DEF GateInv, TypeOK, ProgressInv, ProgressOk
  <2>2. {"policy_trace", "await_approval"} \subseteq Active
    BY DEF Active
  <2> QED  BY <2>1, <2>2 DEF ResultOk, AnswerOk
<1> QED  BY <1>1, GateHolds, ProgressHolds, PTL

\* A client is answered 201 for a settled session only, and it stays settled
\* for as long as it is stored.
THEOREM AnswersAreTrue == Spec => []AnsweredIsSettled
<1>1. GateInv /\ ProgressInv => AnsweredIsSettled
  <2> SUFFICES ASSUME GateInv, ProgressInv, NEW s \in Sessions,
                      response[s] = "201"
               PROVE  /\ task[s].pc \in {"returned", "gone"}
                      /\ s \in DOMAIN store => store[s].status \in Settled
    BY DEF AnsweredIsSettled
  <2>1. AnswerOk(s) /\ task[s] \in Tasks
    BY DEF GateInv, TypeOK, ProgressInv, ProgressOk
  <2>2. task[s].pc \in {"absent"} \cup Live \cup Ended
    BY <2>1 DEF Tasks
  <2> QED  BY <2>1, <2>2 DEF AnswerOk, Ended
<1> QED  BY <1>1, GateHolds, ProgressHolds, PTL
=============================================================================

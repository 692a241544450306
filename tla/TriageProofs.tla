----------------------------- MODULE TriageProofs -----------------------------
(***************************************************************************)
(* The approval gate holds for every set of sessions, either backend and   *)
(* every bound: GateInv is inductive, and it implies RiskNeedsApproval,    *)
(* WaitingIsPending and DecidedOnce.                                       *)
(***************************************************************************)
EXTENDS TriageProperties, RepositoryProofs

\* What a step of session s leaves alone: every other session.
Only(s) ==
  \A t \in Sessions \ {s} :
    /\ t \in DOMAIN store' <=> t \in DOMAIN store
    /\ t \in DOMAIN store => store'[t] = store[t]
    /\ task'[t] = task[t]
    /\ accepted'[t] = accepted[t]

\* A step of session s keeps the invariant of the others, so its own is all
\* there is to check.
LEMMA Local ==
  ASSUME GateInv, NEW s \in Sessions, Only(s), TypeOK', SessionInv(s)'
  PROVE  GateInv'
<1>1. SUFFICES ASSUME NEW t \in Sessions \ {s}
               PROVE  SessionInv(t)'
  BY DEF GateInv
<1>2. /\ t \in DOMAIN store' <=> t \in DOMAIN store
      /\ t \in DOMAIN store => store'[t] = store[t]
      /\ task'[t] = task[t]
      /\ accepted'[t] = accepted[t]
  BY DEF Only
<1>3. SessionInv(t)
  BY DEF GateInv
<1> QED  BY <1>2, <1>3 DEF SessionInv, RunOk, RowOk, Risky

\* Counting keeps the counters natural numbers.
LEMMA IncrementedType ==
  ASSUME TypeOK, NEW names
  PROVE  Incremented(names) \in [Counters -> Nat]
BY DEF TypeOK, Incremented

\* The steps a coroutine can be at.
Pcs == {"absent"} \cup Live \cup Ended

\* Moving a coroutine to another step.
LEMMA GotoEffect ==
  ASSUME TypeOK, NEW s \in Sessions, NEW pc \in Pcs, Goto(s, pc)
  PROVE  /\ task' \in [Sessions -> Tasks]
         /\ task'[s] = [task[s] EXCEPT !.pc = pc]
         /\ \A t \in Sessions \ {s} : task'[t] = task[t]
<1>1. task[s] \in Tasks /\ task \in [Sessions -> Tasks]
  BY DEF TypeOK
<1>2. [task[s] EXCEPT !.pc = pc] \in Tasks
  BY <1>1 DEF Tasks, Pcs
<1> QED  BY <1>1, <1>2 DEF Goto

\* A repository call on the row of a stored session.
LEMMA WriteEffect ==
  ASSUME TypeOK, NEW s \in DOMAIN store, NEW row \in Rows, Write(s, row)
  PROVE  /\ DOMAIN store' = DOMAIN store
         /\ \A t \in DOMAIN store' : store'[t] \in Rows
         /\ store'[s] = row
         /\ \A t \in DOMAIN store : t # s => store'[t] = store[t]
BY DEF TypeOK, Write

\* A coroutine that ends with an exception leaves the rows alone: its session
\* stays where it is.
LEMMA RaiseKeepsGate ==
  ASSUME GateInv, NEW s \in Sessions, NEW names, Raise(s, names),
         UNCHANGED <<store, late, accepted, posts, restarts>>,
         faults' \in Nat, s \in DOMAIN store \/ task[s].pc = "absent"
  PROVE  GateInv'
<1>1. TypeOK /\ SessionInv(s)
  BY DEF GateInv
<1>2. /\ "raised" \in Pcs /\ "raised" # "absent" /\ "raised" \notin Live
      /\ "raised" \notin Analysis
  BY DEF Pcs, Ended, Live, Active, Suspended, Analysis
<1>3. /\ task' \in [Sessions -> Tasks]
      /\ task'[s] = [task[s] EXCEPT !.pc = "raised"]
      /\ \A t \in Sessions \ {s} : task'[t] = task[t]
  BY <1>1, <1>2, GotoEffect DEF Raise
<1>4. TypeOK'
  BY <1>1, <1>3, IncrementedType DEF Raise, TypeOK
<1>5. task'[s].pc = "raised"
  BY <1>1, <1>3 DEF TypeOK, Tasks
<1>6. SessionInv(s)'
  BY <1>1, <1>2, <1>5 DEF SessionInv, RunOk, RowOk
<1>7. Only(s)
  BY <1>3 DEF Only
<1> QED  BY <1>4, <1>6, <1>7, Local

\* The lifecycle fields of a row, which the invariant reads.
SameLife(row, new) ==
  /\ new.status = row.status /\ new.report = row.report
  /\ new.request = row.request /\ new.iteration = row.iteration

\* Going from one step to another asks nothing new of an unchanged row.
Compatible(from, to) ==
  /\ from \in Live /\ to \in Live
  /\ to \in Analysis => from \in Analysis
  /\ to \in {"decide", "request", "policy_trace", "await_approval"} =>
       from \in {"decide", "request", "policy_trace", "await_approval"}
  /\ to \in {"request", "policy_trace", "await_approval"} =>
       from \in {"request", "policy_trace", "await_approval"}
  /\ to \in {"policy_trace", "await_approval"} =>
       from \in {"policy_trace", "await_approval"}
  /\ to \in {"fp_state", "fp_trace", "fp_normalize", "fp_partial"} =>
       from \in {"fp_state", "fp_trace", "fp_normalize", "fp_partial"}

\* A step that keeps the lifecycle fields and asks nothing new keeps the
\* invariant.
LEMMA StepKeepsGate ==
  ASSUME GateInv, NEW s \in Sessions, TypeOK', Only(s),
         s \in DOMAIN store', SameLife(store[s], store'[s]),
         accepted' = accepted,
         Compatible(task[s].pc, task'[s].pc),
         task'[s].pc \in Analysis => task'[s].llm = task[s].llm
                                     \/ task'[s].pc = "llm_trace"
  PROVE  GateInv'
<1>1. SessionInv(s)
  BY DEF GateInv
<1>2. "absent" \notin Live /\ task'[s].pc \in Live /\ task[s].pc \in Live
  BY DEF Live, Active, Suspended, Compatible
<1>3. s \in DOMAIN store /\ RunOk(s) /\ RowOk(s)
  BY <1>1, <1>2 DEF SessionInv
<1>4. RowOk(s)'
  BY <1>3 DEF RowOk, SameLife
<1>5. RunOk(s)'
  BY <1>2, <1>3 DEF RunOk, SameLife, Compatible, Risky, Analysis
<1>6. SessionInv(s)'
  BY <1>1, <1>2, <1>4, <1>5 DEF SessionInv
<1> QED  BY <1>6, Local

\* A repository call followed by the next step.
LEMMA CallEffect ==
  ASSUME TypeOK, NEW s \in DOMAIN store, NEW row \in Rows, NEW pc \in Pcs,
         Call(s, row, pc) \/ \E names : CallAndCount(s, row, pc, names)
  PROVE  /\ TypeOK' /\ Only(s)
         /\ s \in DOMAIN store' /\ store'[s] = row
         /\ task'[s].pc = pc /\ task'[s].llm = task[s].llm
         /\ accepted' = accepted
<1>1. s \in Sessions /\ task[s] \in Tasks
  BY DEF TypeOK
<1>2. /\ task' \in [Sessions -> Tasks]
      /\ task'[s] = [task[s] EXCEPT !.pc = pc]
      /\ \A t \in Sessions \ {s} : task'[t] = task[t]
  BY <1>1, GotoEffect DEF Call, CallAndCount, Proceed
<1>3. /\ DOMAIN store' = DOMAIN store
      /\ \A t \in DOMAIN store' : store'[t] \in Rows
      /\ store'[s] = row
      /\ \A t \in DOMAIN store : t # s => store'[t] = store[t]
  BY WriteEffect DEF Call, CallAndCount
<1>4. TypeOK'
  <2>1. metrics' \in [Counters -> Nat]
    BY IncrementedType DEF TypeOK, Call, CallAndCount, Proceed
  <2> QED  BY <1>2, <1>3, <2>1 DEF TypeOK, Call, CallAndCount, Proceed, Rest
<1>5. Only(s)
  BY <1>2, <1>3 DEF Only, Call, CallAndCount, Rest
<1>6. task'[s].pc = pc /\ task'[s].llm = task[s].llm
  BY <1>1, <1>2 DEF Tasks
<1> QED  BY <1>3, <1>4, <1>5, <1>6 DEF Call, CallAndCount, Rest

\* A repository call that keeps the lifecycle fields keeps the invariant.
LEMMA CallKeepsGate ==
  ASSUME GateInv, NEW s \in Sessions, NEW row \in Rows, NEW pc \in Live,
         Call(s, row, pc) \/ \E names : CallAndCount(s, row, pc, names),
         SameLife(store[s], row),
         Compatible(task[s].pc, pc)
  PROVE  GateInv'
<1>1. TypeOK /\ SessionInv(s)
  BY DEF GateInv
<1>2. s \in DOMAIN store
  BY <1>1 DEF SessionInv, Compatible
<1>3. pc \in Pcs
  BY DEF Pcs
<1>4. /\ TypeOK' /\ Only(s)
      /\ s \in DOMAIN store' /\ store'[s] = row
      /\ task'[s].pc = pc /\ task'[s].llm = task[s].llm
      /\ accepted' = accepted
  BY <1>1, <1>2, <1>3, CallEffect
<1> QED  BY <1>4, StepKeepsGate

\* Recording a trace step in between.
LEMMA TraceStepKeepsGate ==
  ASSUME GateInv, NEW s \in Sessions, NEW step \in StepTypes, NEW pc \in Live,
         Call(s, AppendTrace(store[s], step), pc),
         Compatible(task[s].pc, pc)
  PROVE  GateInv'
<1>1. s \in DOMAIN store /\ store[s] \in Rows
  BY DEF GateInv, TypeOK, SessionInv, Compatible
<1>2. Keeps(store[s], AppendTrace(store[s], step))
  BY <1>1, AppendTraceKeeps
<1> QED  BY <1>2, CallKeepsGate DEF Keeps, SameLife

\* The budget's remaining calls are a natural number.
LEMMA RemainingType ==
  ASSUME TypeOK, NEW s \in Sessions
  PROVE  Remaining(s) \in Nat
<1>1. task[s].used \in Nat
  BY DEF TypeOK, Tasks
<1> QED  BY <1>1, OrchestratorAssumption DEF Remaining

\* Storing the budget and a failure reason.
LEMMA StateStepKeepsGate ==
  ASSUME GateInv, NEW s \in Sessions, NEW reason \in Reasons, NEW pc \in Live,
         LET new == UpdateSessionState(store[s], Remaining(s), reason)
         IN  Call(s, new, pc) \/ \E names : CallAndCount(s, new, pc, names),
         Compatible(task[s].pc, pc)
  PROVE  GateInv'
<1>1. s \in DOMAIN store /\ store[s] \in Rows /\ TypeOK
  BY DEF GateInv, TypeOK, SessionInv, Compatible
<1>2. Remaining(s) \in Nat
  BY <1>1, RemainingType
<1> DEFINE new == UpdateSessionState(store[s], Remaining(s), reason)
<1>3. new \in Rows /\ SameLife(store[s], new)
  BY <1>1, <1>2, UpdateSessionStateKeeps DEF SameLife
<1> QED  BY <1>3, CallKeepsGate

\* The steps before the tools, and the trace steps of the analysis.
LEMMA QuietStepsKeepGate ==
  ASSUME GateInv, NEW s \in Sessions,
         \/ SyncBudget(s) \/ StorePlan(s) \/ RecordTool(s)
         \/ ToolSyncBudget(s) \/ TraceToolsFailed(s) \/ AssembleContext(s)
         \/ BuildPrompt(s) \/ CheckSanitization(s) \/ TraceLlm(s)
         \/ CheckGroundedness(s) \/ TracePolicy(s) \/ FinalizeState(s)
         \/ FinalizeTrace(s)
  PROVE  GateInv'
<1> USE DEF At
<1>1. TypeOK /\ task[s] \in Tasks
  BY DEF GateInv, TypeOK
<1>2. task[s].pc \in Live => s \in DOMAIN store /\ store[s] \in Rows
  BY DEF GateInv, TypeOK, SessionInv
<1>3. CASE SyncBudget(s)
  <2>1. Compatible(task[s].pc, "validate") /\ "validate" \in Live
    BY <1>3 DEF SyncBudget, Compatible, Live, Active, Analysis
  <2>2. store[s].reason \in Reasons
    BY <1>2, <2>1 DEF Rows, Compatible
  <2> QED  BY <1>3, <2>1, <2>2, StateStepKeepsGate DEF SyncBudget
<1>4. CASE StorePlan(s)
  <2>1. Compatible(task[s].pc, "preflight") /\ "preflight" \in Live
    BY <1>4 DEF StorePlan, Compatible, Live, Active, Analysis
  <2>2. Keeps(store[s], UpdateInvestigationPlan(store[s]))
    BY <1>2, <2>1, UpdateInvestigationPlanKeeps DEF Compatible
  <2> QED  BY <1>4, <2>1, <2>2, CallKeepsGate DEF StorePlan, Keeps, SameLife
<1>5. CASE RecordTool(s)
  <2>1. Compatible(task[s].pc, "tool_sync") /\ "tool_sync" \in Live
    BY <1>5 DEF RecordTool, Compatible, Live, Active, Analysis
  <2> DEFINE call == [tool |-> task[s].tool, ok |-> task[s].ok]
  <2>2. call \in ToolCalls
    BY <1>1 DEF Tasks, ToolCalls
  <2> HIDE DEF call
  <2>3. Keeps(store[s], AddToolCall(store[s], call))
    BY <1>2, <2>1, <2>2, AddToolCallKeeps DEF Compatible
  <2> QED  BY <1>5, <2>1, <2>3, CallKeepsGate
           DEF RecordTool, Keeps, SameLife, call
<1>6. CASE ToolSyncBudget(s)
  <2>1. Compatible(task[s].pc, "tool_observe") /\ "tool_observe" \in Live
    BY <1>6 DEF ToolSyncBudget, Compatible, Live, Active, Analysis
  <2>2. store[s].reason \in Reasons
    BY <1>2, <2>1 DEF Rows, Compatible
  <2> QED  BY <1>6, <2>1, <2>2, StateStepKeepsGate DEF ToolSyncBudget
<1>7. CASE TraceToolsFailed(s)
  <2>1. /\ Compatible(task[s].pc, "analyzing") /\ "analyzing" \in Live
        /\ "tool_failed" \in StepTypes
    BY <1>7 DEF TraceToolsFailed, Compatible, Live, Active, Analysis, StepTypes
  <2> QED  BY <1>7, <2>1, TraceStepKeepsGate DEF TraceToolsFailed
<1>8. CASE AssembleContext(s)
  <2>1. /\ Compatible(task[s].pc, "prompt") /\ "prompt" \in Live
        /\ "context_assembly" \in StepTypes
    BY <1>8 DEF AssembleContext, Compatible, Live, Active, Analysis, StepTypes
  <2> QED  BY <1>8, <2>1, TraceStepKeepsGate DEF AssembleContext
<1>9. CASE BuildPrompt(s)
  <2>1. /\ Compatible(task[s].pc, "sanitize") /\ "sanitize" \in Live
        /\ "prompt_build" \in StepTypes
    BY <1>9 DEF BuildPrompt, Compatible, Live, Active, Analysis, StepTypes
  <2> QED  BY <1>9, <2>1, TraceStepKeepsGate DEF BuildPrompt
<1>10. CASE CheckSanitization(s)
  <2>1. /\ Compatible(task[s].pc, "llm_call") /\ "llm_call" \in Live
        /\ "sanitization_check" \in StepTypes
    BY <1>10
       DEF CheckSanitization, Compatible, Live, Active, Analysis, StepTypes
  <2> QED  BY <1>10, <2>1, TraceStepKeepsGate DEF CheckSanitization
<1>11. CASE TraceLlm(s)
  <2>1. /\ Compatible(task[s].pc, "ground") /\ "ground" \in Live
        /\ "llm_analysis" \in StepTypes
    BY <1>11 DEF TraceLlm, Compatible, Live, Active, Analysis, StepTypes
  <2> QED  BY <1>11, <2>1, TraceStepKeepsGate DEF TraceLlm
<1>12. CASE CheckGroundedness(s)
  <2>1. /\ Compatible(task[s].pc, "report") /\ "report" \in Live
        /\ "groundedness_check" \in StepTypes
    BY <1>12
       DEF CheckGroundedness, Compatible, Live, Active, Analysis, StepTypes
  <2> QED  BY <1>12, <2>1, TraceStepKeepsGate DEF CheckGroundedness
<1>13. CASE TracePolicy(s)
  <2>1. /\ Compatible(task[s].pc, "await_approval") /\ "await_approval" \in Live
        /\ "policy_check" \in StepTypes
    BY <1>13 DEF TracePolicy, Compatible, Live, Active, Analysis, StepTypes
  <2> QED  BY <1>13, <2>1, TraceStepKeepsGate DEF TracePolicy
<1>14. CASE FinalizeTrace(s)
  <2>1. /\ Compatible(task[s].pc, "fp_normalize") /\ "fp_normalize" \in Live
        /\ "degradation" \in StepTypes
    BY <1>14 DEF FinalizeTrace, Compatible, Live, Active, Analysis, StepTypes
  <2> QED  BY <1>14, <2>1, TraceStepKeepsGate DEF FinalizeTrace
<1>15. CASE FinalizeState(s)
  <2>1. Compatible(task[s].pc, "fp_trace") /\ "fp_trace" \in Live
    BY <1>15 DEF FinalizeState, Compatible, Live, Active, Analysis
  <2>2. task[s].why \in Reasons
    BY <1>1 DEF Tasks
  <2> QED  BY <1>15, <2>1, <2>2, StateStepKeepsGate DEF FinalizeState
<1> QED  BY <1>3, <1>4, <1>5, <1>6, <1>7, <1>8, <1>9, <1>10, <1>11, <1>12,
            <1>13, <1>14, <1>15
---------------------------------------------------------------------------
\* A step of a coroutine keeps the invariant when its own session's part holds
\* afterwards.
LEMMA OwnStepKeepsGate ==
  ASSUME GateInv, NEW s \in Sessions,
         DOMAIN store' = DOMAIN store,
         \A t \in DOMAIN store : t # s => store'[t] = store[t],
         s \in DOMAIN store => store'[s] \in Rows,
         task' \in [Sessions -> Tasks],
         \A t \in Sessions \ {s} : task'[t] = task[t],
         loop' \in Sessions \cup {Idle}, metrics' \in [Counters -> Nat],
         response' \in [Sessions -> {"none", "201", "500"}],
         Rest, SessionInv(s)'
  PROVE  GateInv'
<1>1. TypeOK
  BY DEF GateInv
<1>2. TypeOK'
  BY <1>1 DEF TypeOK, Rest
<1>3. Only(s)
  BY DEF Only, Rest
<1> QED  BY <1>2, <1>3, Local

\* The statuses a triage passes through.
Passing == Statuses \ {"completed", "waiting_approval", "partial_completed"}

\* A coroutine whose row was given a passing status.
LEMMA PassingOk ==
  ASSUME GateInv, NEW s \in Sessions, s \in DOMAIN store,
         task[s].pc \in Live, NEW status \in Passing,
         s \in DOMAIN store', store'[s] = UpdateStatus(store[s], status),
         accepted' = accepted, task'[s].pc \in Live,
         task'[s].pc \in Analysis => task'[s].pc = "context"
                                     /\ status = "analyzing",
         task'[s].pc \notin {"fp_state", "fp_trace", "fp_normalize",
                             "fp_partial"}
  PROVE  SessionInv(s)'
<1>1. SessionInv(s) /\ store[s] \in Rows /\ status \in Statuses
  BY DEF GateInv, TypeOK, Passing
<1>2. "absent" \notin Live
  BY DEF Live, Active, Suspended
<1>3. /\ store'[s].status = status
      /\ store'[s].report = store[s].report
      /\ store'[s].request = store[s].request
      /\ store'[s].iteration = store[s].iteration
  BY <1>1, UpdateStatusSets
<1>4. RunOk(s) /\ RowOk(s) /\ accepted[s] = << >>
  BY <1>1 DEF SessionInv, RunOk
<1>5. RowOk(s)'
  BY <1>3, <1>4 DEF RowOk, Passing
<1>6. RunOk(s)'
  BY <1>3, <1>4 DEF RunOk, Passing, Analysis
<1> QED  BY <1>1, <1>2, <1>5, <1>6 DEF SessionInv

\* A coroutine that goes on with a passing status, or raises.
LEMMA StatusStepKeepsGate ==
  ASSUME GateInv, NEW s \in Sessions, NEW status \in Passing, NEW pc \in Live,
         ChangeStatus(s, status, Proceed(s, pc)), task[s].pc \in Live,
         pc \in Analysis => pc = "context" /\ status = "analyzing",
         pc \notin {"fp_state", "fp_trace", "fp_normalize", "fp_partial"}
  PROVE  GateInv'
<1>1. /\ TypeOK /\ s \in DOMAIN store /\ store[s] \in Rows
      /\ task[s] \in Tasks /\ status \in Statuses
  BY DEF GateInv, TypeOK, SessionInv, Passing
<1>2. CASE /\ ~CanTransition(store[s].status, status)
           /\ Raise(s, {}) /\ UNCHANGED store /\ Rest
  BY <1>1, <1>2, RaiseKeepsGate DEF Rest, TypeOK
<1>3. CASE /\ Write(s, UpdateStatus(store[s], status))
           /\ Proceed(s, pc) /\ Rest
  <2>1. UpdateStatus(store[s], status) \in Rows
    BY <1>1, UpdateStatusSets
  <2>2. Call(s, UpdateStatus(store[s], status), pc) /\ pc \in Pcs
    BY <1>3 DEF Call, Pcs
  <2>3. /\ TypeOK' /\ Only(s)
        /\ s \in DOMAIN store'
        /\ store'[s] = UpdateStatus(store[s], status)
        /\ task'[s].pc = pc /\ accepted' = accepted
    BY <1>1, <2>1, <2>2, CallEffect
  <2>4. SessionInv(s)'
    BY <1>1, <2>3, PassingOk
  <2> QED  BY <2>3, <2>4, Local
<1> QED  BY <1>2, <1>3 DEF ChangeStatus

\* The status changes of the triage that go straight on.
LEMMA StatusStepsKeepGate ==
  ASSUME GateInv, NEW s \in Sessions,
         \/ Validate(s) \/ Planning(s) \/ ForceFailure(s) \/ Retrieve(s)
         \/ ToolsFailed(s) \/ Analyze(s)
  PROVE  GateInv'
<1> USE DEF At, Passing, Statuses, Live, Active, Analysis
<1>1. CASE Validate(s)
  BY <1>1, StatusStepKeepsGate DEF Validate
<1>2. CASE Planning(s)
  BY <1>2, StatusStepKeepsGate DEF Planning
<1>3. CASE ForceFailure(s)
  BY <1>3, StatusStepKeepsGate DEF ForceFailure
<1>4. CASE Retrieve(s)
  BY <1>4, StatusStepKeepsGate DEF Retrieve
<1>5. CASE ToolsFailed(s)
  BY <1>5, StatusStepKeepsGate DEF ToolsFailed
<1>6. CASE Analyze(s)
  BY <1>6, StatusStepKeepsGate DEF Analyze
<1> QED  BY <1>1, <1>2, <1>3, <1>4, <1>5, <1>6

\* Degrade starts _finalize_partial.
LEMMA DegradeEffect ==
  ASSUME TypeOK, NEW s \in Sessions, NEW why \in Reasons,
         NEW nested \in BOOLEAN, Degrade(s, why, nested)
  PROVE  /\ task' \in [Sessions -> Tasks]
         /\ task'[s].pc = "fp_report"
         /\ \A t \in Sessions \ {s} : task'[t] = task[t]
         /\ response' = response
<1>1. task[s] \in Tasks /\ task \in [Sessions -> Tasks]
  BY DEF TypeOK
<1> DEFINE new == [task[s] EXCEPT !.pc = "fp_report", !.why = why,
                                  !.nested = nested]
<1>2. new \in Tasks /\ new.pc = "fp_report"
  BY <1>1 DEF Tasks, Live, Active
<1>3. task' = [task EXCEPT ![s] = new]
  BY <1>1 DEF Degrade, Tasks
<1> HIDE DEF new
<1> QED  BY <1>1, <1>2, <1>3 DEF Degrade

\* _run_tool returns.
LEMMA LeaveToolEffect ==
  ASSUME TypeOK, NEW s \in Sessions, LeaveTool(s)
  PROVE  /\ task' \in [Sessions -> Tasks]
         /\ task'[s].pc \in {"executing", "tool", "executed"}
         /\ \A t \in Sessions \ {s} : task'[t] = task[t]
<1>1. task[s] \in Tasks /\ task \in [Sessions -> Tasks]
  BY DEF TypeOK
<1> DEFINE next == AfterTool(task[s].tool)
           new == [task[s] EXCEPT !.pc = next.pc, !.tool = next.tool]
<1>2. task[s].tool \in Tools
  BY <1>1 DEF Tasks
<1>3. next.pc \in {"executing", "tool", "executed"} /\ next.tool \in Tools
  BY <1>2 DEF AfterTool, Tools
<1>4. task' = [task EXCEPT ![s] = new]
  BY <1>1 DEF LeaveTool, Tasks
<1> HIDE DEF next
<1>5. new \in Tasks /\ new.pc = next.pc
  BY <1>1, <1>3 DEF Tasks, Live, Active
<1> HIDE DEF new
<1> QED  BY <1>1, <1>3, <1>4, <1>5

\* The status changes that leave the straight way: execution starts, the forced
\* failure degrades.
LEMMA ExecuteKeepsGate ==
  ASSUME GateInv, NEW s \in Sessions, Execute(s) \/ ForcedToolFailed(s)
  PROVE  GateInv'
<1>1. /\ TypeOK /\ SessionInv(s) /\ task \in [Sessions -> Tasks]
      /\ task[s] \in Tasks /\ task[s].pc \in Live
      /\ s \in DOMAIN store /\ store[s] \in Rows
  BY DEF GateInv, TypeOK, SessionInv, Execute, ForcedToolFailed, At, Live,
         Active
<1>2. {"executing_tools", "tool_failed"} \subseteq Passing \cap Statuses
  BY DEF Passing, Statuses
<1>3. CASE Execute(s)
  <2> DEFINE base == Len(store[s].calls)
             new == [task[s] EXCEPT !.pc = "tool", !.base = base]
             Then == /\ task' = [task EXCEPT ![s].pc = "tool", ![s].base = base]
                     /\ UNCHANGED <<loop, metrics, response>>
  <2>1. base \in Nat
    BY <1>1 DEF Rows
  <2> HIDE DEF base
  <2>2. CASE Raise(s, {}) /\ UNCHANGED store /\ Rest
    BY <1>1, <2>2, RaiseKeepsGate DEF Rest, TypeOK
  <2>3. CASE Write(s, UpdateStatus(store[s], "executing_tools")) /\ Then /\ Rest
    <3>1. /\ new \in Tasks /\ new.pc = "tool"
          /\ task' = [task EXCEPT ![s] = new]
      BY <1>1, <2>1, <2>3 DEF Tasks, Live, Active
    <3> HIDE DEF new
    <3>2. /\ task' \in [Sessions -> Tasks] /\ task'[s].pc = "tool"
          /\ \A t \in Sessions \ {s} : task'[t] = task[t]
      BY <1>1, <3>1
    <3>3. UpdateStatus(store[s], "executing_tools") \in Rows
      BY <1>1, <1>2, UpdateStatusSets
    <3>4. /\ DOMAIN store' = DOMAIN store
          /\ store'[s] = UpdateStatus(store[s], "executing_tools")
          /\ \A t \in DOMAIN store : t # s => store'[t] = store[t]
      BY <1>1, <2>3, <3>3, WriteEffect
    <3>5. SessionInv(s)'
      BY <1>1, <1>2, <2>3, <3>2, <3>4, PassingOk
         DEF Rest, Live, Active, Analysis
    <3> QED  BY <1>1, <2>3, <3>2, <3>3, <3>4, <3>5, OwnStepKeepsGate DEF TypeOK
  <2> QED  BY <1>3, <2>2, <2>3 DEF Execute, ChangeStatus, base
<1>4. CASE ForcedToolFailed(s)
  <2>1. CASE Raise(s, {}) /\ UNCHANGED store /\ Rest
    BY <1>1, <2>1, RaiseKeepsGate DEF Rest, TypeOK
  <2>2. CASE /\ Write(s, UpdateStatus(store[s], "tool_failed"))
             /\ Degrade(s, "forced_failure", FALSE)
             /\ UNCHANGED <<loop, metrics>> /\ Rest
    <3>1. /\ task' \in [Sessions -> Tasks] /\ task'[s].pc = "fp_report"
          /\ \A t \in Sessions \ {s} : task'[t] = task[t]
          /\ response' = response
      BY <1>1, <2>2, DegradeEffect DEF Reasons
    <3>2. UpdateStatus(store[s], "tool_failed") \in Rows
      BY <1>1, <1>2, UpdateStatusSets
    <3>3. /\ DOMAIN store' = DOMAIN store
          /\ store'[s] = UpdateStatus(store[s], "tool_failed")
          /\ \A t \in DOMAIN store : t # s => store'[t] = store[t]
      BY <1>1, <2>2, <3>2, WriteEffect
    <3>4. SessionInv(s)'
      BY <1>1, <1>2, <2>2, <3>1, <3>3, PassingOk
         DEF Rest, Live, Active, Analysis
    <3> QED  BY <1>1, <2>2, <3>1, <3>2, <3>3, <3>4, OwnStepKeepsGate DEF TypeOK
  <2> QED  BY <1>4, <2>1, <2>2 DEF ForcedToolFailed, ChangeStatus
<1> QED  BY <1>3, <1>4

\* Returning answers 201.
LEMMA ReturnEffect ==
  ASSUME TypeOK, NEW s \in Sessions, NEW names, Return(s, names)
  PROVE  /\ task' \in [Sessions -> Tasks]
         /\ task'[s].pc = "returned" /\ "returned" \notin Live
         /\ \A t \in Sessions \ {s} : task'[t] = task[t]
         /\ loop' \in Sessions \cup {Idle}
         /\ metrics' \in [Counters -> Nat]
         /\ response' \in [Sessions -> {"none", "201", "500"}]
<1>1. task[s] \in Tasks
  BY DEF TypeOK
<1>2. "returned" \in Pcs /\ "returned" \notin Live
  BY DEF Pcs, Ended, Live, Active, Suspended
<1>3. /\ task' \in [Sessions -> Tasks]
      /\ task'[s] = [task[s] EXCEPT !.pc = "returned"]
      /\ \A t \in Sessions \ {s} : task'[t] = task[t]
  BY <1>2, GotoEffect DEF Return
<1> QED  BY <1>1, <1>2, <1>3, IncrementedType DEF Return, TypeOK, Tasks

\* The two ways a decision ends: completed when nothing is risky, waiting
\* behind the gate otherwise.
LEMMA DecisionKeepsGate ==
  ASSUME GateInv, NEW s \in Sessions, Complete(s) \/ AwaitApproval(s)
  PROVE  GateInv'
<1>1. /\ TypeOK /\ SessionInv(s) /\ task[s].pc \in Live
      /\ s \in DOMAIN store /\ store[s] \in Rows /\ RunOk(s) /\ RowOk(s)
  BY DEF GateInv, TypeOK, SessionInv, Complete, AwaitApproval, At, Live, Active
<1>2. CASE \E status \in {"completed", "waiting_approval"},
               names \in SUBSET Counters :
             /\ Write(s, UpdateStatus(store[s], status))
             /\ Return(s, names) /\ Rest
             /\ status = "completed" => Complete(s)
             /\ status = "waiting_approval" => AwaitApproval(s)
  <2>1. PICK status \in {"completed", "waiting_approval"},
             names \in SUBSET Counters :
             /\ Write(s, UpdateStatus(store[s], status))
             /\ Return(s, names) /\ Rest
             /\ status = "completed" => Complete(s)
             /\ status = "waiting_approval" => AwaitApproval(s)
    BY <1>2
  <2> DEFINE row == UpdateStatus(store[s], status)
  <2>2. /\ row \in Rows /\ row.status = status
        /\ row.report = store[s].report
        /\ row.request = store[s].request
        /\ row.iteration = store[s].iteration
    <3>1. status \in Statuses
      BY DEF Statuses
    <3> QED  BY <1>1, <3>1, UpdateStatusSets
  <2> HIDE DEF row
  <2>3. /\ DOMAIN store' = DOMAIN store
        /\ store'[s] = row
        /\ \A t \in DOMAIN store : t # s => store'[t] = store[t]
    BY <1>1, <2>1, <2>2, WriteEffect DEF row
  <2>4. /\ task' \in [Sessions -> Tasks]
        /\ task'[s].pc = "returned" /\ "returned" \notin Live
        /\ \A t \in Sessions \ {s} : task'[t] = task[t]
        /\ loop' \in Sessions \cup {Idle}
        /\ metrics' \in [Counters -> Nat]
        /\ response' \in [Sessions -> {"none", "201", "500"}]
    BY <1>1, <2>1, ReturnEffect
  <2>5. accepted' = accepted /\ accepted[s] = << >>
    BY <1>1, <2>1 DEF Rest, RunOk
  <2>6. RunOk(s)'
    BY <2>4 DEF RunOk, Analysis
  <2>7. RowOk(s)'
    <3>1. CASE status = "completed"
      <4>1. ~store[s].report.risky
        BY <1>1, <2>1, <3>1 DEF Complete, At, RunOk, Risky
      <4> QED  BY <1>1, <2>2, <2>3, <2>5, <3>1, <4>1 DEF RowOk
    <3>2. CASE status = "waiting_approval"
      <4>1. /\ store[s].report.risky /\ store[s].report.kind = "full"
            /\ store[s].request = s
        <5>1. store[s].report \in Reports
          BY <1>1 DEF Rows
        <5> QED  BY <1>1, <2>1, <3>2, <5>1 DEF AwaitApproval, At, RunOk, Reports
      <4> QED  BY <1>1, <2>2, <2>3, <2>5, <3>2, <4>1 DEF RowOk
    <3> QED  BY <3>1, <3>2
  <2>8. SessionInv(s)'
    BY <1>1, <2>3, <2>4, <2>5, <2>6, <2>7 DEF SessionInv
  <2> QED  BY <2>1, <2>2, <2>3, <2>4, <2>8, OwnStepKeepsGate
<1>3. CASE Raise(s, {}) /\ UNCHANGED store /\ Rest
  BY <1>1, <1>3, RaiseKeepsGate DEF Rest, TypeOK
<1>4. CASE Complete(s)
  <2>1. {"completed"} \in SUBSET Counters
    BY DEF Counters
  <2> QED  BY <1>2, <1>3, <1>4, <2>1 DEF Complete, ChangeStatus, At
<1>5. CASE AwaitApproval(s)
  <2>1. {"waiting_approval"} \in SUBSET Counters
    BY DEF Counters
  <2> QED  BY <1>2, <1>3, <1>5, <2>1 DEF AwaitApproval, ChangeStatus, At
<1> QED  BY <1>4, <1>5

\* Normalizing leads to a status the triage passes through, or nowhere.
LEMMA NormalizedPassing ==
  ASSUME NEW status \in Statuses, Normalized(status) # status
  PROVE  Normalized(status) \in Passing
BY DEF Normalized, Passing, Statuses

\* _finalize_partial's last status change, which may leave _run_tool.
LEMMA FinalizePartialKeepsGate ==
  ASSUME GateInv, NEW s \in Sessions, FinalizePartial(s)
  PROVE  GateInv'
<1> DEFINE counted == {"fallback", "degraded_sessions", "partial_completed"}
           row == UpdateStatus(store[s], "partial_completed")
<1>1. /\ TypeOK /\ SessionInv(s) /\ task[s].pc = "fp_partial"
      /\ task[s].pc \in Live
      /\ s \in DOMAIN store /\ store[s] \in Rows /\ RunOk(s) /\ RowOk(s)
  BY DEF GateInv, TypeOK, SessionInv, FinalizePartial, At, Live, Active
<1>2. CASE Raise(s, {}) /\ UNCHANGED store /\ Rest
  BY <1>1, <1>2, RaiseKeepsGate DEF Rest, TypeOK
<1>3. CASE /\ Write(s, row) /\ Rest
           /\ \/ /\ LeaveTool(s) /\ metrics' = Incremented(counted)
                 /\ UNCHANGED <<loop, response>>
              \/ Return(s, counted)
  <2>1. /\ row \in Rows /\ row.status = "partial_completed"
        /\ row.report = store[s].report
        /\ row.request = store[s].request
        /\ row.iteration = store[s].iteration
    BY <1>1, UpdateStatusSets DEF Statuses
  <2>2. /\ DOMAIN store' = DOMAIN store
        /\ store'[s] = row
        /\ \A t \in DOMAIN store : t # s => store'[t] = store[t]
    BY <1>1, <1>3, <2>1, WriteEffect
  <2>3. /\ task' \in [Sessions -> Tasks]
        /\ task'[s].pc \in {"executing", "tool", "executed", "returned"}
        /\ \A t \in Sessions \ {s} : task'[t] = task[t]
        /\ loop' \in Sessions \cup {Idle}
        /\ metrics' \in [Counters -> Nat]
        /\ response' \in [Sessions -> {"none", "201", "500"}]
    <3>1. CASE /\ LeaveTool(s) /\ metrics' = Incremented(counted)
               /\ UNCHANGED <<loop, response>>
      BY <1>1, <3>1, LeaveToolEffect, IncrementedType DEF TypeOK
    <3>2. CASE Return(s, counted)
      BY <1>1, <3>2, ReturnEffect
    <3> QED  BY <1>3, <3>1, <3>2
  <2> HIDE DEF row
  <2>4. accepted' = accepted /\ accepted[s] = << >> /\ ~store[s].report.risky
    BY <1>1, <1>3 DEF Rest, RunOk
  <2>5. RunOk(s)'
    BY <2>1, <2>2, <2>3, <2>4 DEF RunOk, Analysis
  <2>6. RowOk(s)'
    BY <1>1, <2>1, <2>2, <2>4 DEF RowOk
  <2>7. SessionInv(s)'
    BY <1>1, <2>2, <2>3, <2>4, <2>5, <2>6 DEF SessionInv
  <2> QED  BY <1>1, <1>3, <2>1, <2>2, <2>3, <2>7, OwnStepKeepsGate
<1> QED  BY <1>2, <1>3 DEF FinalizePartial, ChangeStatus

\* A call that gives a live session a report no decision was noted on.
LEMMA ReportKeepsGate ==
  ASSUME GateInv, NEW s \in Sessions, NEW report \in Reports, NEW pc \in Live,
         LET row == SetFinalReport(store[s], report)
         IN  Call(s, row, pc) \/ \E names : CallAndCount(s, row, pc, names),
         report.notes = << >>,
         \/ pc = "fp_state" /\ ~report.risky /\ task[s].pc = "fp_report"
         \/ /\ pc = "decide" /\ report.kind = "full"
            /\ report.risky = Risky(s) /\ task[s].pc = "report"
  PROVE  GateInv'
<1> DEFINE row == SetFinalReport(store[s], report)
<1>1. /\ TypeOK /\ SessionInv(s) /\ task[s].pc \in Live /\ pc \in Pcs
      /\ s \in DOMAIN store /\ store[s] \in Rows /\ RunOk(s) /\ RowOk(s)
  BY DEF GateInv, TypeOK, SessionInv, Live, Active, Pcs
<1>2. /\ row \in Rows /\ row.status = store[s].status
      /\ row.report = report /\ row.request = store[s].request
      /\ row.iteration = store[s].iteration
  BY <1>1, SetFinalReportSets
<1> HIDE DEF row
<1>3. /\ TypeOK' /\ Only(s)
      /\ s \in DOMAIN store' /\ store'[s] = row
      /\ task'[s].pc = pc /\ task'[s].llm = task[s].llm
      /\ accepted' = accepted
  BY <1>1, <1>2, CallEffect DEF row
<1>4. /\ accepted[s] = << >> /\ report.risky \in BOOLEAN
      /\ store[s].status \notin {"completed", "waiting_approval"}
  BY <1>1 DEF RunOk, Reports
<1>5. task[s].pc = "report" => store[s].status = "analyzing"
  BY <1>1 DEF RunOk, Analysis
<1>6. RowOk(s)'
  BY <1>1, <1>2, <1>3, <1>4, <1>5 DEF RowOk
<1>7. RunOk(s)'
  BY <1>2, <1>3, <1>4, <1>5 DEF RunOk, Analysis, Risky
<1>8. SessionInv(s)'
  BY <1>1, <1>3, <1>6, <1>7 DEF SessionInv, Live, Active, Suspended
<1> QED  BY <1>3, <1>8, Local

\* The reports, the approval request and the normalization of the status.
LEMMA ReportStepsKeepGate ==
  ASSUME GateInv, NEW s \in Sessions,
         \/ StoreReport(s) \/ RequestApproval(s) \/ FinalizeReport(s)
         \/ FinalizeNormalize(s) \/ ToolObserve(s)
  PROVE  GateInv'
<1>1. /\ TypeOK /\ SessionInv(s) /\ task[s] \in Tasks /\ task[s].pc \in Live
      /\ s \in DOMAIN store /\ store[s] \in Rows /\ RunOk(s) /\ RowOk(s)
  BY DEF GateInv, TypeOK, SessionInv, StoreReport, RequestApproval,
         FinalizeReport, FinalizeNormalize, ToolObserve, At, Live, Active
<1>2. CASE StoreReport(s)
  <2> DEFINE report == [kind |-> "full", risky |-> Risky(s), notes |-> << >>]
  <2>1. /\ report \in Reports /\ report.notes = << >>
        /\ report.kind = "full" /\ report.risky = Risky(s)
    <3>1. Risky(s) \in BOOLEAN
      BY DEF Risky
    <3> QED  BY <3>1 DEF Reports
  <2> HIDE DEF report
  <2>2. /\ CallAndCount(s, SetFinalReport(store[s], report), "decide",
                        {"ttfa"})
        /\ task[s].pc = "report" /\ "decide" \in Live
    BY <1>2 DEF StoreReport, At, report, Live, Active
  <2> QED  BY <2>1, <2>2, ReportKeepsGate
<1>3. CASE FinalizeReport(s)
  <2> DEFINE report == [kind |-> "partial", risky |-> FALSE, notes |-> << >>]
  <2>1. report \in Reports /\ report.notes = << >> /\ ~report.risky
    BY DEF Reports
  <2> HIDE DEF report
  <2>2. /\ Call(s, SetFinalReport(store[s], report), "fp_state")
        /\ task[s].pc = "fp_report" /\ "fp_state" \in Live
    BY <1>3 DEF FinalizeReport, At, report, Live, Active
  <2> QED  BY <2>1, <2>2, ReportKeepsGate
<1>4. CASE RequestApproval(s)
  <2> DEFINE row == SetApprovalRequest(store[s], s)
  <2>1. /\ row \in Rows /\ row.status = store[s].status
        /\ row.report = store[s].report /\ row.request = s
        /\ row.iteration = store[s].iteration
    BY <1>1, SetApprovalRequestSets
  <2> HIDE DEF row
  <2>2. "policy_trace" \in Pcs \cap Live /\ "absent" \notin Live
    BY DEF Pcs, Live, Active, Suspended
  <2>3. /\ TypeOK' /\ Only(s)
        /\ s \in DOMAIN store' /\ store'[s] = row
        /\ task'[s].pc = "policy_trace" /\ task'[s].llm = task[s].llm
        /\ accepted' = accepted
    BY <1>1, <1>4, <2>1, <2>2, CallEffect DEF RequestApproval, row
  <2>4. /\ accepted[s] = << >> /\ store[s].status = "analyzing"
        /\ Risky(s) /\ store[s].report.kind = "full"
        /\ store[s].report.risky <=> Risky(s)
    BY <1>1, <1>4 DEF RequestApproval, At, RunOk, Analysis, Risky
  <2>5. RowOk(s)'
    BY <1>1, <2>1, <2>3, <2>4 DEF RowOk
  <2>6. RunOk(s)'
    BY <2>1, <2>3, <2>4 DEF RunOk, Analysis, Risky
  <2>7. SessionInv(s)'
    BY <1>1, <2>2, <2>3, <2>5, <2>6 DEF SessionInv
  <2> QED  BY <2>3, <2>7, Local
<1>5. CASE FinalizeNormalize(s)
  <2> DEFINE next == Normalized(store[s].status)
             row == UpdateStatus(store[s], next)
  <2>1. /\ "fp_partial" \in Pcs /\ "fp_partial" \in Live
        /\ "absent" \notin Live /\ "fp_partial" \notin Analysis
    BY DEF Pcs, Live, Active, Suspended, Analysis
  <2>2. CASE next = store[s].status
    <3>1. UNCHANGED store /\ Proceed(s, "fp_partial") /\ Rest
      BY <1>5, <2>2 DEF FinalizeNormalize
    <3>2. /\ task' \in [Sessions -> Tasks]
          /\ task'[s] = [task[s] EXCEPT !.pc = "fp_partial"]
          /\ \A t \in Sessions \ {s} : task'[t] = task[t]
      BY <1>1, <2>1, <3>1, GotoEffect DEF Proceed
    <3>3. task'[s].pc = "fp_partial"
      BY <1>1, <3>2 DEF Tasks
    <3>4. TypeOK' /\ Only(s)
      BY <1>1, <3>1, <3>2 DEF TypeOK, Only, Rest, Proceed
    <3>5. Compatible(task[s].pc, "fp_partial")
      BY <1>5, <2>1 DEF FinalizeNormalize, At, Compatible, Live, Active
    <3> QED  BY <1>1, <2>1, <3>1, <3>3, <3>4, <3>5, StepKeepsGate
             DEF SameLife, Rest
  <2>3. CASE next # store[s].status
    <3>1. next \in Passing /\ next \in Statuses
      BY <1>1, <2>3, NormalizedPassing DEF Passing, Rows
    <3> HIDE DEF next
    <3>2. /\ row \in Rows /\ row.status = next
          /\ row.report = store[s].report
          /\ row.request = store[s].request
          /\ row.iteration = store[s].iteration
      BY <1>1, <3>1, UpdateStatusSets
    <3> HIDE DEF row
    <3>3. Call(s, row, "fp_partial")
      BY <1>5, <2>3 DEF FinalizeNormalize, Call, row, next
    <3>4. /\ TypeOK' /\ Only(s)
          /\ s \in DOMAIN store' /\ store'[s] = row
          /\ task'[s].pc = "fp_partial" /\ accepted' = accepted
      BY <1>1, <2>1, <3>2, <3>3, CallEffect
    <3>5. accepted[s] = << >> /\ ~store[s].report.risky
      BY <1>1, <1>5 DEF FinalizeNormalize, At, RunOk
    <3>6. RowOk(s)'
      BY <1>1, <3>1, <3>2, <3>4, <3>5 DEF RowOk, Passing
    <3>7. RunOk(s)'
      BY <2>1, <3>1, <3>2, <3>4, <3>5 DEF RunOk, Passing
    <3>8. SessionInv(s)'
      BY <1>1, <2>1, <3>4, <3>6, <3>7 DEF SessionInv
    <3> QED  BY <3>4, <3>8, Local
  <2> QED  BY <2>2, <2>3
<1>6. CASE ToolObserve(s)
  <2>1. Keeps(store[s], AddObservation(store[s]))
    BY <1>1, AddObservationKeeps
  <2>2. /\ DOMAIN store' = DOMAIN store
        /\ store'[s] = AddObservation(store[s])
        /\ \A t \in DOMAIN store' : store'[t] \in Rows
        /\ \A t \in DOMAIN store : t # s => store'[t] = store[t]
    BY <1>1, <1>6, <2>1, WriteEffect DEF ToolObserve, Keeps
  <2>3. /\ task' \in [Sessions -> Tasks]
        /\ task'[s].pc \in {"executing", "tool", "executed"}
        /\ \A t \in Sessions \ {s} : task'[t] = task[t]
    BY <1>1, <1>6, LeaveToolEffect DEF ToolObserve
  <2>4. TypeOK' /\ Only(s)
    BY <1>1, <1>6, <2>2, <2>3 DEF TypeOK, Only, Rest, ToolObserve
  <2>5. Compatible(task[s].pc, task'[s].pc) /\ task'[s].pc \notin Analysis
    BY <1>6, <2>3 DEF ToolObserve, At, Compatible, Live, Active, Analysis
  <2>6. accepted' = accepted
    BY <1>6 DEF ToolObserve, Rest
  <2> QED  BY <1>1, <2>1, <2>2, <2>4, <2>5, <2>6, StepKeepsGate
           DEF SameLife, Keeps
<1> QED  BY <1>2, <1>3, <1>4, <1>5, <1>6
---------------------------------------------------------------------------
\* A step that leaves the repository alone and goes on.
LEMMA MoveKeepsGate ==
  ASSUME GateInv, NEW s \in Sessions, UNCHANGED store, Rest,
         task' \in [Sessions -> Tasks],
         \A t \in Sessions \ {s} : task'[t] = task[t],
         loop' \in Sessions \cup {Idle}, metrics' \in [Counters -> Nat],
         response' \in [Sessions -> {"none", "201", "500"}],
         Compatible(task[s].pc, task'[s].pc),
         task'[s].pc \in Analysis => task'[s].llm = task[s].llm
                                     \/ task'[s].pc = "llm_trace"
  PROVE  GateInv'
<1>1. TypeOK /\ s \in DOMAIN store
  BY DEF GateInv, SessionInv, Compatible
<1>2. TypeOK' /\ Only(s)
  BY <1>1 DEF TypeOK, Only, Rest
<1> QED  BY <1>1, <1>2, StepKeepsGate DEF SameLife, Rest

\* Giving up on the full triage.
LEMMA DegradeKeepsGate ==
  ASSUME GateInv, NEW s \in Sessions, NEW why \in Reasons,
         NEW nested \in BOOLEAN, Degrade(s, why, nested),
         task[s].pc \in Live, UNCHANGED store, Rest,
         loop' \in Sessions \cup {Idle}, metrics' \in [Counters -> Nat]
  PROVE  GateInv'
<1>1. TypeOK
  BY DEF GateInv
<1>2. /\ task' \in [Sessions -> Tasks]
      /\ task'[s].pc = "fp_report"
      /\ \A t \in Sessions \ {s} : task'[t] = task[t]
      /\ response' = response
  BY <1>1, DegradeEffect
<1>3. Compatible(task[s].pc, "fp_report") /\ "fp_report" \notin Analysis
  BY DEF Compatible, Live, Active, Analysis
<1> QED  BY <1>1, <1>2, <1>3, MoveKeepsGate DEF TypeOK

\* The steps at which an exhausted budget or a timeout degrades the triage.
LEMMA DegradesKeepGate ==
  ASSUME GateInv, NEW s \in Sessions,
         \/ BudgetSpentAtStart(s) \/ BudgetSpentBeforeTool(s)
         \/ TimeSpentBeforeLlm(s) \/ LlmTimeout(s)
  PROVE  GateInv'
<1>1. TypeOK /\ {"budget_before_start", "budget_before_tool",
                 "time_before_llm", "llm_timeout"} \subseteq Reasons
  BY DEF GateInv, Reasons
<1>2. \A names : Incremented(names) \in [Counters -> Nat]
  BY <1>1, IncrementedType
<1>3. CASE BudgetSpentAtStart(s)
  BY <1>1, <1>2, <1>3, DegradeKeepsGate
     DEF BudgetSpentAtStart, At, Live, Active, TypeOK
<1>4. CASE BudgetSpentBeforeTool(s)
  BY <1>1, <1>2, <1>4, DegradeKeepsGate
     DEF BudgetSpentBeforeTool, At, Live, Active, TypeOK
<1>5. CASE TimeSpentBeforeLlm(s)
  BY <1>1, <1>2, <1>5, DegradeKeepsGate
     DEF TimeSpentBeforeLlm, At, Live, Active, TypeOK
<1>6. CASE LlmTimeout(s)
  BY <1>1, <1>2, <1>6, DegradeKeepsGate
     DEF LlmTimeout, Live, Suspended, TypeOK
<1> QED  BY <1>3, <1>4, <1>5, <1>6

\* The awaits: a coroutine frees the loop and gets it back.
LEMMA AwaitsKeepGate ==
  ASSUME GateInv, NEW s \in Sessions,
         StartTool(s) \/ ToolDone(s) \/ StartLlm(s) \/ LlmDone(s)
  PROVE  GateInv'
<1>1. /\ TypeOK /\ task[s] \in Tasks /\ task \in [Sessions -> Tasks]
      /\ task[s].used + 1 \in Nat
  BY DEF GateInv, TypeOK, Tasks
<1>2. \A names : Incremented(names) \in [Counters -> Nat]
  BY <1>1, IncrementedType
<1>3. CASE StartTool(s)
  <2> DEFINE count == task[s].used + 1
             new == [task[s] EXCEPT !.pc = "tool_wait", !.used = count]
  <2> HIDE DEF count
  <2>1. count \in Nat
    BY <1>1 DEF count
  <2>2. new \in Tasks /\ new.pc = "tool_wait"
    BY <1>1, <2>1 DEF Tasks, Live, Suspended
  <2>3. task' = [task EXCEPT ![s] = new]
    BY <1>1, <1>3 DEF StartTool, Tasks, count
  <2> HIDE DEF new
  <2>4. Compatible(task[s].pc, "tool_wait") /\ "tool_wait" \notin Analysis
    BY <1>3 DEF StartTool, At, Compatible, Live, Active, Suspended, Analysis
  <2>5. /\ task' \in [Sessions -> Tasks] /\ task'[s] = new
        /\ \A t \in Sessions \ {s} : task'[t] = task[t]
    BY <1>1, <2>2, <2>3
  <2>6. Rest /\ UNCHANGED <<store, metrics, response>> /\ loop' = Idle
    BY <1>3 DEF StartTool
  <2>7. /\ loop' \in Sessions \cup {Idle} /\ metrics' \in [Counters -> Nat]
        /\ response' \in [Sessions -> {"none", "201", "500"}]
    BY <1>1, <2>6 DEF TypeOK
  <2> QED  BY <2>2, <2>4, <2>5, <2>6, <2>7, MoveKeepsGate
<1>4. CASE ToolDone(s)
  <2>1. PICK outcome \in ToolOutcomes \ {"raise"} :
          /\ \E names : metrics' = Incremented(names)
          /\ task' = [task EXCEPT ![s].pc = "tool_record",
                                  ![s].ok = (outcome = "success")]
    BY <1>4 DEF ToolDone
  <2> DEFINE ok == outcome = "success"
             new == [task[s] EXCEPT !.pc = "tool_record", !.ok = ok]
  <2>2. ok \in BOOLEAN
    OBVIOUS
  <2>3. task' = [task EXCEPT ![s] = new]
    BY <1>1, <2>1 DEF Tasks
  <2> HIDE DEF ok
  <2>4. new \in Tasks /\ new.pc = "tool_record"
    BY <1>1, <2>2 DEF Tasks, Live, Active
  <2> HIDE DEF new
  <2>5. Compatible(task[s].pc, "tool_record") /\ "tool_record" \notin Analysis
    BY <1>4 DEF ToolDone, Compatible, Live, Active, Suspended, Analysis
  <2>6. metrics' \in [Counters -> Nat]
    BY <1>2, <2>1
  <2>7. /\ task' \in [Sessions -> Tasks] /\ task'[s] = new
        /\ \A t \in Sessions \ {s} : task'[t] = task[t]
    BY <1>1, <2>3, <2>4
  <2> QED  BY <1>1, <1>4, <2>4, <2>5, <2>6, <2>7, MoveKeepsGate
           DEF ToolDone, TypeOK
<1>5. CASE StartLlm(s)
  <2>1. /\ task' \in [Sessions -> Tasks]
        /\ task'[s] = [task[s] EXCEPT !.pc = "llm_wait"]
        /\ \A t \in Sessions \ {s} : task'[t] = task[t]
    BY <1>1, <1>5, GotoEffect DEF StartLlm, Pcs, Live, Suspended
  <2>2. task'[s].pc = "llm_wait" /\ task'[s].llm = task[s].llm
    BY <1>1, <2>1 DEF Tasks
  <2>3. Compatible(task[s].pc, "llm_wait")
    BY <1>5 DEF StartLlm, At, Compatible, Live, Active, Suspended, Analysis
  <2>4. metrics' \in [Counters -> Nat]
    BY <1>2, <1>5 DEF StartLlm
  <2> QED  BY <1>1, <1>5, <2>1, <2>2, <2>3, <2>4, MoveKeepsGate
           DEF StartLlm, TypeOK
<1>6. CASE LlmDone(s)
  <2>1. PICK llm \in Answers :
          /\ metrics' = Incremented(Counted(llm))
          /\ task' = [task EXCEPT ![s].pc = "llm_trace", ![s].llm = llm]
    BY <1>6 DEF LlmDone
  <2> DEFINE new == [task[s] EXCEPT !.pc = "llm_trace", !.llm = llm]
  <2>2. llm \in {"none", "safe", "risky", "risky_overlong", "overlong",
                "fallback", "unstructured"}
    BY <2>1, OrchestratorAssumption DEF Answers
  <2>3. task' = [task EXCEPT ![s] = new]
    BY <1>1, <2>1 DEF Tasks
  <2>4. new \in Tasks /\ new.pc = "llm_trace"
    BY <1>1, <2>2 DEF Tasks, Live, Active
  <2> HIDE DEF new
  <2>5. Compatible(task[s].pc, "llm_trace")
    BY <1>6 DEF LlmDone, Compatible, Live, Active, Suspended, Analysis
  <2>6. metrics' \in [Counters -> Nat]
    BY <1>2, <2>1
  <2>7. /\ task' \in [Sessions -> Tasks] /\ task'[s] = new
        /\ \A t \in Sessions \ {s} : task'[t] = task[t]
    BY <1>1, <2>3, <2>4
  <2> QED  BY <1>1, <1>6, <2>4, <2>5, <2>6, <2>7, MoveKeepsGate
           DEF LlmDone, TypeOK
<1> QED  BY <1>3, <1>4, <1>5, <1>6

\* The policy block leads from the decision to the request.
LEMMA BlockKeepsGate ==
  ASSUME GateInv, NEW s \in Sessions, BlockByPolicy(s)
  PROVE  GateInv'
<1>1. /\ TypeOK /\ SessionInv(s) /\ task[s] \in Tasks
      /\ task[s].pc = "decide" /\ "decide" \in Live
      /\ "request" \in Live /\ "request" \in Pcs
      /\ s \in DOMAIN store /\ store[s] \in Rows
  BY DEF GateInv, TypeOK, SessionInv, BlockByPolicy, At, Live, Active, Pcs
<1>2. /\ task' \in [Sessions -> Tasks]
      /\ task'[s] = [task[s] EXCEPT !.pc = "request"]
      /\ \A t \in Sessions \ {s} : task'[t] = task[t]
  BY <1>1, GotoEffect DEF BlockByPolicy
<1>3. task'[s].pc = "request" /\ task'[s].llm = task[s].llm
  BY <1>1, <1>2 DEF Tasks
<1>4. metrics' \in [Counters -> Nat]
  BY <1>1, IncrementedType DEF BlockByPolicy
<1>5. /\ store' = store /\ accepted' = accepted /\ Risky(s) /\ Rest
      /\ loop' = loop /\ response' = response
  BY DEF BlockByPolicy, Rest
<1>6. SessionInv(s)'
  BY <1>1, <1>3, <1>5 DEF SessionInv, RunOk, RowOk, Risky, Analysis, Live,
     Active, Suspended
<1> QED  BY <1>1, <1>2, <1>4, <1>5, <1>6, OwnStepKeepsGate DEF TypeOK

\* The exceptions no handler turns into a result.
LEMMA RaisesKeepGate ==
  ASSUME GateInv, NEW s \in Sessions,
         \/ ToolRaises(s) \/ LlmRaises(s) \/ ContextRejected(s)
         \/ RequestRejected(s) \/ ReportRejected(s) \/ CommitFails(s)
         \/ LlmUnimplemented(s)
  PROVE  GateInv'
<1>1. /\ TypeOK /\ SessionInv(s) /\ faults \in Nat
  BY DEF GateInv, TypeOK
<1>2. task[s].pc \in Live => s \in DOMAIN store
  BY <1>1 DEF SessionInv
<1>3. CASE ToolRaises(s)
  BY <1>1, <1>2, <1>3, RaiseKeepsGate DEF ToolRaises, Rest, Live, Suspended
<1>4. CASE LlmRaises(s)
  BY <1>1, <1>2, <1>4, RaiseKeepsGate DEF LlmRaises, Rest, Live, Suspended
<1>5. CASE ContextRejected(s)
  BY <1>1, <1>2, <1>5, RaiseKeepsGate
     DEF ContextRejected, At, Rest, Live, Active
<1>6. CASE RequestRejected(s)
  BY <1>1, <1>2, <1>6, RaiseKeepsGate
     DEF RequestRejected, At, Rest, Live, Active
<1>7. CASE ReportRejected(s)
  BY <1>1, <1>2, <1>7, RaiseKeepsGate DEF ReportRejected, At, Rest, Live, Active
<1>8. CASE CommitFails(s)
  <2>1. faults' \in Nat
    BY <1>1, <1>8 DEF CommitFails
  <2>2. s \in DOMAIN store \/ task[s].pc = "absent"
    BY <1>2, <1>8 DEF CommitFails, Writes, Live
  <2> QED  BY <1>8, <2>1, <2>2, RaiseKeepsGate DEF CommitFails
<1>9. CASE LlmUnimplemented(s)
  BY <1>1, <1>2, <1>9, RaiseKeepsGate
     DEF LlmUnimplemented, At, Rest, Live, Active
<1> QED  BY <1>3, <1>4, <1>5, <1>6, <1>7, <1>8, <1>9
---------------------------------------------------------------------------
\* A new session starts behind no gate.
LEMMA PostIncidentKeepsGate ==
  ASSUME GateInv, NEW s \in Sessions, PostIncident(s)
  PROVE  GateInv'
<1>1. /\ TypeOK /\ SessionInv(s) /\ task[s].pc = "absent"
      /\ s \notin DOMAIN store /\ accepted[s] = << >>
  BY DEF GateInv, SessionInv, PostIncident
<1>2. PICK kind \in IncidentKinds :
        store' = [t \in DOMAIN store \cup {s} |->
                    IF t = s THEN CreateSession(kind) ELSE store[t]]
  BY DEF PostIncident
<1> DEFINE row == CreateSession(kind)
<1>3. /\ row \in Rows /\ row.status = "new"
      /\ row.report = NoReport /\ row.request = NoRequest
      /\ row.iteration = 1
  BY <1>2, CreateSessionNew, OrchestratorAssumption
<1> HIDE DEF row
<1>4. /\ DOMAIN store' = DOMAIN store \cup {s}
      /\ store'[s] = row
      /\ \A t \in DOMAIN store : t # s => store'[t] = store[t]
  BY <1>2 DEF row
<1>5. "sync_budget" \in Pcs /\ "sync_budget" \in Live
      /\ "sync_budget" \notin Analysis /\ "sync_budget" # "absent"
  BY DEF Pcs, Live, Active, Analysis
<1>6. /\ task' \in [Sessions -> Tasks]
      /\ task'[s] = [task[s] EXCEPT !.pc = "sync_budget"]
      /\ \A t \in Sessions \ {s} : task'[t] = task[t]
  BY <1>1, <1>5, GotoEffect DEF PostIncident
<1>7. task'[s].pc = "sync_budget"
  BY <1>1, <1>6 DEF TypeOK, Tasks
<1>8. TypeOK'
  BY <1>1, <1>3, <1>4, <1>6 DEF TypeOK, PostIncident, Rest
<1>9. Only(s)
  BY <1>4, <1>6 DEF Only, PostIncident, Rest
<1>10. accepted' = accepted /\ Len(<< >>) = 0
  BY DEF PostIncident, Rest
<1>11. RowOk(s)'
  BY <1>1, <1>3, <1>4, <1>10 DEF RowOk, NoReport
<1>12. RunOk(s)'
  BY <1>1, <1>3, <1>4, <1>5, <1>7, <1>10 DEF RunOk
<1>13. SessionInv(s)'
  BY <1>1, <1>4, <1>5, <1>7, <1>10, <1>11, <1>12 DEF SessionInv
<1> QED  BY <1>8, <1>9, <1>13, Local

\* The first decision settles a waiting session, and no other is accepted.
LEMMA PostApprovalKeepsGate ==
  ASSUME GateInv, NEW s \in Sessions, PostApproval(s)
  PROVE  GateInv'
<1>1. TypeOK /\ SessionInv(s)
  BY DEF GateInv
<1>2. metrics' \in [Counters -> Nat] /\ posts' \in Nat
  BY <1>1, IncrementedType DEF PostApproval, TypeOK
<1>3. /\ loop' = loop /\ task' = task /\ late' = late
      /\ response' = response /\ restarts' = restarts /\ faults' = faults
  BY DEF PostApproval
<1>4. CASE UNCHANGED <<store, accepted>>
  <2>1. TypeOK' /\ Only(s)
    BY <1>1, <1>2, <1>3, <1>4 DEF TypeOK, Only
  <2>2. SessionInv(s)'
    BY <1>1, <1>3, <1>4 DEF SessionInv, RunOk, RowOk, Risky
  <2> QED  BY <2>1, <2>2, Local
<1>5. CASE \E id \in Sessions, decision \in Decisions :
             /\ Approvable(s, id)
             /\ Write(s, ApplyApproval(store[s], decision))
             /\ accepted' = [accepted EXCEPT ![s] = Append(@, decision)]
  <2>1. PICK id \in Sessions, decision \in Decisions :
          /\ Approvable(s, id)
          /\ Write(s, ApplyApproval(store[s], decision))
          /\ accepted' = [accepted EXCEPT ![s] = Append(@, decision)]
    BY <1>5
  <2>2. /\ s \in DOMAIN store /\ store[s] \in Rows
        /\ store[s].status = "waiting_approval"
    BY <1>1, <2>1 DEF Approvable, TypeOK
  <2>3. /\ store[s].report.kind = "full" /\ store[s].report.risky
        /\ accepted[s] = << >> /\ store[s].iteration = 1
        /\ store[s].report.notes = << >> /\ store[s].report \in Reports
        /\ task[s].pc \notin Live /\ task[s].pc # "absent"
    BY <1>1, <2>2 DEF SessionInv, RunOk, RowOk, Rows
  <2> DEFINE row == ApplyApproval(store[s], decision)
  <2>4. /\ row \in Rows /\ row.status = DecidedStatus(decision)
        /\ row.report = Annotated(store[s].report, decision)
        /\ row.request = NoRequest
        /\ row.iteration = store[s].iteration + 1
    BY <2>1, <2>2, ApplyApprovalResolves
  <2> HIDE DEF row
  <2>5. /\ DOMAIN store' = DOMAIN store
        /\ store'[s] = row
        /\ \A t \in DOMAIN store' : store'[t] \in Rows
        /\ \A t \in DOMAIN store : t # s => store'[t] = store[t]
    BY <1>1, <2>1, <2>2, <2>4, WriteEffect DEF row
  <2>6. /\ accepted'[s] = <<decision>>
        /\ accepted' \in [Sessions -> Seq(Decisions)]
        /\ \A t \in Sessions \ {s} : accepted'[t] = accepted[t]
    BY <1>1, <2>1, <2>3 DEF TypeOK
  <2>7. /\ row.report.notes = <<decision>> /\ row.report.risky
        /\ row.iteration = 2
    BY <2>3, <2>4 DEF Annotated, Reports
  <2>8. /\ Len(<<decision>>) = 1 /\ <<decision>>[1] = decision
        /\ <<decision>> # << >>
    OBVIOUS
  <2>9. RowOk(s)'
    <3>1. DecidedStatus(decision) =
            IF decision = "approved" THEN "completed" ELSE "partial_completed"
      BY DEF DecidedStatus
    <3>2. decision = "approved" \/ decision = "rejected"
      BY DEF Decisions
    <3> QED  BY <2>4, <2>5, <2>6, <2>7, <2>8, <3>1, <3>2
             DEF RowOk, DecidedStatus
  <2>10. RunOk(s)'
    BY <1>3, <2>3 DEF RunOk, Live, Active, Suspended, Analysis
  <2>11. SessionInv(s)'
    BY <1>3, <2>3, <2>6, <2>8, <2>9, <2>10 DEF SessionInv
  <2>12. TypeOK'
    BY <1>1, <1>2, <1>3, <2>5, <2>6 DEF TypeOK
  <2>13. Only(s)
    BY <1>3, <2>5, <2>6 DEF Only
  <2> QED  BY <2>11, <2>12, <2>13, Local
<1> QED  BY <1>4, <1>5 DEF PostApproval

\* Stuttering, the clock and a failed approval touch nothing of the invariant.
LEMMA AsideKeepsGate ==
  ASSUME GateInv, UNCHANGED <<store, loop, task, response, accepted>>,
         late' \in [Sessions -> BOOLEAN], metrics' \in [Counters -> Nat],
         posts' \in Nat, restarts' \in Nat, faults' \in Nat
  PROVE  GateInv'
<1>1. TypeOK'
  BY DEF GateInv, TypeOK
<1>2. ASSUME NEW s \in Sessions PROVE SessionInv(s)'
  BY DEF GateInv, SessionInv, RunOk, RowOk, Risky
<1> QED  BY <1>1, <1>2 DEF GateInv

\* A restart ends every coroutine, and the rows that survive it are as they
\* were.
LEMMA RestartKeepsGate ==
  ASSUME GateInv, Restart
  PROVE  GateInv'
<1>1. TypeOK
  BY DEF GateInv
<1>2. ASSUME NEW s \in Sessions
      PROVE  /\ task'[s] \in Tasks
             /\ task'[s].pc = IF task[s].pc = "absent" THEN "absent" ELSE "gone"
  <2>1. task[s] \in Tasks
    BY <1>1 DEF TypeOK
  <2> DEFINE new == [task[s] EXCEPT !.pc = "gone"]
  <2>2. new \in Tasks /\ new.pc = "gone"
    BY <2>1 DEF Tasks, Ended
  <2>3. task'[s] = IF task[s].pc = "absent" THEN task[s] ELSE new
    BY DEF Restart
  <2> HIDE DEF new
  <2> QED  BY <2>1, <2>2, <2>3
<1>3. task' \in [Sessions -> Tasks]
  BY <1>2 DEF Restart
<1>4. \/ store' = store
      \/ DOMAIN store' = {}
  BY DEF Restart
<1>5. TypeOK'
  BY <1>1, <1>3, <1>4 DEF Restart, TypeOK
<1>6. ASSUME NEW s \in Sessions PROVE SessionInv(s)'
  <2>1. SessionInv(s) /\ accepted' = accepted
    BY DEF GateInv, Restart
  <2>2. "gone" \notin Live /\ "absent" \notin Live /\ "gone" # "absent"
    BY DEF Live, Active, Suspended
  <2>3. s \in DOMAIN store' => RowOk(s)'
    BY <1>4, <2>1 DEF SessionInv, RowOk
  <2>4. s \in DOMAIN store' => RunOk(s)'
    BY <1>2, <2>2 DEF RunOk, Live, Active, Suspended, Analysis
  <2> QED  BY <1>2, <1>4, <2>1, <2>2, <2>3, <2>4 DEF SessionInv
<1> QED  BY <1>5, <1>6 DEF GateInv
---------------------------------------------------------------------------
\* Every step keeps the invariant: one case per action.
LEMMA NextKeepsGate ==
  ASSUME GateInv, [Next]_vars
  PROVE  GateInv'
<1>1. TypeOK
  BY DEF GateInv
<1>2. CASE UNCHANGED vars
  BY <1>1, <1>2, AsideKeepsGate DEF vars, TypeOK
<1>3. CASE Restart
  BY <1>3, RestartKeepsGate
<1>4. CASE \E s \in Sessions : PostIncident(s) \/ PostApproval(s)
  BY <1>4, PostIncidentKeepsGate, PostApprovalKeepsGate
<1>5. CASE \E s \in Sessions : Expire(s)
  BY <1>1, <1>5, AsideKeepsGate DEF Expire, TypeOK
<1>6. CASE \E s \in Sessions : ApprovalCommitFails(s)
  <2>1. metrics' \in [Counters -> Nat]
    BY <1>1, <1>6, IncrementedType DEF ApprovalCommitFails
  <2> QED  BY <1>1, <1>6, <2>1, AsideKeepsGate
           DEF ApprovalCommitFails, TypeOK
<1>7. CASE \E s \in Sessions : Resume(s) \/ CommitFails(s)
  BY <1>7, AwaitsKeepGate, DegradesKeepGate, RaisesKeepGate DEF Resume
<1>8. CASE \E s \in Sessions : Advance(s)
  <2>1. PICK s \in Sessions : Advance(s)
    BY <1>8
  <2> QED  BY <2>1, QuietStepsKeepGate, StatusStepsKeepGate,
              ExecuteKeepsGate, DecisionKeepsGate,
              FinalizePartialKeepsGate, ReportStepsKeepGate,
              DegradesKeepGate, AwaitsKeepGate, BlockKeepsGate,
              RaisesKeepGate
           DEF Advance
<1> QED  BY <1>2, <1>3, <1>4, <1>5, <1>6, <1>7, <1>8 DEF Next

\* The approval gate's invariant is inductive: it holds in every reachable
\* state, for every set of sessions, backend, tool limit and bound.
THEOREM GateHolds == Spec => []GateInv
<1>1. Init => GateInv
  <2> SUFFICES ASSUME Init PROVE GateInv
    OBVIOUS
  <2>1. NoTask \in Tasks /\ NoTask.pc = "absent" /\ "absent" \notin Live
    BY DEF NoTask, Tasks, Tools, Reasons, Live, Active, Suspended
  <2>2. DOMAIN store = {}
    BY DEF Init
  <2>3. \A s \in Sessions : task[s] = NoTask /\ accepted[s] = << >>
    BY DEF Init
  <2>4. TypeOK
    BY <2>1, <2>2, <2>3 DEF Init, TypeOK
  <2>5. ASSUME NEW s \in Sessions PROVE SessionInv(s)
    BY <2>1, <2>2, <2>3 DEF SessionInv
  <2> QED  BY <2>4, <2>5 DEF GateInv
<1>2. GateInv /\ [Next]_vars => GateInv'
  BY NextKeepsGate
<1> QED  BY <1>1, <1>2, PTL DEF Spec

\* A coroutine's step is a step of a live triage, and writes to no row but its
\* own.
LEMMA OwnRowOnly ==
  ASSUME NEW s \in Sessions, Advance(s) \/ Resume(s)
  PROVE  /\ task[s].pc \in Live
         /\ \A t \in DOMAIN store : t # s => store'[t] = store[t]
<1> USE DEF At, Call, CallAndCount, Write, ChangeStatus, Live, Active, Suspended
<1>1. CASE \/ SyncBudget(s) \/ Validate(s) \/ Planning(s) \/ StorePlan(s)
           \/ BudgetSpentAtStart(s) \/ ForceFailure(s) \/ ForcedToolFailed(s)
           \/ Retrieve(s) \/ BudgetSpentBeforeTool(s) \/ StartTool(s)
           \/ RecordTool(s) \/ ToolSyncBudget(s) \/ ToolObserve(s)
  BY <1>1 DEF SyncBudget, Validate, Planning, StorePlan, BudgetSpentAtStart,
              ForceFailure, ForcedToolFailed, Retrieve,
              BudgetSpentBeforeTool, StartTool, RecordTool, ToolSyncBudget,
              ToolObserve
<1>2. CASE \/ Execute(s) \/ ToolsFailed(s) \/ TraceToolsFailed(s) \/ Analyze(s)
           \/ ContextRejected(s) \/ AssembleContext(s) \/ BuildPrompt(s)
           \/ CheckSanitization(s) \/ TimeSpentBeforeLlm(s) \/ StartLlm(s)
           \/ TraceLlm(s) \/ CheckGroundedness(s) \/ StoreReport(s)
           \/ ReportRejected(s) \/ LlmUnimplemented(s)
  BY <1>2 DEF Execute, ToolsFailed, TraceToolsFailed, Analyze,
              ContextRejected, AssembleContext, BuildPrompt,
              CheckSanitization, TimeSpentBeforeLlm, StartLlm, TraceLlm,
              CheckGroundedness, StoreReport, ReportRejected,
              LlmUnimplemented
<1>3. CASE \/ Complete(s) \/ BlockByPolicy(s) \/ RequestApproval(s)
           \/ RequestRejected(s) \/ TracePolicy(s) \/ AwaitApproval(s)
           \/ FinalizeReport(s) \/ FinalizeState(s) \/ FinalizeTrace(s)
           \/ FinalizeNormalize(s) \/ FinalizePartial(s)
  BY <1>3 DEF Complete, BlockByPolicy, RequestApproval, RequestRejected,
              TracePolicy, AwaitApproval, FinalizeReport, FinalizeState,
              FinalizeTrace, FinalizeNormalize, FinalizePartial
<1>4. CASE Resume(s)
  BY <1>4 DEF Resume, ToolDone, ToolRaises, LlmDone, LlmTimeout, LlmRaises
<1> QED  BY <1>1, <1>2, <1>3, <1>4 DEF Advance

\* Every variable keeps its type.
THEOREM TypesHold == Spec => []TypeOK
<1>1. GateInv => TypeOK
  BY DEF GateInv
<1> QED  BY <1>1, GateHolds, PTL

\* No risky session is settled without the decision that settles it.
THEOREM GateIsKept == Spec => []RiskNeedsApproval
<1>1. GateInv => RiskNeedsApproval
  BY DEF GateInv, TypeOK, SessionInv, RowOk, RiskNeedsApproval
<1> QED  BY <1>1, GateHolds, PTL

\* A waiting session has its own, undecided, request.
THEOREM WaitingHasRequest == Spec => []WaitingIsPending
<1>1. GateInv => WaitingIsPending
  <2> SUFFICES ASSUME GateInv, NEW s \in DOMAIN store,
                      store[s].status = "waiting_approval"
               PROVE  /\ store[s].request = s
                      /\ store[s].report.kind = "full" /\ store[s].report.risky
                      /\ accepted[s] = << >> /\ store[s].iteration = 1
    BY DEF WaitingIsPending
  <2>1. RowOk(s)
    BY DEF GateInv, TypeOK, SessionInv
  <2> QED  BY <2>1 DEF RowOk
<1> QED  BY <1>1, GateHolds, PTL

\* At most one decision is ever accepted, and the row tells which.
THEOREM FirstDecisionWins == Spec => []DecidedOnce
<1>1. GateInv => DecidedOnce
  BY DEF GateInv, SessionInv, RowOk, DecidedOnce
<1> QED  BY <1>1, GateHolds, PTL

\* Completed, waiting and decided sessions change by an accepted decision only.
THEOREM GateFrozenHolds == Spec => GateFrozen
<1> DEFINE Frozen(s) == \/ store[s].status \in {"completed", "waiting_approval"}
                        \/ accepted[s] # << >>
           ByDecision(s) ==
             /\ store[s].status = "waiting_approval"
             /\ \E d \in Decisions :
                  /\ accepted'[s] = Append(accepted[s], d)
                  /\ store'[s].status = DecidedStatus(d)
                  /\ store'[s].calls = store[s].calls
           Step == \A t \in DOMAIN store \cap DOMAIN store' :
                     Frozen(t) /\ store'[t] # store[t] => ByDecision(t)
<1>1. GateInv /\ [Next]_vars => [Step]_vars
  <2> SUFFICES ASSUME GateInv, Next,
                      NEW t \in DOMAIN store, t \in DOMAIN store',
                      Frozen(t), store'[t] # store[t]
               PROVE  ByDecision(t)
    OBVIOUS
  <2>1. TypeOK /\ SessionInv(t) /\ t \in Sessions
    BY DEF GateInv, TypeOK
  <2>2. task[t].pc \notin Live
    BY <2>1 DEF SessionInv, RunOk
  <2>3. ~Restart
    BY DEF Restart
  <2>4. PICK s \in Sessions :
          \/ PostIncident(s) \/ Advance(s) \/ Resume(s) \/ PostApproval(s)
          \/ Expire(s) \/ CommitFails(s) \/ ApprovalCommitFails(s)
    BY <2>3 DEF Next
  <2>5. ~(Advance(s) \/ Resume(s))
    BY <2>2, OwnRowOnly
  <2>6. ~PostIncident(s)
    <3> SUFFICES ASSUME PostIncident(s) PROVE FALSE
      OBVIOUS
    <3>1. s # t
      BY <2>1 DEF PostIncident, SessionInv
    <3> QED  BY <3>1 DEF PostIncident
  <2>7. PostApproval(s)
    BY <2>4, <2>5, <2>6 DEF Expire, CommitFails, ApprovalCommitFails
  <2>8. PICK id \in Sessions, d \in Decisions :
          /\ Approvable(s, id)
          /\ Write(s, ApplyApproval(store[s], d))
          /\ accepted' = [accepted EXCEPT ![s] = Append(@, d)]
    BY <2>7 DEF PostApproval
  <2>9. s = t
    BY <2>8 DEF Write
  <2>10. store[t] \in Rows
    BY <2>1 DEF TypeOK
  <2> DEFINE row == ApplyApproval(store[t], d)
  <2>11. row.status = DecidedStatus(d) /\ row.calls = store[t].calls
    BY <2>10, ApplyApprovalResolves, ApplyApprovalKeepsCalls
  <2> HIDE DEF row
  <2>12. store'[t] = row
    BY <2>8, <2>9 DEF Write, row
  <2>13. accepted'[t] = Append(accepted[t], d)
    BY <2>1, <2>8, <2>9 DEF TypeOK
  <2> QED  BY <2>8, <2>9, <2>11, <2>12, <2>13 DEF Approvable
<1>2. Step <=> \A s \in DOMAIN store \cap DOMAIN store' :
                 /\ \/ store[s].status \in {"completed", "waiting_approval"}
                    \/ accepted[s] # << >>
                 /\ store'[s] # store[s]
                 => /\ store[s].status = "waiting_approval"
                    /\ \E d \in Decisions :
                         /\ accepted'[s] = Append(accepted[s], d)
                         /\ store'[s].status = DecidedStatus(d)
                         /\ store'[s].calls = store[s].calls
  OBVIOUS
<1> HIDE DEF Step
<1> QED  BY <1>1, <1>2, GateHolds, PTL DEF Spec, GateFrozen
=============================================================================

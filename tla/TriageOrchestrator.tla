-------------------------- MODULE TriageOrchestrator --------------------------
(***************************************************************************)
(* The triage service: POST /incident creates a session and runs           *)
(* run_initial_triage on it, POST /sessions/{id}/approval resolves a gated *)
(* session.  All handlers are coroutines of one event loop: a coroutine    *)
(* keeps the loop from one await to the next, so the handlers interleave   *)
(* at the awaits only.  Each repository call is an action of its own, for  *)
(* the process may stop, and a commit may fail, between any two of them.   *)
(***************************************************************************)
EXTENDS SessionRepository, FiniteSets

CONSTANTS
  Idle,            \* no coroutine holds the event loop
  MaxToolCalls,    \* settings.max_tool_calls
  CanExpire,       \* the time budget may run out before the triage ends
  IncidentKinds,   \* the incidents clients post
  ToolOutcomes,    \* how a tool call may end, its retries included
  LlmOutcomes,     \* how llm.analyze may end
  MaxPosts,        \* bound: approval requests posted by clients
  MaxRestarts,     \* bound: process crashes, each followed by a restart
  MaxFaults        \* bound: commits that fail

ASSUME OrchestratorAssumption ==
  /\ Idle \notin Sessions
  /\ MaxToolCalls \in Nat \ {0}
  /\ CanExpire \in BOOLEAN
  /\ IncidentKinds \subseteq Incidents
  /\ ToolOutcomes \subseteq {"success", "failed", "raise"}
  /\ LlmOutcomes \subseteq
       {"safe", "risky", "risky_overlong", "overlong", "fallback",
        "unstructured", "timeout", "raise", "unimplemented"}
  /\ MaxPosts \in Nat /\ MaxRestarts \in Nat /\ MaxFaults \in Nat

VARIABLES
  store,      \* the repository: session id -> row
  loop,       \* the session whose coroutine holds the event loop, or Idle
  task,       \* the coroutine of each session's POST /incident
  late,       \* elapsed_seconds >= time_budget_s for that coroutine
  metrics,    \* metrics_registry
  response,   \* the HTTP status POST /incident was answered with
  accepted,   \* per session, the decisions answered with 200
  posts, restarts, faults

vars == <<store, loop, task, late, metrics, response, accepted, posts,
          restarts, faults>>
---------------------------------------------------------------------------
Counters == {"completed", "partial_completed", "waiting_approval",
             "tool_calls", "tool_calls_failed", "llm_calls",
             "llm_calls_failed", "llm_structured_success", "llm_fallback",
             "fallback", "degraded_sessions", "session_budget_exhausted",
             "policy_blocks", "approval_requests", "ttfa", "http_requests",
             "http_requests_failed"}

\* metrics_registry.increment on each of the names.
Incremented(names) ==
  [n \in Counters |-> IF n \in names THEN metrics[n] + 1 ELSE metrics[n]]

\* The next step of a coroutine.  "fp_" steps are those of _finalize_partial.
Suspended == {"tool_wait", "llm_wait"}
Active == {"sync_budget", "validate", "planning", "plan", "preflight",
           "force_fail", "tool", "tool_record", "tool_sync", "tool_observe",
           "executing", "executed", "tool_failed_trace", "analyzing",
           "context", "prompt", "sanitize", "llm_call", "llm_trace",
           "ground", "report", "decide", "request", "policy_trace",
           "await_approval",
           "fp_report", "fp_state", "fp_trace", "fp_normalize", "fp_partial"}
Ended == {"returned", "raised", "gone"}
Live == Active \cup Suspended

\* Locals of run_initial_triage: the budget's tool_calls_used, the tool at
\* hand and whether it succeeded, tool_calls_before_executing, the kind of
\* LLM answer, and, for
\* _finalize_partial, its reason and whether _run_tool called it.
Tasks == [pc : {"absent"} \cup Live \cup Ended, used : Nat, tool : Tools,
          ok : BOOLEAN, base : Nat,
          llm : {"none", "safe", "risky", "risky_overlong", "overlong",
                 "fallback", "unstructured"},
          why : Reasons, nested : BOOLEAN]

NoTask == [pc |-> "absent", used |-> 0, tool |-> "runbook", ok |-> TRUE,
           base |-> 0, llm |-> "none", why |-> "none", nested |-> FALSE]

Init ==
  /\ store = [s \in {} |-> NoReport]
  /\ loop = Idle
  /\ task = [s \in Sessions |-> NoTask]
  /\ late = [s \in Sessions |-> FALSE]
  /\ metrics = [n \in Counters |-> 0]
  /\ response = [s \in Sessions |-> "none"]
  /\ accepted = [s \in Sessions |-> << >>]
  /\ posts = 0 /\ restarts = 0 /\ faults = 0
---------------------------------------------------------------------------
(* Steps of a coroutine that holds the loop. *)

At(s, pc) == loop = s /\ task[s].pc = pc

Goto(s, pc) == task' = [task EXCEPT ![s].pc = pc]

\* A repository call on the session's row.
Write(s, row) == store' = [store EXCEPT ![s] = row]

\* What a step inside one coroutine leaves alone besides the store, the task
\* and the metrics.
Rest == UNCHANGED <<late, accepted, posts, restarts, faults>>

\* The coroutine goes on, keeping the loop and counting nothing.
Proceed(s, pc) == Goto(s, pc) /\ UNCHANGED <<loop, metrics, response>>

\* A repository call followed by the next step.
Call(s, row, pc) == Write(s, row) /\ Proceed(s, pc) /\ Rest

\* A repository call and counters, followed by the next step.
CallAndCount(s, row, pc, names) ==
  /\ Write(s, row) /\ Goto(s, pc)
  /\ metrics' = Incremented(names)
  /\ Rest /\ UNCHANGED <<loop, response>>

\* The coroutine ends with an exception: the middleware counts the failure and
\* the client is answered 500.
Raise(s, names) ==
  /\ Goto(s, "raised")
  /\ loop' = Idle
  /\ response' = [response EXCEPT ![s] = "500"]
  /\ metrics' = Incremented(names \cup {"http_requests_failed"})

\* The coroutine returns the session and the client is answered 201.
Return(s, names) ==
  /\ Goto(s, "returned")
  /\ loop' = Idle
  /\ response' = [response EXCEPT ![s] = "201"]
  /\ metrics' = Incremented(names \cup {"http_requests"})

\* _update_status, and what follows it: validate_transition raises ValueError,
\* which no caller catches.
ChangeStatus(s, status, Then) ==
  /\ \/ /\ CanTransition(store[s].status, status)
        /\ Write(s, UpdateStatus(store[s], status))
        /\ Then
     \/ /\ ~CanTransition(store[s].status, status)
        /\ Raise(s, {})
        /\ UNCHANGED store
  /\ Rest

\* SessionBudget.exhausted.
Exhausted(s) == task[s].used >= MaxToolCalls \/ late[s]

\* SessionBudget.tool_calls_remaining.
Remaining(s) ==
  IF task[s].used >= MaxToolCalls THEN 0 ELSE MaxToolCalls - task[s].used

\* Mutant of Degrade: the partial report is not stored.
DegradeUnreported(s, why, nested) ==
  /\ task' = [task EXCEPT ![s].pc = "fp_state", ![s].why = why,
                          ![s].nested = nested]
  /\ UNCHANGED response

\* _finalize_partial is called.
Degrade(s, why, nested) ==
  /\ task' = [task EXCEPT ![s].pc = "fp_report", ![s].why = why,
                          ![s].nested = nested]
  /\ UNCHANGED response

\* Where run_initial_triage continues when _run_tool returns.
AfterTool(tool) ==
  CASE tool = "runbook" -> [pc |-> "executing", tool |-> "metrics"]
    [] tool = "metrics" -> [pc |-> "tool", tool |-> "logs"]
    [] tool = "logs"    -> [pc |-> "executed", tool |-> "logs"]

LeaveTool(s) ==
  LET next == AfterTool(task[s].tool)
  IN  task' = [task EXCEPT ![s].pc = next.pc, ![s].tool = next.tool]
---------------------------------------------------------------------------
(* run_initial_triage, up to the tools. *)

\* POST /incident: create_session, then the triage starts.
PostIncident(s) ==
  /\ loop = Idle
  /\ task[s].pc = "absent"
  /\ \E kind \in IncidentKinds :
       store' = [t \in DOMAIN store \cup {s} |->
                   IF t = s THEN CreateSession(kind) ELSE store[t]]
  /\ loop' = s
  /\ Goto(s, "sync_budget")
  /\ Rest /\ UNCHANGED <<metrics, response>>

\* A fresh SessionBudget; _sync_budget_state stores what remains of it.
SyncBudget(s) ==
  /\ At(s, "sync_budget")
  /\ Call(s, UpdateSessionState(store[s], Remaining(s), store[s].reason),
          "validate")

Validate(s) ==
  /\ At(s, "validate")
  /\ ChangeStatus(s, "validating_input", Proceed(s, "planning"))

Planning(s) ==
  /\ At(s, "planning")
  /\ ChangeStatus(s, "planning", Proceed(s, "plan"))

StorePlan(s) ==
  /\ At(s, "plan")
  /\ Call(s, UpdateInvestigationPlan(store[s]), "preflight")

BudgetSpentAtStart(s) ==
  /\ At(s, "preflight")
  /\ Exhausted(s)
  /\ metrics' = Incremented({"session_budget_exhausted"})
  /\ Degrade(s, "budget_before_start", FALSE)
  /\ Rest /\ UNCHANGED <<store, loop>>

\* The forced failure of the test environment takes the tool states.
ForceFailure(s) ==
  /\ At(s, "preflight")
  /\ ~Exhausted(s)
  /\ store[s].incident = "forced"
  /\ ChangeStatus(s, "executing_tools", Proceed(s, "force_fail"))

ForcedToolFailed(s) ==
  /\ At(s, "force_fail")
  /\ ChangeStatus(s, "tool_failed", Degrade(s, "forced_failure", FALSE)
                                     /\ UNCHANGED <<loop, metrics>>)

Retrieve(s) ==
  /\ At(s, "preflight")
  /\ ~Exhausted(s)
  /\ store[s].incident # "forced"
  /\ ChangeStatus(s, "retrieving", Proceed(s, "tool"))
---------------------------------------------------------------------------
(* _run_tool. *)

\* An exhausted budget finalizes the session, and _run_tool returns as usual.
BudgetSpentBeforeTool(s) ==
  /\ At(s, "tool")
  /\ Exhausted(s)
  /\ Degrade(s, "budget_before_tool", TRUE)
  /\ Rest /\ UNCHANGED <<store, loop, metrics>>

\* Mutant of StartTool: the call is not taken off the budget.
StartToolUncounted(s) ==
  /\ At(s, "tool")
  /\ ~Exhausted(s)
  /\ Goto(s, "tool_wait")
  /\ loop' = Idle
  /\ Rest /\ UNCHANGED <<store, metrics, response>>

\* Mutant of StartTool: the tool is called without an await, and keeps the loop.
StartToolBlocking(s) ==
  /\ At(s, "tool")
  /\ ~Exhausted(s)
  /\ task' = [task EXCEPT ![s].pc = "tool_wait", ![s].used = @ + 1]
  /\ Rest /\ UNCHANGED <<store, loop, metrics, response>>

\* consume_tool_call, then the await on _execute_tool_with_retry frees the
\* loop.
StartTool(s) ==
  /\ At(s, "tool")
  /\ ~Exhausted(s)
  /\ task' = [task EXCEPT ![s].pc = "tool_wait", ![s].used = @ + 1]
  /\ loop' = Idle
  /\ Rest /\ UNCHANGED <<store, metrics, response>>

\* The tool call is over and is counted.
ToolDone(s) ==
  /\ loop = Idle
  /\ task[s].pc = "tool_wait"
  /\ \E outcome \in ToolOutcomes \ {"raise"} :
       /\ metrics' = Incremented({"tool_calls"} \cup
            IF outcome = "failed" THEN {"tool_calls_failed"} ELSE {})
       /\ task' = [task EXCEPT ![s].pc = "tool_record",
                               ![s].ok = (outcome = "success")]
  /\ loop' = s
  /\ Rest /\ UNCHANGED <<store, response>>

\* An exception of the tool is not turned into a result.
ToolRaises(s) ==
  /\ loop = Idle
  /\ task[s].pc = "tool_wait"
  /\ "raise" \in ToolOutcomes
  /\ Raise(s, {})
  /\ Rest /\ UNCHANGED store

RecordTool(s) ==
  /\ At(s, "tool_record")
  /\ Call(s, AddToolCall(store[s], [tool |-> task[s].tool,
                                    ok |-> task[s].ok]),
          "tool_sync")

ToolSyncBudget(s) ==
  /\ At(s, "tool_sync")
  /\ Call(s, UpdateSessionState(store[s], Remaining(s), store[s].reason),
          "tool_observe")

ToolObserve(s) ==
  /\ At(s, "tool_observe")
  /\ Write(s, AddObservation(store[s]))
  /\ LeaveTool(s)
  /\ Rest /\ UNCHANGED <<loop, metrics, response>>
---------------------------------------------------------------------------
(* run_initial_triage, from the operational tools to the LLM. *)

\* tool_calls_before_executing is read as the status changes.
Execute(s) ==
  /\ At(s, "executing")
  /\ ChangeStatus(s, "executing_tools",
       /\ task' = [task EXCEPT ![s].pc = "tool",
                               ![s].base = Len(store[s].calls)]
       /\ UNCHANGED <<loop, metrics, response>>)

\* any_tool_failed, over the calls of the executing phase.
AnyToolFailed(s) ==
  \E i \in (task[s].base + 1)..Len(store[s].calls) : ~store[s].calls[i].ok

ToolsFailed(s) ==
  /\ At(s, "executed")
  /\ AnyToolFailed(s)
  /\ ChangeStatus(s, "tool_failed", Proceed(s, "tool_failed_trace"))

TraceToolsFailed(s) ==
  /\ At(s, "tool_failed_trace")
  /\ Call(s, AppendTrace(store[s], "tool_failed"), "analyzing")

Analyze(s) ==
  /\ \/ At(s, "executed") /\ ~AnyToolFailed(s)
     \/ At(s, "analyzing")
  /\ ChangeStatus(s, "analyzing", Proceed(s, "context"))

\* build_session_context rejects a summary longer than SessionContext takes.
ContextRejected(s) ==
  /\ At(s, "context")
  /\ store[s].incident = "overlong"
  /\ Raise(s, {})
  /\ Rest /\ UNCHANGED store

AssembleContext(s) ==
  /\ At(s, "context")
  /\ store[s].incident # "overlong"
  /\ Call(s, AppendTrace(store[s], "context_assembly"), "prompt")

BuildPrompt(s) ==
  /\ At(s, "prompt")
  /\ Call(s, AppendTrace(store[s], "prompt_build"), "sanitize")

CheckSanitization(s) ==
  /\ At(s, "sanitize")
  /\ Call(s, AppendTrace(store[s], "sanitization_check"), "llm_call")

\* G3: only the time budget is checked before the LLM call.
TimeSpentBeforeLlm(s) ==
  /\ At(s, "llm_call")
  /\ late[s]
  /\ metrics' = Incremented({"session_budget_exhausted"})
  /\ Degrade(s, "time_before_llm", FALSE)
  /\ Rest /\ UNCHANGED <<store, loop>>

\* The adapter counts the call as it starts, then the await frees the loop.
StartLlm(s) ==
  /\ At(s, "llm_call")
  /\ ~late[s]
  /\ Goto(s, "llm_wait")
  /\ loop' = Idle
  /\ metrics' = Incremented({"llm_calls"})
  /\ Rest /\ UNCHANGED <<store, response>>

\* A provider without an adapter: the stub raises, and counts nothing.
LlmUnimplemented(s) ==
  /\ At(s, "llm_call")
  /\ ~late[s]
  /\ "unimplemented" \in LlmOutcomes
  /\ Raise(s, {})
  /\ Rest /\ UNCHANGED store

\* The kinds of answers that analyze returns.
Answers == LlmOutcomes \ {"timeout", "raise", "unimplemented"}

\* Mutant of Counted: a call the provider failed is not counted as failed.
CountedWithoutFailure(answer) ==
  IF answer \in {"fallback", "unstructured"} THEN {"llm_fallback", "fallback"}
  ELSE {"llm_structured_success"}

\* What the adapter counts before it answers: a provider that fails is given up
\* on and an answer without structured output is replaced, both by a fallback.
Counted(answer) ==
  CASE answer = "fallback"     -> {"llm_calls_failed", "llm_fallback",
                                   "fallback"}
    [] answer = "unstructured" -> {"llm_fallback", "fallback"}
    [] OTHER                   -> {"llm_structured_success"}

\* The adapter answers.
LlmDone(s) ==
  /\ loop = Idle
  /\ task[s].pc = "llm_wait"
  /\ \E answer \in Answers :
       /\ metrics' = Incremented(Counted(answer))
       /\ task' = [task EXCEPT ![s].pc = "llm_trace", ![s].llm = answer]
  /\ loop' = s
  /\ Rest /\ UNCHANGED <<store, response>>

\* Mutant of LlmTimeout: wait_for's timeout is left to _finalize_partial to
\* count.
LlmTimeoutUncounted(s) ==
  /\ loop = Idle
  /\ task[s].pc = "llm_wait"
  /\ "timeout" \in LlmOutcomes
  /\ metrics' = Incremented({"llm_calls_failed"})
  /\ Degrade(s, "llm_timeout", FALSE)
  /\ loop' = s
  /\ Rest /\ UNCHANGED store

\* wait_for gives up: the fallback is counted here and again when the partial
\* result is finalized.
LlmTimeout(s) ==
  /\ loop = Idle
  /\ task[s].pc = "llm_wait"
  /\ "timeout" \in LlmOutcomes
  /\ metrics' = Incremented({"llm_calls_failed", "fallback"})
  /\ Degrade(s, "llm_timeout", FALSE)
  /\ loop' = s
  /\ Rest /\ UNCHANGED store

\* Any other exception of the adapter ends the triage.
LlmRaises(s) ==
  /\ loop = Idle
  /\ task[s].pc = "llm_wait"
  /\ "raise" \in LlmOutcomes
  /\ Raise(s, {})
  /\ Rest /\ UNCHANGED store
---------------------------------------------------------------------------
(* run_initial_triage, the decision. *)

TraceLlm(s) ==
  /\ At(s, "llm_trace")
  /\ Call(s, AppendTrace(store[s], "llm_analysis"), "ground")

CheckGroundedness(s) ==
  /\ At(s, "ground")
  /\ Call(s, AppendTrace(store[s], "groundedness_check"), "report")

\* requires_approval of the policy result; the fallback steps are not risky.
Risky(s) == task[s].llm \in {"risky", "risky_overlong"}

\* set_final_report, then _record_ttfa.
StoreReport(s) ==
  /\ At(s, "report")
  /\ task[s].llm # "overlong"
  /\ CallAndCount(s,
       SetFinalReport(store[s], [kind |-> "full", risky |-> Risky(s),
                                 notes |-> << >>]),
       "decide", {"ttfa"})

\* FinalReport and its items reject a text longer than they take.
ReportRejected(s) ==
  /\ At(s, "report")
  /\ task[s].llm = "overlong"
  /\ Raise(s, {})
  /\ Rest /\ UNCHANGED store

\* Mutant of Complete: the policy result is not looked at.
CompleteUnchecked(s) ==
  /\ At(s, "decide")
  /\ ChangeStatus(s, "completed", Return(s, {"completed"}))

Complete(s) ==
  /\ At(s, "decide")
  /\ ~Risky(s)
  /\ ChangeStatus(s, "completed", Return(s, {"completed"}))

\* The block and the request are counted before the request is built.
BlockByPolicy(s) ==
  /\ At(s, "decide")
  /\ Risky(s)
  /\ Goto(s, "request")
  /\ metrics' = Incremented({"policy_blocks", "approval_requests"})
  /\ Rest /\ UNCHANGED <<store, loop, response>>

\* The approval id is a function of the session id.
RequestApproval(s) ==
  /\ At(s, "request")
  /\ task[s].llm = "risky"
  /\ Call(s, SetApprovalRequest(store[s], s), "policy_trace")

\* ApprovalRequest rejects a step longer than it takes.
RequestRejected(s) ==
  /\ At(s, "request")
  /\ task[s].llm = "risky_overlong"
  /\ Raise(s, {})
  /\ Rest /\ UNCHANGED store

TracePolicy(s) ==
  /\ At(s, "policy_trace")
  /\ Call(s, AppendTrace(store[s], "policy_check"), "await_approval")

AwaitApproval(s) ==
  /\ At(s, "await_approval")
  /\ ChangeStatus(s, "waiting_approval", Return(s, {"waiting_approval"}))
---------------------------------------------------------------------------
(* _finalize_partial. *)

FinalizeReport(s) ==
  /\ At(s, "fp_report")
  /\ Call(s, SetFinalReport(store[s], [kind |-> "partial", risky |-> FALSE,
                                       notes |-> << >>]),
          "fp_state")

\* Mutant of FinalizeState: the time to the result is recorded by
\* run_initial_triage only.
FinalizeStateUntimed(s) ==
  /\ At(s, "fp_state")
  /\ Call(s, UpdateSessionState(store[s], Remaining(s), task[s].why),
          "fp_trace")

\* update_session_state, then _record_ttfa.
FinalizeState(s) ==
  /\ At(s, "fp_state")
  /\ CallAndCount(s, UpdateSessionState(store[s], Remaining(s), task[s].why),
                  "fp_trace", {"ttfa"})

FinalizeTrace(s) ==
  /\ At(s, "fp_trace")
  /\ Call(s, AppendTrace(store[s], "degradation"), "fp_normalize")

\* _normalize_partial_transition: the status from which partial_completed is
\* reached, when there is one.
Normalized(status) ==
  IF CanTransition(status, "partial_completed") THEN status
  ELSE IF CanTransition(status, "tool_failed") THEN "tool_failed"
  ELSE IF CanTransition(status, "analyzing") THEN "analyzing"
  ELSE status

FinalizeNormalize(s) ==
  /\ At(s, "fp_normalize")
  /\ IF Normalized(store[s].status) = store[s].status
     THEN UNCHANGED store
     ELSE Write(s, UpdateStatus(store[s], Normalized(store[s].status)))
  /\ Proceed(s, "fp_partial")
  /\ Rest

\* Mutant of FinalizePartial: the outcome is counted before the status change is
\* validated.
FinalizePartialCountsFirst(s) ==
  LET counted == {"fallback", "degraded_sessions", "partial_completed"}
  IN  /\ At(s, "fp_partial")
      /\ IF CanTransition(store[s].status, "partial_completed")
         THEN /\ Write(s, UpdateStatus(store[s], "partial_completed"))
              /\ \/ /\ task[s].nested
                    /\ LeaveTool(s)
                    /\ metrics' = Incremented(counted)
                    /\ UNCHANGED <<loop, response>>
                 \/ /\ ~task[s].nested
                    /\ Return(s, counted)
         ELSE /\ Raise(s, counted)
              /\ UNCHANGED store
      /\ Rest

\* Mutant of FinalizePartial: the status change is forgotten.
FinalizePartialUnwritten(s) ==
  /\ At(s, "fp_partial")
  /\ \/ task[s].nested /\ LeaveTool(s) /\ UNCHANGED <<loop, metrics, response>>
     \/ ~task[s].nested /\ Return(s, {"fallback"})
  /\ Rest /\ UNCHANGED store

\* The status change, the outcome counters, and the return to the caller.
FinalizePartial(s) ==
  LET counted == {"fallback", "degraded_sessions", "partial_completed"}
  IN  /\ At(s, "fp_partial")
      /\ ChangeStatus(s, "partial_completed",
           \/ /\ task[s].nested
              /\ LeaveTool(s)
              /\ metrics' = Incremented(counted)
              /\ UNCHANGED <<loop, response>>
           \/ /\ ~task[s].nested
              /\ Return(s, counted))
---------------------------------------------------------------------------
(* POST /sessions/{id}/approval: one synchronous apply_approval. *)

\* Mutant of Approvable: only the approval id is compared, by its derivation.
ApprovableById(s, id) == s \in DOMAIN store /\ id = s

\* The guards of apply_approval.
Approvable(s, id) ==
  /\ s \in DOMAIN store
  /\ store[s].status = "waiting_approval"
  /\ store[s].request # NoRequest
  /\ store[s].request = id

\* A client posts a decision, naming some approval id: 200 when it is applied,
\* 404 for an unknown session and 409 otherwise, all counted as handled.
PostApproval(s) ==
  /\ loop = Idle
  /\ posts < MaxPosts
  /\ posts' = posts + 1
  /\ metrics' = Incremented({"http_requests"})
  /\ \E id \in Sessions, decision \in Decisions :
       \/ /\ Approvable(s, id)
          /\ Write(s, ApplyApproval(store[s], decision))
          /\ accepted' = [accepted EXCEPT ![s] = Append(@, decision)]
       \/ /\ ~Approvable(s, id)
          /\ UNCHANGED <<store, accepted>>
  /\ UNCHANGED <<loop, task, late, response, restarts, faults>>
---------------------------------------------------------------------------
(* The environment. *)

\* The wall clock passes the coroutine's time budget.
Expire(s) ==
  /\ CanExpire
  /\ task[s].pc \in Live
  /\ ~late[s]
  /\ late' = [late EXCEPT ![s] = TRUE]
  /\ UNCHANGED <<store, loop, task, metrics, response, accepted, posts,
                 restarts, faults>>

\* The next step of the coroutine writes to the repository.
Writes(s) ==
  \/ /\ loop = Idle
     /\ task[s].pc = "absent"
  \/ /\ loop = s
     /\ task[s].pc \in Active \ {"tool", "llm_call"}
     /\ task[s].pc = "preflight" => ~Exhausted(s)
     /\ task[s].pc = "context" => store[s].incident # "overlong"
     /\ task[s].pc = "report" => task[s].llm # "overlong"
     /\ task[s].pc = "decide" => ~Risky(s)
     /\ task[s].pc = "request" => task[s].llm = "risky"
     /\ task[s].pc = "fp_normalize" =>
          Normalized(store[s].status) # store[s].status

\* A commit of the triage fails and nothing is written; the exception ends the
\* coroutine.
CommitFails(s) ==
  /\ Durable
  /\ faults < MaxFaults
  /\ faults' = faults + 1
  /\ Writes(s)
  /\ Raise(s, {})
  /\ UNCHANGED <<store, late, accepted, posts, restarts>>

\* The commit of an approval fails: the client is answered 500 and the session
\* still waits.
ApprovalCommitFails(s) ==
  /\ Durable
  /\ faults < MaxFaults
  /\ faults' = faults + 1
  /\ loop = Idle
  /\ posts < MaxPosts
  /\ posts' = posts + 1
  /\ Approvable(s, s)
  /\ metrics' = Incremented({"http_requests_failed"})
  /\ UNCHANGED <<store, loop, task, late, response, accepted, restarts>>

\* The process stops and starts again: the coroutines, the metrics and rows
\* that are not durable are lost.
Restart ==
  /\ restarts < MaxRestarts
  /\ restarts' = restarts + 1
  /\ store' = IF Durable THEN store ELSE [s \in {} |-> NoReport]
  /\ loop' = Idle
  /\ task' = [s \in Sessions |->
                IF task[s].pc = "absent" THEN task[s]
                ELSE [task[s] EXCEPT !.pc = "gone"]]
  /\ metrics' = [n \in Counters |-> 0]
  /\ UNCHANGED <<late, response, accepted, posts, faults>>
---------------------------------------------------------------------------
\* A step of the coroutine that holds the loop.
Advance(s) ==
  \/ SyncBudget(s) \/ Validate(s) \/ Planning(s) \/ StorePlan(s)
  \/ BudgetSpentAtStart(s) \/ ForceFailure(s) \/ ForcedToolFailed(s)
  \/ Retrieve(s) \/ BudgetSpentBeforeTool(s) \/ StartTool(s)
  \/ RecordTool(s) \/ ToolSyncBudget(s) \/ ToolObserve(s) \/ Execute(s)
  \/ ToolsFailed(s) \/ TraceToolsFailed(s) \/ Analyze(s)
  \/ ContextRejected(s) \/ AssembleContext(s) \/ BuildPrompt(s)
  \/ CheckSanitization(s) \/ TimeSpentBeforeLlm(s) \/ StartLlm(s)
  \/ LlmUnimplemented(s)
  \/ TraceLlm(s) \/ CheckGroundedness(s) \/ StoreReport(s)
  \/ ReportRejected(s) \/ Complete(s) \/ BlockByPolicy(s)
  \/ RequestApproval(s) \/ RequestRejected(s) \/ TracePolicy(s)
  \/ AwaitApproval(s) \/ FinalizeReport(s) \/ FinalizeState(s)
  \/ FinalizeTrace(s) \/ FinalizeNormalize(s) \/ FinalizePartial(s)

\* A suspended coroutine gets the loop back.
Resume(s) ==
  \/ ToolDone(s) \/ ToolRaises(s)
  \/ LlmDone(s) \/ LlmTimeout(s) \/ LlmRaises(s)

Next ==
  \/ \E s \in Sessions :
       \/ PostIncident(s) \/ Advance(s) \/ Resume(s) \/ PostApproval(s)
       \/ Expire(s) \/ CommitFails(s) \/ ApprovalCommitFails(s)
  \/ Restart

\* The loop runs the coroutine that is ready; an await under wait_for ends, by
\* its timeout at the latest, and the loop's queue is first in first out.
Fairness ==
  \A s \in Sessions : WF_vars(Advance(s)) /\ WF_vars(Resume(s))

Spec == Init /\ [][Next]_vars
FairSpec == Spec /\ Fairness
=============================================================================

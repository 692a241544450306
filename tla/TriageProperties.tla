--------------------------- MODULE TriageProperties ---------------------------
(***************************************************************************)
(* What is checked, and partly proved, of TriageOrchestrator.              *)
(***************************************************************************)
EXTENDS TriageOrchestrator, SequencesExt

\* Every variable keeps its type (the fields of SessionView, the locals of
\* run_initial_triage, the counters of metrics_registry).
TypeOK ==
  /\ DOMAIN store \subseteq Sessions
  /\ \A s \in DOMAIN store : store[s] \in Rows
  /\ loop \in Sessions \cup {Idle}
  /\ task \in [Sessions -> Tasks]
  /\ late \in [Sessions -> BOOLEAN]
  /\ metrics \in [Counters -> Nat]
  /\ response \in [Sessions -> {"none", "201", "500"}]
  /\ accepted \in [Sessions -> Seq(Decisions)]
  /\ posts \in Nat /\ restarts \in Nat /\ faults \in Nat
---------------------------------------------------------------------------
(* Safety. *)

\* Approval gate: a session whose report recommends a risky action is completed
\* only when exactly one decision was accepted for it and that decision was an
\* approval; and it is partial_completed only by one rejection (service.py
\* 365-421, apply_approval).
RiskNeedsApproval ==
  \A s \in DOMAIN store :
    store[s].report.risky =>
      /\ store[s].status = "completed" => accepted[s] = <<"approved">>
      /\ store[s].status = "partial_completed" => accepted[s] = <<"rejected">>

\* Approval consistency: a waiting session has its own pending request and a
\* full, risky report nobody decided on yet, whatever was lost on the way
\* (STATE_MACHINE.md 11.2).
WaitingIsPending ==
  \A s \in DOMAIN store :
    store[s].status = "waiting_approval" =>
      /\ store[s].request = s
      /\ store[s].report.kind = "full" /\ store[s].report.risky
      /\ accepted[s] = << >> /\ store[s].iteration = 1

\* A pending request is stored outside waiting_approval only while the triage
\* is between the two commits, or was cut off there.
OrphanedRequest ==
  \A s \in DOMAIN store :
    store[s].request # NoRequest /\ store[s].status # "waiting_approval" =>
      /\ store[s].status = "analyzing"
      /\ \/ loop = s /\ task[s].pc \in {"policy_trace", "await_approval"}
         \/ task[s].pc \in {"raised", "gone"} /\ response[s] # "201"

\* First decision wins: at most one decision is ever answered with 200, and
\* while the session is stored its status, its iteration count and the note on
\* its report are those of that decision.
DecidedOnce ==
  \A s \in Sessions :
    /\ Len(accepted[s]) <= 1
    /\ s \in DOMAIN store =>
         /\ store[s].iteration = Len(accepted[s]) + 1
         /\ store[s].report.notes = accepted[s]
         /\ accepted[s] # << >> =>
              /\ store[s].status = DecidedStatus(accepted[s][1])
              /\ store[s].request = NoRequest

\* Report consistency: a completed session has the full report; a partial one
\* has the partial report and a failure reason, unless a human rejected it
\* (STATE_MACHINE.md 11.4).
SettledHasReport ==
  \A s \in DOMAIN store :
    /\ store[s].status = "completed" => store[s].report.kind = "full"
    /\ store[s].status = "partial_completed" =>
         \/ store[s].report.kind = "partial" /\ store[s].reason # "none"
         \/ store[s].report.kind = "full" /\ accepted[s] = <<"rejected">>

\* Evidence accounting: at every moment, after a crash too, a stored session
\* has at most one tool call without its observation, and the stored budget
\* lags the stored calls by at most one; while the triage runs both are exact
\* outside _run_tool's commits, and the calls stay within max_tool_calls.
EvidenceAccounted ==
  \A s \in DOMAIN store :
    LET calls == Len(store[s].calls)
        pc == task[s].pc
    IN  /\ calls - store[s].observations \in 0..1
        /\ store[s].budget \in
             {NoBudget, MaxToolCalls - calls, MaxToolCalls - calls + 1}
        /\ calls <= MaxToolCalls
        /\ pc \in Live \cup {"returned"} =>
             /\ task[s].used =
                  calls + (IF pc \in {"tool_wait", "tool_record"} THEN 1 ELSE 0)
             /\ pc \notin {"tool_sync", "tool_observe"} =>
                  store[s].observations = calls
             /\ pc \notin {"sync_budget", "tool_sync"} =>
                  store[s].budget = MaxToolCalls - calls

\* The entries of the trace that show a status of the session's own, and the
\* last of them among the first n.
Shows(entry) == entry.step \in {"session_created", "status_transition",
                               "approval_decision"}
LastShown(trace, n, i) ==
  /\ i \in 1..n /\ Shows(trace[i])
  /\ \A k \in (i + 1)..n : ~Shows(trace[k])

\* A trace begins with the new session, shows the given status last, and each
\* status it shows is one the status shown before may move to, or a decision
\* that stands beside its own transition.
TrailOk(trace, status) ==
  /\ trace # << >>
  /\ trace[1] = [step |-> "session_created", status |-> "new"]
  /\ \E i \in DOMAIN trace :
       LastShown(trace, Len(trace), i) /\ trace[i].status = status
  /\ \A j \in DOMAIN trace : Shows(trace[j]) =>
       \A i \in DOMAIN trace : LastShown(trace, j - 1, i) =>
         \/ CanTransition(trace[i].status, trace[j].status)
         \/ /\ trace[j].step = "approval_decision"
            /\ trace[i].status = trace[j].status

\* Audit trail: read from the trace alone, the session's status is a run of
\* ALLOWED_TRANSITIONS from new to the stored status, the decision possibly
\* standing for its own transition, and the trace's length is the stored
\* last_completed_step outside add_tool_call's own commit.
TrailLeadsToStatus ==
  \A s \in DOMAIN store :
    /\ TrailOk(store[s].trace, store[s].status)
    /\ \/ store[s].lastStep = Len(store[s].trace)
       \/ loop = s /\ task[s].pc = "tool_sync"

\* The sessions this process has triaged since it started.
InProcess == {s \in Sessions : task[s].pc \notin {"absent", "gone"}}

\* Those of them the triage itself brought to a status, decisions of humans not
\* counted; those that have waited for a human; and those an exception ended.
Triaged(status) ==
  {s \in InProcess \cap DOMAIN store :
     store[s].status = status /\ accepted[s] = << >>}
Gated ==
  {s \in InProcess \cap DOMAIN store :
     store[s].status = "waiting_approval" \/ accepted[s] # << >>}
AtStep(pcs) == {s \in InProcess : task[s].pc \in pcs}

\* Outcome counters: since the process started, each outcome counter is the
\* number of its sessions the triage itself brought there, and an unhandled
\* exception is counted once.
OutcomesCounted ==
  /\ metrics["completed"] = Cardinality(Triaged("completed"))
  /\ metrics["partial_completed"] = Cardinality(Triaged("partial_completed"))
  /\ metrics["waiting_approval"] = Cardinality(Gated)
  /\ metrics["degraded_sessions"] = metrics["partial_completed"]
  /\ metrics["http_requests_failed"] >= Cardinality(AtStep({"raised"}))
  /\ metrics["approval_requests"] >= metrics["waiting_approval"]

\* The sessions whose LLM call wait_for cut off; those whose provider was given
\* up on; and those whose adapter raised, seen by the trace that ends where the
\* call began.
TimedOut == {s \in InProcess : task[s].why = "llm_timeout"}
GivenUp == {s \in InProcess : task[s].llm = "fallback"}
Broken == {s \in AtStep({"raised"}) :
             /\ "raise" \in LlmOutcomes /\ task[s].why = "none"
             /\ Last(store[s].trace).step = "sanitization_check"}

\* LLM accounting, with a repository whose writes do not fail: every LLM call
\* is in flight, was cut off by wait_for or by an exception, or is counted as a
\* structured answer or a fallback; the failed calls are those the provider or
\* wait_for failed; and fallback_total counts a call that timed out twice, as
\* the call's fallback (service.py 267) and as the session's (702).
LlmCallsCounted ==
  ~Durable =>
    /\ metrics["llm_calls"] = metrics["llm_structured_success"]
         + metrics["llm_fallback"] + Cardinality(AtStep({"llm_wait"}))
         + Cardinality(TimedOut) + Cardinality(Broken)
    /\ metrics["llm_calls_failed"] =
         Cardinality(GivenUp) + Cardinality(TimedOut)
    /\ metrics["fallback"] = metrics["llm_fallback"] + Cardinality(TimedOut)
         + metrics["degraded_sessions"]

\* The entries of one type in the stored traces of this process' sessions.
Recorded(step) ==
  UNION {{<<s, i>> : i \in {j \in DOMAIN store[s].trace :
                              store[s].trace[j].step = step}} :
         s \in InProcess \cap DOMAIN store}

\* The sessions whose approval request was rejected as too long.
Overlong == {s \in AtStep({"raised"}) : task[s].llm = "risky_overlong"}

\* Metrics and audit trail agree, with a repository whose writes do not fail:
\* the tool calls counted are those in the traces and the one at hand, a result
\* is timed once for each report the triage stores, so twice when the budget
\* runs out in two tools, and a policy block is counted for each approval
\* request in the traces, the one about to be stored and each that was
\* rejected as too long.
MetricsMatchTraces ==
  ~Durable =>
    /\ metrics["tool_calls"] = Cardinality(Recorded("tool_call"))
         + Cardinality(AtStep({"tool_record"}))
    /\ metrics["ttfa"] = Cardinality(Recorded("report"))
         - Cardinality(AtStep({"fp_state"}))
    /\ metrics["policy_blocks"] = Cardinality(Recorded("approval_request"))
         + Cardinality(AtStep({"request"})) + Cardinality(Overlong)
    /\ metrics["approval_requests"] = metrics["policy_blocks"]

\* GET /ready answers "degraded" rather than "ready".
ReadyDegraded ==
  \/ metrics["degraded_sessions"] > 0
  \/ metrics["tool_calls_failed"] > 0
  \/ metrics["llm_calls_failed"] > 0

\* What a session may have lost: a tool call, its LLM call, or its outcome.
LostTool(s) ==
  \/ task[s].pc = "tool_record" /\ ~task[s].ok
  \/ \E i \in DOMAIN store[s].calls : ~store[s].calls[i].ok
LostLlm(s) == task[s].llm = "fallback" \/ task[s].why = "llm_timeout"
Finalized(s) == store[s].status = "partial_completed" /\ accepted[s] = << >>

\* Readiness is explained: with a repository whose writes do not fail, the
\* service reports degraded exactly while it knows a session, triaged since it
\* started, that lost a tool call or its LLM call or that it finalized as
\* partial; a later healthy session does not clear that, and a human's
\* rejection, though it ends in partial_completed too, does not cause it
\* (health.py 83-88).
ReadinessExplained ==
  ~Durable =>
    (ReadyDegraded <=>
       \E s \in InProcess : LostTool(s) \/ LostLlm(s) \/ Finalized(s))

\* The statuses in which a triage has nothing left to do by itself: it is over,
\* or it waits for a human.
Settled == {"completed", "partial_completed", "waiting_approval"}

\* An answered triage is a settled session: 201 is only sent for a session that
\* is completed, partial or waiting, for as long as the session is stored.
AnsweredIsSettled ==
  \A s \in Sessions :
    response[s] = "201" =>
      /\ task[s].pc \in {"returned", "gone"}
      /\ s \in DOMAIN store => store[s].status \in Settled
---------------------------------------------------------------------------
(* The inductive invariant behind the approval gate. *)

\* The steps between the status analyzing and the end of the triage.
Analysis == {"context", "prompt", "sanitize", "llm_call", "llm_wait",
             "llm_trace", "ground", "report", "decide", "request",
             "policy_trace", "await_approval"}

\* What a live triage may rely on about its own row: nobody has settled the
\* session behind a gate, nobody decided on it, and the row is the one its
\* steps so far have built.
RunOk(s) ==
  LET row == store[s]
      pc == task[s].pc
  IN  /\ pc \in Live =>
           /\ row.status \notin {"completed", "waiting_approval"}
           /\ accepted[s] = << >>
      /\ pc \in Analysis => row.status = "analyzing"
      /\ pc \in {"decide", "request", "policy_trace", "await_approval"} =>
           row.report.kind = "full" /\ (row.report.risky <=> Risky(s))
      /\ pc \in {"request", "policy_trace", "await_approval"} => Risky(s)
      /\ pc \in {"policy_trace", "await_approval"} => row.request = s
      /\ pc \in {"fp_state", "fp_trace", "fp_normalize", "fp_partial"} =>
           ~row.report.risky

\* What holds of a stored row whoever wrote it last.
RowOk(s) ==
  LET row == store[s]
  IN  /\ row.report.risky =>
           /\ row.status = "completed" => accepted[s] = <<"approved">>
           /\ row.status = "partial_completed" => accepted[s] = <<"rejected">>
      /\ row.status = "waiting_approval" =>
           /\ row.request = s
           /\ row.report.kind = "full" /\ row.report.risky
           /\ accepted[s] = << >>
      /\ row.iteration = Len(accepted[s]) + 1
      /\ row.report.notes = accepted[s]
      /\ accepted[s] # << >> =>
           /\ row.status = DecidedStatus(accepted[s][1])
           /\ row.request = NoRequest

SessionInv(s) ==
  /\ task[s].pc = "absent" => s \notin DOMAIN store /\ accepted[s] = << >>
  /\ task[s].pc \in Live => s \in DOMAIN store
  /\ Len(accepted[s]) <= 1
  /\ s \in DOMAIN store => RunOk(s) /\ RowOk(s)

\* The approval gate's inductive invariant: with the types, it holds initially
\* and every step of every session and of the environment keeps it.
GateInv == TypeOK /\ \A s \in Sessions : SessionInv(s)
---------------------------------------------------------------------------
(* The inductive invariant behind the evidence, the reports and the answers. *)

\* How far _run_tool's commits have got: what the row and the coroutine say
\* about the tool calls, at every step and after an interruption.
EvidenceOk(s) ==
  LET row == store[s]
      pc == task[s].pc
      calls == Len(row.calls)
      used == task[s].used
  IN  /\ calls - row.observations \in 0..1
      /\ row.budget \in
           {NoBudget, MaxToolCalls - calls, MaxToolCalls - calls + 1}
      /\ calls <= MaxToolCalls
      /\ pc \in Live \cup {"returned"} =>
           /\ used <= MaxToolCalls
           /\ pc \in {"tool_wait", "tool_record"} => used = calls + 1
           /\ pc \notin {"tool_wait", "tool_record"} => used = calls
           /\ pc \in {"tool_sync", "tool_observe"} =>
                row.observations = calls - 1
           /\ pc \notin {"tool_sync", "tool_observe"} =>
                row.observations = calls
           /\ pc \notin {"sync_budget", "tool_sync"} =>
                row.budget = MaxToolCalls - calls

\* The steps of a decision, from the stored report to the gate.
Deciding == {"decide", "request", "policy_trace", "await_approval"}

\* Which report, reason and request a row has, whatever cut its triage off.
ResultOk(s) ==
  LET row == store[s]
      pc == task[s].pc
  IN  /\ row.status = "completed" => row.report.kind = "full"
      /\ row.status = "partial_completed" =>
           \/ row.report.kind = "partial" /\ row.reason # "none"
           \/ row.report.kind = "full" /\ accepted[s] = <<"rejected">>
      /\ pc \in {"fp_report", "fp_state"} => task[s].why # "none"
      /\ pc \in {"fp_state", "fp_trace", "fp_normalize", "fp_partial"} =>
           row.report.kind = "partial"
      /\ pc \in {"fp_trace", "fp_normalize", "fp_partial"} =>
           row.reason # "none"
      /\ pc \in Live /\ row.report.risky => pc \in Deciding
      /\ row.request # NoRequest /\ row.status # "waiting_approval" =>
           /\ row.status = "analyzing"
           /\ \/ pc \in {"policy_trace", "await_approval"}
              \/ pc \in {"raised", "gone"} /\ response[s] # "201"

\* What the client was answered, and who holds the loop.
AnswerOk(s) ==
  LET pc == task[s].pc
  IN  /\ pc \in Active => loop = s
      /\ pc = "absent" => task[s].used = 0
      /\ pc \in {"absent"} \cup Live => response[s] = "none"
      /\ pc = "returned" => response[s] = "201"
      /\ pc = "raised" => response[s] = "500"
      /\ response[s] = "201" /\ s \in DOMAIN store =>
           store[s].status \in Settled

\* What holds of one session at any moment of its triage and after it.
ProgressOk(s) ==
  /\ AnswerOk(s)
  /\ s \in DOMAIN store => EvidenceOk(s) /\ ResultOk(s)

\* Evidence accounting, consistent reports, explained requests and truthful
\* answers follow from it; with GateInv it is inductive.
ProgressInv == \A s \in Sessions : ProgressOk(s)
---------------------------------------------------------------------------
(* The inductive invariant behind the counters. *)

\* The steps after the LLM's answer, and those of _finalize_partial.
Answered == {"llm_trace", "ground", "report"} \cup Deciding
Finalizing == {"fp_report", "fp_state", "fp_trace", "fp_normalize",
               "fp_partial"}

\* What the locals say of the way a triage has come: the kind of answer is set
\* by the answer, a timeout of the LLM is the last thing a triage goes through,
\* and a row that is not durable lives as long as its process.
WayOk(s) ==
  LET pc == task[s].pc
  IN  /\ pc \in {"absent"} \cup (Live \ Answered) => task[s].llm = "none"
      /\ pc = "absent" => task[s].why = "none"
      /\ task[s].why = "llm_timeout" =>
           pc \in Finalizing \cup Ended /\ ~task[s].nested
      /\ pc \in Live \ Finalizing /\ task[s].why # "none" =>
           store[s].status = "partial_completed"
      /\ ~Durable /\ s \in InProcess => s \in DOMAIN store

\* The steps between the policy's block and the gate.
Asking == {"request", "policy_trace", "await_approval"}

\* A session between its block and its gate has been counted, and is not gated.
RequestsCounted ==
  metrics["approval_requests"] >= metrics["waiting_approval"]
    + (IF AtStep(Asking) = {} THEN 0 ELSE 1)

\* Each counter of lost calls is positive exactly while a session lost one.
LossesCounted ==
  ~Durable =>
    /\ metrics["tool_calls_failed"] > 0 <=> \E s \in InProcess : LostTool(s)
    /\ metrics["llm_calls_failed"] > 0 <=> \E s \in InProcess : LostLlm(s)

\* The counters agree with the sessions; with GateInv and ProgressInv it is
\* inductive.
CountersInv ==
  /\ IsFiniteSet(InProcess)
  /\ \A s \in Sessions : WayOk(s)
  /\ OutcomesCounted /\ RequestsCounted /\ LossesCounted
---------------------------------------------------------------------------
(* The inductive invariants behind the audit trail and what is read off it. *)

\* The stored trace leads to the stored status; one that is ahead of
\* last_completed_step is in memory, and the tool's next commit is at hand.  It
\* is inductive with GateInv.
TrailInv ==
  \A s \in DOMAIN store :
    /\ TrailOk(store[s].trace, store[s].status)
    /\ \/ store[s].lastStep = Len(store[s].trace)
       \/ ~Durable /\ task[s].pc = "tool_sync"

\* A trace ends with the sanitization check when the LLM is called, and until
\* its answer is traced; a finalization has a reason; and a session that waits
\* has no coroutine.
TallyOk(s) ==
  LET pc == task[s].pc
      checked == Last(store[s].trace).step = "sanitization_check"
  IN  /\ pc \in {"llm_call", "llm_wait"} => checked
      /\ pc \in Live /\ checked =>
           pc \in {"llm_call", "llm_wait", "llm_trace"} \cup Finalizing
      /\ pc \in Finalizing => task[s].why # "none"
      /\ store[s].status = "waiting_approval" => pc \in {"returned", "gone"}

\* With GateInv, ProgressInv and CountersInv it is inductive; LlmCallsCounted is
\* inductive with all four.
TallyInv == \A s \in DOMAIN store : TallyOk(s)
---------------------------------------------------------------------------
(* Action properties. *)

\* Nothing but a human decision moves a session that is completed, waiting or
\* decided: it changes by an accepted decision only, out of waiting_approval,
\* and the decision leaves the evidence alone (API_SPEC.md 8: a conflict must
\* not mutate state).
GateFrozen ==
  [][\A s \in DOMAIN store \cap DOMAIN store' :
       /\ \/ store[s].status \in {"completed", "waiting_approval"}
          \/ accepted[s] # << >>
       /\ store'[s] # store[s]
       => /\ store[s].status = "waiting_approval"
          /\ \E d \in Decisions :
               /\ accepted'[s] = Append(accepted[s], d)
               /\ store'[s].status = DecidedStatus(d)
               /\ store'[s].calls = store[s].calls]_vars
---------------------------------------------------------------------------
(* Refinement and liveness. *)

PhaseOf(status) ==
  CASE status = "completed" -> "completed"
    [] status = "partial_completed" -> "degraded"
    [] status = "waiting_approval" -> "gated"
    [] OTHER -> "open"

Phase == [s \in Sessions |->
            IF s \in DOMAIN store THEN PhaseOf(store[s].status)
            ELSE IF task[s].pc = "absent" THEN "absent" ELSE "forgotten"]

Risk == [s \in Sessions |-> s \in DOMAIN store /\ store[s].report.risky]

Lifecycle == INSTANCE SessionLifecycle
               WITH phase <- Phase, risk <- Risk, verdicts <- accepted

\* Every behaviour of the service is one SessionLifecycle allows.
ImplementsLifecycle == Lifecycle!LSpec

\* Every triage ends: each POST /incident is answered, or its process stops.
TriageEnds ==
  \A s \in Sessions : task[s].pc \in Live ~> task[s].pc \in Ended
---------------------------------------------------------------------------
(* Statements of the documentation that the code does not meet. *)

BudgetReasons == {"budget_before_start", "budget_before_tool",
                  "time_before_llm"}

\* run_initial_triage's docstring: if the budget is exhausted at any checkpoint,
\* triage degrades gracefully to partial_completed.
BudgetDegradesGracefully ==
  \A s \in DOMAIN store :
    response[s] = "500" => store[s].reason \notin BudgetReasons

\* The help text of session_budget_exhausted_total (metrics.py 32): sessions
\* where budget was exhausted, since this process started.
BudgetExhaustionCounted ==
  metrics["session_budget_exhausted"] >=
    Cardinality({s \in InProcess \cap DOMAIN store :
                   store[s].reason \in BudgetReasons})

\* STATE_MACHINE.md 11.3: once a session is terminal, normal orchestration must
\* stop, so its row changes no more.
TerminalUnchanged ==
  [][\A s \in DOMAIN store \cap DOMAIN store' :
       IsTerminal(store[s].status) => store'[s] = store[s]]_vars

\* serving-observability.md: after a restart the service restores a session or
\* marks it interrupted or failed.
InterruptedIsMarked ==
  \A s \in Sessions :
    (s \in DOMAIN store /\ task[s].pc = "gone")
      ~> (s \in DOMAIN store => store[s].status \in Settled \cup {"failed"})
=============================================================================

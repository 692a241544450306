-------------------------- MODULE InMemoryRepository --------------------------
(***************************************************************************)
(* InMemorySessionRepository: what each method does to one session's row.  *)
(* Rows live in the process and are gone when it stops.                    *)
(***************************************************************************)
EXTENDS SessionRecord

\* append_trace syncs the derived fields of the session it finds.
MemAppendTrace(row, step) == Sync(Traced(row, step))

MemCreateSession(incident) ==
  Sync(Traced([incident |-> incident, status |-> "new", plan |-> FALSE,
               calls |-> << >>, observations |-> 0, report |-> NoReport,
               request |-> NoRequest, budget |-> NoBudget,
               reason |-> "none", iteration |-> 1, lastStep |-> 0,
               waiting |-> FALSE, partial |-> FALSE, closed |-> FALSE,
               trace |-> << >>],
              "session_created"))

\* Mutant of MemUpdateStatus: the transition is not traced.
MemUpdateStatusUntraced(row, next) == Sync([row EXCEPT !.status = next])

MemUpdateStatus(row, next) ==
  MemAppendTrace(Sync([row EXCEPT !.status = next]), "status_transition")

MemAddObservation(row) ==
  MemAppendTrace([row EXCEPT !.observations = @ + 1], "observation")

MemUpdateSessionState(row, budget, reason) ==
  Sync([row EXCEPT !.budget = budget, !.reason = reason])

MemUpdateInvestigationPlan(row) ==
  MemAppendTrace([row EXCEPT !.plan = TRUE], "planning")

\* add_tool_call appends to the trace itself and does not sync: lastStep is
\* behind the trace until the next call that does.
MemAddToolCall(row, call) ==
  Traced([row EXCEPT !.calls = Append(@, call)], "tool_call")

MemSetFinalReport(row, report) ==
  MemAppendTrace([row EXCEPT !.report = report], "report")

\* The TRUE written to waiting is overwritten by append_trace's sync.
MemSetApprovalRequest(row, id) ==
  MemAppendTrace([row EXCEPT !.request = id, !.waiting = TRUE],
                 "approval_request")

\* The request is cleared before the status moves, then both are traced.
MemApplyApproval(row, decision) ==
  LET resolved == [row EXCEPT !.iteration = @ + 1,
                              !.report = Annotated(@, decision),
                              !.request = NoRequest]
  IN  MemAppendTrace(MemUpdateStatus(resolved, DecidedStatus(decision)),
                     "approval_decision")
=============================================================================

--------------------------- MODULE SQLiteRepository ---------------------------
(***************************************************************************)
(* SQLiteSessionRepository: every method loads the session and its trace,  *)
(* changes both, syncs the derived fields and commits once.  The operators *)
(* below give the row that the one commit of each method writes.           *)
(***************************************************************************)
EXTENDS SessionRecord

\* The common tail of the methods: trace.append, _sync_session_state, _save.
SqlSave(row, step) == Sync(Traced(row, step))

SqlCreateSession(incident) ==
  SqlSave([incident |-> incident, status |-> "new", plan |-> FALSE,
           calls |-> << >>, observations |-> 0, report |-> NoReport,
           request |-> NoRequest, budget |-> NoBudget,
           reason |-> "none", iteration |-> 1, lastStep |-> 0,
           waiting |-> FALSE, partial |-> FALSE, closed |-> FALSE,
           trace |-> << >>],
          "session_created")

SqlUpdateStatus(row, next) ==
  SqlSave([row EXCEPT !.status = next], "status_transition")

SqlAddObservation(row) ==
  SqlSave([row EXCEPT !.observations = @ + 1], "observation")

SqlUpdateSessionState(row, budget, reason) ==
  Sync([row EXCEPT !.budget = budget, !.reason = reason])

SqlUpdateInvestigationPlan(row) ==
  SqlSave([row EXCEPT !.plan = TRUE], "planning")

SqlAddToolCall(row, call) ==
  SqlSave([row EXCEPT !.calls = Append(@, call)], "tool_call")

SqlSetFinalReport(row, report) ==
  SqlSave([row EXCEPT !.report = report], "report")

SqlSetApprovalRequest(row, id) ==
  SqlSave([row EXCEPT !.request = id, !.waiting = TRUE], "approval_request")

\* Mutants of SqlApplyApproval: the status assignment, the reset of the request
\* and the trace step are forgotten, in turn.
SqlApplyApprovalKeepsStatus(row, decision) ==
  SqlSave([row EXCEPT !.iteration = @ + 1,
                      !.report = Annotated(@, decision),
                      !.request = NoRequest],
          "approval_decision")
SqlApplyApprovalKeepsRequest(row, decision) ==
  SqlSave([row EXCEPT !.iteration = @ + 1,
                      !.report = Annotated(@, decision),
                      !.status = DecidedStatus(decision)],
          "approval_decision")
SqlApplyApprovalUntraced(row, decision) ==
  Sync([row EXCEPT !.iteration = @ + 1,
                   !.report = Annotated(@, decision),
                   !.request = NoRequest,
                   !.status = DecidedStatus(decision)])

\* The status is assigned directly: the decision is traced, the status change
\* is not.
SqlApplyApproval(row, decision) ==
  SqlSave([row EXCEPT !.iteration = @ + 1,
                      !.report = Annotated(@, decision),
                      !.request = NoRequest,
                      !.status = DecidedStatus(decision)],
          "approval_decision")

SqlAppendTrace(row, step) == SqlSave(row, step)
=============================================================================

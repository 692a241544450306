-------------------------- MODULE SessionRepository --------------------------
(***************************************************************************)
(* The repository the orchestrator is given: create_session_repository     *)
(* picks one of the two backends from the settings, and every method below *)
(* is a method of the SessionRepository protocol on the chosen one.        *)
(***************************************************************************)
EXTENDS InMemoryRepository, SQLiteRepository

CONSTANT Backend   \* settings.repository_backend

ASSUME BackendAssumption == Backend \in {"inmemory", "sqlite"}

\* Rows on disk outlive the process, rows in memory do not.
Durable == Backend = "sqlite"

CreateSession(incident) ==
  IF Durable THEN SqlCreateSession(incident) ELSE MemCreateSession(incident)

UpdateStatus(row, next) ==
  IF Durable THEN SqlUpdateStatus(row, next) ELSE MemUpdateStatus(row, next)

AddObservation(row) ==
  IF Durable THEN SqlAddObservation(row) ELSE MemAddObservation(row)

UpdateSessionState(row, budget, reason) ==
  IF Durable THEN SqlUpdateSessionState(row, budget, reason)
  ELSE MemUpdateSessionState(row, budget, reason)

UpdateInvestigationPlan(row) ==
  IF Durable THEN SqlUpdateInvestigationPlan(row)
  ELSE MemUpdateInvestigationPlan(row)

AddToolCall(row, call) ==
  IF Durable THEN SqlAddToolCall(row, call) ELSE MemAddToolCall(row, call)

SetFinalReport(row, report) ==
  IF Durable THEN SqlSetFinalReport(row, report)
  ELSE MemSetFinalReport(row, report)

SetApprovalRequest(row, id) ==
  IF Durable THEN SqlSetApprovalRequest(row, id)
  ELSE MemSetApprovalRequest(row, id)

ApplyApproval(row, decision) ==
  IF Durable THEN SqlApplyApproval(row, decision)
  ELSE MemApplyApproval(row, decision)

AppendTrace(row, step) ==
  IF Durable THEN SqlAppendTrace(row, step) ELSE MemAppendTrace(row, step)
=============================================================================

--------------------------- MODULE RepositoryProofs ---------------------------
(***************************************************************************)
(* What every repository method does to a row, whichever backend was       *)
(* chosen: the row stays well typed, and each method changes the fields it *)
(* is named for and leaves the lifecycle fields it is not.                 *)
(***************************************************************************)
EXTENDS SessionRepository, TLAPS

\* A new row whose lifecycle fields are those of the old one.
Keeps(row, new) ==
  /\ new \in Rows
  /\ new.status = row.status
  /\ new.report = row.report
  /\ new.request = row.request
  /\ new.iteration = row.iteration
  /\ new.reason = row.reason

\* Syncing the derived fields types and keeps the rest.
LEMMA SyncKeeps ==
  ASSUME NEW row \in Rows
  PROVE  Keeps(row, Sync(row))
<1> DEFINE last == Len(row.trace)
           w == row.status = "waiting_approval"
           p == row.status = "partial_completed"
           c == row.status \in {"completed", "partial_completed"}
           new == [row EXCEPT !.lastStep = last, !.waiting = w,
                              !.partial = p, !.closed = c]
<1>1. last \in Nat /\ w \in BOOLEAN /\ p \in BOOLEAN /\ c \in BOOLEAN
  BY DEF Rows
<1> HIDE DEF last, w, p, c
<1>2. Keeps(row, new)
  BY <1>1 DEF Keeps, Rows
<1> QED  BY <1>2 DEF Sync, new, last, w, p, c

\* So does recording a trace step.
LEMMA TracedKeeps ==
  ASSUME NEW row \in Rows, NEW step \in StepTypes
  PROVE  Keeps(row, Traced(row, step))
<1>1. [step |-> step, status |-> row.status] \in TraceSteps
  BY DEF Rows, TraceSteps
<1>2. Append(row.trace, [step |-> step, status |-> row.status])
        \in Seq(TraceSteps)
  BY <1>1 DEF Rows
<1> QED  BY <1>2 DEF Keeps, Traced, Rows

\* append_trace.
LEMMA AppendTraceKeeps ==
  ASSUME NEW row \in Rows, NEW step \in StepTypes
  PROVE  Keeps(row, AppendTrace(row, step))
<1> DEFINE traced == Traced(row, step)
<1>1. Keeps(row, traced)
  BY TracedKeeps
<1>2. Keeps(traced, Sync(traced))
  BY <1>1, SyncKeeps DEF Keeps
<1>3. AppendTrace(row, step) = Sync(traced)
  BY DEF AppendTrace, SqlAppendTrace, SqlSave, MemAppendTrace
<1> QED  BY <1>1, <1>2, <1>3 DEF Keeps

\* append_trace on either backend is the sync of the traced row.
LEMMA TailKeeps ==
  ASSUME NEW row \in Rows, NEW step \in StepTypes
  PROVE  /\ Keeps(row, MemAppendTrace(row, step))
         /\ Keeps(row, SqlSave(row, step))
<1> DEFINE traced == Traced(row, step)
<1>1. Keeps(row, traced) /\ Keeps(traced, Sync(traced))
  BY TracedKeeps, SyncKeeps DEF Keeps
<1> QED  BY <1>1 DEF Keeps, SqlSave, MemAppendTrace

\* add_observation.
LEMMA AddObservationKeeps ==
  ASSUME NEW row \in Rows
  PROVE  Keeps(row, AddObservation(row))
<1> DEFINE new == [row EXCEPT !.observations = @ + 1]
<1>1. Keeps(row, new)
  BY DEF Keeps, Rows
<1>2. new \in Rows /\ "observation" \in StepTypes
  BY <1>1 DEF Keeps, StepTypes
<1> HIDE DEF new
<1>3. /\ Keeps(new, MemAppendTrace(new, "observation"))
      /\ Keeps(new, SqlSave(new, "observation"))
  BY <1>2, TailKeeps
<1> QED  BY <1>1, <1>3
         DEF Keeps, AddObservation, MemAddObservation, SqlAddObservation, new

\* update_session_state changes the failure reason, and keeps the rest.
LEMMA UpdateSessionStateKeeps ==
  ASSUME NEW row \in Rows, NEW budget \in Nat, NEW reason \in Reasons
  PROVE  LET new == UpdateSessionState(row, budget, reason)
         IN  /\ new \in Rows /\ new.status = row.status
             /\ new.report = row.report /\ new.request = row.request
             /\ new.iteration = row.iteration /\ new.reason = reason
<1> DEFINE new == [row EXCEPT !.budget = budget, !.reason = reason]
<1>1. /\ new \in Rows /\ new.status = row.status
      /\ new.report = row.report /\ new.request = row.request
      /\ new.iteration = row.iteration /\ new.reason = reason
  BY DEF Rows
<1>2. Keeps(new, Sync(new))
  BY <1>1, SyncKeeps
<1>3. UpdateSessionState(row, budget, reason) = Sync(new)
  BY DEF UpdateSessionState, SqlUpdateSessionState, MemUpdateSessionState
<1> HIDE DEF new
<1> QED  BY <1>1, <1>2, <1>3 DEF Keeps

\* update_investigation_plan.
LEMMA UpdateInvestigationPlanKeeps ==
  ASSUME NEW row \in Rows
  PROVE  Keeps(row, UpdateInvestigationPlan(row))
<1> DEFINE new == [row EXCEPT !.plan = TRUE]
<1>1. Keeps(row, new)
  BY DEF Keeps, Rows
<1>2. new \in Rows /\ "planning" \in StepTypes
  BY <1>1 DEF Keeps, StepTypes
<1> HIDE DEF new
<1>3. /\ Keeps(new, MemAppendTrace(new, "planning"))
      /\ Keeps(new, SqlSave(new, "planning"))
  BY <1>2, TailKeeps
<1> QED  BY <1>1, <1>3
         DEF Keeps, UpdateInvestigationPlan, MemUpdateInvestigationPlan,
             SqlUpdateInvestigationPlan, new

\* add_tool_call.
LEMMA AddToolCallKeeps ==
  ASSUME NEW row \in Rows, NEW call \in ToolCalls
  PROVE  Keeps(row, AddToolCall(row, call))
<1> DEFINE new == [row EXCEPT !.calls = Append(@, call)]
<1>1. Append(row.calls, call) \in Seq(ToolCalls)
  BY DEF Rows
<1>2. Keeps(row, new)
  BY <1>1 DEF Keeps, Rows
<1>3. new \in Rows /\ "tool_call" \in StepTypes
  BY <1>2 DEF Keeps, StepTypes
<1> HIDE DEF new
<1>4. /\ Keeps(new, Traced(new, "tool_call"))
      /\ Keeps(new, SqlSave(new, "tool_call"))
  BY <1>3, TailKeeps, TracedKeeps
<1> QED  BY <1>2, <1>4
         DEF Keeps, AddToolCall, MemAddToolCall, SqlAddToolCall, new

\* update_status sets the status it is given, and keeps the rest.
LEMMA UpdateStatusSets ==
  ASSUME NEW row \in Rows, NEW next \in Statuses
  PROVE  LET new == UpdateStatus(row, next)
         IN  /\ new \in Rows /\ new.status = next
             /\ new.report = row.report /\ new.request = row.request
             /\ new.iteration = row.iteration /\ new.reason = row.reason
<1> DEFINE moved == [row EXCEPT !.status = next]
<1>1. /\ moved \in Rows /\ moved.status = next
      /\ moved.report = row.report /\ moved.request = row.request
      /\ moved.iteration = row.iteration /\ moved.reason = row.reason
  BY DEF Rows
<1>2. "status_transition" \in StepTypes
  BY DEF StepTypes
<1> HIDE DEF moved
<1>3. Keeps(moved, Sync(moved)) /\ Sync(moved) \in Rows
  BY <1>1, SyncKeeps DEF Keeps
<1>4. /\ Keeps(Sync(moved), MemAppendTrace(Sync(moved), "status_transition"))
      /\ Keeps(moved, SqlSave(moved, "status_transition"))
  BY <1>1, <1>2, <1>3, TailKeeps
<1> QED  BY <1>1, <1>3, <1>4
         DEF Keeps, UpdateStatus, MemUpdateStatus, SqlUpdateStatus, moved

\* set_final_report sets the report, and keeps the rest.
LEMMA SetFinalReportSets ==
  ASSUME NEW row \in Rows, NEW report \in Reports
  PROVE  LET new == SetFinalReport(row, report)
         IN  /\ new \in Rows /\ new.status = row.status
             /\ new.report = report /\ new.request = row.request
             /\ new.iteration = row.iteration /\ new.reason = row.reason
<1> DEFINE stored == [row EXCEPT !.report = report]
<1>1. /\ stored \in Rows /\ stored.status = row.status
      /\ stored.report = report /\ stored.request = row.request
      /\ stored.iteration = row.iteration /\ stored.reason = row.reason
  BY DEF Rows
<1>2. "report" \in StepTypes
  BY DEF StepTypes
<1> HIDE DEF stored
<1>3. /\ Keeps(stored, MemAppendTrace(stored, "report"))
      /\ Keeps(stored, SqlSave(stored, "report"))
  BY <1>1, <1>2, TailKeeps
<1> QED  BY <1>1, <1>3
         DEF Keeps, SetFinalReport, MemSetFinalReport, SqlSetFinalReport, stored

\* set_approval_request sets the request, and keeps the rest.
LEMMA SetApprovalRequestSets ==
  ASSUME NEW row \in Rows, NEW id \in Sessions
  PROVE  LET new == SetApprovalRequest(row, id)
         IN  /\ new \in Rows /\ new.status = row.status
             /\ new.report = row.report /\ new.request = id
             /\ new.iteration = row.iteration /\ new.reason = row.reason
<1> DEFINE asked == [row EXCEPT !.request = id, !.waiting = TRUE]
<1>1. /\ asked \in Rows /\ asked.status = row.status
      /\ asked.report = row.report /\ asked.request = id
      /\ asked.iteration = row.iteration /\ asked.reason = row.reason
  BY DEF Rows
<1>2. "approval_request" \in StepTypes
  BY DEF StepTypes
<1> HIDE DEF asked
<1>3. /\ Keeps(asked, MemAppendTrace(asked, "approval_request"))
      /\ Keeps(asked, SqlSave(asked, "approval_request"))
  BY <1>1, <1>2, TailKeeps
<1> QED  BY <1>1, <1>3
         DEF Keeps, SetApprovalRequest, MemSetApprovalRequest,
             SqlSetApprovalRequest, asked

\* apply_approval, the same on both backends but for the trace: the decision
\* settles the session, is noted on its report and counted, and the request is
\* resolved.
LEMMA ApplyApprovalResolves ==
  ASSUME NEW row \in Rows, NEW decision \in Decisions
  PROVE  LET new == ApplyApproval(row, decision)
         IN  /\ new \in Rows /\ new.status = DecidedStatus(decision)
             /\ new.report = Annotated(row.report, decision)
             /\ new.request = NoRequest
             /\ new.iteration = row.iteration + 1
             /\ new.reason = row.reason
<1> DEFINE report == Annotated(row.report, decision)
           next == DecidedStatus(decision)
           count == row.iteration + 1
           resolved == [row EXCEPT !.iteration = count, !.report = report,
                                   !.request = NoRequest]
           decided == [row EXCEPT !.iteration = count, !.report = report,
                                  !.request = NoRequest, !.status = next]
<1>1. next \in Statuses
  BY DEF Decisions, DecidedStatus, Statuses
<1>2. Append(row.report.notes, decision) \in Seq(Decisions)
  BY DEF Rows, Reports
<1>3. report \in Reports
  BY <1>2 DEF Rows, Reports, Annotated
<1>4. count \in Nat \ {0}
  BY DEF Rows
<1> HIDE DEF report, next, count
<1>5. /\ decided \in Rows /\ decided.report = report
      /\ decided.request = NoRequest /\ decided.status = next
      /\ decided.iteration = count /\ decided.reason = row.reason
  BY <1>1, <1>3, <1>4 DEF Rows
<1> DEFINE moved == [resolved EXCEPT !.status = next]
<1>6. /\ moved \in Rows /\ moved.report = report
      /\ moved.request = NoRequest /\ moved.status = next
      /\ moved.iteration = count /\ moved.reason = row.reason
  BY <1>1, <1>3, <1>4 DEF Rows
<1>7. /\ "status_transition" \in StepTypes
      /\ "approval_decision" \in StepTypes
  BY DEF StepTypes
<1> HIDE DEF moved, decided
<1>8. Keeps(moved, Sync(moved)) /\ Sync(moved) \in Rows
  BY <1>6, SyncKeeps DEF Keeps
<1> DEFINE traced == MemAppendTrace(Sync(moved), "status_transition")
<1>9. Keeps(Sync(moved), traced) /\ traced \in Rows
  BY <1>7, <1>8, TailKeeps DEF Keeps
<1> HIDE DEF traced
<1>10. /\ Keeps(traced, MemAppendTrace(traced, "approval_decision"))
       /\ Keeps(decided, SqlSave(decided, "approval_decision"))
  BY <1>5, <1>7, <1>9, TailKeeps
<1>11. CASE Durable
  BY <1>5, <1>10, <1>11
     DEF Keeps, ApplyApproval, SqlApplyApproval, decided, report, next,
         count
<1>12. CASE ~Durable
  <2>1. ApplyApproval(row, decision)
          = MemAppendTrace(traced, "approval_decision")
    BY <1>12 DEF ApplyApproval, MemApplyApproval, MemUpdateStatus,
                 traced, moved, report, next, count
  <2> QED  BY <1>6, <1>8, <1>9, <1>10, <2>1 DEF Keeps, report, next, count
<1> QED  BY <1>11, <1>12

\* create_session: a new session without report, request or decision.
LEMMA CreateSessionNew ==
  ASSUME NEW incident \in Incidents
  PROVE  LET new == CreateSession(incident)
         IN  /\ new \in Rows /\ new.status = "new"
             /\ new.report = NoReport /\ new.request = NoRequest
             /\ new.iteration = 1 /\ new.reason = "none"
<1> DEFINE fresh == [incident |-> incident, status |-> "new", plan |-> FALSE,
                     calls |-> << >>, observations |-> 0, report |-> NoReport,
                     request |-> NoRequest, budget |-> NoBudget,
                     reason |-> "none", iteration |-> 1, lastStep |-> 0,
                     waiting |-> FALSE, partial |-> FALSE, closed |-> FALSE,
                     trace |-> << >>]
<1>1. /\ fresh \in Rows /\ fresh.status = "new"
      /\ fresh.report = NoReport /\ fresh.request = NoRequest
      /\ fresh.iteration = 1 /\ fresh.reason = "none"
  BY DEF Rows, NoReport, Reports, Statuses, Reasons
<1>2. "session_created" \in StepTypes
  BY DEF StepTypes
<1>3. /\ SqlCreateSession(incident) = SqlSave(fresh, "session_created")
      /\ MemCreateSession(incident) = MemAppendTrace(fresh, "session_created")
  BY DEF SqlCreateSession, MemCreateSession, SqlSave, MemAppendTrace
<1> HIDE DEF fresh
<1>4. /\ Keeps(fresh, MemAppendTrace(fresh, "session_created"))
      /\ Keeps(fresh, SqlSave(fresh, "session_created"))
  BY <1>1, <1>2, TailKeeps
<1> QED  BY <1>1, <1>3, <1>4 DEF Keeps, CreateSession

\* A decision leaves the evidence as it was.
LEMMA ApplyApprovalKeepsCalls ==
  ASSUME NEW row \in Rows, NEW decision \in Decisions
  PROVE  ApplyApproval(row, decision).calls = row.calls
BY DEF ApplyApproval, SqlApplyApproval, MemApplyApproval, MemUpdateStatus,
       MemAppendTrace, SqlSave, Sync, Traced, Rows

\* The tool calls, observations and remaining budget of a row.
SameEvidence(row, new) ==
  /\ new.calls = row.calls
  /\ new.observations = row.observations
  /\ new.budget = row.budget

\* The methods that are not about the evidence leave it alone.
LEMMA EvidenceKept ==
  ASSUME NEW row \in Rows
  PROVE  /\ \A next : SameEvidence(row, UpdateStatus(row, next))
         /\ \A step : SameEvidence(row, AppendTrace(row, step))
         /\ SameEvidence(row, UpdateInvestigationPlan(row))
         /\ \A report : SameEvidence(row, SetFinalReport(row, report))
         /\ \A id : SameEvidence(row, SetApprovalRequest(row, id))
         /\ \A decision : SameEvidence(row, ApplyApproval(row, decision))
<1> USE DEF SameEvidence, MemAppendTrace, SqlSave, Sync, Traced, Rows
<1>1. \A next : SameEvidence(row, UpdateStatus(row, next))
  BY DEF UpdateStatus, MemUpdateStatus, SqlUpdateStatus
<1>2. \A step : SameEvidence(row, AppendTrace(row, step))
  BY DEF AppendTrace, SqlAppendTrace
<1>3. SameEvidence(row, UpdateInvestigationPlan(row))
  BY DEF UpdateInvestigationPlan, MemUpdateInvestigationPlan,
         SqlUpdateInvestigationPlan
<1>4. \A report : SameEvidence(row, SetFinalReport(row, report))
  BY DEF SetFinalReport, MemSetFinalReport, SqlSetFinalReport
<1>5. \A id : SameEvidence(row, SetApprovalRequest(row, id))
  BY DEF SetApprovalRequest, MemSetApprovalRequest, SqlSetApprovalRequest
<1>6. \A decision : SameEvidence(row, ApplyApproval(row, decision))
  <2> SUFFICES ASSUME NEW decision
               PROVE  SameEvidence(row, ApplyApproval(row, decision))
    OBVIOUS
  <2>1. SameEvidence(row, SqlApplyApproval(row, decision))
    BY DEF SqlApplyApproval
  <2>2. SameEvidence(row, MemApplyApproval(row, decision))
    <3> DEFINE resolved == [row EXCEPT !.iteration = @ + 1,
                              !.report = Annotated(@, decision),
                              !.request = NoRequest]
               moved == MemUpdateStatus(resolved, DecidedStatus(decision))
    <3>1. SameEvidence(row, resolved)
      OBVIOUS
    <3>2. SameEvidence(resolved, moved)
      BY DEF MemUpdateStatus
    <3>3. SameEvidence(moved, MemApplyApproval(row, decision))
      BY DEF MemApplyApproval
    <3> HIDE DEF resolved, moved
    <3> QED  BY <3>1, <3>2, <3>3
  <2> QED  BY <2>1, <2>2 DEF ApplyApproval
<1> QED  BY <1>1, <1>2, <1>3, <1>4, <1>5, <1>6

\* The three commits of _run_tool change one of its fields each, and
\* update_session_state the budget only.
LEMMA EvidenceAdded ==
  ASSUME NEW row \in Rows
  PROVE  /\ \A call : LET new == AddToolCall(row, call)
                      IN  /\ new.calls = Append(row.calls, call)
                          /\ new.observations = row.observations
                          /\ new.budget = row.budget
         /\ LET new == AddObservation(row)
            IN  /\ new.calls = row.calls
                /\ new.observations = row.observations + 1
                /\ new.budget = row.budget
         /\ \A budget, reason :
              LET new == UpdateSessionState(row, budget, reason)
              IN  /\ new.calls = row.calls
                  /\ new.observations = row.observations
                  /\ new.budget = budget
<1> USE DEF MemAppendTrace, SqlSave, Sync, Traced, Rows
<1>1. \A call : LET new == AddToolCall(row, call)
               IN  /\ new.calls = Append(row.calls, call)
                   /\ new.observations = row.observations
                   /\ new.budget = row.budget
  BY DEF AddToolCall, MemAddToolCall, SqlAddToolCall
<1>2. LET new == AddObservation(row)
      IN  /\ new.calls = row.calls
          /\ new.observations = row.observations + 1
          /\ new.budget = row.budget
  BY DEF AddObservation, MemAddObservation, SqlAddObservation
<1>3. \A budget, reason :
        LET new == UpdateSessionState(row, budget, reason)
        IN  /\ new.calls = row.calls
            /\ new.observations = row.observations
            /\ new.budget = budget
  BY DEF UpdateSessionState, MemUpdateSessionState, SqlUpdateSessionState
<1> QED  BY <1>1, <1>2, <1>3

\* A new session has no evidence.
LEMMA CreateSessionEmpty ==
  ASSUME NEW incident
  PROVE  LET new == CreateSession(incident)
         IN  /\ new.calls = << >> /\ new.observations = 0
             /\ new.budget = NoBudget
BY DEF CreateSession, MemCreateSession, SqlCreateSession, SqlSave, Sync,
       Traced

\* The trace has one entry more, with the status the row then has, and
\* last_completed_step counts it.
Enters(row, new, step) ==
  /\ new.trace = Append(row.trace, [step |-> step, status |-> new.status])
  /\ new.lastStep = Len(new.trace)

\* append_trace on either backend.
LEMMA TailEnters ==
  ASSUME NEW row \in Rows, NEW step
  PROVE  /\ Enters(row, MemAppendTrace(row, step), step)
         /\ Enters(row, SqlSave(row, step), step)
BY DEF Enters, MemAppendTrace, SqlSave, Sync, Traced, Rows

\* Every method that traces enters one step, but for add_tool_call in memory,
\* which leaves last_completed_step behind; update_session_state enters none.
LEMMA MethodsEnter ==
  ASSUME NEW row \in Rows
  PROVE  /\ \A step : Enters(row, AppendTrace(row, step), step)
         /\ \A next :
              Enters(row, UpdateStatus(row, next), "status_transition")
         /\ Enters(row, UpdateInvestigationPlan(row), "planning")
         /\ Enters(row, AddObservation(row), "observation")
         /\ \A report : Enters(row, SetFinalReport(row, report), "report")
         /\ \A id :
              Enters(row, SetApprovalRequest(row, id), "approval_request")
         /\ \A call :
              /\ AddToolCall(row, call).trace =
                   Append(row.trace, [step |-> "tool_call",
                                      status |-> AddToolCall(row, call).status])
              /\ Durable => Enters(row, AddToolCall(row, call), "tool_call")
         /\ \A budget, reason :
              LET new == UpdateSessionState(row, budget, reason)
              IN  new.trace = row.trace /\ new.lastStep = Len(new.trace)
<1> USE DEF Enters, MemAppendTrace, SqlSave, Sync, Traced, Rows
<1>1. \A step : Enters(row, AppendTrace(row, step), step)
  BY DEF AppendTrace, SqlAppendTrace
<1>2. \A next : Enters(row, UpdateStatus(row, next), "status_transition")
  BY DEF UpdateStatus, MemUpdateStatus, SqlUpdateStatus
<1>3. Enters(row, UpdateInvestigationPlan(row), "planning")
  BY DEF UpdateInvestigationPlan, MemUpdateInvestigationPlan,
         SqlUpdateInvestigationPlan
<1>4. Enters(row, AddObservation(row), "observation")
  BY DEF AddObservation, MemAddObservation, SqlAddObservation
<1>5. \A report : Enters(row, SetFinalReport(row, report), "report")
  BY DEF SetFinalReport, MemSetFinalReport, SqlSetFinalReport
<1>6. \A id : Enters(row, SetApprovalRequest(row, id), "approval_request")
  BY DEF SetApprovalRequest, MemSetApprovalRequest, SqlSetApprovalRequest
<1>7. \A call :
        /\ AddToolCall(row, call).trace =
             Append(row.trace, [step |-> "tool_call",
                                status |-> AddToolCall(row, call).status])
        /\ Durable => Enters(row, AddToolCall(row, call), "tool_call")
  BY DEF AddToolCall, MemAddToolCall, SqlAddToolCall
<1>8. \A budget, reason :
        LET new == UpdateSessionState(row, budget, reason)
        IN  new.trace = row.trace /\ new.lastStep = Len(new.trace)
  BY DEF UpdateSessionState, MemUpdateSessionState, SqlUpdateSessionState
<1> QED  BY <1>1, <1>2, <1>3, <1>4, <1>5, <1>6, <1>7, <1>8

\* apply_approval enters the decision, in memory after its transition.
LEMMA ApplyApprovalEnters ==
  ASSUME NEW row \in Rows, NEW decision \in Decisions
  PROVE  LET new == ApplyApproval(row, decision)
             entry(step) == [step |-> step, status |-> new.status]
         IN  /\ new.lastStep = Len(new.trace)
             /\ \/ new.trace = Append(row.trace, entry("approval_decision"))
                \/ new.trace = Append(Append(row.trace,
                                             entry("status_transition")),
                                      entry("approval_decision"))
<1>1. CASE Durable
  BY <1>1 DEF ApplyApproval, SqlApplyApproval, SqlSave, Sync, Traced, Rows
<1>2. CASE ~Durable
  <2> DEFINE next == DecidedStatus(decision)
             report == Annotated(row.report, decision)
             count == row.iteration + 1
             resolved == [row EXCEPT !.iteration = count, !.report = report,
                                     !.request = NoRequest]
             moved == MemUpdateStatus(resolved, next)
  <2>1. /\ ApplyApproval(row, decision)
             = MemAppendTrace(moved, "approval_decision")
        /\ moved = UpdateStatus(resolved, next)
    BY <1>2 DEF ApplyApproval, MemApplyApproval, UpdateStatus
  <2>2. resolved \in Rows /\ resolved.trace = row.trace /\ next \in Statuses
    <3>1. next \in Statuses /\ count \in Nat \ {0}
      BY DEF Decisions, DecidedStatus, Statuses, Rows
    <3>2. Append(row.report.notes, decision) \in Seq(Decisions)
      BY DEF Rows, Reports
    <3>3. report \in Reports
      BY <3>2 DEF Rows, Reports, Annotated
    <3> HIDE DEF next, count, report
    <3> QED  BY <3>1, <3>3 DEF Rows
  <2> HIDE DEF resolved, next
  <2>3. moved \in Rows /\ moved.status = next
    BY <2>1, <2>2, UpdateStatusSets
  <2>4. moved.trace = Append(row.trace, [step |-> "status_transition",
                                         status |-> next])
    <3>1. Enters(resolved, UpdateStatus(resolved, next), "status_transition")
      BY <2>2, MethodsEnter
    <3> QED  BY <2>1, <2>2, <2>3, <3>1 DEF Enters
  <2> HIDE DEF moved
  <2>5. /\ Enters(moved, ApplyApproval(row, decision), "approval_decision")
        /\ ApplyApproval(row, decision).status = next
    <3>1. "approval_decision" \in StepTypes
      BY DEF StepTypes
    <3> QED  BY <2>1, <2>3, <3>1, TailEnters, TailKeeps DEF Keeps
  <2> QED  BY <2>4, <2>5 DEF Enters
<1> QED  BY <1>1, <1>2

\* create_session enters the new session.
LEMMA CreateSessionEnters ==
  ASSUME NEW incident
  PROVE  LET new == CreateSession(incident)
         IN  /\ new.trace = <<[step |-> "session_created", status |-> "new"]>>
             /\ new.lastStep = 1
BY DEF CreateSession, MemCreateSession, SqlCreateSession, SqlSave, Sync,
       Traced
=============================================================================

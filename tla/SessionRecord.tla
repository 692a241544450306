---------------------------- MODULE SessionRecord ----------------------------
(***************************************************************************)
(* What a repository stores for one session: the fields of SessionView     *)
(* that the control depends on, and the session's trace.  Times, texts and *)
(* identifiers are left out; the report is reduced to which builder wrote  *)
(* it, whether its next steps hold a risky action, and the approval notes  *)
(* appended to it.                                                         *)
(***************************************************************************)
EXTENDS Integers, Sequences, SessionStatus

CONSTANTS
  Sessions,    \* session ids; an approval id is a function of the session id
  NoRequest    \* approval_request is None

ASSUME NoRequestAssumption == NoRequest \notin Sessions

\* budget_remaining before the first _sync_budget_state.
NoBudget == -1

Incidents == {"plain", "forced", "overlong"}
Decisions == {"approved", "rejected"}
Tools == {"runbook", "metrics", "logs"}

\* The reasons _finalize_partial is called with; "none" is None.
Reasons == {"none", "budget_before_start", "forced_failure",
            "budget_before_tool", "time_before_llm", "llm_timeout"}

StepTypes == {"session_created", "status_transition", "planning", "tool_call",
              "observation", "tool_failed", "context_assembly",
              "prompt_build", "sanitization_check", "llm_analysis",
              "groundedness_check", "report", "degradation",
              "approval_request", "policy_check", "approval_decision"}

ToolCalls == [tool : Tools, ok : BOOLEAN]
Reports == [kind : {"none", "partial", "full"}, risky : BOOLEAN,
            notes : Seq(Decisions)]
\* A trace step: its type and the status the session has once it is recorded
\* (to_status of a transition, resulting_status of a decision).
TraceSteps == [step : StepTypes, status : Statuses]

Rows == [incident : Incidents, status : Statuses, plan : BOOLEAN,
         calls : Seq(ToolCalls), observations : Nat, report : Reports,
         request : Sessions \cup {NoRequest}, budget : Nat \cup {NoBudget},
         reason : Reasons, iteration : Nat \ {0}, lastStep : Nat,
         waiting : BOOLEAN, partial : BOOLEAN, closed : BOOLEAN,
         trace : Seq(TraceSteps)]

NoReport == [kind |-> "none", risky |-> FALSE, notes |-> << >>]

\* _sync_session_state: the derived fields follow the status and the trace.
Sync(row) ==
  [row EXCEPT !.lastStep = Len(row.trace),
              !.waiting = (row.status = "waiting_approval"),
              !.partial = (row.status = "partial_completed"),
              !.closed = (row.status \in {"completed", "partial_completed"})]

\* A trace step is recorded with the status the session has at that moment.
Traced(row, step) ==
  [row EXCEPT !.trace = Append(@, [step |-> step, status |-> row.status])]

\* The notes apply_approval leaves on the report; there is nothing to annotate
\* when the session has no report.
Annotated(report, decision) ==
  IF report.kind = "none" THEN report
  ELSE [report EXCEPT !.notes = Append(@, decision)]

\* Mutant of DecidedStatus: a rejected action is carried on with.
DecidedStatusIgnored(decision) == "completed"

\* Mutant of DecidedStatus: the decision is stored as the status.
DecidedStatusRaw(decision) == decision

\* The status an approval decision leads to.
DecidedStatus(decision) ==
  IF decision = "approved" THEN "completed" ELSE "partial_completed"
=============================================================================

---------------------------- MODULE SessionStatus ----------------------------
(***************************************************************************)
(* The statuses of a triage session (domain/enums.py) and the transition   *)
(* table every status change goes through (orchestrator/transitions.py).   *)
(***************************************************************************)

\* The members of SessionStatus.
Statuses == {"new", "validating_input", "planning", "retrieving",
             "executing_tools", "tool_failed", "analyzing",
             "waiting_approval", "completed", "partial_completed", "failed"}

\* ALLOWED_TRANSITIONS: the statuses each status may move to.
AllowedTransitions ==
  [from \in Statuses |->
    CASE from = "new" -> {"validating_input"}
      [] from = "validating_input" -> {"planning", "failed"}
      [] from = "planning" ->
           {"retrieving", "executing_tools", "analyzing", "failed"}
      [] from = "retrieving" -> {"executing_tools", "analyzing", "failed"}
      [] from = "executing_tools" -> {"analyzing", "tool_failed", "failed"}
      [] from = "tool_failed" -> {"analyzing", "partial_completed", "failed"}
      [] from = "analyzing" ->
           {"completed", "partial_completed", "waiting_approval", "failed"}
      [] from = "waiting_approval" ->
           {"completed", "partial_completed", "failed"}
      [] OTHER -> {}]

\* can_transition; validate_transition raises exactly when this is FALSE.
CanTransition(from, to) == to \in AllowedTransitions[from]

\* is_terminal_status.
IsTerminal(status) == status \in {"completed", "partial_completed", "failed"}
=============================================================================

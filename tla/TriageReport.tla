----------------------------- MODULE TriageReport -----------------------------
(***************************************************************************)
(* What one session's report says: the context the LLM is shown, the       *)
(* policy and groundedness checks of its answer, the report built from it, *)
(* the approval request, the note a human decision adds, and the views the *)
(* API serves.  TriageOrchestrator models when these happen; here a text   *)
(* is the set of words the code looks for in it, a note is a name, and a   *)
(* confidence is counted in hundredths.                                    *)
(***************************************************************************)
EXTENDS Integers, Sequences, FiniteSets, FiniteSetsExt

CONSTANTS
  Sayings,          \* the texts of a next step, as sets of words
  MaxObservations,  \* settings.max_observations_in_context
  MaxHypotheses,    \* bound on the LLM's hypotheses
  MaxSteps          \* bound on its next steps

\* No next step.
NoStep == {"none"}

ASSUME ReportAssumption ==
  /\ NoStep \notin Sayings
  /\ MaxObservations \in Nat \ {0}
  /\ MaxHypotheses \in Nat
  /\ MaxSteps \in Nat

VARIABLES
  status,    \* of the session
  tainted,   \* its summary or an observation has instruction-like text
  evidence,  \* its tool calls, each with the observation made of it
  context,   \* what the LLM is shown
  report,    \* final_report
  request,   \* approval_request
  trace,     \* the step types of its trace
  verdicts   \* the decisions applied

vars == <<status, tainted, evidence, context, report, request, trace, verdicts>>

-----------------------------------------------------------------------------
(* The words of a text, and what the code makes of the first it knows. *)

\* RISKY_PATTERNS, those of one trigger together.
Patterns == <<
  [name |-> "restart", words |-> {"restart"}],
  [name |-> "rollback", words |-> {"rollback", "roll-back", "rolling back"}],
  [name |-> "revert", words |-> {"revert"}],
  [name |-> "redeploy", words |-> {"redeploy"}],
  [name |-> "disable_traffic", words |-> {"disable traffic", "cut traffic"}],
  [name |-> "scale_down", words |-> {"scale down"}],
  [name |-> "delete", words |-> {"delete"}],
  [name |-> "flush", words |-> {"flush"}],
  [name |-> "drop", words |-> {"drop"}],
  [name |-> "kill", words |-> {"kill"}],
  [name |-> "terminate", words |-> {"terminate"}],
  [name |-> "patch_production", words |-> {"patch production"}] >>

\* The hyphen of "roll-back" is known to the policy, not to action_type.
ActionTypes == <<
  [name |-> "rollback_deployment", words |-> {"rollback", "rolling back"}],
  [name |-> "restart_service", words |-> {"restart"}],
  [name |-> "redeploy_service", words |-> {"redeploy", "revert"}] >>

\* How a safety note is typed, and the trace step it then refers to.
NoteTypes == <<
  [name |-> "degradation", words |-> {"degraded mode"}, ref |-> "degradation"],
  [name |-> "groundedness", words |-> {"groundedness", "corroborat"},
   ref |-> "groundedness_check"],
  [name |-> "sanitization", words |-> {"untrusted"},
   ref |-> "sanitization_check"],
  [name |-> "policy", words |-> {"approval", "modify system state"},
   ref |-> "policy_check"],
  [name |-> "redaction", words |-> {"redact"}, ref |-> "redaction"] >>

Hits(table, text) == {i \in DOMAIN table : table[i].words \cap text # {}}

First(table, text, none) ==
  IF Hits(table, text) = {} THEN none ELSE table[Min(Hits(table, text))]

\* The words of the notes the service writes; in the others there are none.
NoteWords(note) ==
  CASE note = "degraded" -> {"degraded mode"}
    [] note \in {"weak", "limited_no_refs"} -> {"groundedness", "corroborat"}
    [] note = "limited_no_obs" -> {"groundedness"}
    [] note = "no_kb" -> {"corroborat", "unavailable"}
    [] note = "untrusted" -> {"untrusted"}
    [] note = "rollback_gated" -> {"approval"}
    [] note = "may_modify" -> {"approval", "modify system state"}
    [] OTHER -> {}

-----------------------------------------------------------------------------
(* Context, policy and groundedness. *)

Tools == <<"runbook", "metrics", "logs">>

\* Every kb ref of the observations, as the report cites them.
Refs(seen) == UNION {seen[i].refs : i \in DOMAIN seen}

\* The indices of the observations that are put into the context.
Shown(seen) == {i \in DOMAIN seen : i <= MaxObservations}

SessionContext(seen) ==
  LET known == {i \in DOMAIN seen :
                  /\ seen[i].ok
                  /\ Cardinality({j \in 1..i : seen[j].ok}) <= MaxObservations}
  IN [observations |-> {seen[i].tool : i \in Shown(seen)},
      refs |-> UNION {seen[i].refs : i \in Shown(seen)},
      known |-> {seen[i].tool : i \in known}]

Risky(step) == Hits(Patterns, step) # {}

RiskySteps(steps) == {i \in DOMAIN steps : Risky(steps[i])}

RequiresApproval(steps) == RiskySteps(steps) # {}

Recommended(steps) ==
  IF RequiresApproval(steps) THEN steps[Min(RiskySteps(steps))] ELSE NoStep

Trigger(steps) == First(Patterns, Recommended(steps), [name |-> "none"]).name

PolicyNotes(steps) ==
  {"no_write"} \cup
    (IF ~RequiresApproval(steps) THEN {}
     ELSE IF Trigger(steps) = "rollback" THEN {"rollback_gated"}
     ELSE {"may_modify"})

\* Mutant of Warnings: observations without references are evidence enough.
WarningsWithoutRefs(observations, refs, hypotheses) ==
  IF hypotheses = 0 \/ observations > 0 THEN {}
  ELSE IF refs = 0 THEN {"weak"}
  ELSE {"limited_no_obs"}

\* The counts are of all observations, those of failed tools included.
Warnings(observations, refs, hypotheses) ==
  IF hypotheses = 0 \/ (observations > 0 /\ refs > 0) THEN {}
  ELSE IF observations = 0 /\ refs = 0 THEN {"weak"}
  ELSE IF refs = 0 THEN {"limited_no_refs"}
  ELSE {"limited_no_obs"}

-----------------------------------------------------------------------------
(* The report. *)

\* Mutant of Confidence: the discount of a later hypothesis is added.
ConfidenceRising(i, weak, observations, refs) ==
  LET base == IF observations >= 2 /\ refs >= 1 THEN 82
              ELSE IF observations >= 1 \/ refs >= 1 THEN 65
              ELSE 45
      discount == Min({(i - 1) * 5, 10})
  IN Max({30, base + discount - (IF weak THEN 10 ELSE 0)})

Confidence(i, weak, observations, refs) ==
  LET base == IF observations >= 2 /\ refs >= 1 THEN 82
              ELSE IF observations >= 1 \/ refs >= 1 THEN 65
              ELSE 45
      discount == Min({(i - 1) * 5, 10})
  IN Max({30, base - discount - (IF weak THEN 10 ELSE 0)})

HypothesisStatus(i, weak) == IF ~weak /\ i <= 2 THEN "active" ELSE "weakened"

HypothesisItems(n, weak, observations, refs, ids) ==
  [i \in 1..n |-> [confidence |-> Confidence(i, weak, observations, refs),
                   status |-> HypothesisStatus(i, weak),
                   refs |-> IF i = 1 THEN ids ELSE {}]]

\* Mutant of StepItems: every risky step is flagged.
StepItemsRisky(steps, recommended) ==
  [i \in DOMAIN steps |-> [action |-> steps[i], flagged |-> Risky(steps[i])]]

StepItems(steps, recommended) ==
  [i \in DOMAIN steps |-> [action |-> steps[i],
                           flagged |-> steps[i] = recommended]]

NoteItem(note) ==
  LET type == First(NoteTypes, NoteWords(note),
                    [name |-> "uncertainty", ref |-> "report"])
  IN [note |-> note, type |-> type.name, ref |-> type.ref]

\* kb documents, observations and tool results.
RefItems(seen) ==
  {<<"kb", r>> : r \in Refs(seen)}
    \cup {<<"obs", seen[i].tool>> : i \in DOMAIN seen}
    \cup {<<"tool", seen[i].tool>> : i \in DOMAIN seen}

ReportNotes(steps, warnings, taint, hypotheses, refs) ==
  PolicyNotes(steps) \cup warnings
    \cup (IF taint THEN {"untrusted"} ELSE {})
    \cup (IF hypotheses > 0 THEN {"preliminary"} ELSE {})
    \cup (IF refs = {} THEN {"no_kb"} ELSE {})

\* The status is always analyzing when the unknowns are collected.
Unknowns(refs, notes) ==
  (IF refs = {} THEN {"no_refs"} ELSE {})
    \cup {n \in notes : NoteWords(n) \cap {"insufficient", "unavailable",
                          "incomplete", "groundedness", "corroborat",
                          "untrusted"} # {}}

FullReport(seen, taint, n, steps) ==
  LET refs == Refs(seen)
      kb == Cardinality(refs)
      warnings == Warnings(Len(seen), kb, n)
      notes == ReportNotes(steps, warnings, taint, n, refs)
      items == RefItems(seen)
  IN [hypotheses |-> HypothesisItems(n, warnings # {}, Len(seen), kb, items),
      steps |-> StepItems(steps, Recommended(steps)),
      notes |-> {NoteItem(note) : note \in notes},
      refs |-> items,
      unknowns |-> Unknowns(refs, notes)]

PartialReport(reason) ==
  [hypotheses |-> HypothesisItems(1, TRUE, 0, 0, {}),
   steps |-> StepItems(<<{"collect"}>>, NoStep),
   notes |-> {NoteItem(note) : note \in {"degraded", "weak", reason}},
   refs |-> {},
   unknowns |-> {reason}]

NoReport == [hypotheses |-> << >>, steps |-> << >>, notes |-> {},
             refs |-> {}, unknowns |-> {}]

Actions(r) == [i \in DOMAIN r.steps |-> r.steps[i].action]

\* Some step is flagged as requiring approval.
Flagged(r) == \E i \in DOMAIN r.steps : r.steps[i].flagged

NoteNames(r) == {n.note : n \in r.notes}

\* groundedness_result, of the evidence and the number of hypotheses.
Weak(seen, r) ==
  Warnings(Len(seen), Cardinality(Refs(seen)), Len(r.hypotheses)) # {}

NoRequest == [action |-> NoStep, action_type |-> "none",
              risk_level |-> "none", reason |-> "none", limited |-> FALSE]

ActionType(action) ==
  First(ActionTypes, action, [name |-> "gated_action"]).name

RiskLevel(action) ==
  CASE ActionType(action) = "rollback_deployment" -> "high"
    [] ActionType(action) = "gated_action" -> "low"
    [] OTHER -> "medium"

\* The two texts of approval_reason, and whether it says evidence is limited.
ApprovalReason(trigger) ==
  IF trigger = "rollback" THEN "rollback" ELSE "modifies"

\* Mutant of ApprovalRequest: it names the first step.
RequestForFirstStep(steps, weak) ==
  [action |-> steps[1], action_type |-> ActionType(steps[1]),
   risk_level |-> RiskLevel(steps[1]),
   reason |-> ApprovalReason(Trigger(steps)), limited |-> weak]

ApprovalRequest(steps, weak) ==
  LET action == Recommended(steps)
  IN [action |-> action, action_type |-> ActionType(action),
      risk_level |-> RiskLevel(action),
      reason |-> ApprovalReason(Trigger(steps)), limited |-> weak]

-----------------------------------------------------------------------------
(* The triage of the session. *)

Init ==
  /\ status = "absent"
  /\ tainted \in BOOLEAN
  /\ evidence = << >>
  /\ context = SessionContext(<< >>)
  /\ report = NoReport
  /\ request = NoRequest
  /\ trace = {}
  /\ verdicts = << >>

Create ==
  /\ status = "absent"
  /\ status' = "planning"
  /\ UNCHANGED <<tainted, evidence, context, report, request, trace, verdicts>>

\* A tool is called, its call and its observation are stored.  The runbook
\* tool always finds a document unless it times out.
RunTool(ok) ==
  LET tool == Tools[Len(evidence) + 1]
  IN /\ status \in {"planning", "retrieving", "executing_tools"}
     /\ Len(evidence) < Len(Tools)
     /\ evidence' = Append(evidence,
          [tool |-> tool, ok |-> ok,
           refs |-> IF ok /\ tool = "runbook" THEN {"runbook.md"} ELSE {}])
     /\ status' = IF tool = "runbook" THEN "retrieving" ELSE "executing_tools"
     /\ UNCHANGED <<tainted, context, report, request, trace, verdicts>>

AssembleContext ==
  /\ status = "executing_tools"
  /\ Len(evidence) = Len(Tools)
  /\ status' = "analyzing"
  /\ context' = SessionContext(evidence)
  /\ trace' = trace \cup {"context_assembly", "prompt_build",
                          "sanitization_check"}
       \cup (IF \E i \in 2..3 : ~evidence[i].ok THEN {"tool_failed"} ELSE {})
  /\ UNCHANGED <<tainted, evidence, report, request, verdicts>>

\* The LLM answers, its answer is checked and the report is stored.
Answer(n, steps) ==
  /\ status = "analyzing"
  /\ report = NoReport
  /\ trace' = trace \cup {"llm_analysis", "groundedness_check"}
  /\ report' = FullReport(evidence, tainted, n, steps)
  /\ UNCHANGED <<status, tainted, evidence, context, request, verdicts>>

\* _finalize_partial, for a reason that holds where the triage stands.  What
\* the caller of _run_tool does with a finalized session is in
\* TriageOrchestrator.
Degrade(reason) ==
  /\ CASE reason \in {"budget_start", "forced"} -> status = "planning"
       [] reason = "budget_tool" ->
            /\ status \in {"planning", "retrieving", "executing_tools"}
            /\ Len(evidence) < Len(Tools)
       [] OTHER -> status = "analyzing" /\ report = NoReport
  /\ status' = "partial_completed"
  /\ report' = PartialReport(reason)
  /\ trace' = trace \cup {"degradation"}
  /\ UNCHANGED <<tainted, evidence, context, request, verdicts>>

\* Mutant of Gate: the check of the policy is not traced.
GateUntraced ==
  /\ status = "analyzing"
  /\ report # NoReport
  /\ RequiresApproval(Actions(report))
  /\ request' = ApprovalRequest(Actions(report), Weak(evidence, report))
  /\ status' = "waiting_approval"
  /\ UNCHANGED <<tainted, evidence, context, report, trace, verdicts>>

\* The policy's verdict on the answer: a request for approval ...
Gate ==
  /\ status = "analyzing"
  /\ report # NoReport
  /\ RequiresApproval(Actions(report))
  /\ request' = ApprovalRequest(Actions(report), Weak(evidence, report))
  /\ trace' = trace \cup {"policy_check"}
  /\ status' = "waiting_approval"
  /\ UNCHANGED <<tainted, evidence, context, report, verdicts>>

\* Mutant of Complete: whatever the policy says.
CompleteUnchecked ==
  /\ status = "analyzing"
  /\ report # NoReport
  /\ status' = "completed"
  /\ UNCHANGED <<tainted, evidence, context, report, request, trace, verdicts>>

\* ... or none.
Complete ==
  /\ status = "analyzing"
  /\ report # NoReport
  /\ ~RequiresApproval(Actions(report))
  /\ status' = "completed"
  /\ UNCHANGED <<tainted, evidence, context, report, request, trace, verdicts>>

\* Mutant of ApplyApproval: the request stays.
ApplyApprovalUncleared(decision) ==
  /\ status = "waiting_approval"
  /\ report' = [report EXCEPT !.notes = @ \cup
       {[note |-> decision, type |-> "policy", ref |-> "approval_decision"]}]
  /\ status' = IF decision = "approved" THEN "completed"
               ELSE "partial_completed"
  /\ trace' = trace \cup {"approval_decision"}
  /\ verdicts' = Append(verdicts, decision)
  /\ UNCHANGED <<tainted, evidence, context, request>>

\* A human's decision is noted in the report and resolves the request.
ApplyApproval(decision) ==
  /\ status = "waiting_approval"
  /\ report' = [report EXCEPT !.notes = @ \cup
       {[note |-> decision, type |-> "policy", ref |-> "approval_decision"]}]
  /\ request' = NoRequest
  /\ status' = IF decision = "approved" THEN "completed"
               ELSE "partial_completed"
  /\ trace' = trace \cup {"approval_decision"}
  /\ verdicts' = Append(verdicts, decision)
  /\ UNCHANGED <<tainted, evidence, context>>

Reasons == {"budget_start", "forced", "budget_tool", "budget_time",
            "llm_timeout"}

Next ==
  \/ Create
  \/ \E ok \in BOOLEAN : RunTool(ok)
  \/ AssembleContext
  \/ \E n \in 0..MaxHypotheses, k \in 0..MaxSteps :
       \E steps \in [1..k -> Sayings] : Answer(n, steps)
  \/ \E reason \in Reasons : Degrade(reason)
  \/ Gate
  \/ Complete
  \/ \E decision \in {"approved", "rejected"} : ApplyApproval(decision)

ReportSpec == Init /\ [][Next]_vars

-----------------------------------------------------------------------------
(* What the API serves of it. *)

\* Mutant of ServedUnknowns: only the report's own.
ServedOwnUnknowns == report.unknowns

\* A report without unknowns of its own states the notes if it is partial.
ServedUnknowns ==
  IF report.unknowns # {} THEN report.unknowns
  ELSE IF status = "partial_completed" THEN NoteNames(report)
  ELSE IF report.refs = {} THEN {"no_refs"}
  ELSE {}

ServedRequests == IF request = NoRequest THEN {} ELSE {request}

\* A report stored without items is served from its plain texts: whether it
\* is weakly grounded is read off its notes, and the risky step found again.
LegacyWeak ==
  \E n \in NoteNames(report) :
    NoteWords(n) \cap {"groundedness", "corroborat"} # {}

LegacyHypotheses ==
  [i \in DOMAIN report.hypotheses |->
    [confidence |-> Max({40, 85 - (i - 1) * 10
                               - (IF LegacyWeak THEN 15 ELSE 0)}),
     status |-> IF ~LegacyWeak /\ i = 1 THEN "active" ELSE "weakened",
     refs |-> report.refs]]

LegacySteps ==
  LET risky == Recommended(Actions(report))
  IN [i \in DOMAIN report.steps |->
       [action |-> Actions(report)[i],
        flagged |-> Actions(report)[i] = risky]]

-----------------------------------------------------------------------------
(* Properties. *)

Settled == status \in {"completed", "partial_completed"}

Answered == "llm_analysis" \in trace

Statuses == {"absent", "planning", "retrieving", "executing_tools",
             "analyzing", "waiting_approval", "completed",
             "partial_completed"}

\* Every value has its type, and every confidence is one the code may give.
ReportTypeOK ==
  /\ status \in Statuses
  /\ tainted \in BOOLEAN
  /\ \A i \in DOMAIN evidence :
       /\ evidence[i].tool = Tools[i]
       /\ evidence[i].ok \in BOOLEAN
       /\ evidence[i].refs \subseteq {"runbook.md"}
  /\ context.refs \subseteq {"runbook.md"}
  /\ \A i \in DOMAIN report.hypotheses :
       report.hypotheses[i].confidence \in 30..82
  /\ \A i \in DOMAIN report.steps : report.steps[i].flagged \in BOOLEAN
  /\ verdicts \in {<< >>, <<"approved">>, <<"rejected">>}

\* A hypothesis is active only when the LLM was shown a reference, some tool
\* succeeded, and the report warns of nothing; and no hypothesis is more
\* confident than one before it.
ActiveIsGrounded ==
  /\ \A i \in DOMAIN report.hypotheses :
       report.hypotheses[i].status = "active" =>
         /\ context.refs # {}
         /\ context.known # {}
         /\ \A n \in report.notes : n.type # "groundedness"
  /\ \A i, j \in DOMAIN report.hypotheses :
       i < j => report.hypotheses[j].confidence
                  <= report.hypotheses[i].confidence

\* Once the triage is over, a safety note refers to the report or to a step
\* in the session's trace; only a partial report blames its lack of evidence
\* on a groundedness check that was not made.
NotesResolve ==
  Settled \/ status = "waiting_approval" =>
    \A n \in report.notes :
      \/ n.ref \in trace \cup {"report"}
      \/ (n.note = "weak" /\ "degraded" \in NoteNames(report))

\* While a human is asked, the step in question is the one flagged, and the
\* request and the report's notes describe it alike: a rollback or another
\* change, on limited evidence or not.
RequestAgreesWithReport ==
  status = "waiting_approval" =>
    /\ {report.steps[i].action :
          i \in {j \in DOMAIN report.steps : report.steps[j].flagged}}
         = {request.action}
    /\ (request.reason = "rollback")
         <=> ("rollback_gated" \in NoteNames(report))
    /\ request.limited
         <=> (NoteNames(report)
                \cap {"weak", "limited_no_refs", "limited_no_obs"} # {})

\* A partial result says what is missing, by its reason, its report's gaps
\* or, when a human has rejected a report without any, by all its notes; and
\* whatever a report's notes say of limited evidence or untrusted text is
\* served as unknown, but for the standing note of a degraded one.
GapsAreStated ==
  /\ status = "partial_completed" => ServedUnknowns # {}
  /\ Settled =>
       {n.note : n \in {m \in report.notes :
          m.type \in {"groundedness", "sanitization"}}}
         \subseteq ServedUnknowns \cup {"weak"}

\* A decided session shows the decision in its report, beside the step it
\* was about, and asks for none any more; an undecided one shows none.
DecisionIsShown ==
  /\ NoteNames(report) \cap {"approved", "rejected"}
       = {verdicts[i] : i \in DOMAIN verdicts}
  /\ verdicts # << >> =>
       (Settled /\ Flagged(report) /\ ServedRequests = {})
  /\ (status = "waiting_approval") <=> (ServedRequests # {})

\* The view of a report stored without items agrees with the items: on which
\* step waits for approval, and on whether every hypothesis is weakened.
LegacyViewAgrees ==
  Answered =>
    /\ LegacySteps = report.steps
    /\ (\E i \in DOMAIN LegacyHypotheses :
          LegacyHypotheses[i].status = "active")
       <=> (\E i \in DOMAIN report.hypotheses :
              report.hypotheses[i].status = "active")

\* The report is that of an answer, and shows the decisions applied.
IsReportOf(n, steps) ==
  LET full == FullReport(evidence, tainted, n, steps)
  IN report = [full EXCEPT !.notes = @ \cup
       {[note |-> verdicts[i], type |-> "policy", ref |-> "approval_decision"] :
          i \in DOMAIN verdicts}]

\* What the report is made of: that of an answered session is the full report
\* of the evidence the triage ended with and of one answer, with the decision
\* added, and a plan the policy gates does not complete undecided; that of
\* one settled without an answer says why.
ReportIsOfItsEvidence ==
  IF Answered
  THEN \E n \in 0..MaxHypotheses, k \in 0..MaxSteps :
         \E steps \in [1..k -> Sayings] :
           /\ IsReportOf(n, steps)
           /\ Settled /\ verdicts = << >> => ~RequiresApproval(steps)
  ELSE IF Settled
  THEN status = "partial_completed"
         /\ \E reason \in Reasons : report = PartialReport(reason)
  ELSE report = NoReport

\* Where the session is in its life.
Phase ==
  CASE status = "absent" -> "absent"
    [] status = "waiting_approval" -> "gated"
    [] status = "completed" -> "completed"
    [] status = "partial_completed" -> "degraded"
    [] OTHER -> "open"

\* The approval gate, as SessionLifecycle promises it, seen from the report:
\* a report with a flagged step waits for one human decision, and one
\* without is settled by the triage alone.
Lifecycle == INSTANCE SessionLifecycle WITH
  Sessions <- {"session"},
  Durable <- TRUE,
  phase <- [s \in {"session"} |-> Phase],
  risk <- [s \in {"session"} |-> Flagged(report)],
  verdicts <- [s \in {"session"} |-> verdicts]

ReportImplementsLifecycle == Lifecycle!LSpec

\* docs/GOVERNANCE.md:91: every risky step is marked as requiring approval.
\* The code marks those equal to the first one only.
AllRiskyFlagged ==
  Answered => \A i \in DOMAIN report.steps :
                Risky(report.steps[i].action) => report.steps[i].flagged

\* docs/specs/memory-context.md:66: when there are more observations than the
\* prompt's window takes, the older ones are dropped.  The code drops the later
\* ones.
OlderAreDropped ==
  \A i, j \in DOMAIN evidence :
    i < j /\ evidence[i].tool \in context.observations =>
      evidence[j].tool \in context.observations
=============================================================================

----------------------------- MODULE ReportProofs -----------------------------
(***************************************************************************)
(* For every set of step texts, every limit of the context and every       *)
(* length of an answer: a decision is shown in the report it was taken on, *)
(* the report keeps the approval gate of SessionLifecycle, and the         *)
(* references are those of the first tool.                                 *)
(***************************************************************************)
EXTENDS TriageReport, FiniteSetTheorems, TLAPS

-----------------------------------------------------------------------------
(* The operators the report is built with. *)

\* The least of a nonempty set of natural numbers is one of them: of the
\* intervals from zero to a member, one has no other inside it.
LEMMA MinIn ==
  ASSUME NEW S \in SUBSET Nat, S # {}
  PROVE  Min(S) \in S
<1> DEFINE Upto(n) == 0..n
           T == {Upto(n) : n \in S}
<1>1. T \subseteq FiniteSubsetsOf(Nat) /\ T # {}
  <2>1. \A n \in S : IsFiniteSet(Upto(n)) /\ Upto(n) \in SUBSET Nat
    BY FS_Interval
  <2> QED  BY <2>1 DEF FiniteSubsetsOf
<1>2. PICK x \in T : \A y \in T : <<y, x>> \notin StrictSubsetOrdering(Nat)
  <2>1. IsWellFoundedOn(StrictSubsetOrdering(Nat), FiniteSubsetsOf(Nat))
    BY FS_StrictSubsetOrderingWellFounded
  <2> HIDE DEF T
  <2> QED  BY <1>1, <2>1, WFMin
<1>3. PICK n \in S : x = Upto(n)
  OBVIOUS
<1>4. \A m \in S : n <= m
  <2> SUFFICES ASSUME NEW m \in S, m < n
               PROVE  FALSE
    OBVIOUS
  <2>1. Upto(m) \subseteq Upto(n) /\ Upto(m) # Upto(n)
    <3>1. n \in Upto(n) /\ n \notin Upto(m)
      OBVIOUS
    <3>2. Upto(m) \subseteq Upto(n)
      OBVIOUS
    <3> QED  BY <3>1, <3>2
  <2>2. Upto(m) \in SUBSET Nat /\ Upto(n) \in SUBSET Nat
    OBVIOUS
  <2>3. <<Upto(m), Upto(n)>> \in StrictSubsetOrdering(Nat)
    BY <2>1, <2>2 DEF StrictSubsetOrdering
  <2> QED  BY <1>2, <1>3, <2>3
<1> QED  BY <1>4 DEF Min

\* The step the policy recommends is a risky one of the answer, and there is
\* one exactly when approval is required.
LEMMA RecommendedIsAStep ==
  ASSUME NEW k \in Nat, NEW steps \in [1..k -> Sayings]
  PROVE  /\ RequiresApproval(steps) =>
              \E i \in DOMAIN steps : steps[i] = Recommended(steps)
         /\ ~RequiresApproval(steps) =>
              \A i \in DOMAIN steps : steps[i] # Recommended(steps)
<1>1. CASE RequiresApproval(steps)
  <2>1. RiskySteps(steps) \in SUBSET Nat /\ RiskySteps(steps) # {}
    BY <1>1 DEF RiskySteps, RequiresApproval
  <2>2. Min(RiskySteps(steps)) \in RiskySteps(steps)
    BY <2>1, MinIn
  <2>3. Min(RiskySteps(steps)) \in DOMAIN steps
    BY <2>2 DEF RiskySteps
  <2> QED  BY <1>1, <2>3 DEF Recommended
<1>2. CASE ~RequiresApproval(steps)
  <2>1. Recommended(steps) = NoStep
    BY <1>2 DEF Recommended
  <2> QED  BY <1>2, <2>1, ReportAssumption
<1> QED  BY <1>1, <1>2

\* A report has a flagged step exactly when one is the recommended action.
LEMMA StepItemsFlagged ==
  ASSUME NEW r, NEW steps, NEW recommended,
         r.steps = StepItems(steps, recommended)
  PROVE  Flagged(r) <=> \E i \in DOMAIN steps : steps[i] = recommended
<1>1. ASSUME NEW i \in DOMAIN steps
      PROVE  r.steps[i].flagged = (steps[i] = recommended)
  <2> DEFINE asked == steps[i] = recommended
  <2>1. r.steps[i] = [action |-> steps[i], flagged |-> asked]
    BY Zenon DEF StepItems
  <2> HIDE DEF asked
  <2>2. r.steps[i].flagged = asked
    BY <2>1
  <2> QED  BY <2>2 DEF asked
<1>2. DOMAIN r.steps = DOMAIN steps
  BY DEF StepItems
<1> QED  BY <1>1, <1>2, Zenon DEF Flagged

\* A full report is about the steps of the answer, and flags one exactly
\* when the policy requires approval.
LEMMA FullReportFlags ==
  ASSUME NEW seen, NEW taint, NEW n,
         NEW k \in Nat, NEW steps \in [1..k -> Sayings]
  PROVE  LET r == FullReport(seen, taint, n, steps)
         IN /\ Actions(r) = steps
            /\ Flagged(r) <=> RequiresApproval(Actions(r))
<1> DEFINE r == FullReport(seen, taint, n, steps)
<1>1. r.steps = StepItems(steps, Recommended(steps))
  BY DEF FullReport
<1> HIDE DEF r
<1>2. Actions(r) = steps
  <2>1. \A i \in DOMAIN steps : r.steps[i].action = steps[i]
    BY <1>1 DEF StepItems
  <2>2. DOMAIN r.steps = DOMAIN steps
    BY <1>1 DEF StepItems
  <2> QED  BY <2>1, <2>2 DEF Actions
<1>3. Flagged(r) <=> \E i \in DOMAIN steps : steps[i] = Recommended(steps)
  BY <1>1, StepItemsFlagged
<1>4. Flagged(r) <=> RequiresApproval(steps)
  BY <1>3, RecommendedIsAStep
<1> QED  BY <1>2, <1>4 DEF r

\* The notes of a full report, by their names.
LEMMA FullReportNotes ==
  ASSUME NEW seen, NEW taint, NEW n, NEW steps
  PROVE  LET r == FullReport(seen, taint, n, steps)
         IN /\ "no_write" \in NoteNames(r)
            /\ "approved" \notin NoteNames(r)
            /\ "rejected" \notin NoteNames(r)
            /\ "no_kb" \in NoteNames(r) <=> Refs(seen) = {}
<1> DEFINE r == FullReport(seen, taint, n, steps)
           warnings == Warnings(Len(seen), Cardinality(Refs(seen)), n)
           notes == ReportNotes(steps, warnings, taint, n, Refs(seen))
<1>1. r.notes = {NoteItem(note) : note \in notes}
  BY DEF FullReport
<1>2. \A note : NoteItem(note).note = note
  BY DEF NoteItem
<1>3. warnings \in {{}, {"weak"}, {"limited_no_refs"}, {"limited_no_obs"}}
  BY DEF Warnings
<1>4. PolicyNotes(steps) \in {{"no_write"}, {"no_write", "rollback_gated"},
                              {"no_write", "may_modify"}}
  BY DEF PolicyNotes
<1> HIDE DEF r, warnings
<1>5. /\ "no_write" \in notes
      /\ "approved" \notin notes
      /\ "rejected" \notin notes
      /\ "no_kb" \in notes <=> Refs(seen) = {}
  BY <1>3, <1>4 DEF ReportNotes
<1> HIDE DEF notes
<1>6. NoteNames(r) = notes
  BY <1>1, <1>2 DEF NoteNames
<1> QED  BY <1>5, <1>6 DEF r

-----------------------------------------------------------------------------
(* The invariant of the gate. *)

\* A record with the fields of a report.
IsReport(r) == r = [hypotheses |-> r.hypotheses, steps |-> r.steps,
                    notes |-> r.notes, refs |-> r.refs,
                    unknowns |-> r.unknowns]

\* Before the context is assembled.
Early == status \in {"absent", "planning", "retrieving", "executing_tools"}

\* The decisions so far.
Verdicts == {verdicts[i] : i \in DOMAIN verdicts}

\* The triage has stored no report yet.
Unreported ==
  /\ report = NoReport
  /\ ~Answered
  /\ request = NoRequest
  /\ verdicts = << >>

\* It has stored the report of the LLM's answer.
Reported ==
  /\ Answered
  /\ report # NoReport
  /\ Flagged(report) <=> RequiresApproval(Actions(report))
  /\ verdicts = << >>

\* The inductive invariant.
GateKept ==
  /\ status \in Statuses
  /\ IsReport(report)
  /\ Early => Unreported
  /\ status = "analyzing" =>
       Unreported \/ (Reported /\ request = NoRequest)
  /\ status = "waiting_approval" =>
       Reported /\ Flagged(report) /\ request # NoRequest
  /\ Settled => request = NoRequest
  /\ verdicts # << >> => Settled /\ Flagged(report)
  /\ NoteNames(report) \cap {"approved", "rejected"} = Verdicts

\* Until it is settled, a session has no report, or an unsettled answer's.
LEMMA NoReportFacts ==
  /\ IsReport(NoReport)
  /\ ~Flagged(NoReport)
  /\ NoteNames(NoReport) = {}
BY DEF NoReport, IsReport, Flagged, NoteNames

\* A partial report flags nothing, and shows no decision.
LEMMA PartialReportFacts ==
  ASSUME NEW reason \in Reasons
  PROVE  LET r == PartialReport(reason)
         IN /\ IsReport(r)
            /\ ~Flagged(r)
            /\ NoteNames(r) \cap {"approved", "rejected"} = {}
<1> DEFINE r == PartialReport(reason)
<1>1. IsReport(r)
  BY DEF PartialReport, IsReport
<1>2. ~Flagged(r)
  <2>1. r.steps = StepItems(<<{"collect"}>>, NoStep)
    BY DEF PartialReport
  <2> HIDE DEF r
  <2>2. Flagged(r) <=> \E i \in DOMAIN <<{"collect"}>> :
                         <<{"collect"}>>[i] = NoStep
    BY <2>1, StepItemsFlagged
  <2> QED  BY <2>2 DEF NoStep
<1>3. NoteNames(r) \cap {"approved", "rejected"} = {}
  <2>1. r.notes = {NoteItem(note) : note \in {"degraded", "weak", reason}}
    BY DEF PartialReport
  <2>2. \A note : NoteItem(note).note = note
    BY DEF NoteItem
  <2> HIDE DEF r
  <2>3. NoteNames(r) = {"degraded", "weak", reason}
    BY <2>1, <2>2 DEF NoteNames
  <2> QED  BY <2>3 DEF Reasons
<1> QED  BY <1>1, <1>2, <1>3

\* A full report is a report, and not the one of a session without.
LEMMA FullReportShape ==
  ASSUME NEW seen, NEW taint, NEW n, NEW steps
  PROVE  LET r == FullReport(seen, taint, n, steps)
         IN IsReport(r) /\ r # NoReport
<1> DEFINE r == FullReport(seen, taint, n, steps)
<1>1. IsReport(r)
  BY DEF FullReport, IsReport
<1>2. r # NoReport
  BY FullReportNotes, NoReportFacts
<1> QED  BY <1>1, <1>2

\* A decision changes the notes of the report only.
LEMMA DecidedReport ==
  ASSUME IsReport(report), NEW decision, ApplyApproval(decision)
  PROVE  /\ IsReport(report')
         /\ report'.steps = report.steps
         /\ report'.refs = report.refs
         /\ NoteNames(report') = NoteNames(report) \cup {decision}
<1> DEFINE item == [note |-> decision, type |-> "policy",
                    ref |-> "approval_decision"]
<1>1. report' = [report EXCEPT !.notes = @ \cup {item}]
  BY DEF ApplyApproval
<1>2. item.note = decision
  OBVIOUS
<1> HIDE DEF item
<1>3. report' = [hypotheses |-> report.hypotheses, steps |-> report.steps,
                 notes |-> report.notes \cup {item}, refs |-> report.refs,
                 unknowns |-> report.unknowns]
  BY <1>1 DEF IsReport
<1>4. /\ IsReport(report')
      /\ report'.steps = report.steps
      /\ report'.refs = report.refs
      /\ report'.notes = report.notes \cup {item}
  BY <1>3 DEF IsReport
<1>5. NoteNames(report') = NoteNames(report) \cup {decision}
  BY <1>2, <1>4 DEF NoteNames
<1> QED  BY <1>4, <1>5

-----------------------------------------------------------------------------
(* The invariant is kept. *)

\* A session that is not created yet has no report.
LEMMA InitKept ==
  ASSUME Init
  PROVE  GateKept
<1>1. Verdicts = {}
  BY DEF Init, Verdicts
<1>2. Unreported
  BY DEF Init, Unreported, Answered
<1> QED  BY <1>1, <1>2, NoReportFacts
         DEF Init, GateKept, Statuses, Early, Settled

\* A step that stores no report and takes no decision.
Before == <<report, request, verdicts>>

\* Each action keeps it: the first ones store no report.
LEMMA CreateKeeps ==
  ASSUME GateKept, Create
  PROVE  GateKept'
<1>1. Before' = Before /\ trace' = trace /\ Unreported
  BY DEF Create, Before, GateKept, Early
<1> QED  BY <1>1 DEF Create, Before, GateKept, Unreported, Answered, Early,
               Statuses, Settled, Verdicts

\* Neither does a tool.
LEMMA RunToolKeeps ==
  ASSUME GateKept, NEW ok \in BOOLEAN, RunTool(ok)
  PROVE  GateKept'
<1>1. Before' = Before /\ trace' = trace /\ Unreported
  BY DEF RunTool, Before, GateKept, Early
<1>2. status' \in {"retrieving", "executing_tools"}
  BY DEF RunTool
<1> QED  BY <1>1, <1>2 DEF Before, GateKept, Unreported, Answered, Early,
               Statuses, Settled, Verdicts

\* Nor the context.
LEMMA AssembleContextKeeps ==
  ASSUME GateKept, AssembleContext
  PROVE  GateKept'
<1>1. Before' = Before /\ Unreported
  BY DEF AssembleContext, Before, GateKept, Early
<1>2. Unreported'
  BY <1>1 DEF AssembleContext, Before, Unreported, Answered
<1> QED  BY <1>1, <1>2 DEF AssembleContext, Before, GateKept, Early,
               Statuses, Settled, Verdicts

\* An answer stores a report that flags what the policy asks about.
LEMMA AnswerKeeps ==
  ASSUME GateKept, NEW n, NEW k \in Nat, NEW steps \in [1..k -> Sayings],
         Answer(n, steps)
  PROVE  GateKept'
<1>1. report' = FullReport(evidence, tainted, n, steps)
  BY DEF Answer
<1>2. Unreported
  BY DEF Answer, GateKept, Reported
<1>3. IsReport(report') /\ report' # NoReport
  BY <1>1, FullReportShape
<1>4. Flagged(report') <=> RequiresApproval(Actions(report'))
  BY <1>1, FullReportFlags
<1>5. NoteNames(report') \cap {"approved", "rejected"} = {}
  BY <1>1, FullReportNotes
<1>6. verdicts' = << >> /\ Verdicts' = {}
  BY <1>2 DEF Answer, Unreported, Verdicts
<1>7. Reported'
  BY <1>3, <1>4, <1>6 DEF Answer, Reported, Answered
<1> QED  BY <1>2, <1>3, <1>5, <1>6, <1>7
         DEF Answer, GateKept, Unreported, Early, Statuses, Settled

\* A degraded triage stores a report without steps.
LEMMA DegradeKeeps ==
  ASSUME GateKept, NEW reason \in Reasons, Degrade(reason)
  PROVE  GateKept'
<1>1. Unreported
  BY DEF Degrade, GateKept, Early, Reported, Reasons
<1>2. /\ IsReport(report')
      /\ NoteNames(report') \cap {"approved", "rejected"} = {}
  BY PartialReportFacts DEF Degrade
<1>3. verdicts' = << >> /\ Verdicts' = {}
  BY <1>1 DEF Degrade, Unreported, Verdicts
<1> QED  BY <1>1, <1>2, <1>3
         DEF Degrade, GateKept, Unreported, Early, Statuses, Settled

\* The gate asks about a flagged step.
LEMMA GateKeeps ==
  ASSUME GateKept, Gate
  PROVE  GateKept'
<1>1. Reported /\ Flagged(report)
  BY DEF Gate, GateKept, Unreported, Reported
<1>2. request' # NoRequest
  <2>1. request'.reason \in {"rollback", "modifies"}
    BY DEF Gate, ApprovalRequest, ApprovalReason
  <2> QED  BY <2>1 DEF NoRequest
<1>3. report' = report /\ verdicts' = verdicts /\ Verdicts' = Verdicts
  BY DEF Gate, Verdicts
<1>4. Reported' /\ Flagged(report')
  BY <1>1, <1>3 DEF Gate, Reported, Answered
<1> QED  BY <1>1, <1>2, <1>3, <1>4
         DEF Gate, GateKept, Reported, Early, Statuses, Settled

\* A completed report flags nothing.
LEMMA CompleteKeeps ==
  ASSUME GateKept, Complete
  PROVE  GateKept'
<1>1. Reported /\ request = NoRequest
  BY DEF Complete, GateKept, Unreported
<1>2. Before' = Before /\ Verdicts' = Verdicts
  BY DEF Complete, Before, Verdicts
<1> QED  BY <1>1, <1>2
         DEF Complete, Before, GateKept, Reported, Early, Statuses, Settled

\* A decision clears the request and adds its note.
LEMMA ApplyApprovalKeeps ==
  ASSUME GateKept, NEW decision \in {"approved", "rejected"},
         ApplyApproval(decision)
  PROVE  GateKept'
<1>1. Reported /\ Flagged(report) /\ IsReport(report)
  BY DEF ApplyApproval, GateKept
<1>2. /\ IsReport(report')
      /\ report'.steps = report.steps
      /\ NoteNames(report') = NoteNames(report) \cup {decision}
  BY <1>1, DecidedReport
<1>3. Flagged(report')
  BY <1>1, <1>2 DEF Flagged
<1>4. verdicts' = <<decision>> /\ Verdicts = {} /\ Verdicts' = {decision}
  <2>1. verdicts = << >>
    BY <1>1 DEF Reported
  <2>2. verdicts' = <<decision>>
    BY <2>1 DEF ApplyApproval
  <2> QED  BY <2>1, <2>2 DEF Verdicts
<1>5. NoteNames(report') \cap {"approved", "rejected"} = Verdicts'
  BY <1>2, <1>4 DEF GateKept
<1> QED  BY <1>2, <1>3, <1>4, <1>5
         DEF ApplyApproval, GateKept, Early, Statuses, Settled

\* One step per action.
LEMMA StepKept ==
  ASSUME GateKept, [Next]_vars
  PROVE  GateKept'
<1>1. ASSUME NEW n \in 0..MaxHypotheses, NEW k \in 0..MaxSteps,
             NEW steps \in [1..k -> Sayings], Answer(n, steps)
      PROVE  GateKept'
  <2>1. k \in Nat
    BY ReportAssumption
  <2> QED  BY <1>1, <2>1, AnswerKeeps
<1>2. CASE UNCHANGED vars
  BY <1>2 DEF vars, GateKept, Unreported, Reported, Answered, Early,
              Settled, Verdicts
<1> QED  BY <1>1, <1>2, CreateKeeps, RunToolKeeps, AssembleContextKeeps,
            DegradeKeeps, GateKeeps, CompleteKeeps, ApplyApprovalKeeps
         DEF Next

\* The invariant holds in every reachable state.
LEMMA GateAlwaysKept == ReportSpec => []GateKept
<1>1. Init => GateKept
  BY InitKept
<1>2. GateKept /\ [Next]_vars => GateKept'
  BY StepKept
<1> QED  BY <1>1, <1>2, PTL DEF ReportSpec

-----------------------------------------------------------------------------
(* The theorems. *)

\* DecisionIsShown holds always: a decision is shown in the report it was
\* taken on, beside the flagged step, and the request is gone.
THEOREM DecisionIsShownHolds == ReportSpec => []DecisionIsShown
<1>1. GateKept => DecisionIsShown
  <2> SUFFICES ASSUME GateKept
               PROVE  DecisionIsShown
    OBVIOUS
  <2>1. ServedRequests = {} <=> request = NoRequest
    BY DEF ServedRequests
  <2>2. (status = "waiting_approval") <=> request # NoRequest
    BY DEF GateKept, Statuses, Early, Unreported, Settled
  <2> QED  BY <2>1, <2>2 DEF DecisionIsShown, GateKept, Settled, Verdicts
<1> QED  BY <1>1, GateAlwaysKept, PTL

\* What a step of SessionLifecycle may change, in terms of the report.
LEMMA LifecycleVars ==
  ASSUME Phase' = Phase, Flagged(report') = Flagged(report),
         verdicts' = verdicts
  PROVE  UNCHANGED Lifecycle!lvars
BY DEF Lifecycle!lvars

\* Each action is a step of SessionLifecycle, or none.
LEMMA LifecycleStep ==
  ASSUME GateKept, [Next]_vars
  PROVE  [Lifecycle!LNext]_(Lifecycle!lvars)
<1> DEFINE S == {"session"}
<1>0. \A r : Flagged(r) \in BOOLEAN
  BY DEF Flagged
<1>1. CASE Create
  <2>1. /\ Phase = "absent" /\ Phase' = "open"
        /\ report' = report /\ verdicts' = verdicts
    BY <1>1 DEF Create, Phase
  <2>2. Lifecycle!Open("session")
    BY <2>1 DEF Lifecycle!Open
  <2> QED  BY <2>2 DEF Lifecycle!LNext
<1>2. CASE \E ok \in BOOLEAN : RunTool(ok)
  <2>1. /\ Phase = "open" /\ Phase' = "open"
        /\ report' = report /\ verdicts' = verdicts
    BY <1>2 DEF RunTool, Phase
  <2> QED  BY <2>1, LifecycleVars
<1>3. CASE AssembleContext
  <2>1. /\ Phase = "open" /\ Phase' = "open"
        /\ report' = report /\ verdicts' = verdicts
    BY <1>3 DEF AssembleContext, Phase
  <2> QED  BY <2>1, LifecycleVars
<1>4. CASE \E n \in 0..MaxHypotheses, k \in 0..MaxSteps :
             \E steps \in [1..k -> Sayings] : Answer(n, steps)
  <2>1. /\ Phase = "open" /\ Phase' = "open" /\ verdicts' = verdicts
        /\ ~Flagged(report)
    BY <1>4, NoReportFacts DEF Answer, Phase
  <2>2. CASE Flagged(report')
    <3>1. Lifecycle!Assess("session")
      BY <1>0, <2>1, <2>2 DEF Lifecycle!Assess
    <3> QED  BY <3>1 DEF Lifecycle!LNext
  <2>3. CASE ~Flagged(report')
    <3>1. Flagged(report') = Flagged(report)
      BY <1>0, <2>1, <2>3
    <3> QED  BY <2>1, <3>1, LifecycleVars
  <2> QED  BY <2>2, <2>3
<1>5. CASE \E reason \in Reasons : Degrade(reason)
  <2>1. PICK reason \in Reasons : Degrade(reason)
    BY <1>5
  <2>2. Unreported
    BY <2>1 DEF Degrade, GateKept, Early, Reported, Reasons
  <2>3. ~Flagged(report) /\ ~Flagged(report')
    BY <2>1, <2>2, NoReportFacts, PartialReportFacts DEF Degrade, Unreported
  <2>4. /\ Phase = "open" /\ Phase' = "degraded" /\ verdicts' = verdicts
    BY <2>1 DEF Degrade, Phase, Reasons
  <2>5. Flagged(report') = Flagged(report)
    BY <1>0, <2>3
  <2>6. Lifecycle!Settle("session")
    BY <2>3, <2>4, <2>5 DEF Lifecycle!Settle
  <2> QED  BY <2>6 DEF Lifecycle!LNext
<1>6. CASE Gate
  <2>1. Flagged(report)
    BY <1>6 DEF Gate, GateKept, Unreported, Reported
  <2>2. /\ Phase = "open" /\ Phase' = "gated"
        /\ report' = report /\ verdicts' = verdicts
    BY <1>6 DEF Gate, Phase
  <2>3. Lifecycle!Gate("session")
    BY <2>1, <2>2 DEF Lifecycle!Gate
  <2> QED  BY <2>3 DEF Lifecycle!LNext
<1>7. CASE Complete
  <2>1. ~Flagged(report)
    BY <1>7 DEF Complete, GateKept, Unreported, Reported
  <2>2. /\ Phase = "open" /\ Phase' = "completed"
        /\ report' = report /\ verdicts' = verdicts
    BY <1>7 DEF Complete, Phase
  <2>3. Lifecycle!Settle("session")
    BY <2>1, <2>2 DEF Lifecycle!Settle
  <2> QED  BY <2>3 DEF Lifecycle!LNext
<1>8. CASE \E decision \in {"approved", "rejected"} : ApplyApproval(decision)
  <2>1. PICK decision \in {"approved", "rejected"} : ApplyApproval(decision)
    BY <1>8
  <2>2. verdicts = << >> /\ IsReport(report)
    BY <2>1 DEF ApplyApproval, GateKept, Reported
  <2>3. Flagged(report') <=> Flagged(report)
    BY <2>1, <2>2, DecidedReport DEF Flagged
  <2>4. Flagged(report') = Flagged(report)
    BY <1>0, <2>3
  <2>5. /\ Phase = "gated"
        /\ Phase' = IF decision = "approved" THEN "completed" ELSE "degraded"
        /\ verdicts' = <<decision>>
    BY <2>1, <2>2 DEF ApplyApproval, Phase
  <2>6. Lifecycle!Decide("session")
    BY <2>2, <2>4, <2>5 DEF Lifecycle!Decide
  <2> QED  BY <2>6 DEF Lifecycle!LNext
<1>9. CASE UNCHANGED vars
  BY <1>9, LifecycleVars DEF vars, Phase
<1> QED  BY <1>1, <1>2, <1>3, <1>4, <1>5, <1>6, <1>7, <1>8, <1>9 DEF Next

\* A report with a flagged step waits for one human decision, and one
\* without is settled by the triage alone: the session, seen from its
\* report, behaves as SessionLifecycle promises.
THEOREM ReportImplementsLifecycleHolds ==
  ReportSpec => ReportImplementsLifecycle
<1>1. Init => Lifecycle!LInit
  <2> SUFFICES ASSUME Init
               PROVE  Lifecycle!LInit
    OBVIOUS
  <2>1. Phase = "absent" /\ Flagged(report) = FALSE /\ verdicts = << >>
    BY NoReportFacts DEF Init, Phase, Flagged
  <2> QED  BY <2>1 DEF Lifecycle!LInit
<1>2. GateKept /\ [Next]_vars => [Lifecycle!LNext]_(Lifecycle!lvars)
  BY LifecycleStep
<1> QED
  BY <1>1, <1>2, GateAlwaysKept, PTL
  DEF ReportSpec, ReportImplementsLifecycle, Lifecycle!LSpec

-----------------------------------------------------------------------------
(* The references: the runbook tool runs first, and only it finds any. *)

\* What a tool may leave as evidence.
Outcomes == [tool : {"runbook", "metrics", "logs"}, ok : BOOLEAN,
             refs : SUBSET {"runbook.md"}]

\* Only the first observation of a sequence has references.
RefsFirst(seen) == \A i \in DOMAIN seen : i > 1 => seen[i].refs = {}

\* However few observations fit the context, its references are all there
\* are.
LEMMA ShownRefs ==
  ASSUME NEW seen \in Seq(Outcomes), RefsFirst(seen)
  PROVE  SessionContext(seen).refs = Refs(seen)
<1>1. SessionContext(seen).refs = UNION {seen[i].refs : i \in Shown(seen)}
  BY DEF SessionContext
<1>2. \A i \in DOMAIN seen : i \in Shown(seen) \/ seen[i].refs = {}
  BY ReportAssumption DEF Shown, RefsFirst
<1>3. Shown(seen) \subseteq DOMAIN seen
  BY DEF Shown
<1> QED  BY <1>1, <1>2, <1>3 DEF Refs

\* The references are as the tools left them, and the context of a session
\* under analysis was made of them.
RefsKept ==
  /\ GateKept
  /\ evidence \in Seq(Outcomes)
  /\ RefsFirst(evidence)
  /\ status = "analyzing" => context = SessionContext(evidence)

\* There are no references at first.
LEMMA InitRefsKept ==
  ASSUME Init
  PROVE  RefsKept
BY InitKept DEF Init, RefsKept, RefsFirst

\* Only the first tool may find any.
LEMMA RunToolRefs ==
  ASSUME RefsKept, NEW ok \in BOOLEAN, RunTool(ok)
  PROVE  RefsKept'
<1> DEFINE refs == IF ok /\ Tools[Len(evidence) + 1] = "runbook"
                   THEN {"runbook.md"} ELSE {}
           outcome == [tool |-> Tools[Len(evidence) + 1], ok |-> ok,
                       refs |-> refs]
<1>1. evidence' = Append(evidence, outcome) /\ Len(evidence) < 3
  BY DEF RunTool, Tools
<1>2. \/ Len(evidence) = 0 /\ Tools[Len(evidence) + 1] = "runbook"
      \/ Len(evidence) = 1 /\ Tools[Len(evidence) + 1] = "metrics"
      \/ Len(evidence) = 2 /\ Tools[Len(evidence) + 1] = "logs"
  <2>1. Len(evidence) \in Nat
    BY DEF RefsKept
  <2>2. \A m \in Nat : m < 3 =>
          \/ m = 0 /\ Tools[m + 1] = "runbook"
          \/ m = 1 /\ Tools[m + 1] = "metrics"
          \/ m = 2 /\ Tools[m + 1] = "logs"
    BY DEF Tools
  <2> QED  BY <1>1, <2>1, <2>2
<1>3. outcome \in Outcomes
  <2>1. Tools[Len(evidence) + 1] \in {"runbook", "metrics", "logs"}
    BY <1>2
  <2>2. refs \in SUBSET {"runbook.md"}
    OBVIOUS
  <2> HIDE DEF refs
  <2> QED  BY <2>1, <2>2 DEF Outcomes
<1>4. Len(evidence) > 0 => outcome.refs = {}
  <2>1. Len(evidence) > 0 => Tools[Len(evidence) + 1] # "runbook"
    BY <1>2
  <2> QED  BY <2>1
<1> HIDE DEF outcome
<1>5. evidence' \in Seq(Outcomes) /\ RefsFirst(evidence')
  BY <1>1, <1>3, <1>4 DEF RefsKept, RefsFirst
<1>6. GateKept'
  BY RunToolKeeps DEF RefsKept
<1> QED  BY <1>5, <1>6 DEF RefsKept, RunTool, Tools

\* One step per action; the others leave the references alone.
LEMMA RefsStepKept ==
  ASSUME RefsKept, [Next]_vars
  PROVE  RefsKept'
<1>1. GateKept'
  BY StepKept DEF RefsKept
<1>2. CASE Create
  BY <1>1, <1>2 DEF Create, RefsKept
<1>3. CASE AssembleContext
  BY <1>1, <1>3 DEF AssembleContext, RefsKept
<1>4. CASE \E n \in 0..MaxHypotheses, k \in 0..MaxSteps :
             \E steps \in [1..k -> Sayings] : Answer(n, steps)
  BY <1>1, <1>4 DEF Answer, RefsKept
<1>5. CASE \E reason \in Reasons : Degrade(reason)
  BY <1>1, <1>5 DEF Degrade, RefsKept
<1>6. CASE Gate \/ Complete
  BY <1>1, <1>6 DEF Gate, Complete, RefsKept
<1>7. CASE \E decision \in {"approved", "rejected"} : ApplyApproval(decision)
  BY <1>1, <1>7 DEF ApplyApproval, RefsKept
<1>8. CASE UNCHANGED vars
  BY <1>1, <1>8 DEF vars, RefsKept
<1> QED  BY <1>2, <1>3, <1>4, <1>5, <1>6, <1>7, <1>8, RunToolRefs DEF Next
=============================================================================

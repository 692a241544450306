-------------------------- MODULE ReportContentProofs --------------------------
(***************************************************************************)
(* For every set of step texts, every limit of the context and every       *)
(* length of an answer: the report is made of the evidence and the answer, *)
(* and what follows of it: it is typed, its notes refer to steps of the    *)
(* trace, a request describes it, what is missing is stated, and only a    *)
(* grounded hypothesis is active.                                          *)
(***************************************************************************)
EXTENDS ReportProofs

-----------------------------------------------------------------------------
(* The least and the greatest of two integers. *)

\* The lesser of two integers is the minimum of their set.
LEMMA MinOfTwo ==
  ASSUME NEW a \in Int, NEW b \in Int
  PROVE  Min({a, b}) = IF a <= b THEN a ELSE b
BY DEF Min

\* The greater of two integers is the maximum of their set.
LEMMA MaxOfTwo ==
  ASSUME NEW a \in Int, NEW b \in Int
  PROVE  Max({a, b}) = IF a >= b THEN a ELSE b
BY DEF Max

\* A table gives the entry of the only words it finds.
LEMMA FirstOfOne ==
  ASSUME NEW table, NEW text, NEW none, NEW i \in Int,
         Hits(table, text) = {i}
  PROVE  First(table, text, none) = table[i]
<1>1. Min({i}) = i
  <2>1. \E x \in {i} : \A y \in {i} : x <= y
    OBVIOUS
  <2> QED  BY <2>1 DEF Min
<1> QED  BY <1>1 DEF First

-----------------------------------------------------------------------------
(* The notes of a report, and what they refer to. *)

\* The notes that say the evidence is limited, and the policy's.
Weakenings == {"weak", "limited_no_refs", "limited_no_obs"}

PolicyNames == {"rollback_gated", "may_modify"}

\* Each name a note is written under has one type, and refers to one step.
LEMMA NoteItems ==
  ASSUME NEW note
  PROVE  /\ NoteItem(note).note = note
         /\ note \in Weakenings \cup {"no_kb"} =>
              /\ NoteItem(note).type = "groundedness"
              /\ NoteItem(note).ref = "groundedness_check"
         /\ note = "untrusted" =>
              /\ NoteItem(note).type = "sanitization"
              /\ NoteItem(note).ref = "sanitization_check"
         /\ note \in PolicyNames =>
              /\ NoteItem(note).type = "policy"
              /\ NoteItem(note).ref = "policy_check"
         /\ note = "degraded" =>
              /\ NoteItem(note).type = "degradation"
              /\ NoteItem(note).ref = "degradation"
         /\ note \notin Weakenings \cup PolicyNames
                         \cup {"no_kb", "untrusted", "degraded"} =>
              /\ NoteItem(note).type = "uncertainty"
              /\ NoteItem(note).ref = "report"
<1> DEFINE words == NoteWords(note)
           none == [name |-> "uncertainty", ref |-> "report"]
           type == First(NoteTypes, words, none)
<1>1. NoteItem(note) = [note |-> note, type |-> type.name, ref |-> type.ref]
  BY DEF NoteItem
<1>2. /\ NoteItem(note).note = note
      /\ NoteItem(note).type = type.name
      /\ NoteItem(note).ref = type.ref
  BY <1>1
<1>3. DOMAIN NoteTypes = {1, 2, 3, 4, 5}
  <2>1. DOMAIN NoteTypes = 1..5
    BY DEF NoteTypes
  <2> QED  BY <2>1
<1>4. /\ NoteTypes[1].words = {"degraded mode"}
      /\ NoteTypes[2].words = {"groundedness", "corroborat"}
      /\ NoteTypes[3].words = {"untrusted"}
      /\ NoteTypes[4].words = {"approval", "modify system state"}
      /\ NoteTypes[5].words = {"redact"}
  BY DEF NoteTypes
<1>5. /\ NoteTypes[1].name = "degradation"
      /\ NoteTypes[1].ref = "degradation"
      /\ NoteTypes[2].name = "groundedness"
      /\ NoteTypes[2].ref = "groundedness_check"
      /\ NoteTypes[3].name = "sanitization"
      /\ NoteTypes[3].ref = "sanitization_check"
      /\ NoteTypes[4].name = "policy"
      /\ NoteTypes[4].ref = "policy_check"
  BY DEF NoteTypes
<1> HIDE DEF words, type
<1>6. CASE note \in Weakenings \cup {"no_kb"}
  <2>1. words \cap {"groundedness", "corroborat"} # {}
        /\ words \subseteq {"groundedness", "corroborat", "unavailable"}
    BY <1>6 DEF words, NoteWords, Weakenings
  <2>2. Hits(NoteTypes, words) = {2}
    BY <1>3, <1>4, <2>1 DEF Hits
  <2>3. type = NoteTypes[2]
    BY <2>2, FirstOfOne DEF type
  <2> QED  BY <1>2, <1>5, <1>6, <2>3 DEF Weakenings, PolicyNames
<1>7. CASE note = "untrusted"
  <2>1. words = {"untrusted"}
    BY <1>7 DEF words, NoteWords
  <2>2. Hits(NoteTypes, words) = {3}
    BY <1>3, <1>4, <2>1 DEF Hits
  <2>3. type = NoteTypes[3]
    BY <2>2, FirstOfOne DEF type
  <2> QED  BY <1>2, <1>5, <1>7, <2>3 DEF Weakenings, PolicyNames
<1>8. CASE note \in PolicyNames
  <2>1. "approval" \in words
        /\ words \subseteq {"approval", "modify system state"}
    BY <1>8 DEF words, NoteWords, PolicyNames
  <2>2. Hits(NoteTypes, words) = {4}
    BY <1>3, <1>4, <2>1 DEF Hits
  <2>3. type = NoteTypes[4]
    BY <2>2, FirstOfOne DEF type
  <2> QED  BY <1>2, <1>5, <1>8, <2>3 DEF Weakenings, PolicyNames
<1>9. CASE note = "degraded"
  <2>1. words = {"degraded mode"}
    BY <1>9 DEF words, NoteWords
  <2>2. Hits(NoteTypes, words) = {1}
    BY <1>3, <1>4, <2>1 DEF Hits
  <2>3. type = NoteTypes[1]
    BY <2>2, FirstOfOne DEF type
  <2> QED  BY <1>2, <1>5, <1>9, <2>3 DEF Weakenings, PolicyNames
<1>10. CASE note \notin Weakenings \cup PolicyNames
                         \cup {"no_kb", "untrusted", "degraded"}
  <2>1. words = {}
    BY <1>10 DEF words, NoteWords, Weakenings, PolicyNames
  <2>2. Hits(NoteTypes, words) = {}
    BY <2>1 DEF Hits
  <2>3. type = none
    BY <2>2 DEF type, First
  <2> QED  BY <1>2, <1>10, <2>3
<1> QED  BY <1>6, <1>7, <1>8, <1>9, <1>10

\* What the notes of an answer may be: the warnings, the policy's notes
\* exactly when it requires approval, and the lack of references.
LEMMA AnswerNotes ==
  ASSUME NEW steps, NEW warnings \in SUBSET Weakenings, NEW taint, NEW n,
         NEW refs
  PROVE  LET notes == ReportNotes(steps, warnings, taint, n, refs)
         IN /\ notes \subseteq Weakenings \cup PolicyNames \cup
                 {"no_write", "untrusted", "preliminary", "no_kb"}
            /\ notes \cap Weakenings = warnings
            /\ notes \cap PolicyNames # {} => RequiresApproval(steps)
            /\ "rollback_gated" \in notes <=>
                 RequiresApproval(steps) /\ Trigger(steps) = "rollback"
            /\ "no_kb" \in notes <=> refs = {}
<1>1. /\ ~RequiresApproval(steps) => PolicyNotes(steps) = {"no_write"}
      /\ RequiresApproval(steps) /\ Trigger(steps) = "rollback" =>
           PolicyNotes(steps) = {"no_write", "rollback_gated"}
      /\ RequiresApproval(steps) /\ Trigger(steps) # "rollback" =>
           PolicyNotes(steps) = {"no_write", "may_modify"}
  BY DEF PolicyNotes
<1> DEFINE tainted_note == IF taint THEN {"untrusted"} ELSE {}
           answer_note == IF n > 0 THEN {"preliminary"} ELSE {}
           refs_note == IF refs = {} THEN {"no_kb"} ELSE {}
<1>2. /\ tainted_note \subseteq {"untrusted"}
      /\ answer_note \subseteq {"preliminary"}
      /\ refs_note \subseteq {"no_kb"}
      /\ "no_kb" \in refs_note <=> refs = {}
  OBVIOUS
<1>3. ReportNotes(steps, warnings, taint, n, refs) =
        PolicyNotes(steps) \cup warnings \cup tainted_note
          \cup answer_note \cup refs_note
  BY DEF ReportNotes
<1> HIDE DEF tainted_note, answer_note, refs_note
<1> QED  BY <1>1, <1>2, <1>3 DEF Weakenings, PolicyNames

\* The warnings are of limited evidence, and there are none exactly when
\* nothing was concluded, or there are observations and references.
LEMMA WarningsGiven ==
  ASSUME NEW observations \in Nat, NEW refs \in Nat, NEW n \in Nat
  PROVE  /\ Warnings(observations, refs, n) \in SUBSET Weakenings
         /\ Warnings(observations, refs, n) = {} <=>
              n = 0 \/ (observations > 0 /\ refs > 0)
BY DEF Warnings, Weakenings

\* The confidence of a hypothesis is one the code may give, and is not more
\* than that of one before it.
LEMMA ConfidenceFalls ==
  ASSUME NEW i \in Nat \ {0}, NEW j \in Nat, i <= j, NEW weak \in BOOLEAN,
         NEW observations \in Nat, NEW refs \in Nat
  PROVE  /\ Confidence(j, weak, observations, refs) \in 30..82
         /\ Confidence(j, weak, observations, refs)
              <= Confidence(i, weak, observations, refs)
<1> DEFINE base == IF observations >= 2 /\ refs >= 1 THEN 82
                   ELSE IF observations >= 1 \/ refs >= 1 THEN 65
                   ELSE 45
           penalty == IF weak THEN 10 ELSE 0
           discount(m) == IF (m - 1) * 5 <= 10 THEN (m - 1) * 5 ELSE 10
           raw(m) == base - discount(m) - penalty
<1>1. base \in 45..82 /\ penalty \in {0, 10}
  OBVIOUS
<1> HIDE DEF base, penalty
<1>2. ASSUME NEW m \in Nat \ {0}
      PROVE  /\ discount(m) \in 0..10
             /\ raw(m) \in Int
             /\ Confidence(m, weak, observations, refs)
                  = IF 30 >= raw(m) THEN 30 ELSE raw(m)
  <2>1. (m - 1) * 5 \in Int /\ (m - 1) * 5 >= 0
    OBVIOUS
  <2>2. discount(m) \in 0..10 /\ Min({(m - 1) * 5, 10}) = discount(m)
    BY <2>1, MinOfTwo
  <2>3. Confidence(m, weak, observations, refs)
          = Max({30, base - Min({(m - 1) * 5, 10}) - penalty})
    BY DEF Confidence, base, penalty
  <2> HIDE DEF discount
  <2>4. raw(m) \in Int
    BY <1>1, <2>2
  <2>5. Confidence(m, weak, observations, refs) = Max({30, raw(m)})
    BY <2>2, <2>3
  <2> HIDE DEF raw
  <2> QED  BY <2>2, <2>4, <2>5, MaxOfTwo
<1>3. discount(i) <= discount(j)
  OBVIOUS
<1> HIDE DEF discount
<1> QED  BY <1>1, <1>2, <1>3

-----------------------------------------------------------------------------
(* The invariant: what the report, the request and the trace are made of. *)

\* The note a decision adds, and those of the decisions so far.
DecisionItem(decision) ==
  [note |-> decision, type |-> "policy", ref |-> "approval_decision"]

DecisionItems == {DecisionItem(verdicts[i]) : i \in DOMAIN verdicts}

\* The tools run in order, and only the first may find references.
InOrder ==
  /\ Len(evidence) <= 3
  /\ \A i \in DOMAIN evidence :
       /\ evidence[i].tool = Tools[i]
       /\ evidence[i].refs # {} => i = 1 /\ evidence[i].ok

\* The context is the one of no evidence until it is assembled.
ContextMade ==
  /\ Early => context = SessionContext(<< >>)
  /\ context \in {SessionContext(<< >>), SessionContext(evidence)}
  /\ Answered => context = SessionContext(evidence)

\* A human has decided.
Decided == verdicts # << >>

\* The steps the notes refer to are in the trace.
Traced ==
  /\ status = "analyzing" \/ Answered => "sanitization_check" \in trace
  /\ Answered => "groundedness_check" \in trace
  /\ Settled /\ ~Answered => "degradation" \in trace
  /\ status = "waiting_approval" \/ Decided => "policy_check" \in trace
  /\ Decided => "approval_decision" \in trace

\* The request asks about the report's steps.
Asked ==
  status = "waiting_approval" =>
    request = ApprovalRequest(Actions(report), Weak(evidence, report))

\* The inductive invariant.
ContentKept ==
  /\ RefsKept
  /\ tainted \in BOOLEAN
  /\ verdicts \in {<< >>, <<"approved">>, <<"rejected">>}
  /\ Decided => Answered
  /\ InOrder
  /\ ContextMade
  /\ ReportIsOfItsEvidence
  /\ Traced
  /\ Asked

\* The report of an answer, item by item.
LEMMA AnswerFields ==
  ASSUME NEW n, NEW steps, IsReportOf(n, steps)
  PROVE  LET full == FullReport(evidence, tainted, n, steps)
         IN /\ IsReport(report)
            /\ report.hypotheses = full.hypotheses
            /\ report.steps = full.steps
            /\ report.notes = full.notes \cup DecisionItems
            /\ report.refs = full.refs
            /\ report.unknowns = full.unknowns
<1> DEFINE full == FullReport(evidence, tainted, n, steps)
<1>1. IsReport(full)
  BY FullReportShape
<1>2. report = [full EXCEPT !.notes = @ \cup DecisionItems]
  BY DEF IsReportOf, DecisionItems, DecisionItem
<1> HIDE DEF full
<1>3. report = [hypotheses |-> full.hypotheses, steps |-> full.steps,
                notes |-> full.notes \cup DecisionItems,
                refs |-> full.refs, unknowns |-> full.unknowns]
  BY <1>1, <1>2 DEF IsReport
<1> QED  BY <1>3 DEF IsReport, full

\* The actions of the report of an answer are its steps.
LEMMA AnswerActions ==
  ASSUME NEW n, NEW k \in Nat, NEW steps \in [1..k -> Sayings],
         IsReportOf(n, steps)
  PROVE  Actions(report) = steps
<1> DEFINE full == FullReport(evidence, tainted, n, steps)
<1>1. report.steps = full.steps
  BY AnswerFields
<1>2. Actions(full) = steps
  BY FullReportFlags
<1> QED  BY <1>1, <1>2 DEF Actions

-----------------------------------------------------------------------------
(* The invariant is kept. *)

\* Each action keeps it.
LEMMA InitContent ==
  ASSUME Init
  PROVE  ContentKept
<1>1. RefsKept
  BY InitRefsKept
<1>2. Early /\ ~Settled /\ ~Answered /\ ~Decided
  BY DEF Init, Early, Settled, Answered, Decided
<1> QED  BY <1>1, <1>2
         DEF Init, ContentKept, InOrder, ContextMade, Decided,
             ReportIsOfItsEvidence, Traced, Asked

\* What a report is made of stays so while nothing it is made of changes.
LEMMA SameReport ==
  ASSUME UNCHANGED <<tainted, evidence, report, verdicts>>
  PROVE  \A n, steps : IsReportOf(n, steps)' <=> IsReportOf(n, steps)
BY DEF IsReportOf

\* A step before the answer that stores no report.
LEMMA EarlyContent ==
  ASSUME ContentKept, RefsKept', Early,
         UNCHANGED <<tainted, report, request, verdicts>>,
         Early' \/ status' = "analyzing",
         "llm_analysis" \notin trace', "llm_analysis" \notin trace,
         InOrder', ContextMade',
         status' = "analyzing" => "sanitization_check" \in trace'
  PROVE  ContentKept'
<1>1. ~Settled /\ ~Settled' /\ ~Answered /\ ~Answered' /\ ~Decided
      /\ status' # "waiting_approval"
  BY DEF Early, Settled, Answered, ContentKept, RefsKept, GateKept,
         Unreported, Decided
<1> QED  BY <1>1
         DEF ContentKept, ReportIsOfItsEvidence, Traced, Asked, Decided

\* A new session has no evidence.
LEMMA CreateContent ==
  ASSUME ContentKept, Create
  PROVE  ContentKept'
<1>1. RefsKept'
  BY RefsStepKept DEF ContentKept, Next
<1>2. Early /\ Early'
  BY DEF Create, Early
<1>3. "llm_analysis" \notin trace /\ trace' = trace
  BY <1>2 DEF ContentKept, RefsKept, GateKept, Unreported, Answered, Create
<1>4. InOrder' /\ ContextMade'
  BY <1>2, <1>3 DEF Create, ContentKept, InOrder, ContextMade, Answered
<1> QED  BY <1>1, <1>2, <1>3, <1>4, EarlyContent DEF Create

\* A tool adds the next observation.
LEMMA RunToolContent ==
  ASSUME ContentKept, NEW ok \in BOOLEAN, RunTool(ok)
  PROVE  ContentKept'
<1>1. RefsKept'
  BY RefsStepKept DEF ContentKept, Next
<1>2. Early /\ Early' /\ status' # "analyzing"
  BY DEF RunTool, Early
<1>3. "llm_analysis" \notin trace /\ trace' = trace
  BY <1>2 DEF ContentKept, RefsKept, GateKept, Unreported, Answered, RunTool
<1>4. ContextMade'
  BY <1>2, <1>3 DEF RunTool, ContentKept, ContextMade, Answered
<1>5. InOrder'
  <2> DEFINE refs == IF ok /\ Tools[Len(evidence) + 1] = "runbook"
                     THEN {"runbook.md"} ELSE {}
             outcome == [tool |-> Tools[Len(evidence) + 1], ok |-> ok,
                         refs |-> refs]
  <2>1. /\ evidence' = Append(evidence, outcome)
        /\ Len(evidence) < 3
        /\ evidence \in Seq(Outcomes)
    BY DEF RunTool, Tools, ContentKept, RefsKept
  <2>2. /\ outcome.tool = Tools[Len(evidence) + 1]
        /\ outcome.ok = ok
        /\ outcome.refs = refs
    OBVIOUS
  <2>3. refs # {} => ok /\ Len(evidence) + 1 = 1
    BY <2>1 DEF Tools
  <2> HIDE DEF refs, outcome
  <2> QED  BY <2>1, <2>2, <2>3 DEF ContentKept, InOrder
<1> QED  BY <1>1, <1>2, <1>3, <1>4, <1>5, EarlyContent DEF RunTool

\* The context is made of all the evidence.
LEMMA AssembleContextContent ==
  ASSUME ContentKept, AssembleContext
  PROVE  ContentKept'
<1>1. RefsKept'
  BY RefsStepKept DEF ContentKept, Next
<1>2. Early /\ status' = "analyzing" /\ ~Early'
  BY DEF AssembleContext, Early
<1>3. "llm_analysis" \notin trace /\ "llm_analysis" \notin trace'
  BY <1>2 DEF ContentKept, RefsKept, GateKept, Unreported, Answered,
              AssembleContext
<1>4. InOrder' /\ ContextMade'
  BY <1>2, <1>3 DEF AssembleContext, ContentKept, InOrder, ContextMade,
                    Answered
<1> QED  BY <1>1, <1>2, <1>3, <1>4, EarlyContent DEF AssembleContext

\* An answer is reported as what it was made of.
LEMMA AnswerContent ==
  ASSUME ContentKept, NEW n \in 0..MaxHypotheses, NEW k \in 0..MaxSteps,
         NEW steps \in [1..k -> Sayings], Answer(n, steps)
  PROVE  ContentKept'
<1>1. RefsKept'
  BY RefsStepKept DEF ContentKept, Next
<1>2. /\ status = "analyzing" /\ status' = "analyzing"
      /\ UNCHANGED <<tainted, evidence, context, verdicts>>
      /\ report' = FullReport(evidence, tainted, n, steps)
      /\ trace' = trace \cup {"llm_analysis", "groundedness_check"}
  BY DEF Answer
<1>3. Unreported /\ context = SessionContext(evidence)
      /\ "sanitization_check" \in trace
  BY <1>2 DEF Answer, ContentKept, RefsKept, GateKept, Reported, Traced
<1>4. Answered' /\ ~Settled' /\ ~Early' /\ ~Decided'
  BY <1>2, <1>3 DEF Answered, Settled, Early, Unreported, Decided
<1>5. IsReportOf(n, steps)'
  <2> DEFINE full == FullReport(evidence, tainted, n, steps)
  <2>1. IsReport(full)
    BY FullReportShape
  <2>2. DecisionItems' = {}
    BY <1>2, <1>3 DEF Unreported, DecisionItems
  <2>3. report' = full /\ full = FullReport(evidence', tainted', n, steps)
    BY <1>2
  <2> HIDE DEF full
  <2>4. full = [full EXCEPT !.notes = @ \cup {}]
    BY <2>1 DEF IsReport
  <2>5. report' = [full EXCEPT !.notes = @ \cup DecisionItems']
    BY <2>2, <2>3, <2>4
  <2> QED  BY <2>3, <2>5 DEF IsReportOf, DecisionItems, DecisionItem
<1>6. ReportIsOfItsEvidence'
  BY <1>4, <1>5 DEF ReportIsOfItsEvidence
<1>7. Traced' /\ Asked' /\ ContextMade' /\ InOrder'
  BY <1>2, <1>3, <1>4
     DEF Traced, Asked, ContextMade, InOrder, ContentKept, Early
<1> QED  BY <1>1, <1>2, <1>4, <1>6, <1>7 DEF ContentKept

\* A session that is given up has no answer, and its report says why.
LEMMA DegradeContent ==
  ASSUME ContentKept, NEW reason \in Reasons, Degrade(reason)
  PROVE  ContentKept'
<1>1. RefsKept'
  BY RefsStepKept DEF ContentKept, Next
<1>2. Unreported
  BY DEF Degrade, ContentKept, RefsKept, GateKept, Early, Reported, Reasons
<1>3. /\ status' = "partial_completed"
      /\ report' = PartialReport(reason)
      /\ trace' = trace \cup {"degradation"}
      /\ UNCHANGED <<tainted, evidence, context, verdicts>>
  BY DEF Degrade
<1>4. ~Answered' /\ Settled' /\ ~Early' /\ ~Decided'
  BY <1>2, <1>3 DEF Answered, Settled, Early, Unreported, Decided
<1>5. ReportIsOfItsEvidence'
  BY <1>3, <1>4 DEF ReportIsOfItsEvidence
<1>6. Traced' /\ Asked' /\ ContextMade' /\ InOrder'
  BY <1>3, <1>4 DEF Traced, Asked, ContextMade, InOrder, ContentKept
<1> QED  BY <1>1, <1>3, <1>4, <1>5, <1>6 DEF ContentKept

\* A request is made of the report that is stored.
LEMMA GateContent ==
  ASSUME ContentKept, Gate
  PROVE  ContentKept'
<1>1. RefsKept'
  BY RefsStepKept DEF ContentKept, Next
<1>2. /\ status = "analyzing" /\ status' = "waiting_approval"
      /\ trace' = trace \cup {"policy_check"}
      /\ request' = ApprovalRequest(Actions(report), Weak(evidence, report))
      /\ UNCHANGED <<tainted, evidence, context, report, verdicts>>
  BY DEF Gate
<1>3. Answered /\ ~Decided
  BY <1>2 DEF Gate, ContentKept, RefsKept, GateKept, Unreported, Reported,
              Decided
<1>4. Answered' /\ ~Settled' /\ ~Early' /\ ~Decided'
  BY <1>2, <1>3 DEF Answered, Settled, Early, Decided
<1>5. ReportIsOfItsEvidence'
  BY <1>2, <1>3, <1>4, SameReport DEF ContentKept, ReportIsOfItsEvidence
<1>6. Traced' /\ Asked' /\ ContextMade' /\ InOrder'
  BY <1>2, <1>3, <1>4 DEF Traced, Asked, ContextMade, InOrder, ContentKept,
                          Weak, Actions
<1> QED  BY <1>1, <1>2, <1>4, <1>5, <1>6 DEF ContentKept

\* A triage that completes has found no risky step in its answer.
LEMMA CompleteContent ==
  ASSUME ContentKept, Complete
  PROVE  ContentKept'
<1>1. RefsKept'
  BY RefsStepKept DEF ContentKept, Next
<1>2. /\ status = "analyzing" /\ status' = "completed"
      /\ ~RequiresApproval(Actions(report))
      /\ UNCHANGED <<tainted, evidence, context, report, request, trace,
                     verdicts>>
  BY DEF Complete
<1>3. Answered /\ ~Decided
  BY <1>2 DEF Complete, ContentKept, RefsKept, GateKept, Unreported,
              Reported, Decided
<1>4. Answered' /\ ~Early' /\ ~Decided'
  BY <1>2, <1>3 DEF Answered, Early, Decided
<1>5. ReportIsOfItsEvidence'
  <2>1. PICK n \in 0..MaxHypotheses, k \in 0..MaxSteps :
          \E steps \in [1..k -> Sayings] : IsReportOf(n, steps)
    BY <1>3 DEF ContentKept, ReportIsOfItsEvidence
  <2>2. PICK steps \in [1..k -> Sayings] : IsReportOf(n, steps)
    BY <2>1
  <2>3. k \in Nat
    BY <2>1, ReportAssumption
  <2>4. Actions(report) = steps
    BY <2>2, <2>3, AnswerActions
  <2>5. IsReportOf(n, steps)' /\ ~RequiresApproval(steps)
    BY <1>2, <2>2, <2>4, SameReport
  <2> QED  BY <1>4, <2>1, <2>2, <2>5 DEF ReportIsOfItsEvidence
<1>6. Traced' /\ Asked' /\ ContextMade' /\ InOrder'
  BY <1>2, <1>3, <1>4
     DEF Traced, Asked, ContextMade, InOrder, ContentKept
<1> QED  BY <1>1, <1>2, <1>4, <1>5, <1>6 DEF ContentKept

\* A decision is added to the report it was taken on.
LEMMA ApplyApprovalContent ==
  ASSUME ContentKept, NEW decision \in {"approved", "rejected"},
         ApplyApproval(decision)
  PROVE  ContentKept'
<1>1. RefsKept'
  BY RefsStepKept DEF ContentKept, Next
<1>2. /\ status = "waiting_approval" /\ status' # "waiting_approval"
      /\ status' # "analyzing"
      /\ trace' = trace \cup {"approval_decision"}
      /\ UNCHANGED <<tainted, evidence, context>>
  BY DEF ApplyApproval
<1>3. Answered /\ verdicts = << >> /\ "policy_check" \in trace
  BY <1>2 DEF ContentKept, RefsKept, GateKept, Reported, Traced
<1>4. verdicts' = <<decision>>
  BY <1>3 DEF ApplyApproval
<1>5. Answered' /\ ~Early' /\ Decided'
  BY <1>2, <1>3, <1>4 DEF ApplyApproval, Answered, Early, Decided
<1>6. ReportIsOfItsEvidence'
  <2>1. PICK n \in 0..MaxHypotheses, k \in 0..MaxSteps :
          \E steps \in [1..k -> Sayings] : IsReportOf(n, steps)
    BY <1>3 DEF ContentKept, ReportIsOfItsEvidence
  <2>2. PICK steps \in [1..k -> Sayings] : IsReportOf(n, steps)
    BY <2>1
  <2> DEFINE full == FullReport(evidence, tainted, n, steps)
  <2>3. /\ IsReport(report)
        /\ report.hypotheses = full.hypotheses
        /\ report.steps = full.steps
        /\ report.notes = full.notes \cup DecisionItems
        /\ report.refs = full.refs
        /\ report.unknowns = full.unknowns
    BY <2>2, AnswerFields
  <2>4. IsReport(full) /\ full = FullReport(evidence', tainted', n, steps)
    BY <1>2, FullReportShape
  <2>5. DecisionItems = {} /\ DecisionItems' = {DecisionItem(decision)}
    BY <1>3, <1>4 DEF DecisionItems
  <2> HIDE DEF full
  <2>6. report' = [report EXCEPT !.notes = @ \cup {DecisionItem(decision)}]
    BY DEF ApplyApproval, DecisionItem
  <2>7. report' = [full EXCEPT !.notes = @ \cup {DecisionItem(decision)}]
    BY <2>3, <2>4, <2>5, <2>6 DEF IsReport
  <2>8. IsReportOf(n, steps)'
    BY <2>4, <2>5, <2>7 DEF IsReportOf, DecisionItems, DecisionItem
  <2> QED  BY <1>4, <1>5, <2>1, <2>2, <2>8 DEF ReportIsOfItsEvidence
<1>7. Traced' /\ Asked' /\ ContextMade' /\ InOrder'
  BY <1>2, <1>3, <1>5
     DEF Traced, Asked, ContextMade, InOrder, ContentKept
<1> QED  BY <1>1, <1>2, <1>4, <1>5, <1>6, <1>7 DEF ContentKept

\* One step per action.
LEMMA ContentStepKept ==
  ASSUME ContentKept, [Next]_vars
  PROVE  ContentKept'
<1>1. CASE UNCHANGED vars
  <2>1. RefsKept'
    BY RefsStepKept DEF ContentKept
  <2> QED  BY <1>1, <2>1, SameReport
           DEF vars, ContentKept, Decided, Answered, InOrder, ContextMade,
               Early, Settled, ReportIsOfItsEvidence, Traced, Asked, Actions,
               Weak
<1> QED  BY <1>1, CreateContent, RunToolContent, AssembleContextContent,
            AnswerContent, DegradeContent, GateContent, CompleteContent,
            ApplyApprovalContent
         DEF Next

\* The invariant holds in every reachable state.
LEMMA ContentAlwaysKept == ReportSpec => []ContentKept
<1>1. Init => ContentKept
  BY InitContent
<1>2. ContentKept /\ [Next]_vars => ContentKept'
  BY ContentStepKept
<1> QED  BY <1>1, <1>2, PTL DEF ReportSpec

-----------------------------------------------------------------------------
(* What the invariant says of an answer's report. *)

\* The references are none or one; and where there is one, the first tool
\* has succeeded.
LEMMA RefsCounted ==
  ASSUME ContentKept
  PROVE  /\ Len(evidence) \in Nat
         /\ Cardinality(Refs(evidence)) \in {0, 1}
         /\ Cardinality(Refs(evidence)) = 0 <=> Refs(evidence) = {}
         /\ Refs(evidence) # {} =>
              /\ 1 \in DOMAIN evidence
              /\ evidence[1].ok
<1>1. evidence \in Seq(Outcomes) /\ InOrder
  BY DEF ContentKept, RefsKept
<1>2. \A i \in DOMAIN evidence : evidence[i].refs \subseteq {"runbook.md"}
  <2>1. \A outcome \in Outcomes : outcome.refs \subseteq {"runbook.md"}
    BY DEF Outcomes
  <2>2. \A i \in DOMAIN evidence : evidence[i] \in Outcomes
    BY <1>1
  <2> QED  BY <2>1, <2>2
<1>3. Refs(evidence) \in {{}, {"runbook.md"}}
  BY <1>2 DEF Refs
<1>4. Cardinality({}) = 0 /\ Cardinality({"runbook.md"}) = 1
  BY FS_EmptySet, FS_Singleton
<1>5. Refs(evidence) # {} => \E i \in DOMAIN evidence : evidence[i].refs # {}
  BY DEF Refs
<1>6. Refs(evidence) # {} => 1 \in DOMAIN evidence /\ evidence[1].ok
  BY <1>1, <1>5 DEF InOrder
<1>7. /\ Cardinality(Refs(evidence)) \in {0, 1}
      /\ Cardinality(Refs(evidence)) = 0 <=> Refs(evidence) = {}
  BY <1>3, <1>4
<1> QED  BY <1>1, <1>6, <1>7

\* The warnings and the notes of an answer with n hypotheses.
WarningsOf(n) == Warnings(Len(evidence), Cardinality(Refs(evidence)), n)

NotesOf(n, steps) ==
  ReportNotes(steps, WarningsOf(n), tainted, n, Refs(evidence))

\* Whether the evidence is limited is told by the warnings.
LEMMA WarningsTell ==
  ASSUME ContentKept, NEW n \in Nat
  PROVE  /\ WarningsOf(n) \in SUBSET Weakenings
         /\ WarningsOf(n) = {} <=>
              n = 0 \/ (Len(evidence) > 0 /\ Refs(evidence) # {})
<1> DEFINE count == Cardinality(Refs(evidence))
<1>1. /\ Len(evidence) \in Nat /\ count \in Nat
      /\ count > 0 <=> Refs(evidence) # {}
  BY RefsCounted
<1>2. WarningsOf(n) = Warnings(Len(evidence), count, n)
  BY DEF WarningsOf
<1> HIDE DEF count
<1> QED  BY <1>1, <1>2, WarningsGiven

\* What the notes of an answer's report tell of it.
LEMMA NotesTell ==
  ASSUME ContentKept, NEW n \in Nat, NEW steps
  PROVE  /\ NotesOf(n, steps) \subseteq Weakenings \cup PolicyNames \cup
              {"no_write", "untrusted", "preliminary", "no_kb"}
         /\ NotesOf(n, steps) \cap Weakenings = WarningsOf(n)
         /\ NotesOf(n, steps) \cap PolicyNames # {} => RequiresApproval(steps)
         /\ "rollback_gated" \in NotesOf(n, steps) <=>
              RequiresApproval(steps) /\ Trigger(steps) = "rollback"
         /\ "no_kb" \in NotesOf(n, steps) <=> Refs(evidence) = {}
<1> DEFINE warnings == WarningsOf(n)
           refs == Refs(evidence)
<1>1. warnings \in SUBSET Weakenings
  BY WarningsTell
<1>2. NotesOf(n, steps) = ReportNotes(steps, warnings, tainted, n, refs)
  BY DEF NotesOf
<1> HIDE DEF warnings, refs
<1>3. /\ NotesOf(n, steps) \subseteq Weakenings \cup PolicyNames \cup
           {"no_write", "untrusted", "preliminary", "no_kb"}
      /\ NotesOf(n, steps) \cap Weakenings = warnings
      /\ NotesOf(n, steps) \cap PolicyNames # {} => RequiresApproval(steps)
      /\ "rollback_gated" \in NotesOf(n, steps) <=>
           RequiresApproval(steps) /\ Trigger(steps) = "rollback"
      /\ "no_kb" \in NotesOf(n, steps) <=> refs = {}
  BY <1>1, <1>2, AnswerNotes
<1> QED  BY <1>3 DEF warnings, refs

\* The report of an answer, by what the answer said.
LEMMA AnswerSays ==
  ASSUME NEW n, NEW steps, IsReportOf(n, steps)
  PROVE  /\ report.hypotheses =
              HypothesisItems(n, WarningsOf(n) # {}, Len(evidence),
                              Cardinality(Refs(evidence)),
                              RefItems(evidence))
         /\ report.steps = StepItems(steps, Recommended(steps))
         /\ report.notes =
              {NoteItem(note) : note \in NotesOf(n, steps)}
                \cup DecisionItems
         /\ NoteNames(report) = NotesOf(n, steps) \cup Verdicts
         /\ report.refs = RefItems(evidence)
         /\ report.unknowns = Unknowns(Refs(evidence), NotesOf(n, steps))
<1> DEFINE full == FullReport(evidence, tainted, n, steps)
<1>1. /\ report.hypotheses = full.hypotheses
      /\ report.steps = full.steps
      /\ report.notes = full.notes \cup DecisionItems
      /\ report.refs = full.refs
      /\ report.unknowns = full.unknowns
  BY AnswerFields
<1>2. /\ full.hypotheses =
           HypothesisItems(n, WarningsOf(n) # {}, Len(evidence),
                           Cardinality(Refs(evidence)), RefItems(evidence))
      /\ full.steps = StepItems(steps, Recommended(steps))
      /\ full.notes = {NoteItem(note) : note \in NotesOf(n, steps)}
      /\ full.refs = RefItems(evidence)
      /\ full.unknowns = Unknowns(Refs(evidence), NotesOf(n, steps))
  BY DEF FullReport, NotesOf, WarningsOf
<1> HIDE DEF full
<1>3. \A note : NoteItem(note).note = note
  BY NoteItems
<1>4. \A i \in DOMAIN verdicts : DecisionItem(verdicts[i]).note = verdicts[i]
  BY DEF DecisionItem
<1>5. NoteNames(report) = NotesOf(n, steps) \cup Verdicts
  BY <1>1, <1>2, <1>3, <1>4 DEF NoteNames, DecisionItems, Verdicts
<1> QED  BY <1>1, <1>2, <1>5

\* The report of an answer has as many hypotheses as the answer.
LEMMA HypothesesCounted ==
  ASSUME NEW n \in Nat, NEW steps, IsReportOf(n, steps)
  PROVE  Len(report.hypotheses) = n
<1> DEFINE items == report.hypotheses
           S == {items[i] : i \in 1..n}
<1>1. items = HypothesisItems(n, WarningsOf(n) # {}, Len(evidence),
                              Cardinality(Refs(evidence)),
                              RefItems(evidence))
  BY AnswerSays
<1>2. DOMAIN items = 1..n /\ items = [i \in 1..n |-> items[i]]
  BY <1>1 DEF HypothesisItems
<1> HIDE DEF items
<1>3. items \in [1..n -> S]
  BY <1>2
<1> HIDE DEF S
<1>4. Len(items) = n
  BY <1>3
<1> QED  BY <1>4 DEF items

\* An answered session has the report of some answer.
LEMMA SomeAnswer ==
  ASSUME ContentKept, Answered
  PROVE  \E n, k \in Nat : \E steps \in [1..k -> Sayings] :
           /\ IsReportOf(n, steps)
           /\ Settled /\ verdicts = << >> => ~RequiresApproval(steps)
<1>1. PICK n \in 0..MaxHypotheses, k \in 0..MaxSteps :
        \E steps \in [1..k -> Sayings] :
          /\ IsReportOf(n, steps)
          /\ Settled /\ verdicts = << >> => ~RequiresApproval(steps)
  BY DEF ContentKept, ReportIsOfItsEvidence
<1>2. n \in Nat /\ k \in Nat
  BY ReportAssumption
<1> QED  BY <1>1, <1>2

\* A session without an answer has no report, or a partial one.
LEMMA NoAnswer ==
  ASSUME ContentKept, ~Answered
  PROVE  \/ ~Settled /\ report = NoReport
         \/ /\ status = "partial_completed"
            /\ \E reason \in Reasons : report = PartialReport(reason)
BY DEF ContentKept, ReportIsOfItsEvidence

\* The notes of a partial report.
LEMMA PartialNotes ==
  ASSUME NEW reason \in Reasons
  PROVE  LET r == PartialReport(reason)
         IN /\ r.notes =
                 {NoteItem(note) : note \in {"degraded", "weak", reason}}
            /\ NoteNames(r) = {"degraded", "weak", reason}
            /\ r.unknowns = {reason}
            /\ NoteItem(reason).type = "uncertainty"
            /\ NoteItem(reason).ref = "report"
<1> DEFINE r == PartialReport(reason)
<1>1. /\ r.notes = {NoteItem(note) : note \in {"degraded", "weak", reason}}
      /\ r.unknowns = {reason}
  BY DEF PartialReport
<1>2. \A note : NoteItem(note).note = note
  BY NoteItems
<1> HIDE DEF r
<1>3. NoteNames(r) = {"degraded", "weak", reason}
  BY <1>1, <1>2 DEF NoteNames
<1>4. reason \notin Weakenings \cup PolicyNames
                      \cup {"no_kb", "untrusted", "degraded"}
  BY DEF Reasons, Weakenings, PolicyNames
<1>5. NoteItem(reason).type = "uncertainty" /\ NoteItem(reason).ref = "report"
  BY <1>4, NoteItems
<1> QED  BY <1>1, <1>3, <1>5 DEF r

-----------------------------------------------------------------------------
(* The theorems. *)

\* The report is always made of the evidence and of one answer, with the
\* decision added, or it says why there is none.
THEOREM ReportIsOfItsEvidenceHolds == ReportSpec => []ReportIsOfItsEvidence
<1>1. ContentKept => ReportIsOfItsEvidence
  BY DEF ContentKept
<1> QED  BY <1>1, ContentAlwaysKept, PTL

\* The flagged steps of an answer are the recommended one.
LEMMA FlaggedSteps ==
  ASSUME NEW steps, report.steps = StepItems(steps, Recommended(steps)),
         Flagged(report)
  PROVE  {report.steps[i].action :
            i \in {j \in DOMAIN report.steps : report.steps[j].flagged}}
           = {Recommended(steps)}
<1>1. DOMAIN report.steps = DOMAIN steps
  BY DEF StepItems
<1>2. ASSUME NEW i \in DOMAIN steps
      PROVE  /\ report.steps[i].action = steps[i]
             /\ report.steps[i].flagged <=> (steps[i] = Recommended(steps))
  <2> DEFINE asked == steps[i] = Recommended(steps)
  <2>1. report.steps[i] = [action |-> steps[i], flagged |-> asked]
    BY Zenon DEF StepItems
  <2> HIDE DEF asked
  <2>2. report.steps[i].flagged = asked /\ report.steps[i].action = steps[i]
    BY <2>1
  <2> QED  BY <2>2 DEF asked
<1>3. \E i \in DOMAIN steps : steps[i] = Recommended(steps)
  BY <1>1, <1>2 DEF Flagged
<1> QED  BY <1>1, <1>2, <1>3, Zenon

\* A request asks about the flagged step, and describes the report.
LEMMA RequestAgrees ==
  ASSUME ContentKept
  PROVE  RequestAgreesWithReport
<1> SUFFICES ASSUME status = "waiting_approval"
             PROVE  RequestAgreesWithReport
  BY DEF RequestAgreesWithReport
<1>1. /\ Answered /\ Flagged(report) /\ verdicts = << >>
      /\ Flagged(report) <=> RequiresApproval(Actions(report))
  BY DEF ContentKept, RefsKept, GateKept, Reported
<1>2. PICK n, k \in Nat : \E steps \in [1..k -> Sayings] : IsReportOf(n, steps)
  BY <1>1, SomeAnswer
<1>3. PICK steps \in [1..k -> Sayings] : IsReportOf(n, steps)
  BY <1>2
<1>4. /\ Actions(report) = steps
      /\ RequiresApproval(steps)
  BY <1>1, <1>2, <1>3, AnswerActions
<1>5. request = ApprovalRequest(steps, Weak(evidence, report))
  BY <1>4 DEF ContentKept, Asked
<1>6. /\ request.action = Recommended(steps)
      /\ request.reason = ApprovalReason(Trigger(steps))
      /\ request.limited = Weak(evidence, report)
  BY <1>5 DEF ApprovalRequest
<1>7. {report.steps[i].action :
         i \in {j \in DOMAIN report.steps : report.steps[j].flagged}}
        = {request.action}
  BY <1>1, <1>3, <1>6, AnswerSays, FlaggedSteps
<1>8. NoteNames(report) = NotesOf(n, steps)
  <2>1. Verdicts = {}
    BY <1>1 DEF Verdicts
  <2> QED  BY <1>3, <2>1, AnswerSays
<1>9. (request.reason = "rollback")
        <=> ("rollback_gated" \in NoteNames(report))
  <2>1. "rollback_gated" \in NotesOf(n, steps) <=>
          RequiresApproval(steps) /\ Trigger(steps) = "rollback"
    BY <1>2, NotesTell
  <2> QED  BY <1>4, <1>6, <1>8, <2>1 DEF ApprovalReason
<1>10. request.limited <=> (NoteNames(report) \cap Weakenings # {})
  <2>1. NotesOf(n, steps) \cap Weakenings = WarningsOf(n)
    BY <1>2, NotesTell
  <2>2. Len(report.hypotheses) = n
    BY <1>2, <1>3, HypothesesCounted
  <2>3. Weak(evidence, report) <=> WarningsOf(n) # {}
    BY <2>2 DEF Weak, WarningsOf
  <2> QED  BY <1>6, <1>8, <2>1, <2>3
<1> QED  BY <1>7, <1>9, <1>10 DEF RequestAgreesWithReport, Weakenings

\* While a human is asked, the step in question is the one flagged, and the
\* request and the report's notes describe it alike.
THEOREM RequestAgreesWithReportHolds ==
  ReportSpec => []RequestAgreesWithReport
BY RequestAgrees, ContentAlwaysKept, PTL

\* The notes of a report refer to steps the trace has.
LEMMA NotesRefer ==
  ASSUME ContentKept
  PROVE  NotesResolve
<1> SUFFICES ASSUME Settled \/ status = "waiting_approval",
                    NEW item \in report.notes
             PROVE  \/ item.ref \in trace \cup {"report"}
                    \/ /\ item.note = "weak"
                       /\ "degraded" \in NoteNames(report)
  BY DEF NotesResolve
<1>1. Traced
  BY DEF ContentKept
<1>2. CASE Answered
  <2>1. PICK n, k \in Nat : \E steps \in [1..k -> Sayings] :
          /\ IsReportOf(n, steps)
          /\ Settled /\ verdicts = << >> => ~RequiresApproval(steps)
    BY <1>2, SomeAnswer
  <2>2. PICK steps \in [1..k -> Sayings] :
          /\ IsReportOf(n, steps)
          /\ Settled /\ verdicts = << >> => ~RequiresApproval(steps)
    BY <2>1
  <2>3. /\ "sanitization_check" \in trace
        /\ "groundedness_check" \in trace
        /\ RequiresApproval(steps) => "policy_check" \in trace
    BY <1>1, <1>2, <2>2 DEF Traced, Decided
  <2>4. CASE item \in DecisionItems
    <3>1. PICK i \in DOMAIN verdicts : item = DecisionItem(verdicts[i])
      BY <2>4 DEF DecisionItems
    <3>2. item.ref = "approval_decision" /\ Decided
      BY <3>1 DEF DecisionItem, Decided
    <3> QED  BY <1>1, <3>2 DEF Traced
  <2>5. CASE item \in {NoteItem(note) : note \in NotesOf(n, steps)}
    <3>1. PICK note \in NotesOf(n, steps) : item = NoteItem(note)
      BY <2>5
    <3>2. note \in Weakenings \cup PolicyNames \cup
            {"no_write", "untrusted", "preliminary", "no_kb"}
      BY <2>1, <3>1, NotesTell
    <3>3. note \in PolicyNames => RequiresApproval(steps)
      BY <2>1, <3>1, NotesTell
    <3>4. CASE note \in Weakenings \cup {"no_kb"}
      BY <2>3, <3>1, <3>4, NoteItems
    <3>5. CASE note = "untrusted"
      BY <2>3, <3>1, <3>5, NoteItems
    <3>6. CASE note \in PolicyNames
      BY <2>3, <3>1, <3>3, <3>6, NoteItems
    <3>7. CASE note \in {"no_write", "preliminary"}
      <4>1. note \notin Weakenings \cup PolicyNames
                          \cup {"no_kb", "untrusted", "degraded"}
        BY <3>7 DEF Weakenings, PolicyNames
      <4> QED  BY <3>1, <4>1, NoteItems
    <3> QED  BY <3>2, <3>4, <3>5, <3>6, <3>7
  <2> QED  BY <2>1, <2>2, <2>4, <2>5, AnswerSays
<1>3. CASE ~Answered
  <2>1. Settled /\ "degradation" \in trace
    BY <1>1, <1>3
       DEF Traced, ContentKept, RefsKept, GateKept, Reported
  <2>2. PICK reason \in Reasons : report = PartialReport(reason)
    BY <1>3, <2>1, NoAnswer
  <2>3. PICK note \in {"degraded", "weak", reason} : item = NoteItem(note)
    BY <2>2, PartialNotes
  <2>4. CASE note = "degraded"
    BY <2>1, <2>3, <2>4, NoteItems
  <2>5. CASE note = "weak"
    BY <2>2, <2>3, <2>5, NoteItems, PartialNotes
  <2>6. CASE note = reason
    BY <2>2, <2>3, <2>6, PartialNotes
  <2> QED  BY <2>3, <2>4, <2>5, <2>6
<1> QED  BY <1>2, <1>3

\* Once the triage is over, a safety note refers to the report or to a step
\* in the session's trace, whatever the answer and whoever decided.
THEOREM NotesResolveHolds == ReportSpec => []NotesResolve
BY NotesRefer, ContentAlwaysKept, PTL

\* The items of the hypotheses, for every number of them.
LEMMA HypothesisFacts ==
  ASSUME NEW n \in Nat, NEW weak \in BOOLEAN, NEW observations \in Nat,
         NEW refs \in Nat, NEW ids, NEW items,
         items = HypothesisItems(n, weak, observations, refs, ids)
  PROVE  /\ DOMAIN items = 1..n
         /\ \A i \in 1..n :
              /\ items[i].confidence \in 30..82
              /\ items[i].status = "active" <=> ~weak /\ i <= 2
              /\ \A j \in 1..n : i < j =>
                   items[j].confidence <= items[i].confidence
<1>1. DOMAIN items = 1..n
  BY DEF HypothesisItems
<1>2. ASSUME NEW i \in 1..n
      PROVE  /\ items[i].confidence = Confidence(i, weak, observations, refs)
             /\ items[i].status = HypothesisStatus(i, weak)
  BY DEF HypothesisItems
<1>3. \A i \in 1..n : items[i].status = "active" <=> ~weak /\ i <= 2
  BY <1>2 DEF HypothesisStatus
<1>4. ASSUME NEW i \in 1..n, NEW j \in 1..n, i <= j
      PROVE  /\ items[j].confidence \in 30..82
             /\ items[j].confidence <= items[i].confidence
  <2>1. i \in Nat \ {0} /\ j \in Nat
    OBVIOUS
  <2>2. /\ Confidence(j, weak, observations, refs) \in 30..82
        /\ Confidence(j, weak, observations, refs)
             <= Confidence(i, weak, observations, refs)
    BY <1>4, <2>1, ConfidenceFalls
  <2> QED  BY <1>2, <2>2
<1>5. \A i, j \in 1..n : i < j => i <= j
  OBVIOUS
<1>6. \A i \in 1..n : i <= i
  OBVIOUS
<1> QED  BY <1>1, <1>3, <1>4, <1>5, <1>6

\* The hypotheses of a session's report: those of an answer, of which one is
\* active exactly when there are observations and references; one weakened
\* hypothesis of a partial report; or none.
LEMMA ReportHypotheses ==
  ASSUME ContentKept
  PROVE  \E n \in Nat, weak \in BOOLEAN, observations, refs \in Nat : \E ids :
           /\ report.hypotheses =
                HypothesisItems(n, weak, observations, refs, ids)
           /\ ~weak /\ n > 0 =>
                /\ Answered
                /\ Len(evidence) > 0
                /\ Refs(evidence) # {}
                /\ \A item \in report.notes : item.type # "groundedness"
<1>1. CASE Answered
  <2>1. PICK n, k \in Nat : \E steps \in [1..k -> Sayings] :
          IsReportOf(n, steps)
    BY <1>1, SomeAnswer
  <2>2. PICK steps \in [1..k -> Sayings] : IsReportOf(n, steps)
    BY <2>1
  <2> DEFINE weak == WarningsOf(n) # {}
             count == Cardinality(Refs(evidence))
  <2>3. /\ report.hypotheses = HypothesisItems(n, weak, Len(evidence), count,
                                               RefItems(evidence))
        /\ report.notes = {NoteItem(note) : note \in NotesOf(n, steps)}
                            \cup DecisionItems
    BY <2>2, AnswerSays
  <2>4. weak \in BOOLEAN /\ count \in Nat /\ Len(evidence) \in Nat
    BY RefsCounted
  <2>5. ASSUME ~weak, n > 0
        PROVE  /\ Len(evidence) > 0
               /\ Refs(evidence) # {}
               /\ \A item \in report.notes : item.type # "groundedness"
    <3>1. Len(evidence) > 0 /\ Refs(evidence) # {}
      BY <2>1, <2>5, WarningsTell
    <3>2. NotesOf(n, steps) \subseteq PolicyNames \cup
            {"no_write", "untrusted", "preliminary"}
      BY <2>1, <2>5, <3>1, NotesTell
    <3>3. ASSUME NEW note \in NotesOf(n, steps)
          PROVE  NoteItem(note).type # "groundedness"
      <4>1. CASE note = "untrusted"
        BY <4>1, NoteItems
      <4>2. CASE note \in PolicyNames
        BY <4>2, NoteItems
      <4>3. CASE note \in {"no_write", "preliminary"}
        <5>1. note \notin Weakenings \cup PolicyNames
                            \cup {"no_kb", "untrusted", "degraded"}
          BY <4>3 DEF Weakenings, PolicyNames
        <5> QED  BY <5>1, NoteItems
      <4> QED  BY <3>2, <4>1, <4>2, <4>3
    <3>4. \A item \in DecisionItems : item.type = "policy"
      BY DEF DecisionItems, DecisionItem
    <3> QED  BY <2>3, <3>1, <3>3, <3>4
  <2> HIDE DEF weak, count
  <2> QED  BY <1>1, <2>1, <2>3, <2>4, <2>5
<1>2. CASE \E reason \in Reasons : report = PartialReport(reason)
  <2>1. report.hypotheses = HypothesisItems(1, TRUE, 0, 0, {})
    BY <1>2 DEF PartialReport
  <2> QED  BY <2>1
<1>3. CASE report = NoReport
  <2>1. report.hypotheses = HypothesisItems(0, TRUE, 0, 0, {})
    BY <1>3 DEF NoReport, HypothesisItems
  <2> QED  BY <2>1
<1> QED  BY <1>1, <1>2, <1>3, NoAnswer

\* The context says what the first tool found, whatever its limit.
LEMMA FirstToolKnown ==
  ASSUME NEW seen, 1 \in DOMAIN seen, seen[1].ok
  PROVE  SessionContext(seen).known # {}
<1> DEFINE good == {j \in 1..1 : seen[j].ok}
           known == {i \in DOMAIN seen :
                      /\ seen[i].ok
                      /\ Cardinality({j \in 1..i : seen[j].ok})
                           <= MaxObservations}
<1>1. good = {1}
  OBVIOUS
<1>2. Cardinality(good) = 1 /\ 1 <= MaxObservations
  BY <1>1, FS_Singleton, ReportAssumption
<1>3. 1 \in known
  BY <1>2
<1> HIDE DEF known
<1>4. SessionContext(seen).known = {seen[i].tool : i \in known}
  BY DEF SessionContext, known
<1> QED  BY <1>3, <1>4

\* A hypothesis is active for the reasons the report has.
LEMMA ActiveReasons ==
  ASSUME ContentKept
  PROVE  ActiveIsGrounded
<1>1. PICK n \in Nat, weak \in BOOLEAN, observations, refs \in Nat : \E ids :
        /\ report.hypotheses =
             HypothesisItems(n, weak, observations, refs, ids)
        /\ ~weak /\ n > 0 =>
             /\ Answered
             /\ Len(evidence) > 0
             /\ Refs(evidence) # {}
             /\ \A item \in report.notes : item.type # "groundedness"
  BY ReportHypotheses
<1> DEFINE items == report.hypotheses
<1>2. /\ DOMAIN items = 1..n
      /\ \A i \in 1..n :
           /\ items[i].status = "active" <=> ~weak /\ i <= 2
           /\ \A j \in 1..n : i < j =>
                items[j].confidence <= items[i].confidence
  BY <1>1, HypothesisFacts
<1>3. ASSUME ~weak, n > 0
      PROVE  context.refs # {} /\ context.known # {}
  <2>1. context = SessionContext(evidence)
    BY <1>1, <1>3 DEF ContentKept, ContextMade
  <2>2. context.refs # {}
    BY <1>1, <1>3, <2>1, ShownRefs DEF ContentKept, RefsKept
  <2>3. context.known # {}
    BY <1>1, <1>3, <2>1, RefsCounted, FirstToolKnown
  <2> QED  BY <2>2, <2>3
<1>4. \A i \in 1..n : n > 0
  BY <1>1
<1> HIDE DEF items
<1>5. \A i \in DOMAIN items :
        items[i].status = "active" =>
          /\ context.refs # {}
          /\ context.known # {}
          /\ \A item \in report.notes : item.type # "groundedness"
  BY <1>1, <1>2, <1>3, <1>4
<1>6. \A i, j \in DOMAIN items :
        i < j => items[j].confidence <= items[i].confidence
  BY <1>2
<1> QED  BY <1>5, <1>6 DEF ActiveIsGrounded, items

\* For every limit of the context and every length of an answer: a hypothesis
\* is active only when the LLM was shown a reference, some tool succeeded and
\* the report warns of nothing, and confidence falls from one to the next.
THEOREM ActiveIsGroundedHolds == ReportSpec => []ActiveIsGrounded
BY ActiveReasons, ContentAlwaysKept, PTL

\* A step item is flagged, or not.
LEMMA StepItemsTyped ==
  ASSUME NEW steps, NEW recommended, NEW items,
         items = StepItems(steps, recommended)
  PROVE  \A i \in DOMAIN items : items[i].flagged \in BOOLEAN
<1> SUFFICES ASSUME NEW i \in DOMAIN items
             PROVE  items[i].flagged \in BOOLEAN
  OBVIOUS
<1> DEFINE asked == steps[i] = recommended
<1>1. i \in DOMAIN steps
  BY DEF StepItems
<1>2. items[i] = [action |-> steps[i], flagged |-> asked]
  BY <1>1, Zenon DEF StepItems
<1>3. asked \in BOOLEAN
  OBVIOUS
<1> HIDE DEF asked
<1> QED  BY <1>2, <1>3

\* Every value of a session has its type.
LEMMA Typed ==
  ASSUME ContentKept
  PROVE  ReportTypeOK
<1>1. evidence \in Seq(Outcomes) /\ InOrder
  BY DEF ContentKept, RefsKept
<1>2. \A i \in DOMAIN evidence : /\ evidence[i].tool = Tools[i]
                                 /\ evidence[i].ok \in BOOLEAN
                                 /\ evidence[i].refs \subseteq {"runbook.md"}
  <2>1. \A outcome \in Outcomes : /\ outcome.ok \in BOOLEAN
                                  /\ outcome.refs \subseteq {"runbook.md"}
    BY DEF Outcomes
  <2>2. \A i \in DOMAIN evidence : evidence[i] \in Outcomes
    BY <1>1
  <2> QED  BY <1>1, <2>1, <2>2 DEF InOrder
<1>3. context.refs \subseteq {"runbook.md"}
  <2>1. SessionContext(<< >>).refs = {}
    BY DEF SessionContext, Shown
  <2>2. SessionContext(evidence).refs = Refs(evidence)
    BY ShownRefs DEF ContentKept, RefsKept
  <2>3. Refs(evidence) \subseteq {"runbook.md"}
    BY <1>2 DEF Refs
  <2> QED  BY <2>1, <2>2, <2>3 DEF ContentKept, ContextMade
<1>4. \A i \in DOMAIN report.hypotheses :
        report.hypotheses[i].confidence \in 30..82
  <2>1. PICK n \in Nat, weak \in BOOLEAN, observations, refs \in Nat : \E ids :
          report.hypotheses =
            HypothesisItems(n, weak, observations, refs, ids)
    BY ReportHypotheses
  <2>2. /\ DOMAIN report.hypotheses = 1..n
        /\ \A i \in 1..n : report.hypotheses[i].confidence \in 30..82
    BY <2>1, HypothesisFacts
  <2> QED  BY <2>2
<1>5. \A i \in DOMAIN report.steps : report.steps[i].flagged \in BOOLEAN
  <2>1. CASE Answered
    <3>1. PICK n, k \in Nat : \E steps \in [1..k -> Sayings] :
            IsReportOf(n, steps)
      BY <2>1, SomeAnswer
    <3>2. PICK steps \in [1..k -> Sayings] : IsReportOf(n, steps)
      BY <3>1
    <3>3. report.steps = StepItems(steps, Recommended(steps))
      BY <3>2, AnswerSays
    <3> QED  BY <3>3, StepItemsTyped
  <2>2. CASE \E reason \in Reasons : report = PartialReport(reason)
    <3>1. report.steps = StepItems(<<{"collect"}>>, NoStep)
      BY <2>2 DEF PartialReport
    <3> QED  BY <3>1, StepItemsTyped
  <2>3. CASE report = NoReport
    BY <2>3 DEF NoReport
  <2> QED  BY <2>1, <2>2, <2>3, NoAnswer
<1>6. /\ status \in Statuses
      /\ tainted \in BOOLEAN
      /\ verdicts \in {<< >>, <<"approved">>, <<"rejected">>}
  BY DEF ContentKept, RefsKept, GateKept
<1> QED  BY <1>2, <1>3, <1>4, <1>5, <1>6 DEF ReportTypeOK

\* Every value has its type, and every confidence is one the code may give,
\* for every length of an answer.
THEOREM ReportTypeOKHolds == ReportSpec => []ReportTypeOK
BY Typed, ContentAlwaysKept, PTL

\* The standing notes that state a gap are among the unknowns of an answer.
LEMMA UnknownNotes ==
  ASSUME NEW refs, NEW notes,
         NEW note \in notes,
         note \in Weakenings \cup {"no_kb", "untrusted"}
  PROVE  note \in Unknowns(refs, notes)
<1> DEFINE gaps == {"insufficient", "unavailable", "incomplete",
                    "groundedness", "corroborat", "untrusted"}
<1>1. NoteWords(note) \cap gaps # {}
  <2>1. CASE note \in {"weak", "limited_no_refs"}
    BY <2>1 DEF NoteWords
  <2>2. CASE note = "limited_no_obs"
    BY <2>2 DEF NoteWords
  <2>3. CASE note = "no_kb"
    BY <2>3 DEF NoteWords
  <2>4. CASE note = "untrusted"
    BY <2>4 DEF NoteWords
  <2> QED  BY <2>1, <2>2, <2>3, <2>4 DEF Weakenings
<1>2. note \in {m \in notes : NoteWords(m) \cap gaps # {}}
  BY <1>1
<1> QED  BY <1>2 DEF Unknowns

\* What an answer's notes say of a gap is served.
LEMMA AnswerGaps ==
  ASSUME ContentKept, Answered,
         NEW item \in report.notes,
         item.type \in {"groundedness", "sanitization"}
  PROVE  item.note \in ServedUnknowns
<1>1. PICK n, k \in Nat : \E steps \in [1..k -> Sayings] : IsReportOf(n, steps)
  BY SomeAnswer
<1>2. PICK steps \in [1..k -> Sayings] : IsReportOf(n, steps)
  BY <1>1
<1>3. item \notin DecisionItems
  BY DEF DecisionItems, DecisionItem
<1>4. PICK note \in NotesOf(n, steps) : item = NoteItem(note)
  BY <1>2, <1>3, AnswerSays
<1>5. note \in Weakenings \cup {"no_kb", "untrusted"}
  <2>1. note \in Weakenings \cup PolicyNames \cup
          {"no_write", "untrusted", "preliminary", "no_kb"}
    BY <1>1, <1>4, NotesTell
  <2>2. note \notin PolicyNames
    BY <1>4, NoteItems
  <2>3. ASSUME note \in {"no_write", "preliminary"}
        PROVE  FALSE
    <3>1. note \notin Weakenings \cup PolicyNames
                        \cup {"no_kb", "untrusted", "degraded"}
      BY <2>3 DEF Weakenings, PolicyNames
    <3>2. item.type = "uncertainty"
      BY <1>4, <3>1, NoteItems
    <3> QED  BY <3>2
  <2> QED  BY <2>1, <2>2, <2>3
<1>6. report.unknowns = Unknowns(Refs(evidence), NotesOf(n, steps))
  BY <1>2, AnswerSays
<1>7. note \in report.unknowns
  BY <1>4, <1>5, <1>6, UnknownNotes
<1>8. item.note = note
  BY <1>4, NoteItems
<1> QED  BY <1>7, <1>8 DEF ServedUnknowns

\* What is missing is served, for every report.
LEMMA GapsServed ==
  ASSUME ContentKept
  PROVE  GapsAreStated
<1>1. ASSUME ~Answered, Settled
      PROVE  /\ ServedUnknowns # {}
             /\ \A item \in report.notes :
                  item.type \in {"groundedness", "sanitization"} =>
                    item.note = "weak"
  <2>1. PICK reason \in Reasons : report = PartialReport(reason)
    BY <1>1, NoAnswer
  <2>2. /\ report.unknowns = {reason}
        /\ report.notes = {NoteItem(note) : note \in
                            {"degraded", "weak", reason}}
        /\ NoteItem(reason).type = "uncertainty"
    BY <2>1, PartialNotes
  <2>3. /\ NoteItem("degraded").type = "degradation"
        /\ NoteItem("weak").note = "weak"
    BY NoteItems
  <2> QED  BY <2>2, <2>3 DEF ServedUnknowns
<1>2. ASSUME Answered, status = "partial_completed"
      PROVE  ServedUnknowns # {}
  <2>1. PICK n, k \in Nat : \E steps \in [1..k -> Sayings] :
          IsReportOf(n, steps)
    BY <1>2, SomeAnswer
  <2>2. PICK steps \in [1..k -> Sayings] : IsReportOf(n, steps)
    BY <2>1
  <2>3. "no_write" \in NotesOf(n, steps)
    BY DEF NotesOf, ReportNotes, PolicyNotes
  <2>4. NoteNames(report) # {}
    BY <2>2, <2>3, AnswerSays
  <2> QED  BY <1>2, <2>4 DEF ServedUnknowns
<1>3. status = "partial_completed" => ServedUnknowns # {}
  BY <1>1, <1>2 DEF Settled
<1>4. Settled =>
        {n.note : n \in {m \in report.notes :
           m.type \in {"groundedness", "sanitization"}}}
          \subseteq ServedUnknowns \cup {"weak"}
  BY <1>1, AnswerGaps
<1> QED  BY <1>3, <1>4 DEF GapsAreStated

\* A partial result says what is missing, and whatever the notes say of
\* limited evidence or untrusted text is served as unknown.
THEOREM GapsAreStatedHolds == ReportSpec => []GapsAreStated
BY GapsServed, ContentAlwaysKept, PTL

\* An answer's notes speak of corroboration exactly when its evidence is
\* limited, once it has a hypothesis.
LEMMA LegacyWeakTells ==
  ASSUME ContentKept, NEW n \in Nat \ {0}, NEW steps, IsReportOf(n, steps)
  PROVE  LegacyWeak <=> WarningsOf(n) # {}
<1> DEFINE weak_words(note) ==
             NoteWords(note) \cap {"groundedness", "corroborat"} # {}
<1>1. NoteNames(report) = NotesOf(n, steps) \cup Verdicts
  BY AnswerSays
<1>2. \A note \in Weakenings \cup {"no_kb"} : weak_words(note)
  <2> SUFFICES ASSUME NEW note \in Weakenings \cup {"no_kb"}
               PROVE  weak_words(note)
    OBVIOUS
  <2>1. CASE note \in {"weak", "limited_no_refs"}
    BY <2>1 DEF NoteWords
  <2>2. CASE note = "limited_no_obs"
    BY <2>2 DEF NoteWords
  <2>3. CASE note = "no_kb"
    BY <2>3 DEF NoteWords
  <2> QED  BY <2>1, <2>2, <2>3 DEF Weakenings
<1>3. \A note \in PolicyNames \cup {"no_write", "untrusted", "preliminary",
                                   "approved", "rejected"} : ~weak_words(note)
  <2> SUFFICES ASSUME NEW note \in PolicyNames \cup
                        {"no_write", "untrusted", "preliminary", "approved",
                         "rejected"}
               PROVE  ~weak_words(note)
    OBVIOUS
  <2>1. CASE note \in PolicyNames
    BY <2>1 DEF NoteWords, PolicyNames
  <2>2. CASE note = "untrusted"
    BY <2>2 DEF NoteWords
  <2>3. CASE note \in {"no_write", "preliminary", "approved", "rejected"}
    BY <2>3 DEF NoteWords
  <2> QED  BY <2>1, <2>2, <2>3
<1>4. Verdicts \subseteq {"approved", "rejected"}
  BY DEF Verdicts, ContentKept
<1>5. /\ NotesOf(n, steps) \subseteq Weakenings \cup PolicyNames \cup
           {"no_write", "untrusted", "preliminary", "no_kb"}
      /\ NotesOf(n, steps) \cap Weakenings = WarningsOf(n)
      /\ "no_kb" \in NotesOf(n, steps) <=> Refs(evidence) = {}
  BY NotesTell
<1>6. Refs(evidence) = {} => WarningsOf(n) # {}
  BY WarningsTell
<1>7. LegacyWeak <=> \E note \in NoteNames(report) : weak_words(note)
  BY DEF LegacyWeak
<1> HIDE DEF weak_words
<1> QED  BY <1>1, <1>2, <1>3, <1>4, <1>5, <1>6, <1>7

\* The views of a report stored without items.
LEMMA LegacyAgrees ==
  ASSUME ContentKept
  PROVE  LegacyViewAgrees
<1> SUFFICES ASSUME Answered
             PROVE  LegacyViewAgrees
  BY DEF LegacyViewAgrees
<1>1. PICK n, k \in Nat : \E steps \in [1..k -> Sayings] : IsReportOf(n, steps)
  BY SomeAnswer
<1>2. PICK steps \in [1..k -> Sayings] : IsReportOf(n, steps)
  BY <1>1
<1>3. LegacySteps = report.steps
  <2>1. Actions(report) = steps /\ DOMAIN report.steps = DOMAIN steps
    BY <1>1, <1>2, AnswerActions DEF Actions
  <2>2. report.steps = StepItems(steps, Recommended(steps))
    BY <1>2, AnswerSays
  <2> QED  BY <2>1, <2>2, Zenon DEF LegacySteps, StepItems
<1> DEFINE weak == WarningsOf(n) # {}
           count == Cardinality(Refs(evidence))
           items == report.hypotheses
<1>4. items = HypothesisItems(n, weak, Len(evidence), count,
                              RefItems(evidence))
  BY <1>2, AnswerSays
<1>5. weak \in BOOLEAN /\ count \in Nat /\ Len(evidence) \in Nat
  BY RefsCounted
<1> HIDE DEF weak, count, items
<1>6. /\ DOMAIN items = 1..n
      /\ \A i \in 1..n : items[i].status = "active" <=> ~weak /\ i <= 2
  BY <1>1, <1>4, <1>5, HypothesisFacts
<1>7. (\E i \in DOMAIN items : items[i].status = "active") <=> n > 0 /\ ~weak
  <2>1. n > 0 => 1 \in 1..n /\ 1 <= 2
    BY <1>1
  <2>2. \A i \in 1..n : n > 0
    BY <1>1
  <2> QED  BY <1>6, <2>1, <2>2
<1>8. /\ DOMAIN LegacyHypotheses = 1..n
      /\ \A i \in 1..n :
           LegacyHypotheses[i].status = "active" <=> ~LegacyWeak /\ i = 1
  BY <1>6 DEF LegacyHypotheses, items
<1>9. (\E i \in DOMAIN LegacyHypotheses :
         LegacyHypotheses[i].status = "active") <=> n > 0 /\ ~LegacyWeak
  <2>1. n > 0 => 1 \in 1..n
    BY <1>1
  <2>2. \A i \in 1..n : n > 0
    BY <1>1
  <2> QED  BY <1>8, <2>1, <2>2
<1>10. n > 0 => (LegacyWeak <=> weak)
  <2>1. n > 0 => n \in Nat \ {0}
    BY <1>1
  <2> QED  BY <1>2, <2>1, LegacyWeakTells DEF weak
<1> QED  BY <1>3, <1>7, <1>9, <1>10 DEF LegacyViewAgrees, items

\* The view of a report stored without items agrees with the items on the
\* step that waits for approval, and on whether every hypothesis is weakened.
THEOREM LegacyViewAgreesHolds == ReportSpec => []LegacyViewAgrees
BY LegacyAgrees, ContentAlwaysKept, PTL
=============================================================================

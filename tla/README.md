# A verification project for the AgentOps triage service

The service takes an operational incident (`POST /incident`), runs a bounded
investigation (three tools, one LLM call), and ends with a full report, with a
degraded one, or, when the report recommends a risky action, behind an approval
gate that a human resolves (`POST /sessions/{id}/approval`). The modules here
model that control, TLC checks it on small instances, and TLAPS proves every
invariant and action property of the passing runs for every value of the
constants: the approval gate, the progress of a triage, the audit trail, the
counters, the clock, what a report shows, and that the service implements its
abstract specification.

## 1. Inventory

Paths are relative to `src/src/` unless they say otherwise.

| Part | State it keeps | Operations | What makes it correct |
|---|---|---|---|
| Status machine (`domain/enums.py`, `orchestrator/transitions.py`) | none | `can_transition`, `validate_transition`, `is_terminal_status` | no status change outside the table |
| In-memory repository (`persistence/repository.py`) | sessions, traces, in the process | create, update_status, add_tool_call, add_observation, update_session_state, update_investigation_plan, set_final_report, set_approval_request, apply_approval, append_trace | derived fields follow the status; the trace tells how the status was reached |
| SQLite repository (`persistence/sqlite_repository.py`, `db.py`, `models.py`) | the same, one row per session and one per trace step, durable | the same, each one load-change-commit | the same, and what is committed before a crash is a consistent prefix |
| Triage orchestrator (`orchestrator/service.py`, `budget.py`) | locals of a coroutine per session: budget, tool outcome, LLM output | `run_initial_triage`, `_run_tool`, `_finalize_partial`, `_update_status` | risky results are gated, every triage ends, evidence, budget and outcome agree |
| Clock and retries (`service.py` 448-610, `budget.py`) | `tool_calls_used`, start time, attempt | `_execute_tool_with_retry`, budget checks, LLM `wait_for` | bounded overrun, bounded attempts |
| Approval (`api/routes/incident.py`, `apply_approval`) | in the repository | one synchronous call | the first valid decision wins, all others change nothing |
| HTTP application (`api/app.py`) | the repository singleton, request counters | lifespan, middleware, exception handlers | an answered session is a settled one |
| Metrics registry (`observability/metrics.py`) | counters | increment, observe_latency | each session counted once, where it ended; calls, fallbacks and blocks agree with what the traces say |
| LLM adapters (`llm/`) | none | `analyze` with its own retries and fallback | always answers, times out or raises; its retries stay within the caller's timeout |
| Policy and report (`safety/policy.py`, `orchestrator/report_builder.py`) | none | risky-step matching, report building, approval request | the report shows what the gate acted on |
| Context (`orchestrator/context.py`) | none | selection and truncation of evidence | bounded context with the evidence the report cites |
| Tools (`tools/`) | synthetic data | `execute` | success or typed failure |
| Groundedness (`safety/groundedness.py`) | none | warnings from the amount of evidence | a claim without evidence is never shown as active |
| Redaction, sanitization (`safety/`) | counters | pure functions of text | - |
| Health (`api/routes/health.py`) | none | readiness from counters | "degraded" is explained by a session |
| Serializers (`api/serializers.py`) | none | what a client sees of a session | gaps and pending requests are shown, old reports read alike |
| Prompts, contracts, logging, evaluation scripts | none | formatting and drivers | - |

**How they interact.** One asyncio event loop runs everything. A request for a
new session creates the row and awaits `run_initial_triage`, a coroutine which
calls the (synchronous) repository directly and gives up the loop at two kinds
of awaits only: a tool call with its retries, and the LLM call. Approvals are a
single synchronous call. The sessions share the repository, the loop and the
counters. An exception that leaves the coroutine becomes a 500; the row stays as
the last repository call left it.

**What is hard.** Triages, approvals and crashes interleave at the awaits; each
repository call is a commit of its own, so a crash or a failing commit cuts a
triage between any two of them; `_run_tool` may finalize the session and return
to a caller which does not look; a budget is checked at some points and spent at
others; timeouts, backoffs and a late loop add up; the two repositories write
the same decision differently. `PROJECT.json` lists every hazard at its line
with the properties that would catch it going wrong.

## 2. Modules

In the order in which they were written, each extending the ones before it:

| Module | Models |
|---|---|
| `SessionStatus` | the statuses, `ALLOWED_TRANSITIONS`, terminal statuses |
| `SessionRecord` | the fields of a stored session the control depends on, its trace, the derived fields (`Sync` is `_sync_session_state`) |
| `InMemoryRepository`, `SQLiteRepository` | for every method that writes, the row it leaves behind (`Mem...`, `Sql...`) |
| `SessionRepository` | the protocol: the constant `Backend` chooses one of the two, as `factory.py` does |
| `TriageOrchestrator` | the whole service: triages, approvals, failing commits, restarts |
| `SessionLifecycle` | the abstract specification: what a client may rely on about a session, with no steps of the triage in it |
| `TriageProperties` | the properties, the inductive invariant and the refinement mapping |
| `TriageClock` | the time one triage takes, the LLM adapter's retries included |
| `TriageReport` | what the report of one session says: context, policy, groundedness, report, approval request, decision, served views |
| `MCTriage` | the instances for TLC |
| `RepositoryProofs`, `TriageProofs` | proofs: what the repositories' methods keep, and the approval gate |
| `ProgressProofs` | proofs: what each step of a triage does, kind by kind; evidence, results, requests, answers |
| `LifecycleProofs` | proofs: the refinement of `SessionLifecycle`, and the audit trail |
| `MetricsProofs` | proofs: the counters against sessions and traces |
| `ClockProofs` | proofs: the clock |
| `ReportProofs`, `ReportContentProofs` | proofs: decision, references and refinement of the report; what a report is made of and what follows |

Operators whose comment begins with "Mutant of" are deliberately wrong variants
of the definition after them. They are used by no specification: they are there
to show that each property fails when the code is wrong in that way.

### `TriageOrchestrator` and the code

`task[s]` holds the locals of session `s`'s coroutine, `task[s].pc` the step it
comes to next, and `loop` the session whose coroutine holds the event loop. One
action stands for one repository call with the guards before it and the counters
and control flow after it, for one await, or for one exception:

* `run_initial_triage` in the order of its lines: `SyncBudget`, `Validate`,
  `Planning`, `StorePlan`, the preflight check (`BudgetSpentAtStart`,
  `ForceFailure`/`ForcedToolFailed`, `Retrieve`), the tools, `Execute`,
  `ToolsFailed`/`TraceToolsFailed`, `Analyze`, the context, prompt and
  sanitization steps, the LLM, `TraceLlm`, `CheckGroundedness`, `StoreReport`,
  and then `Complete`, or `BlockByPolicy`, `RequestApproval`, `TracePolicy`,
  `AwaitApproval`.
* `_run_tool`: `BudgetSpentBeforeTool`, `StartTool` (the await), `ToolDone` or
  `ToolRaises`, `RecordTool`, `ToolSyncBudget`, `ToolObserve`. The last three
  are separate commits of the code and separate actions here.
* `_finalize_partial`: the steps named `fp_...`. `nested` says whether
  `_run_tool` called it, in which case the triage goes on afterwards, as the
  code does.
* `_update_status` is `ChangeStatus`: it validates, and raises when the
  transition is not allowed.
* The LLM call: `StartLlm` counts it, as the adapter does before its first
  await; `LlmDone` is every way `analyze` answers, with the counters of that way
  (`Counted`); `LlmTimeout` is `wait_for`'s; `LlmRaises` and `LlmUnimplemented`
  are the exceptions that no handler turns into a degraded result.
* Texts that the schemas reject as too long are outcomes of their own
  (`ContextRejected`, `ReportRejected`, `RequestRejected`), since the exception
  cuts the triage off with earlier commits in place.
* `PostApproval` is the whole of `apply_approval`; a client may name any
  session's approval id, at any time.
* The environment: `Expire` (the time budget runs out at any moment),
  `CommitFails` and `ApprovalCommitFails` (SQLite only; nothing is written and
  the exception propagates), `Restart` (coroutines, counters and in-memory rows
  are lost, SQLite rows are not).

A coroutine that holds `loop` keeps it up to its next await, so no other handler
runs in between; `Restart` and `Expire` do. This is what the single loop of the
code gives, and the mutant `StartToolBlocking` shows what a tool called without
an await would do.

### `TriageClock` and the code

Time passes at the awaits only, in half seconds, the smallest backoff. An await
of `d` ticks ends up to `MaxLag` ticks late, for the loop may be busy with
another coroutine. Code between awaits takes no time. Exceptions of tools and
adapter end the triage and add nothing to its time, so they are left to
`TriageOrchestrator`, which in turn replaces the clock by `Expire`.
`CallLlm` starts the OpenAI adapter under `wait_for`: an attempt at the provider
(`LlmAnswers`, `LlmAttemptFails`), a backoff (`LlmTriesAgain`), and the
cancellation by `wait_for` in either (`LlmCancelled`). The client's own timeout
is `llm_timeout_s`, never less than `wait_for`'s, so it cannot fire first and
has no action; the retries the SDK makes on its own are part of one attempt. The
mock adapter answers at once, which is `LlmAnswers` with no delay.

### `TriageReport` and the code

One session, from the tools to the decision, one action per stage: the
interleavings, failures and commits in between are those of
`TriageOrchestrator`, and here it is the content that counts. A text is the set
of words the code looks for in it, so a regular expression becomes an
intersection; a step of the LLM is any of `Sayings`; a note is a name, and
`NoteWords` says which of the searched words its text contains. Confidences are
in hundredths. `FullReport` is lines 294 to 357 of `run_initial_triage`, with
the builders it calls (`ReportNotes`, `RefItems`, `HypothesisItems`,
`StepItems`, `NoteItem`, `Unknowns`); `PartialReport` is the report of
`_finalize_partial`; `Gate` builds the approval request, and `ApplyApproval`
adds the decision's note. The operators named `Served...` and `Legacy...` are
the serializers, read in every state; the `Legacy...` ones serve reports that
were stored without items, and are compared with the items here. That a triage
goes on after `_run_tool` has finalized its session is left to
`TriageOrchestrator`: it stores the same partial report again. So are the states
between two writes of one stage: `Answer` traces the analysis and stores its
report at once, `Degrade` the report and its status, and a report rejected as
too long is an outcome of `TriageOrchestrator` only.

### Abstractions

Texts, times, identifiers and scores are left out. A report is which builder
wrote it, whether it has a risky step, and the approval notes. An approval id is
the session it is derived from. Trace steps keep their type and the status at
that moment. A tool call's result is whether it succeeded. The JSON round trip
of a SQLite row is taken to be lossless. Only one process uses the database.

## 3. Runs

CHECK_DEADLOCK is FALSE in every run: clients post a bounded number of
requests and a triage ends, so the modelled system really stops. Symmetry of the
sessions is used in the two safety runs only; no definition names a session, and
there is no liveness property in them.

| Run | Instance | Shows |
|---|---|---|
| `inmemory` | 2 sessions, in-memory rows, tools that fail, LLM fallback, risky output, timeout and exception, a request rejected as too long, an expiring budget, 1 approval, 1 restart | types, the invariants of the gate, of the progress and of the counters, report and outcome agree, evidence accounting, the trace leads to the status, outcome and LLM counters, metrics against traces, readiness, a 201 means a settled session |
| `sqlite` | 2 sessions, durable rows, up to 3 approvals with any id, 2 failing commits, 1 restart | the approval gate, consistent waiting sessions, orphaned requests only where explained, one decision, only decisions move a gated session, report and evidence consistent at any crash or failed commit, refinement of `SessionLifecycle` |
| `liveness` | 2 sessions, every kind of incident, every way tools and LLM may end: safe and risky answers, fallbacks, exceptions, timeouts, rejected texts, a provider without an adapter | every triage ends, a 201 means a settled session |
| `clock` | 3 tools, 2 retries, budget 7 s, tool timeout 2 s, LLM timeout 4 s, lag up to 0.5 s | bounded overrun, bounded attempts, the adapter's retries within the LLM's timeout |
| `report` | every outcome of 3 tools, up to 4 hypotheses, up to 2 steps of 6 kinds, both decisions | what was shown, flagged, asked for, noted and served agrees; a report is that of its evidence and one answer; refinement of `SessionLifecycle` |
| `budget_spent`, `budget_uncounted`, `terminal_rewritten`, `interrupted`, `llm_cap`, `risky_unflagged`, `context_oldest` | one session or one triage | the disagreements of section 6 |

**Bounds and why they are enough.** Two sessions are every pair of interleaved
coroutines; no guard of one session reads another's state except through `loop`
and an approval id, so a third adds no new kind of step. `MaxPosts = 3` allows a
refused decision, the first valid one and a second one after it; `MaxFaults = 2`
fails a commit of the triage and one of the approval, or of each session;
`MaxRestarts = 1` is enough for a crash between any two commits, since a triage
never resumes. `MaxToolCalls = 3` is the number of calls a triage makes; the
runs about a spent budget use the default, 6, and reach exhaustion through time.
The clock's budget lets all three tools run, retry, or spend all of it; its
theorem covers the rest. With its LLM timeout of 4 s all three attempts of the
adapter fit, with time left for an answer.
`MaxObservations = 1` is the strictest context the settings allow; three tools
are all there are. Four
hypotheses reach the cap of the positional discount (the third and the fourth
are discounted alike), and two steps are a risky one before or after another,
the same or a different one. `Sayings` has a text of each way the two matches
relate: known to both alike, to the policy only (a hyphen, a deletion), to both
under different names (restart and rollback in one step), to neither.
Incident kinds and outcomes are spread over the runs so that every action and
disjunct fires in some passing run. The proofs have none of these bounds.

**Fairness.** `FairSpec` adds weak fairness of `Advance(s)` and of `Resume(s)`
for each session. `Advance(s)`: a coroutine that holds the loop runs to its next
await, and nothing preempts it. `Resume(s)`: every await is under
`asyncio.wait_for` with a timeout (tools, LLM) or is a bounded sleep, so it
ends, and the loop's ready queue is first in, first out, so a coroutine that is
ready gets its turn. Weak fairness is enough, as between two turns of another
session the loop is idle and a resumable session stays resumable: the other
session's triage is finite. Nothing is assumed of clients, of the clock, of
faults or of restarts.

## 4. Properties

`TriageProperties`, `TriageClock` and `TriageReport` state each one above its
definition. The ones that carry most:

* `RiskNeedsApproval`, `WaitingIsPending`, `DecidedOnce`, `GateFrozen`: the
  approval gate, over crashes, failing commits and decisions in any order.
* `OrphanedRequest`: the request is committed before the status that announces
  it; the invariant says exactly in which circumstances a request without a
  waiting session is found.
* `EvidenceAccounted`: tool calls, observations and the remaining budget are
  three commits; they differ by at most one at any moment, and not at all
  outside `_run_tool`.
* `TrailLeadsToStatus`: an auditor who reads the trace alone arrives at the
  stored status along allowed transitions, on both backends.
* `OutcomesCounted`: the counters against the sessions they count.
* `AnsweredIsSettled`, `SettledHasReport`, `TriageEnds`: what a client gets.
* `ImplementsLifecycle`: the service implements `SessionLifecycle`. The mapping
  sends the eleven statuses to a phase (`PhaseOf`), the stored report to `risk`
  and the accepted decisions to `verdicts`. A session whose row is gone after a
  restart is "forgotten", which the abstraction allows only when nothing is
  durable.
* `OverrunBounded`: a triage exceeds its budget by at most the longer of one
  tool timeout and one second, plus two lags. The second lag arises when an
  attempt starts late after a sleep and then ends late.
* `LlmAttemptsFit`: the adapter knows nothing of the time that is left; its
  retries still never extend the call, and with a second left it tries twice at
  most.
* `LlmCallsCounted`, `MetricsMatchTraces`: what happened to every LLM call can
  be read off the counters, a timed-out call being two fallbacks; and the
  counters of tool calls, timed results and policy blocks are those of the
  traces, where a session that is finalized twice has two timed results. Both
  are about the in-memory backend: on SQLite a commit may fail between a write
  and its counter.
* `ReadinessExplained`: `/ready` says "degraded" exactly while a session of this
  process explains it; nothing heals it, and a human's rejection does not cause
  it.
* `ActiveIsGrounded`, `GapsAreStated`, `NotesResolve`: what the report claims,
  and what it admits not to know, against the evidence and the trace.
* `RequestAgreesWithReport`, `DecisionIsShown`, `LegacyViewAgrees`,
  `ReportImplementsLifecycle`: what a human is asked is what the report flags,
  what was decided is what it shows, whichever code renders it, and the gate
  seen from the flagged steps is that of `SessionLifecycle`.

## 5. What is proved

Every invariant and every action property that a passing run checks is a theorem
here, and so are the two refinements. The assumptions on the constants are
`NoRequestAssumption`, `BackendAssumption`, `OrchestratorAssumption`,
`ClockAssumption` and `ReportAssumption`: the settings have their types, no
session is called like the "none" of a request or of the loop, no text is the
"none" of a step, and `llm_timeout_s` is at least a second. `Sessions` is any
set, finite or not, and the bounds on posts, restarts and faults are any
numbers. One theorem, `LlmCallsAreCounted`, has a hypothesis of its own, below.

The invariants build on each other: `GateInv` is inductive alone; `ProgressInv`
and `TrailInv` use it; the refinement and `CountersInv` use `GateInv` and
`ProgressInv`; `TallyInv` and `MetricsMatchTraces` use these three, and
`LlmCallsCounted` uses `TallyInv` as well. The runs check `GateInv`,
`ProgressInv`, `CountersInv`, `ClockInv` and `ReportIsOfItsEvidence` too, on
their instances.

**The approval gate** (`TriageProofs`, on `RepositoryProofs`).
`RiskNeedsApproval` is not inductive: that the decision branch is entered with
the report that the policy saw, or that a triage never goes on behind a gate, is
not in it. `GateInv` adds it: `TypeOK`, and for each session `RunOk` (what a
live coroutine may rely on about its own row: not completed, not waiting,
undecided; in the analysis the status is `analyzing`; the stored report is the
one the branch is about to be taken on; in a finalization it is not risky) and
`RowOk` (what holds of a row whoever wrote it last). `RunOk` leaves
`partial_completed` possible for a live triage, because after `_run_tool` has
finalized a session the triage does go on; the proof has to show that the gate
survives that. `RepositoryProofs` states what each repository method keeps and
sets, for both backends at once; `TriageProofs` has one lemma per family of
actions, a lemma that a step which touches one session only needs checking for
that session (`Local`), and assembles them by action in `GateHolds`. Results:
`GateHolds`, `TypesHold`, `GateIsKept`, `WaitingHasRequest`, `FirstDecisionWins`
(from the invariant), and `GateFrozenHolds` (an action property: every step but
an accepted decision changes only the row of a live coroutine, and a live
coroutine's row is neither completed nor waiting nor decided). The stronger
statement, that no terminal session ever changes, is false: see
`terminal_rewritten`.

**The progress of a triage** (`ProgressProofs`). Some forty actions of a triage
are first reduced to a few kinds: `Own` says what a step of one session leaves
alone, `Moved`, `StatusSet`, `Raises`, `Degrades`, `Returns` what it does, and
the tables `TraceHops`, `PassHops`, `DegradeHops` which step follows which. Each
action has one lemma that places it there, and the invariants are proved over
the kinds. `ProgressInv` has a part for each question, none inductive without
its steps: `EvidenceOk` adds, for every step of `_run_tool`, which of its
commits are done, so that `EvidenceAccounted` survives a crash between any two;
`ResultOk` adds what a finalization has already stored, and that a risky report
is found only from the decision on, from which `SettledHasReport` and
`OrphanedRequest` follow; `AnswerOk` adds who holds the loop and what the client
has been told at each step, for `AnsweredIsSettled`. A session finalized inside
`_run_tool` is where these proofs have their cases: it is settled and live.
Results: `ProgressHolds`, `EvidenceIsAccounted`, `SettledReportsFit`,
`RequestsAreExplained`, `AnswersAreTrue`.

**The life cycle and the audit trail** (`LifecycleProofs`).
`LifecycleIsImplemented` maps each action to a step of `SessionLifecycle` or a
stutter. The step that is not obvious is the report's: `risk` may be assessed
once, in an open session, so that no report is stored over a risky one has to
come from `ResultOk`. `TrailInv` holds of the whole trace at once, as
`TrailLeadsToStatus` does: it says of each entry that shows a status which entry
shows the one before it. So appending an entry needs no induction over the
trace, only that `TrailOk` looks back, and the proof is one lemma about a
trace and a status for the steps that write an entry, one for those that do not,
and one for a decision on either backend. Results: `LifecycleIsImplemented`,
`TrailHolds`, `TrailsLeadToStatus`.

**The counters** (`MetricsProofs`). `OutcomesCounted` compares a counter with
the number of sessions in a set. A step moves one session, so the set gains that
session, loses it or stays, and the library's facts about finite sets give the
number: no induction is needed. What is needed is that the sessions of a process
are finitely many, though `Sessions` may not be, that an outcome is counted when
its session enters the set and only then (a second finalization raises before it
counts), and that a request is counted before its gate: `CountersInv` says that,
with `WayOk`, what the locals of a coroutine say of the way it has come.
`TallyInv` adds that the trace of a session that awaits the LLM ends with the
sanitization check, and that otherwise only one just answered or being finalized
has such a trace, so that a call that raised can be told from the trace.
Results: `CountersHold`, `OutcomesAreCounted`, `ReadinessIsExplained`,
`TallyHolds`, `LlmCallsAreCounted`, `MetricsMatchTheTraces`.
`LlmCallsAreCounted` assumes that a provider is a stub without an adapter or one
whose adapter may raise, but not both: the stub raises before the call is
counted, and the trace cannot tell the two apart. A process has one provider.
The proof of `MetricsMatchTheTraces` did not go through for a first version of
the property, which said that every policy block has its request in the trace.
It is false: a request rejected as too long is counted before the exception and
leaves no trace entry. The property now names those sessions (`Overlong`), and
`inmemory` has such an outcome.

**The clock** (`ClockProofs`). `OverrunBounded` is not inductive either:
`ClockInv` adds when a sleep is to end, how late an attempt may start, what the
LLM's timeout is bounded by, and how many executions the attempts so far stand
for. `ClockHolds`, `ClockTypesHold`, `OverrunHolds`, `AttemptsHold` hold for
every setting, any number of retries and any lag, and so does
`LlmAttemptsFitHolds`: an attempt starts no earlier than the backoffs before it
take, and the adapter is resumed at most a lag after its timeout is due. That
`2^n` is a positive integer comes from a small lemma on exponentiation
(`PowerType`).

**The report** (`ReportProofs`, `ReportContentProofs`). `Sayings` is any set of
texts, and the bounds on observations, hypotheses and steps are any numbers.
`GateKept` strengthens `DecisionIsShown`: before the answer there is no report;
then it is one that flags a step exactly when the policy asks for approval; a
waiting session has a flagged step and a request, a settled one no request, and
a decided one is settled and still shows the step. That a required approval
flags a step needs the minimum of a set of naturals to be a member (`MinIn`),
which rests on the library's well-founded ordering of finite sets.
`DecisionIsShownHolds` and `ReportImplementsLifecycleHolds` follow, the latter
by mapping each action to a step of `SessionLifecycle` or a stutter. `RefsKept`
adds what the evidence is at each stage (only the first tool's has references).
`ContentKept` adds what the other properties need: the report is the one
the builders make of all the evidence and of one answer, and shows the decisions
since (`ReportIsOfItsEvidence`), the tools ran in order, the context was made of
what they found, the steps the notes refer to are in the trace, and the request
was built from the report. The properties then are facts about the builders:
which step is flagged (`RequestAgreesWithReportHolds`), which notes there are
and what each refers to (`NotesResolveHolds`, `GapsAreStatedHolds`), that
warnings weaken every hypothesis and that a discount grows along the list
(`ActiveIsGroundedHolds`, `ReportTypeOKHolds`), and that the serializer's own
rules, with other constants and thresholds, come to the same
(`LegacyViewAgreesHolds`).

**Only model-checked.** `TriageEnds`, since liveness under fairness is out of
the prover's reach. The properties of the violation runs are false, so there is
nothing to prove; `InterruptedIsMarked` among them is a liveness property.

## 6. Where the code and its documentation disagree

Each of these runs checks one sentence of the repository and finds it violated;
`PROJECT.json` quotes the sentences.

* `budget_spent`: a budget found exhausted in `_run_tool` ends in a `ValueError`
  and a 500, where `run_initial_triage`'s docstring promises
  `partial_completed`.
* `terminal_rewritten`: when it is found exhausted before the metrics tool, the
  finalized session is finalized again, and its report and trace are rewritten,
  before the second status change is refused.
* `budget_uncounted`: that path does not increment
  `session_budget_exhausted_total`.
* `interrupted`: after a restart an interrupted session is neither resumed nor
  marked.
* `llm_cap`: with less than a second left the LLM still gets one.
* `risky_unflagged`: of two different risky steps only the first is marked as
  requiring approval, where `docs/GOVERNANCE.md` asks for all of them.
* `context_oldest`: with more observations than `max_observations_in_context`
  the context keeps the oldest, where `memory-context.md` (section 4, and
  section 2 in words) drops them. The default limit of five exceeds the three
  observations a triage makes, so this takes a lower setting; the run takes one.

More were met while modelling and have no run, since no sentence of the
repository is precise enough to be checked: groundedness and confidence count
the observations of failed tools, and the generic runbook that every service
without one of its own is given, as evidence; `action_type` and `risk_level`
match other words than the policy, so a deletion is of low risk.

## 7. Not modelled, and the plan

Not modelled: what redaction and sanitization replace in texts, the truncation
of an observation to a number of characters, prompts and response contracts
(wording and field-by-field formatting without control), logging, the tools'
synthetic data and which runbook a service's name selects, the mock adapter's
choice of an answer, the evaluation scripts (they drive the service from
outside). An exception of a serializer after a triage has settled is not
considered.

Order of the plan: (1) repository and status machine, (2) the orchestrator with
approvals, crashes and failing commits, (3) the abstract life cycle and the
refinement, (4) the clock, (5) the proofs of the gate and of the clock, (6) the
counters of LLM calls, results and policy, and readiness, (7) the adapter's
retries in the clock, (8) the report with its context, policy, request and
views, and its first proofs, (9) the proofs of progress, life cycle, trail,
counters and report content: these are done. Next:

1. Drop the hypothesis of `LlmCallsAreCounted`: `Broken` has to tell a stub's
   exception from an adapter's, which takes a local of the coroutine.
2. The safety half of `TriageEnds` as a theorem: a live triage never gets back
   to a step it has left, but for the return of `_run_tool`, so that a bounded
   number of its steps is left.
3. The budget and the clock together: `TriageClock`'s tool calls as a refinement
   of `_run_tool`'s.

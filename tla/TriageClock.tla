------------------------------ MODULE TriageClock ------------------------------
(***************************************************************************)
(* The time one triage takes: the session budget's clock, the timeout and  *)
(* the retries of _execute_tool_with_retry, and the timeout of the LLM     *)
(* call with the retries of the OpenAI adapter under it.  Time is counted  *)
(* in ticks and passes at the awaits; a coroutine whose await is over may  *)
(* get the loop back up to MaxLag ticks late.  TriageOrchestrator          *)
(* abstracts this clock by Expire, and an LLM call by how it ends.         *)
(***************************************************************************)
EXTENDS Integers

CONSTANTS
  Second,        \* ticks in a second
  TimeBudget,    \* settings.time_budget_s, in ticks
  ToolTimeout,   \* settings.tool_timeout_s, in ticks
  LlmTimeout,    \* settings.llm_timeout_s, in ticks
  MaxRetries,    \* settings.max_retries
  MaxToolCalls,  \* settings.max_tool_calls
  MaxLag         \* bound: how late the event loop resumes a coroutine

ASSUME ClockAssumption ==
  /\ Second \in Nat \ {0} /\ Second % 2 = 0
  /\ TimeBudget \in Nat \ {0} /\ ToolTimeout \in Nat \ {0}
  /\ LlmTimeout \in Nat /\ LlmTimeout >= Second
  /\ MaxRetries \in Nat /\ MaxToolCalls \in Nat \ {0} /\ MaxLag \in Nat

VARIABLES
  pc,        \* the next step of the triage
  tool,      \* which of the three tools is at hand
  used,      \* tool_calls_used
  attempt,   \* the attempt of the retry loop
  executed,  \* tool.execute calls made so far
  elapsed,   \* elapsed_seconds
  cap,       \* llm_timeout
  due,       \* when wait_for gives the LLM call up
  tries      \* the adapter's attempts at the provider so far

lvars == <<cap, due, tries>>
cvars == <<pc, tool, used, attempt, executed, elapsed, lvars>>

NumTools == 3   \* runbook, metrics, logs

ClockInit ==
  /\ pc = "tool" /\ tool = 1
  /\ used = 0 /\ attempt = 0 /\ executed = 0 /\ elapsed = 0
  /\ cap = 0 /\ due = 0 /\ tries = 0
---------------------------------------------------------------------------
\* time_remaining_seconds.
TimeLeft(now) == IF now >= TimeBudget THEN 0 ELSE TimeBudget - now

BudgetSpent == used >= MaxToolCalls \/ elapsed >= TimeBudget

\* wait_s = 0.5 * 2 ** attempt.
RetryWait(n) == (Second \div 2) * 2^n

\* Mutant of LlmCap: without the floor of one second.
LlmCapUnfloored(left) ==
  LET whole == left - (left % Second)
  IN  IF LlmTimeout <= whole THEN LlmTimeout ELSE whole

\* min(llm_timeout_s, max(1, int(remaining_s))).
LlmCap(left) ==
  LET whole == left - (left % Second)
      floor == IF whole >= Second THEN whole ELSE Second
  IN  IF LlmTimeout <= floor THEN LlmTimeout ELSE floor

\* An await of d ticks is over, and the loop resumes the coroutine.
Pass(d) == \E lag \in 0..MaxLag : elapsed' = elapsed + d + lag
---------------------------------------------------------------------------
\* _run_tool finds the budget spent: no further await follows.
StopAtTool ==
  /\ pc = "tool" /\ BudgetSpent
  /\ pc' = "stopped"
  /\ UNCHANGED <<tool, used, attempt, executed, elapsed, lvars>>

\* consume_tool_call, and the first attempt.
CallTool ==
  /\ pc = "tool" /\ ~BudgetSpent
  /\ pc' = "attempt" /\ used' = used + 1
  /\ attempt' = 0 /\ executed' = executed + 1
  /\ UNCHANGED <<tool, elapsed, lvars>>

\* _execute_tool_with_retry returns: the next tool, or the LLM.
LeaveRetry ==
  /\ IF tool < NumTools THEN pc' = "tool" /\ tool' = tool + 1
                        ELSE pc' = "llm_check" /\ tool' = tool
  /\ UNCHANGED <<used, attempt, executed, lvars>>

\* The tool answers within its timeout, with a success or an error that is not
\* retriable.
ToolAnswers ==
  /\ pc = "attempt"
  /\ \E d \in 0..ToolTimeout : Pass(d)
  /\ LeaveRetry

\* A transient error, its own timeout included, on the last attempt.
LastAttemptFails ==
  /\ pc = "attempt" /\ attempt >= MaxRetries
  /\ \E d \in 0..ToolTimeout : Pass(d)
  /\ LeaveRetry

\* Mutant of MayRetry: one attempt too many.
MayRetryOnceMore(n, now) == n <= MaxRetries /\ TimeLeft(now) > RetryWait(n)

\* Mutant of MayRetry: the time left is not looked at.
MayRetryAnyTime(n, now) == n < MaxRetries

\* The attempt may be followed by another: G25 looks at the time left.
MayRetry(n, now) == n < MaxRetries /\ TimeLeft(now) > RetryWait(n)

\* A transient error, and no time to wait for another attempt.
SkipRetry ==
  /\ pc = "attempt"
  /\ \E d \in 0..ToolTimeout : Pass(d)
  /\ attempt < MaxRetries /\ ~MayRetry(attempt, elapsed')
  /\ LeaveRetry

\* A transient error, and a sleep before the next attempt.
SleepToRetry ==
  /\ pc = "attempt"
  /\ \E d \in 0..ToolTimeout : Pass(d)
  /\ MayRetry(attempt, elapsed')
  /\ pc' = "sleep"
  /\ UNCHANGED <<tool, used, attempt, executed, lvars>>

\* The sleep is over; the next attempt starts without a look at the budget.
Retry ==
  /\ pc = "sleep"
  /\ Pass(RetryWait(attempt))
  /\ pc' = "attempt" /\ attempt' = attempt + 1 /\ executed' = executed + 1
  /\ UNCHANGED <<tool, used, lvars>>

\* G3: no time is left for the LLM.
StopBeforeLlm ==
  /\ pc = "llm_check" /\ TimeLeft(elapsed) = 0
  /\ pc' = "stopped"
  /\ UNCHANGED <<tool, used, attempt, executed, elapsed, lvars>>

\* wait_for starts the adapter, and the adapter its first attempt.
CallLlm ==
  /\ pc = "llm_check" /\ TimeLeft(elapsed) > 0
  /\ pc' = "llm" /\ tries' = 1
  /\ cap' = LlmCap(TimeLeft(elapsed)) /\ due' = elapsed + cap'
  /\ UNCHANGED <<tool, used, attempt, executed, elapsed>>

\* stop_after_attempt.
MaxTries == 3

\* wait_exponential, after the first and the second attempt.
Backoff == <<Second, 2 * Second>>

\* What a step of the adapter leaves alone.
InAdapter == UNCHANGED <<tool, used, attempt, executed, cap, due>>

\* The provider answers, fails for good, or fails the last attempt: the adapter
\* returns, and what follows takes no await.
LlmAnswers ==
  /\ pc = "llm" /\ elapsed < due
  /\ \E d \in 0..(due - elapsed) : Pass(d)
  /\ pc' = "done"
  /\ InAdapter /\ UNCHANGED tries

\* A transient failure of the provider, and a backoff.
LlmAttemptFails ==
  /\ pc = "llm" /\ elapsed < due
  /\ tries < MaxTries
  /\ \E d \in 0..(due - elapsed) : Pass(d)
  /\ pc' = "llm_sleep"
  /\ InAdapter /\ UNCHANGED tries

\* Mutant of LlmTriesAgain: the adapter's sleep is not cut by the timeout.
LlmTriesAnyway ==
  /\ pc = "llm_sleep"
  /\ Pass(Backoff[tries])
  /\ pc' = "llm" /\ tries' = tries + 1
  /\ InAdapter

\* The backoff ends in time: another attempt.
LlmTriesAgain ==
  /\ pc = "llm_sleep"
  /\ elapsed + Backoff[tries] <= due
  /\ Pass(Backoff[tries])
  /\ pc' = "llm" /\ tries' = tries + 1
  /\ InAdapter

\* wait_for cancels the adapter, in an attempt or in a backoff.
LlmCancelled ==
  /\ pc \in {"llm", "llm_sleep"}
  /\ Pass(IF elapsed < due THEN due - elapsed ELSE 0)
  /\ pc' = "done"
  /\ InAdapter /\ UNCHANGED tries

ClockNext ==
  \/ StopAtTool \/ CallTool \/ ToolAnswers \/ LastAttemptFails \/ SkipRetry
  \/ SleepToRetry \/ Retry \/ StopBeforeLlm \/ CallLlm
  \/ LlmAnswers \/ LlmAttemptFails \/ LlmTriesAgain \/ LlmCancelled

ClockSpec == ClockInit /\ [][ClockNext]_cvars
---------------------------------------------------------------------------
\* The steps from the LLM call on.
Calling == {"llm", "llm_sleep", "done"}

\* The clock's variables keep their types, and a timeout handed to wait_for is
\* at least one second and at most the LLM's own (service.py 249).
ClockTypeOK ==
  /\ pc \in {"tool", "attempt", "sleep", "llm_check", "stopped"} \cup Calling
  /\ tool \in 1..NumTools
  /\ used \in 0..tool /\ attempt \in 0..MaxRetries
  /\ executed \in Nat /\ elapsed \in Nat /\ due \in Nat
  /\ cap \in IF pc \in Calling THEN Second..LlmTimeout ELSE {0}
  /\ tries \in IF pc \in Calling THEN 1..MaxTries ELSE {0}

\* How far beyond its time budget a triage may run: an attempt that began in
\* time, or right after a sleep that was to end in time, runs to its timeout,
\* and so does an LLM call, which is given a second whatever is left.
Overrun ==
  (IF ToolTimeout >= Second THEN ToolTimeout ELSE Second) + 2 * MaxLag

\* Bounded overrun: whatever fails, times out and is retried, the triage is
\* over, or at an await that ends, within the budget and the overrun.
OverrunBounded == elapsed <= TimeBudget + Overrun

\* Bounded attempts: a counted tool call stands for at most max_retries + 1
\* executions of a tool, whatever the retries do to the budget.
AttemptsBounded ==
  /\ executed <= used * (MaxRetries + 1)
  /\ used <= MaxToolCalls

\* The time the adapter has slept before each of its attempts.
Slept == <<0, Second, 3 * Second>>

\* Retries under a timeout: the adapter's retries never extend the LLM call, so
\* an attempt is made only when the backoffs before it fit in the timeout, and
\* a triage that is left with a second or less never makes a third.
LlmAttemptsFit ==
  pc \in Calling =>
    /\ Slept[tries] <= cap
    /\ elapsed <= due + 2 * MaxLag

\* What bounds the overrun, step by step: a retry's sleep was to end before the
\* budget does, an attempt starts at most a lag after the budget's end, the
\* timeout of the LLM call is within the time left or a second, and the adapter
\* is resumed at most a lag after that timeout is due.
ClockInv ==
  /\ ClockTypeOK
  /\ OverrunBounded
  /\ pc = "tool" => used < tool
  /\ pc = "sleep" => elapsed + RetryWait(attempt) < TimeBudget
  /\ pc = "sleep" => attempt < MaxRetries
  /\ pc = "attempt" => elapsed <= TimeBudget + MaxLag
  /\ LlmAttemptsFit
  /\ pc \in Calling => due <= TimeBudget + Second
  /\ pc \in {"llm", "llm_sleep"} =>
       /\ elapsed <= due + MaxLag
       /\ due - cap + Slept[tries] <= elapsed
  /\ pc = "llm_sleep" => tries < MaxTries
  /\ used <= MaxToolCalls
  /\ IF pc \in {"attempt", "sleep"}
     THEN /\ used >= 1
          /\ executed <= (used - 1) * (MaxRetries + 1) + attempt + 1
     ELSE executed <= used * (MaxRetries + 1)

\* memory-context.md section 5: the LLM timeout is capped at the smaller of
\* llm_timeout_s and the time remaining.
LlmCappedByTimeLeft == pc = "llm" => cap <= TimeLeft(due - cap)
=============================================================================

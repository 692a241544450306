------------------------------ MODULE ClockProofs ------------------------------
(***************************************************************************)
(* The bounds on a triage's time and attempts, for every value of the      *)
(* settings and every lag of the event loop.                               *)
(***************************************************************************)
EXTENDS TriageClock, FiniteSetTheorems, TLAPS

\* A power of two is a natural number: it counts the subsets of 1..n.
LEMMA PowerType ==
  ASSUME NEW n \in Nat
  PROVE  2^n \in Nat
<1>1. IsFiniteSet(1..n) /\ Cardinality(1..n) = n
  BY FS_Interval
<1>2. IsFiniteSet(SUBSET (1..n)) /\ Cardinality(SUBSET (1..n)) = 2^n
  BY <1>1, FS_SUBSET
<1> QED  BY <1>2, FS_CardinalityType

\* A backoff is a natural number of ticks.
LEMMA RetryWaitType ==
  ASSUME NEW n \in Nat
  PROVE  RetryWait(n) \in Nat
<1> DEFINE p == 2^n
           h == Second \div 2
<1>1. p \in Nat
  BY PowerType
<1>2. h \in Nat
  BY ClockAssumption
<1> HIDE DEF p, h
<1>3. h * p \in Nat
  BY <1>1, <1>2
<1> QED  BY <1>3 DEF RetryWait, p, h

\* The LLM's timeout is at least a second, at most llm_timeout_s, and never
\* beyond both the time left and one second.
LEMMA LlmCapBounds ==
  ASSUME NEW left \in Nat
  PROVE  /\ LlmCap(left) \in Second..LlmTimeout
         /\ LlmCap(left) <= left \/ LlmCap(left) <= Second
<1> DEFINE r == left % Second
<1>1. r \in Nat /\ r <= left
  BY ClockAssumption
<1> HIDE DEF r
<1> QED  BY <1>1, ClockAssumption DEF LlmCap, r
---------------------------------------------------------------------------
\* The products of the attempt count, split once for the calls counted so far.
LEMMA OneMoreCall ==
  ASSUME NEW u \in Nat, NEW k \in Nat
  PROVE  /\ u * k \in Nat
         /\ (u + 1 - 1) * k = u * k
         /\ (u - 1) * k + k = u * k
  OBVIOUS

\* When an await of at most t ticks is over.
LEMMA PassBounds ==
  ASSUME elapsed \in Nat, NEW t \in Nat,
         \E d \in 0..t : Pass(d)
  PROVE  /\ elapsed' \in Nat
         /\ elapsed <= elapsed' /\ elapsed' <= elapsed + t + MaxLag
  BY ClockAssumption DEF Pass

\* The step out of the retry loop, once its await is known to end in time.
LEMMA LeaveKeepsInv ==
  ASSUME ClockInv, pc = "attempt", LeaveRetry,
         \E d \in 0..ToolTimeout : Pass(d)
  PROVE  ClockInv'
<1> DEFINE k == MaxRetries + 1
<1>0. elapsed \in Nat /\ elapsed <= TimeBudget + MaxLag
  BY DEF ClockInv, ClockTypeOK
<1>1. /\ elapsed' \in Nat
      /\ elapsed' <= TimeBudget + Overrun
  <2>1. /\ elapsed' \in Nat
        /\ elapsed' <= elapsed + ToolTimeout + MaxLag
    BY <1>0, PassBounds, ClockAssumption
  <2> QED  BY <1>0, <2>1, ClockAssumption DEF Overrun
<1>2. /\ pc' \in {"tool", "llm_check"}
      /\ used' = used /\ executed' = executed
  BY DEF LeaveRetry
<1>3. ClockTypeOK'
  BY <1>1, ClockAssumption
     DEF ClockInv, ClockTypeOK, LeaveRetry, NumTools, Calling, lvars
<1>4. k \in Nat /\ used \in Nat /\ executed \in Nat
      /\ attempt \in 0..MaxRetries /\ attempt + 1 <= k
  BY ClockAssumption DEF ClockInv, ClockTypeOK, NumTools, Calling, lvars
<1>5. executed <= (used - 1) * k + attempt + 1
  BY DEF ClockInv
<1>6. (used - 1) * k + k = used * k /\ used * k \in Nat
  BY <1>4, OneMoreCall
<1>7. executed <= used * k
  <2> HIDE DEF k
  <2> QED  BY <1>4, <1>5, <1>6
<1>8. pc' = "tool" => used' < tool'
  BY <1>4 DEF LeaveRetry, ClockInv, ClockTypeOK, NumTools, Calling, lvars
<1>9. used' <= MaxToolCalls
  BY <1>2 DEF ClockInv
<1> QED
  BY <1>1, <1>2, <1>3, <1>7, <1>8, <1>9
     DEF ClockInv, OverrunBounded, Overrun, LlmAttemptsFit, Calling
---------------------------------------------------------------------------
\* A step inside the LLM call: the adapter is in an attempt, in a backoff, or
\* over, its attempts fit, and the timeout was given in time.
LEMMA AdapterKeepsInv ==
  ASSUME ClockInv, InAdapter, pc \in {"llm", "llm_sleep"},
         pc' \in Calling, elapsed' \in Nat, tries' \in 1..MaxTries,
         Slept[tries'] <= cap, elapsed' <= due + 2 * MaxLag,
         pc' \in {"llm", "llm_sleep"} =>
           /\ elapsed' <= due + MaxLag
           /\ due - cap + Slept[tries'] <= elapsed',
         pc' = "llm_sleep" => tries' < MaxTries
  PROVE  ClockInv'
<1>1. /\ pc \in Calling /\ due \in Nat /\ due <= TimeBudget + Second
  BY DEF ClockInv, ClockTypeOK, Calling
<1>2. elapsed' <= TimeBudget + Overrun
  BY <1>1, ClockAssumption DEF Overrun
<1>3. ClockTypeOK'
  BY <1>1 DEF ClockInv, ClockTypeOK, InAdapter
<1>4. LlmAttemptsFit'
  BY DEF LlmAttemptsFit, InAdapter
<1>5. executed <= used * (MaxRetries + 1) /\ used <= MaxToolCalls
  BY DEF ClockInv
<1>6. /\ pc' \notin {"tool", "attempt", "sleep"}
      /\ used' = used /\ executed' = executed /\ due' = due /\ cap' = cap
  BY DEF Calling, InAdapter
<1>7. Slept'[tries'] = Slept[tries']
  BY DEF Slept
<1>8. OverrunBounded'
  BY <1>2 DEF OverrunBounded, Overrun
<1> QED
  BY <1>1, <1>3, <1>4, <1>5, <1>6, <1>7, <1>8 DEF ClockInv

---------------------------------------------------------------------------
\* The invariant holds when the triage starts.
LEMMA ClockInvInit == ClockInit => ClockInv
  BY ClockAssumption
     DEF ClockInit, ClockInv, ClockTypeOK, OverrunBounded, Overrun, NumTools,
         LlmAttemptsFit, Calling

\* Every step keeps the invariant.
LEMMA ClockInvNext == ClockInv /\ [ClockNext]_cvars => ClockInv'
<1> SUFFICES ASSUME ClockInv, [ClockNext]_cvars
             PROVE  ClockInv'
  OBVIOUS
<1> DEFINE k == MaxRetries + 1
<1>0. /\ k \in Nat /\ used \in Nat /\ executed \in Nat /\ elapsed \in Nat
      /\ attempt \in 0..MaxRetries
      /\ TimeBudget \in Nat /\ Overrun \in Nat
  BY ClockAssumption DEF ClockInv, ClockTypeOK, NumTools, Overrun
<1>1. CASE StopAtTool
  BY <1>1 DEF StopAtTool, ClockInv, ClockTypeOK, OverrunBounded, Overrun,
              LlmAttemptsFit, Calling, lvars
<1>2. CASE CallTool
  <2>1. /\ used * k \in Nat /\ (used + 1 - 1) * k = used * k
    BY <1>0, OneMoreCall
  <2>2. executed <= used * k
    BY <1>2 DEF CallTool, ClockInv
  <2>3. executed' <= (used' - 1) * k + attempt' + 1
    <3> HIDE DEF k
    <3> QED  BY <1>0, <1>2, <2>1, <2>2 DEF CallTool
  <2>4. used' \in 1..tool' /\ used' <= MaxToolCalls
        /\ elapsed' < TimeBudget
    BY <1>2, <1>0, ClockAssumption
       DEF CallTool, BudgetSpent, ClockInv, ClockTypeOK, NumTools, Calling,
           lvars
  <2>5. ClockTypeOK'
    BY <1>2, <2>4, ClockAssumption
       DEF CallTool, ClockInv, ClockTypeOK, Calling, lvars
  <2> QED
    BY <1>2, <1>0, <2>3, <2>4, <2>5, ClockAssumption
       DEF CallTool, ClockInv, OverrunBounded, Overrun, LlmAttemptsFit,
           Calling, lvars
<1>3. CASE ToolAnswers
  BY <1>3, LeaveKeepsInv DEF ToolAnswers
<1>4. CASE LastAttemptFails
  BY <1>4, LeaveKeepsInv DEF LastAttemptFails
<1>5. CASE SkipRetry
  BY <1>5, LeaveKeepsInv DEF SkipRetry
<1>6. CASE SleepToRetry
  <2>0. elapsed' \in Nat
    BY <1>6, <1>0, PassBounds, ClockAssumption DEF SleepToRetry
  <2>1. elapsed' \in Nat /\ RetryWait(attempt) \in Nat
    BY <2>0, <1>0, RetryWaitType
  <2>2. elapsed' + RetryWait(attempt') < TimeBudget
    BY <1>6, <1>0, <2>1 DEF SleepToRetry, MayRetry, TimeLeft
  <2>3. attempt' < MaxRetries
    BY <1>6 DEF SleepToRetry, MayRetry
  <2>4. elapsed' <= TimeBudget + Overrun
    BY <1>6, <1>0, <2>1, <2>2 DEF SleepToRetry
  <2>5. ClockTypeOK'
    BY <1>6, <2>1 DEF SleepToRetry, ClockInv, ClockTypeOK, Calling, lvars
  <2> QED
    BY <1>6, <2>2, <2>3, <2>4, <2>5
       DEF SleepToRetry, ClockInv, OverrunBounded, Overrun, LlmAttemptsFit,
           Calling, lvars
<1>7. CASE Retry
  <2>1. RetryWait(attempt) \in Nat
    BY <1>0, RetryWaitType
  <2>2. elapsed' \in Nat /\ elapsed' <= TimeBudget + MaxLag
    BY <1>7, <1>0, <2>1, ClockAssumption DEF Retry, Pass, ClockInv
  <2>3. attempt' \in 0..MaxRetries
    BY <1>7, <1>0, ClockAssumption DEF Retry, ClockInv
  <2>4. ClockTypeOK'
    BY <1>7, <1>0, <2>2, <2>3 DEF Retry, ClockInv, ClockTypeOK, Calling, lvars
  <2>5. elapsed' <= TimeBudget + Overrun
    BY <2>2, <1>0, ClockAssumption DEF Overrun
  <2>6. used >= 1 /\ executed <= (used - 1) * k + attempt + 1
    BY <1>7 DEF Retry, ClockInv
  <2>7. (used - 1) * k \in Int
    BY <1>0
  <2>8. executed' <= (used' - 1) * k + attempt' + 1
    <3> HIDE DEF k
    <3> QED  BY <1>0, <1>7, <2>6, <2>7 DEF Retry
  <2>9. used' <= MaxToolCalls
    BY <1>7 DEF Retry, ClockInv
  <2> QED
    BY <1>7, <2>2, <2>4, <2>5, <2>6, <2>8, <2>9
       DEF Retry, ClockInv, OverrunBounded, Overrun, LlmAttemptsFit,
           Calling, lvars
<1>8. CASE StopBeforeLlm
  BY <1>8 DEF StopBeforeLlm, ClockInv, ClockTypeOK, OverrunBounded, Overrun,
              LlmAttemptsFit, Calling, lvars
<1>9. CASE CallLlm
  <2> DEFINE left == TimeLeft(elapsed)
  <2>1. /\ left \in Nat /\ elapsed + left = TimeBudget
        /\ elapsed < TimeBudget
    BY <1>9, <1>0 DEF CallLlm, TimeLeft
  <2>2. /\ cap' \in Second..LlmTimeout
        /\ cap' <= left \/ cap' <= Second
    BY <1>9, <2>1, LlmCapBounds DEF CallLlm
  <2> HIDE DEF left
  <2>3. elapsed' + cap' <= TimeBudget + Second
    BY <1>9, <1>0, <2>1, <2>2, ClockAssumption DEF CallLlm
  <2>4. /\ cap' \in Nat /\ Second <= cap' /\ due' = elapsed + cap'
        /\ due' \in Nat /\ pc' = "llm" /\ tries' = 1 /\ elapsed' = elapsed
    BY <1>9, <1>0, <2>2, ClockAssumption DEF CallLlm
  <2>5. ClockTypeOK'
    BY <1>9, <2>2, <2>4
       DEF CallLlm, ClockInv, ClockTypeOK, Calling, MaxTries
  <2>6. Slept[tries'] = 0
    BY <2>4 DEF Slept
  <2>7. /\ 0 <= cap' /\ elapsed' <= due' + MaxLag
        /\ elapsed' <= due' + 2 * MaxLag /\ due' - cap' + 0 <= elapsed'
    <3> DEFINE c == cap'
    <3>1. /\ MaxLag \in Nat /\ elapsed \in Nat /\ c \in Nat
          /\ due' = elapsed + c /\ elapsed' = elapsed
      BY <1>0, <2>4, ClockAssumption
    <3> HIDE DEF c
    <3>2. /\ 0 <= c /\ elapsed <= (elapsed + c) + MaxLag
          /\ elapsed <= (elapsed + c) + 2 * MaxLag
          /\ (elapsed + c) - c + 0 <= elapsed
      BY <3>1
    <3>3. /\ 0 <= c /\ elapsed' <= due' + MaxLag
          /\ elapsed' <= due' + 2 * MaxLag /\ due' - c + 0 <= elapsed'
      BY <3>1, <3>2
    <3> QED  BY <3>3 DEF c
  <2>8. LlmAttemptsFit'
    BY <2>6, <2>7 DEF LlmAttemptsFit
  <2>9. /\ due' <= TimeBudget + Second /\ elapsed' <= TimeBudget + Overrun
        /\ used' = used /\ executed' = executed
        /\ executed <= used * (MaxRetries + 1) /\ used <= MaxToolCalls
    BY <1>9, <1>0, <2>1, <2>3, <2>4 DEF CallLlm, ClockInv
  <2> QED
    BY <2>4, <2>5, <2>6, <2>7, <2>8, <2>9 DEF ClockInv, OverrunBounded, Overrun
<1>10. CASE LlmAnswers \/ LlmAttemptFails \/ LlmCancelled
  <2> DEFINE left == IF elapsed < due THEN due - elapsed ELSE 0
  <2>1. /\ due \in Nat /\ elapsed <= due + MaxLag /\ MaxLag \in Nat
        /\ cap \in Nat /\ tries \in 1..MaxTries
        /\ due - cap + Slept[tries] <= elapsed /\ Slept[tries] <= cap
        /\ Slept[tries] \in Nat
        /\ pc \in {"llm", "llm_sleep"} /\ pc' \in {"llm_sleep", "done"}
        /\ tries' = tries /\ InAdapter
    BY <1>10, ClockAssumption
       DEF LlmAnswers, LlmAttemptFails, LlmCancelled, ClockInv, ClockTypeOK,
           Calling, LlmAttemptsFit, Slept, MaxTries
  <2>2. left \in Nat /\ elapsed + left <= due + MaxLag
        /\ (elapsed < due => elapsed + left = due)
    BY <1>0, <2>1
  <2>3. \E d \in 0..left : Pass(d)
    <3>1. CASE LlmCancelled
      BY <2>2, <3>1 DEF LlmCancelled
    <3>2. CASE LlmAnswers \/ LlmAttemptFails
      BY <2>2, <3>2 DEF LlmAnswers, LlmAttemptFails
    <3> QED  BY <1>10, <3>1, <3>2
  <2>4. pc' = "llm_sleep" => elapsed < due /\ tries < MaxTries
    BY <1>10 DEF LlmAnswers, LlmAttemptFails, LlmCancelled
  <2> HIDE DEF left
  <2>5. /\ elapsed' \in Nat /\ elapsed <= elapsed'
        /\ elapsed' <= elapsed + left + MaxLag
    BY <1>0, <2>2, <2>3, PassBounds
  <2>6. /\ elapsed' <= due + 2 * MaxLag
        /\ pc' = "llm_sleep" => elapsed' <= due + MaxLag
        /\ due - cap + Slept[tries] <= elapsed'
    BY <1>0, <2>1, <2>2, <2>4, <2>5
  <2>7. pc' \in Calling /\ (pc' = "llm" => FALSE)
    BY <2>1 DEF Calling
  <2> QED
    BY <2>1, <2>4, <2>5, <2>6, <2>7, AdapterKeepsInv
<1>11. CASE LlmTriesAgain
  <2>1. /\ due \in Nat /\ elapsed <= due + MaxLag /\ MaxLag \in Nat
        /\ cap \in Nat /\ tries \in {1, 2} /\ Second \in Nat
        /\ due - cap + Slept[tries] <= elapsed
        /\ pc = "llm_sleep" /\ pc' = "llm"
        /\ tries' = tries + 1 /\ InAdapter
    BY <1>11, ClockAssumption
       DEF LlmTriesAgain, ClockInv, ClockTypeOK, Calling, MaxTries
  <2>2. /\ tries' \in 1..MaxTries
        /\ Backoff[tries] \in Nat /\ Slept[tries] \in Nat
        /\ Slept[tries'] = Slept[tries] + Backoff[tries]
    BY <2>1 DEF Slept, Backoff, MaxTries
  <2>3. /\ elapsed + Backoff[tries] <= due /\ Pass(Backoff[tries])
    BY <1>11 DEF LlmTriesAgain
  <2> DEFINE b == Backoff[tries]
             next == Slept[tries']
             slept == Slept[tries]
  <2>4. /\ elapsed' \in Nat /\ elapsed + b <= elapsed'
        /\ elapsed' <= elapsed + b + MaxLag
    BY <1>0, <2>1, <2>2, <2>3 DEF Pass
  <2> HIDE DEF b, next, slept
  <2>5. /\ next = slept + b /\ slept \in Nat /\ b \in Nat
        /\ due - cap + slept <= elapsed /\ elapsed + b <= due
    BY <2>1, <2>2, <2>3 DEF b, next, slept
  <2>6. /\ next <= cap /\ elapsed' <= due + MaxLag
        /\ elapsed' <= due + 2 * MaxLag
        /\ due - cap + next <= elapsed'
    BY <1>0, <2>1, <2>4, <2>5
  <2>7. Slept[tries'] <= cap /\ due - cap + Slept[tries'] <= elapsed'
    BY <2>6 DEF next
  <2> QED
    BY <2>1, <2>2, <2>4, <2>6, <2>7, AdapterKeepsInv DEF Calling
<1>12. CASE UNCHANGED cvars
  BY <1>12
     DEF cvars, lvars, ClockInv, ClockTypeOK, OverrunBounded, Overrun,
         LlmAttemptsFit
<1> QED
  BY <1>1, <1>2, <1>3, <1>4, <1>5, <1>6, <1>7, <1>8, <1>9, <1>10, <1>11, <1>12
     DEF ClockNext
---------------------------------------------------------------------------
\* The clock's invariant holds of every triage.
THEOREM ClockHolds == ClockSpec => []ClockInv
  BY ClockInvInit, ClockInvNext, PTL DEF ClockSpec

\* The clock's variables keep their types, and an attempt is made only while a
\* call is under way.
THEOREM ClockTypesHold == ClockSpec => []ClockTypeOK
<1>1. ClockInv => ClockTypeOK
  BY DEF ClockInv
<1> QED  BY <1>1, ClockHolds, PTL

\* A triage exceeds its time budget by at most one timeout and two lags of the
\* event loop, whatever its tools and the LLM do (service.py 240-272, 533-606).
THEOREM OverrunHolds == ClockSpec => []OverrunBounded
<1>1. ClockInv => OverrunBounded
  BY DEF ClockInv
<1> QED  BY <1>1, ClockHolds, PTL

\* The adapter's attempts fit in the timeout of the LLM call, whatever time the
\* triage had left (service.py 249-264, openai_adapter.py 53-81).
THEOREM LlmAttemptsFitHolds == ClockSpec => []LlmAttemptsFit
<1>1. ClockInv => LlmAttemptsFit
  BY DEF ClockInv
<1> QED  BY <1>1, ClockHolds, PTL

\* Retries are free to the budget, but no more than max_retries for each call
\* it counts (service.py 533-606).
THEOREM AttemptsHold == ClockSpec => []AttemptsBounded
<1>1. ClockInv => AttemptsBounded
  <2> SUFFICES ASSUME ClockInv  PROVE AttemptsBounded
    OBVIOUS
  <2> DEFINE k == MaxRetries + 1
  <2>1. k \in Nat /\ used \in Nat /\ executed \in Nat
        /\ attempt \in 0..MaxRetries /\ attempt + 1 <= k
    BY ClockAssumption DEF ClockInv, ClockTypeOK, NumTools, Calling, lvars
  <2>2. (used - 1) * k + k = used * k /\ used * k \in Nat
    BY <2>1, OneMoreCall
  <2>3. \/ executed <= used * k
        \/ executed <= (used - 1) * k + attempt + 1
    BY DEF ClockInv
  <2>4. executed <= used * k
    <3> HIDE DEF k
    <3> QED  BY <2>1, <2>2, <2>3
  <2> QED  BY <2>4 DEF ClockInv, AttemptsBounded
<1> QED  BY <1>1, ClockHolds, PTL
=============================================================================

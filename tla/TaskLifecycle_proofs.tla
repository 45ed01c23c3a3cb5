------------------------- MODULE TaskLifecycle_proofs -------------------------
(***************************************************************************)
(* Theorems about TaskLifecycle for every limit of failures and backoff,   *)
(* any number of runNow() calls and of stable runs.                        *)
(***************************************************************************)
EXTENDS TaskLifecycle, TLAPS

(* The inductive invariant, in named parts.                                *)

\* wait_for() holds mtx_ from the evaluation of its predicate until it sleeps, and
\* again until its caller has left it.
LockHeld == mtx <=> worker \in {"check", "falling", "woken"}

\* A worker that has found the predicate false and not yet slept cannot be overtaken
\* by runNow(), which needs mtx_.
NoRequestInGap == ~(worker = "falling" /\ waitsFor = "interval" /\ runNow)

\* A request waits in runNow_ until the loop is back at its top, where an execute() follows.
OwedIsSet == owed => runNow \/ worker \in {"top", "ended"}

\* The wrapper's count is the number of quick failures in a row.
CountsStreak == failures = quick

IInv ==
    /\ TypeOK /\ LockHeld /\ NoRequestInGap /\ OwedIsSet /\ RunNowNotLost /\ TokenStopNotLost
    /\ CountsStreak /\ AbortNeedsStreak

-----------------------------------------------------------------------------

\* The backoff stays between one second and kMaxBackoffSecs.
LEMMA DoubledBackoff ==
    ASSUME NEW b \in 1..MaxBackoff
    PROVE  Smaller(2 * b, MaxBackoff) \in 1..MaxBackoff
BY LifecycleAssumption DEF Smaller

\* Task::start(): the thread is at the top of its loop.
LEMMA InitInv == Init => IInv
<1> SUFFICES ASSUME Init PROVE IInv
  OBVIOUS
<1>1. TypeOK
  <2>1. tokenWait \in BOOLEAN
    BY LifecycleAssumption, Zenon DEF Init
  <2>2. /\ requests \in 0..MaxRequests /\ failures \in 0..MaxConsecutive
        /\ backoff \in 1..MaxBackoff /\ quick \in 0..MaxConsecutive /\ stable \in 0..MaxStable
    BY LifecycleAssumption DEF Init
  <2> QED
    BY <2>1, <2>2 DEF Init, TypeOK
<1>2. /\ LockHeld /\ NoRequestInGap /\ OwedIsSet /\ RunNowNotLost /\ TokenStopNotLost
      /\ CountsStreak /\ AbortNeedsStreak
  BY LifecycleAssumption
     DEF Init, LockHeld, NoRequestInGap, OwedIsSet, RunNowNotLost, TokenStopNotLost, CountsStreak,
         AbortNeedsStreak
<1> QED
  BY <1>1, <1>2 DEF IInv

\* A failure counts once: after it the wrapper retries or has reached the limit.
LEMMA CaughtStep ==
    ASSUME IInv, WorkerCaught
    PROVE  IInv'
<1> USE LifecycleAssumption DEF IInv, waitVars, requestVars, failureVars
<1>1. failures \in 0..(MaxConsecutive - 1) /\ quick = failures
  BY DEF WorkerCaught, TypeOK, CountsStreak, AbortNeedsStreak
<1>2. CASE stop /\ worker' = "ended" /\ UNCHANGED failureVars
  BY <1>1, <1>2
     DEF WorkerCaught, TypeOK, LockHeld, NoRequestInGap, OwedIsSet, RunNowNotLost, TokenStopNotLost,
         CountsStreak, AbortNeedsStreak
<1>3. CASE /\ ~stop /\ stable < MaxStable /\ StartOver
           /\ stable' = stable + 1 /\ worker' = "lock"
  <2>1. failures' = 0 /\ quick' = 0 /\ backoff' = 1 /\ stable' \in 0..MaxStable
    BY <1>3 DEF StartOver, TypeOK
  <2> QED
    BY <1>3, <2>1
       DEF WorkerCaught, TypeOK, LockHeld, NoRequestInGap, OwedIsSet, RunNowNotLost, TokenStopNotLost,
           CountsStreak, AbortNeedsStreak
<1>4. CASE /\ ~stop /\ failures' = failures + 1 /\ quick' = quick + 1
           /\ worker' = IF failures' >= MaxConsecutive THEN "aborted" ELSE "lock"
           /\ UNCHANGED <<backoff, stable>>
  <2>1. /\ failures' \in 0..MaxConsecutive /\ quick' = failures'
        /\ worker' \in {"aborted", "lock"}
        /\ worker' = "aborted" <=> quick' = MaxConsecutive
    BY <1>1, <1>4
  <2> QED
    BY <1>4, <2>1
       DEF WorkerCaught, TypeOK, LockHeld, NoRequestInGap, OwedIsSet, RunNowNotLost, TokenStopNotLost,
           CountsStreak, AbortNeedsStreak
<1> QED
  BY <1>2, <1>3, <1>4 DEF WorkerCaught

\* Every other step of the worker.
LEMMA WorkerStep ==
    ASSUME IInv, Worker
    PROVE  IInv'
<1> USE LifecycleAssumption
    DEF IInv, waitVars, requestVars, failureVars, LockHeld, NoRequestInGap, OwedIsSet, RunNowNotLost,
        TokenStopNotLost, WatchesToken, CountsStreak, AbortNeedsStreak, TypeOK
<1>1. CASE WorkerTop
  BY <1>1 DEF WorkerTop, NextRound
<1>2. CASE WorkerExecuted
  BY <1>2 DEF WorkerExecuted
<1>3. CASE WorkerThrows
  BY <1>3 DEF WorkerThrows
<1>4. CASE WorkerLocks
  BY <1>4 DEF WorkerLocks
<1>5. CASE WorkerChecks
  BY <1>5 DEF WorkerChecks, Predicate
<1>6. CASE WorkerSleeps
  BY <1>6 DEF WorkerSleeps, SeesStop
<1>7. CASE WorkerWoken
  <2>1. backoff' \in 1..MaxBackoff
    BY <1>7, DoubledBackoff DEF WorkerWoken
  <2> QED
    BY <1>7, <2>1 DEF WorkerWoken
<1> QED
  BY <1>1, <1>2, <1>3, <1>4, <1>5, <1>6, <1>7, CaughtStep DEF Worker

\* Deadlines, runNow() and stop(): none of them needs the worker to be anywhere.
LEMMA OtherStep ==
    ASSUME IInv,
           Timeout \/ RunNow \/ RunNowNotifies \/ RequestStop \/ StopNotifies \/ Join
    PROVE  IInv'
<1> USE LifecycleAssumption
    DEF IInv, waitVars, requestVars, failureVars, LockHeld, NoRequestInGap, OwedIsSet, RunNowNotLost,
        TokenStopNotLost, WatchesToken, CountsStreak, AbortNeedsStreak, TypeOK
<1>1. CASE Timeout
  BY <1>1 DEF Timeout
<1>2. CASE RunNow
  BY <1>2 DEF RunNow, CanLock
<1>3. CASE RunNowNotifies
  BY <1>3 DEF RunNowNotifies, Notify
<1>4. CASE RequestStop
  BY <1>4 DEF RequestStop, Notify
<1>5. CASE StopNotifies
  BY <1>5 DEF StopNotifies, Notify
<1>6. CASE Join
  BY <1>6 DEF Join
<1> QED
  BY <1>1, <1>2, <1>3, <1>4, <1>5, <1>6

\* The inductive invariant holds throughout.
LEMMA Inductive == Spec => []IInv
<1>1. IInv /\ [Next]_vars => IInv'
  <2> SUFFICES ASSUME IInv, [Next]_vars PROVE IInv'
    OBVIOUS
  <2>1. CASE UNCHANGED vars
    BY <2>1 DEF vars, IInv, LockHeld, NoRequestInGap, OwedIsSet, RunNowNotLost, TokenStopNotLost,
                WatchesToken, CountsStreak, AbortNeedsStreak, TypeOK
  <2> QED
    BY <2>1, WorkerStep, OtherStep DEF Next, Over
<1> QED
  BY <1>1, InitInv, PTL DEF Spec

\* The state of the worker and of the threads around it stays well typed; the backoff
\* is at least a second and at most kMaxBackoffSecs.
THEOREM TypeCorrect == Spec => []TypeOK
<1>1. IInv => TypeOK
  BY DEF IInv
<1> QED
  BY <1>1, Inductive, PTL

\* A runNow() is not slept through: between the predicate and the sleep the worker has
\* mtx_, without which runNow_ is not set, and after it the notify is still to come.
THEOREM RequestNotLost == Spec => []RunNowNotLost
<1>1. IInv => RunNowNotLost
  BY DEF IInv
<1> QED
  BY <1>1, Inductive, PTL

\* A wait with the stop token is not slept through either, although stop() takes no
\* lock: the wait looks at the flag once more, and the request itself wakes it.
THEOREM StopNotLost == Spec => []TokenStopNotLost
<1>1. IInv => TokenStopNotLost
  BY DEF IInv
<1> QED
  BY <1>1, Inductive, PTL

\* The process is aborted exactly when kMaxConsecutiveFailures quick failures came in a
\* row.
THEOREM AbortIsEarned == Spec => []AbortNeedsStreak
<1>1. IInv => AbortNeedsStreak
  BY DEF IInv
<1> QED
  BY <1>1, Inductive, PTL

-----------------------------------------------------------------------------
(* The backoff.                                                             *)

\* The delays after the numbers ks of doublings.
Backoffs(ks) == {Smaller(2^k, MaxBackoff) : k \in ks \cap Nat}

\* The worker is in the wait of the wrapper.
InBackoff ==
    waitsFor = "backoff" /\ worker \in {"lock", "check", "falling", "asleep", "relock",
                                        "woken", "aborted"}

\* The wrapper counts a failure before the wait and doubles the delay after it, so in
\* the wait the delay is one doubling behind what it is outside.
BackoffDoubling ==
    IF InBackoff THEN backoff \in Backoffs({failures - 1, failures})
                 ELSE backoff \in Backoffs({failures, failures + 1})

\* The provers evaluate a power but know no law of exponents, so the law is shown one
\* exponent at a time, as far as the ten failures of the code need it.
LEMMA NextPower == ASSUME NEW k \in 0..10 PROVE 2^(k + 1) = 2 * 2^k /\ 2^k \in Nat
<1>1. /\ 2^0 = 1 /\ 2^1 = 2 /\ 2^2 = 4 /\ 2^3 = 8 /\ 2^4 = 16 /\ 2^5 = 32 /\ 2^6 = 64
      /\ 2^7 = 128 /\ 2^8 = 256 /\ 2^9 = 512 /\ 2^10 = 1024 /\ 2^11 = 2048
  BY SMT
<1>2. CASE k = 0
  BY <1>1, <1>2
<1>3. CASE k = 1
  BY <1>1, <1>3
<1>4. CASE k = 2
  BY <1>1, <1>4
<1>5. CASE k = 3
  BY <1>1, <1>5
<1>6. CASE k = 4
  BY <1>1, <1>6
<1>7. CASE k = 5
  BY <1>1, <1>7
<1>8. CASE k = 6
  BY <1>1, <1>8
<1>9. CASE k = 7
  BY <1>1, <1>9
<1>10. CASE k = 8
  BY <1>1, <1>10
<1>11. CASE k = 9
  BY <1>1, <1>11
<1>12. CASE k = 10
  BY <1>1, <1>12
<1> QED
  BY <1>2, <1>3, <1>4, <1>5, <1>6, <1>7, <1>8, <1>9, <1>10, <1>11, <1>12

\* The wait of a backoff doubles the delay, up to the limit.
LEMMA DoubledPower ==
    ASSUME NEW k \in 0..10
    PROVE  Smaller(2 * Smaller(2^k, MaxBackoff), MaxBackoff) = Smaller(2^(k + 1), MaxBackoff)
<1>1. PICK p \in Nat : p = 2^k /\ 2^(k + 1) = 2 * p
  BY NextPower
<1>2. Smaller(2 * Smaller(p, MaxBackoff), MaxBackoff) = Smaller(2 * p, MaxBackoff)
  BY LifecycleAssumption DEF Smaller
<1> QED
  BY <1>1, <1>2

\* A quick failure counts before its wait, a stable run sets both back.
LEMMA CaughtDoubling ==
    ASSUME IInv, BackoffDoubling, WorkerCaught
    PROVE  BackoffDoubling'
<1>1. /\ failures \in Nat /\ ~InBackoff /\ backoff \in Backoffs({failures, failures + 1})
  BY DEF IInv, TypeOK, BackoffDoubling, InBackoff, WorkerCaught
<1>2. CASE stop /\ worker' = "ended" /\ UNCHANGED failureVars
  BY <1>1, <1>2 DEF BackoffDoubling, InBackoff, Backoffs, failureVars
<1>3. CASE StartOver /\ worker' = "lock"
  <2>1. 2^0 = 1 /\ Smaller(1, MaxBackoff) = 1
    BY LifecycleAssumption DEF Smaller
  <2>2. 1 \in Backoffs({0 - 1, 0})
    BY <2>1 DEF Backoffs
  <2> QED
    BY <1>3, <2>2 DEF BackoffDoubling, InBackoff, WorkerCaught, StartOver, Backoffs
<1>4. CASE /\ failures' = failures + 1 /\ worker' \in {"aborted", "lock"}
           /\ UNCHANGED backoff
  <2>1. InBackoff' /\ failures' - 1 = failures
    BY <1>1, <1>4 DEF InBackoff, WorkerCaught
  <2> QED
    BY <1>1, <1>4, <2>1 DEF BackoffDoubling, Backoffs
<1> QED
  BY <1>2, <1>3, <1>4 DEF WorkerCaught

\* The end of a backoff doubles the delay.
LEMMA WokenDoubling ==
    ASSUME MaxConsecutive =< 10, IInv, BackoffDoubling, WorkerWoken
    PROVE  BackoffDoubling'
<1>1. failures \in 0..10 /\ ~InBackoff' /\ failures' = failures
  BY LifecycleAssumption DEF IInv, TypeOK, InBackoff, WorkerWoken
<1>2. CASE waitsFor = "interval"
  BY <1>1, <1>2 DEF WorkerWoken, BackoffDoubling, InBackoff, Backoffs
<1>3. CASE waitsFor = "backoff"
  <2>1. PICK k \in {failures - 1, failures} \cap Nat : backoff = Smaller(2^k, MaxBackoff)
    BY <1>3 DEF WorkerWoken, BackoffDoubling, InBackoff, Backoffs
  <2>2. k \in 0..10 /\ k + 1 \in {failures, failures + 1} \cap Nat
    BY <1>1
  <2>3. backoff' = Smaller(2^(k + 1), MaxBackoff)
    BY <1>3, <2>1, <2>2, DoubledPower DEF WorkerWoken
  <2>4. backoff' \in Backoffs({failures, failures + 1})
    BY <2>2, <2>3 DEF Backoffs
  <2> QED
    BY <1>1, <2>4 DEF BackoffDoubling, Backoffs
<1> QED
  BY <1>2, <1>3 DEF IInv, TypeOK

\* No other step touches the two counts or takes the worker into or out of a backoff.
LEMMA OtherDoubling ==
    ASSUME IInv, BackoffDoubling, [Next]_vars, ~WorkerCaught, ~WorkerWoken
    PROVE  BackoffDoubling'
<1>1. UNCHANGED <<failures, backoff>> /\ (InBackoff' <=> InBackoff)
  <2> USE DEF IInv, TypeOK, InBackoff, waitVars, failureVars, Notify, vars
  <2>1. CASE Worker
    BY <2>1 DEF Worker, WorkerTop, NextRound, WorkerExecuted, WorkerThrows, WorkerLocks,
                WorkerChecks, WorkerSleeps
  <2>2. CASE Timeout \/ RunNow \/ RunNowNotifies
    BY <2>2 DEF Timeout, RunNow, RunNowNotifies
  <2>3. CASE RequestStop \/ StopNotifies \/ Join \/ Over \/ UNCHANGED vars
    BY <2>3 DEF RequestStop, StopNotifies, Join, Over
  <2> QED
    BY <2>1, <2>2, <2>3 DEF Next
<1> QED
  BY <1>1 DEF BackoffDoubling, Backoffs

\* The backoff before a retry is two to the power of the quick failures in a row less
\* the first (or of all of them, when the count began with a failure after a stable run,
\* which waits without being counted), cut off at kMaxBackoffSecs.  It is shown for every
\* limit on the failures up to the code's own, ten.
THEOREM BackoffDoubles ==
    ASSUME MaxConsecutive =< 10
    PROVE  Spec => []BackoffFollowsFailures
<1>1. Init => BackoffDoubling
  <2> SUFFICES ASSUME Init PROVE BackoffDoubling
    OBVIOUS
  <2>1. 2^0 = 1 /\ Smaller(1, MaxBackoff) = 1
    BY LifecycleAssumption DEF Smaller
  <2>2. 1 \in Backoffs({0, 0 + 1})
    BY <2>1 DEF Backoffs
  <2> QED
    BY <2>2 DEF Init, BackoffDoubling, InBackoff, Backoffs
<1>2. IInv /\ BackoffDoubling /\ [Next]_vars => BackoffDoubling'
  BY CaughtDoubling, WokenDoubling, OtherDoubling
<1>3. BackoffDoubling => BackoffFollowsFailures
  BY DEF BackoffDoubling, BackoffFollowsFailures, InBackoff, Backoffs
<1> QED
  BY <1>1, <1>2, <1>3, Inductive, PTL DEF Spec
=============================================================================

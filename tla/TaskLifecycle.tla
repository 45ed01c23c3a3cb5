---------------------------- MODULE TaskLifecycle ----------------------------
(***************************************************************************)
(* Task (src/src/task/Task.cpp) and PeriodicTask: a worker thread that     *)
(* runs, waits on a condition variable, fails and is restarted, and the    *)
(* threads that wake it and stop it.                                       *)
(*                                                                         *)
(* The wait is modelled down to the gap between "the predicate is false"   *)
(* and "the thread sleeps", because Task::stop() sets the stop flag and    *)
(* notifies without holding mtx_.  A wait that is given the stop token     *)
(* (tokenWait) looks at the flag again inside that gap and is woken by the *)
(* stop itself; a plain wait_for is not.                                   *)
(***************************************************************************)
EXTENDS Naturals

CONSTANTS
    TokenWaits,     \* whether _run() may wait with the stop token: subset of BOOLEAN
    MayThrow,       \* _run() may throw
    MaxConsecutive, \* kMaxConsecutiveFailures
    MaxBackoff,     \* kMaxBackoffSecs
    MaxStable,      \* bound on the failures after a stable run
    MaxRequests     \* bound on the runNow() calls

ASSUME LifecycleAssumption ==
    /\ TokenWaits \subseteq BOOLEAN /\ MayThrow \in BOOLEAN
    /\ MaxConsecutive \in Nat \ {0} /\ MaxBackoff \in Nat \ {0}
    /\ MaxStable \in Nat /\ MaxRequests \in Nat

VARIABLES
    tokenWait,  \* _run() of this task waits with the stop token
    worker,     \* where the worker thread is
    waitsFor,   \* which wait it is in: "interval" (_run) or "backoff" (the wrapper)
    timedOut,   \* its wait has reached the deadline
    mtx,        \* the worker holds mtx_
    stop,       \* stop_requested()
    stopper,    \* where the thread calling Task::stop() is
    runNow,     \* runNow_
    requester,  \* where the thread calling runNow() is
    requests,   \* number of runNow() calls so far
    owed,       \* history: a runNow() no execute() has followed yet
    failures,   \* consecutiveFailures
    backoff,    \* backoffSecs
    quick,      \* history: failures in a row that came quickly
    stable      \* number of failures after a stable run

vars == <<tokenWait, worker, waitsFor, timedOut, mtx, stop, stopper, runNow, requester,
          requests, owed, failures, backoff, quick, stable>>
waitVars == <<tokenWait, waitsFor, timedOut>>
requestVars == <<runNow, requester, requests, owed>>
failureVars == <<failures, backoff, quick, stable>>

TypeOK ==
    /\ tokenWait \in BOOLEAN
    /\ worker \in {"top", "body", "lock", "check", "falling", "asleep", "relock", "woken",
                   "caught", "ended", "aborted"}
    /\ waitsFor \in {"interval", "backoff"}
    /\ timedOut \in BOOLEAN
    /\ mtx \in BOOLEAN
    /\ stop \in BOOLEAN
    /\ stopper \in {"idle", "notify", "join", "joined"}
    /\ runNow \in BOOLEAN
    /\ requester \in {"idle", "notify"}
    /\ requests \in 0..MaxRequests
    /\ owed \in BOOLEAN
    /\ failures \in 0..MaxConsecutive
    /\ backoff \in 1..MaxBackoff
    /\ quick \in 0..MaxConsecutive
    /\ stable \in 0..MaxStable

Init ==
    /\ tokenWait \in TokenWaits
    /\ worker = "top"
    /\ waitsFor = "interval" /\ timedOut = FALSE
    /\ mtx = FALSE
    /\ stop = FALSE /\ stopper = "idle"
    /\ runNow = FALSE /\ requester = "idle" /\ requests = 0 /\ owed = FALSE
    /\ failures = 0 /\ backoff = 1 /\ quick = 0 /\ stable = 0

-----------------------------------------------------------------------------
(* The worker.                                                              *)

\* Mutant of NextRound: the loop does not look at the stop.
NextRoundAlways == "body"
NextRound == IF stop THEN "ended" ELSE "body"

\* The wrapper's while, and the while of _run(): stop, or execute() once more.
WorkerTop ==
    /\ worker = "top"
    /\ worker' = NextRound
    /\ owed' = (owed /\ stop)
    /\ UNCHANGED <<waitVars, mtx, stop, stopper, runNow, requester, requests, failureVars>>

\* Mutant of WorkerExecuted: runNow_ is reset before the wait, not after it.
WorkerExecutedResets ==
    /\ worker = "body"
    /\ worker' = "lock"
    /\ waitsFor' = "interval"
    /\ runNow' = FALSE
    /\ UNCHANGED <<tokenWait, timedOut, mtx, stop, stopper, requester, requests, owed,
                   failureVars>>

\* execute() is over; PeriodicTask catches what it throws.
WorkerExecuted ==
    /\ worker = "body"
    /\ worker' = "lock"
    /\ waitsFor' = "interval"
    /\ UNCHANGED <<tokenWait, timedOut, mtx, stop, stopper, requestVars, failureVars>>

\* _run() throws into the wrapper.
WorkerThrows ==
    /\ MayThrow
    /\ worker = "body"
    /\ worker' = "caught"
    /\ UNCHANGED <<waitVars, mtx, stop, stopper, requestVars, failureVars>>

\* Mutants of StartOver: one of the two counts survives a stable run.
StartOverBackoff == backoff' = 1 /\ quick' = 0 /\ UNCHANGED failures
StartOverFailures == failures' = 0 /\ quick' = 0 /\ UNCHANGED backoff
StartOver == failures' = 0 /\ backoff' = 1 /\ quick' = 0

\* The wrapper: a failure after kStableThresholdSecs starts the count over, a quick
\* one adds to it, and one too many aborts the process.
WorkerCaught ==
    /\ worker = "caught"
    /\ \/ /\ stop
          /\ worker' = "ended"
          /\ UNCHANGED failureVars
       \/ /\ ~stop /\ stable < MaxStable
          /\ StartOver
          /\ stable' = stable + 1
          /\ worker' = "lock"
       \/ /\ ~stop
          /\ failures' = failures + 1
          /\ quick' = quick + 1
          /\ worker' = IF failures' >= MaxConsecutive THEN "aborted" ELSE "lock"
          /\ UNCHANGED <<backoff, stable>>
    /\ waitsFor' = "backoff"
    /\ UNCHANGED <<tokenWait, timedOut, mtx, stop, stopper, requestVars>>

WorkerLocks ==
    /\ worker \in {"lock", "relock"}
    /\ ~mtx
    /\ mtx' = TRUE
    /\ worker' = "check"
    /\ UNCHANGED <<waitVars, stop, stopper, requestVars, failureVars>>

\* What the two wait_for() calls wait for.
Predicate == stop \/ (waitsFor = "interval" /\ runNow)

\* With mtx_ held: evaluate the predicate, and give up after the deadline.
WorkerChecks ==
    /\ worker = "check"
    /\ worker' = IF Predicate \/ timedOut THEN "woken" ELSE "falling"
    /\ UNCHANGED <<waitVars, mtx, stop, stopper, requestVars, failureVars>>

\* The stop token is handed to the wait of _run() only, never to the backoff's.
WatchesToken == tokenWait /\ waitsFor = "interval"

\* Mutant of SeesStop: the flag is not looked at again before the thread sleeps.
SeesNothing == FALSE
SeesStop == WatchesToken /\ stop

\* Release mtx_ and sleep.
WorkerSleeps ==
    /\ worker = "falling"
    /\ IF SeesStop
       THEN worker' = "woken" /\ UNCHANGED mtx
       ELSE worker' = "asleep" /\ mtx' = FALSE
    /\ UNCHANGED <<waitVars, stop, stopper, requestVars, failureVars>>

\* The deadline of the wait: the interval or the backoff.
Timeout ==
    /\ worker = "asleep"
    /\ worker' = "relock"
    /\ timedOut' = TRUE
    /\ UNCHANGED <<tokenWait, waitsFor, mtx, stop, stopper, requestVars, failureVars>>

\* Mutant of Smaller: the backoff has no limit.
Unlimited(a, b) == a
Smaller(a, b) == IF a < b THEN a ELSE b

\* The wait is over and the lock released; PeriodicTask forgets runNow_, the
\* wrapper doubles the backoff.
WorkerWoken ==
    /\ worker = "woken"
    /\ worker' = "top"
    /\ mtx' = FALSE
    /\ timedOut' = FALSE
    /\ IF waitsFor = "interval"
       THEN runNow' = FALSE /\ UNCHANGED backoff
       ELSE backoff' = Smaller(2 * backoff, MaxBackoff) /\ UNCHANGED runNow
    /\ UNCHANGED <<tokenWait, waitsFor, stop, stopper, requester, requests, owed, failures,
                   quick, stable>>

Worker ==
    \/ WorkerTop \/ WorkerExecuted \/ WorkerThrows \/ WorkerCaught \/ WorkerLocks
    \/ WorkerChecks \/ WorkerSleeps \/ WorkerWoken

-----------------------------------------------------------------------------
(* The threads around it.                                                   *)

\* Mutant of CanLock: the flag is set without mtx_.
CanAlways == TRUE
CanLock == ~mtx

\* PeriodicTask::runNow(): the flag is set under mtx_, the notify follows.
RunNow ==
    /\ requester = "idle"
    /\ requests < MaxRequests
    /\ CanLock
    /\ runNow' = TRUE
    /\ owed' = TRUE
    /\ requests' = requests + 1
    /\ requester' = "notify"
    /\ UNCHANGED <<worker, waitVars, mtx, stop, stopper, failureVars>>

\* cv_.notify_one()/notify_all() reach only a thread that already sleeps.
Notify == worker' = IF worker = "asleep" THEN "relock" ELSE worker

RunNowNotifies ==
    /\ requester = "notify"
    /\ Notify
    /\ requester' = "idle"
    /\ UNCHANGED <<waitVars, mtx, stop, stopper, runNow, requests, owed, failureVars>>

\* Task::stop(): request_stop() runs the callback of a wait that watches the token.
RequestStop ==
    /\ stopper = "idle"
    /\ stop' = TRUE
    /\ stopper' = "notify"
    /\ IF WatchesToken THEN Notify ELSE UNCHANGED worker
    /\ UNCHANGED <<waitVars, mtx, requestVars, failureVars>>

StopNotifies ==
    /\ stopper = "notify"
    /\ stopper' = "join"
    /\ Notify
    /\ UNCHANGED <<waitVars, mtx, stop, requestVars, failureVars>>

Join ==
    /\ stopper = "join"
    /\ worker = "ended"
    /\ stopper' = "joined"
    /\ UNCHANGED <<worker, waitVars, mtx, stop, requestVars, failureVars>>

\* Nothing is left to do after a join or an abort.
Over ==
    /\ stopper = "joined" \/ worker = "aborted"
    /\ UNCHANGED vars

Next == Worker \/ Timeout \/ RunNow \/ RunNowNotifies \/ RequestStop \/ StopNotifies \/ Join \/ Over

Spec == Init /\ [][Next]_vars

\* The worker and the other threads are scheduled.
Scheduled ==
    /\ WF_vars(Worker)
    /\ WF_vars(RunNowNotifies)
    /\ WF_vars(StopNotifies)
    /\ WF_vars(Join)

\* Without fairness on Timeout what must happen may not wait for a deadline: the
\* hour of an interval, the day of DisplayClear, the minute of a backoff.
PromptSpec == Spec /\ Scheduled

\* Deadlines pass as well.
FairSpec == Spec /\ Scheduled /\ WF_vars(Timeout)

-----------------------------------------------------------------------------
(* Properties.                                                              *)

\* PeriodicTask::runNow() "Wake the loop to run execute() now": the worker never
\* sleeps through a request, nor forgets one before it sleeps: while it sleeps in its
\* interval and no execute() has begun since a request, wherever in the loop that found
\* the worker, the notify that wakes it is still to come.
RunNowNotLost ==
    worker = "asleep" /\ waitsFor = "interval" /\ owed => requester = "notify"

\* A wait with the stop token never sleeps through Task::stop(), although stop()
\* neither sets the flag nor notifies under mtx_.
TokenStopNotLost == ~(worker = "asleep" /\ WatchesToken /\ stop)

\* The wrapper aborts the process only after MaxConsecutive quick failures in a row
\* and never while it still retries: a failure after a stable run starts the count
\* over.
AbortNeedsStreak == (worker = "aborted") <=> (quick = MaxConsecutive)

\* The backoff doubles with every quick failure in a row up to MaxBackoff, so a task
\* that keeps failing never retries faster than one that failed less often.
BackoffFollowsFailures ==
    worker = "lock" /\ waitsFor = "backoff" =>
        backoff \in {Smaller(2^n, MaxBackoff) : n \in {failures - 1, failures} \cap Nat}

\* main(): "so the tasks below stop promptly": Task::stop() ends without waiting
\* for a deadline.
StopsPromptly == stop ~> stopper = "joined"

\* Task::stop() ends at the latest when the wait it met reaches its deadline.
StopEnds == stop ~> stopper = "joined" \/ worker = "aborted"

=============================================================================

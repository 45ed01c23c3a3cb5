---------------------------- MODULE DisplayPanel ----------------------------
(***************************************************************************)
(* The e-paper panel behind DisplayManager (src/src/display/               *)
(* DisplayManager.cpp) with any number of threads calling it.              *)
(*                                                                         *)
(* Every public operation takes _hwMutex, may wait for the minimum refresh *)
(* interval while it holds it, decides whether to go on, runs one refresh  *)
(* cycle of the hardware and returns.  A call is one of                    *)
(*    init, displayBuffer, clear, clearForShutdown, paintForShutdown       *)
(* and goes through the phases                                             *)
(*    out -> enter -> hold -> refresh -> return -> out.                    *)
(*                                                                         *)
(* Data is abstracted to what the callers tell apart: a buffer is the      *)
(* screen it draws, the steady clock is the bit "the last refresh is less  *)
(* than minRefreshSecs old", and the hardware is the screen it shows.      *)
(***************************************************************************)
EXTENDS Naturals

CONSTANTS
    Threads,     \* the threads that call the panel
    Screens,     \* what a buffer can draw
    Blank,       \* the white panel
    Unpainted,   \* what the panel shows before the process first touches it
    FaultKinds,  \* which faults may happen: subset of {"init","busy","buffer","db"}
    MaxFaults    \* bound on the number of faults

ASSUME ScreensAssumption == Blank \notin Screens /\ Unpainted \notin Screens \cup {Blank}
ASSUME FaultAssumption ==
    FaultKinds \subseteq {"init", "busy", "buffer", "db"} /\ MaxFaults \in Nat

VARIABLES
    owner,        \* thread inside _hwMutex, {} when it is free
    phase,        \* where each thread is in its panel call
    call,         \* the call each thread is in (any call while it is out)
    result,       \* how the call ended: "ok", "failed", "threw"
    stopped,      \* the stop token each thread passes to its calls
    cooling,      \* _lastDisplayTime is less than minRefreshSecs ago
    panel,        \* what the hardware shows
    isCleared,    \* _isCleared
    shuttingDown, \* _shuttingDown
    failures,     \* _consecutiveFailures, counted up to FailedAt
    streak,       \* history: refresh cycles of the hardware that failed in a row
    late,         \* history: buffers drawn by displayBuffer since requestShutdown()
    faults        \* history: how many faults so far, and of which kinds

panelVars == <<owner, phase, call, result, stopped, cooling, panel, isCleared,
               shuttingDown, failures, streak, late, faults>>

-----------------------------------------------------------------------------
(* Calls.                                                                   *)

\* `respects` is RefreshPolicy::RespectMinInterval; `token` says whether the
\* caller hands over its stop token.
InitPanel == [op |-> "init", screen |-> Blank, respects |-> FALSE, token |-> FALSE]
DisplayBuffer(screen, respects) ==
    [op |-> "displayBuffer", screen |-> screen, respects |-> respects, token |-> TRUE]
Clear(token) == [op |-> "clear", screen |-> Blank, respects |-> TRUE, token |-> token]
ClearForShutdown ==
    [op |-> "clearForShutdown", screen |-> Blank, respects |-> FALSE, token |-> FALSE]
PaintForShutdown(screen) ==
    [op |-> "paintForShutdown", screen |-> screen, respects |-> FALSE, token |-> FALSE]

Calls ==
    {InitPanel, ClearForShutdown, Clear(TRUE), Clear(FALSE)}
    \cup {DisplayBuffer(s, respects) : s \in Screens, respects \in BOOLEAN}
    \cup {PaintForShutdown(s) : s \in Screens}

\* The failure count from which healthSnapshot() reports "failed".
FailedAt == 3

Health == CASE failures = 0 -> "ok"
            [] failures \in 1..(FailedAt - 1) -> "degraded"
            [] OTHER -> "failed"

-----------------------------------------------------------------------------
TypeOK ==
    /\ owner \in SUBSET Threads
    /\ phase \in [Threads -> {"out", "enter", "hold", "refresh", "return"}]
    /\ call \in [Threads -> Calls]
    /\ result \in [Threads -> {"ok", "failed", "threw"}]
    /\ stopped \in [Threads -> BOOLEAN]
    /\ cooling \in BOOLEAN
    /\ panel \in Screens \cup {Blank, Unpainted}
    /\ isCleared \in BOOLEAN
    /\ shuttingDown \in BOOLEAN
    /\ failures \in 0..FailedAt
    /\ streak \in Nat
    /\ late \in Nat
    /\ faults \in [count : 0..MaxFaults, kinds : SUBSET FaultKinds]

\* _lastDisplayTime starts at the epoch of the steady clock: no wait is due.
Init ==
    /\ owner = {}
    /\ phase = [p \in Threads |-> "out"]
    /\ call = [p \in Threads |-> InitPanel]
    /\ result = [p \in Threads |-> "ok"]
    /\ stopped = [p \in Threads |-> FALSE]
    /\ cooling = FALSE
    /\ panel = Unpainted
    /\ isCleared = FALSE
    /\ shuttingDown = FALSE
    /\ failures = 0
    /\ streak = 0
    /\ late = 0
    /\ faults = [count |-> 0, kinds |-> {}]

-----------------------------------------------------------------------------
(* The phases of a call.                                                    *)

Call(p, c) ==
    /\ phase[p] = "out"
    /\ phase' = [phase EXCEPT ![p] = "enter"]
    /\ call' = [call EXCEPT ![p] = c]
    /\ UNCHANGED <<owner, result, stopped, cooling, panel, isCleared, shuttingDown,
                   failures, streak, late, faults>>

\* Mutant of Lock: an operation that forgets the lock.
LockUnguarded(p) ==
    /\ phase[p] = "enter"
    /\ owner' = {p}
    /\ phase' = [phase EXCEPT ![p] = "hold"]
    /\ UNCHANGED <<call, result, stopped, cooling, panel, isCleared, shuttingDown,
                   failures, streak, late, faults>>

\* std::lock_guard lock(_hwMutex): not interruptible by a stop request.
Lock(p) ==
    /\ phase[p] = "enter"
    /\ owner = {}
    /\ owner' = {p}
    /\ phase' = [phase EXCEPT ![p] = "hold"]
    /\ UNCHANGED <<call, result, stopped, cooling, panel, isCleared, shuttingDown,
                   failures, streak, late, faults>>

StopSeen(p) == call[p].token /\ stopped[p]

\* Mutants of WaitMinRefreshOver: a wait that a stop ends although the caller gave no
\* token, and waits that a shutdown or a stop request does not wake.
WaitAnyStopEnds(p) == ~call[p].respects \/ ~cooling \/ stopped[p] \/ shuttingDown
WaitSleepsThroughShutdown(p) == ~call[p].respects \/ ~cooling \/ StopSeen(p)
WaitSleepsThroughStop(p) == ~call[p].respects \/ ~cooling \/ shuttingDown

\* _waitMinRefresh() has returned, or the operation does not wait.
WaitMinRefreshOver(p) ==
    \/ ~call[p].respects
    \/ ~cooling
    \/ StopSeen(p)
    \/ shuttingDown

\* Mutant of Bails: displayBuffer does not look at _shuttingDown after its wait.
BailsOnStopOnly(p) ==
    CASE call[p].op = "displayBuffer"    -> StopSeen(p)
      [] call[p].op = "clear"            -> StopSeen(p)
      [] call[p].op = "clearForShutdown" -> isCleared
      [] OTHER                           -> FALSE

\* The early returns between the wait and the refresh.
Bails(p) ==
    CASE call[p].op = "displayBuffer"    -> StopSeen(p) \/ shuttingDown
      [] call[p].op = "clear"            -> StopSeen(p)
      [] call[p].op = "clearForShutdown" -> isCleared
      [] OTHER                           -> FALSE

Unlock(p, res) ==
    /\ owner' = {}
    /\ phase' = [phase EXCEPT ![p] = "return"]
    /\ result' = [result EXCEPT ![p] = res]

Bail(p) ==
    /\ phase[p] = "hold"
    /\ WaitMinRefreshOver(p)
    /\ Bails(p)
    /\ Unlock(p, "failed")
    /\ UNCHANGED <<call, stopped, cooling, panel, isCleared, shuttingDown, failures,
                   streak, late, faults>>

StartRefresh(p) ==
    /\ phase[p] = "hold"
    /\ WaitMinRefreshOver(p)
    /\ ~Bails(p)
    /\ phase' = [phase EXCEPT ![p] = "refresh"]
    /\ UNCHANGED <<owner, call, result, stopped, cooling, panel, isCleared,
                   shuttingDown, failures, streak, late, faults>>

\* What every refresh that reaches the hardware leaves behind.
Drawn(p) ==
    /\ cooling' = TRUE
    /\ late' = IF shuttingDown /\ call[p].op = "displayBuffer" THEN late + 1 ELSE late

\* Mutant of MarkCleared: a drawn buffer does not reset the flag.
MarkClearedOnly(screen) == isCleared' = (isCleared \/ screen = Blank)
MarkCleared(screen) == isCleared' = (screen = Blank)

\* Mutant of NoFailures: a success takes back one failure instead of all of them.
OneFailureLess == failures' = failures - 1 /\ streak' = 0
\* _hwInit() worked and so did the refresh.
NoFailures == failures' = 0 /\ streak' = 0

\* _hwInit(), the refresh and every metrics update work.
RefreshOk(p) ==
    /\ phase[p] = "refresh"
    /\ Unlock(p, "ok")
    /\ Drawn(p)
    /\ panel' = call[p].screen
    /\ MarkCleared(call[p].screen)
    /\ NoFailures
    /\ UNCHANGED <<call, stopped, shuttingDown, faults>>

Fault(kind) ==
    /\ kind \in FaultKinds
    /\ faults.count < MaxFaults
    /\ faults' = [count |-> faults.count + 1, kinds |-> faults.kinds \cup {kind}]

\* Mutant of OneMore: the failure is not counted.
NotCounted(n) == n
OneMore(n) == IF n < FailedAt THEN n + 1 ELSE n

\* init() runs _hwInit() itself before _clearHw() does, so by the time the second
\* one fails the first may have reset the count.
CountBefore(p) == {failures} \cup (IF call[p].op = "init" THEN {0} ELSE {})

\* _hwInit() times out: nothing is drawn.
HwInitFails(p) ==
    /\ phase[p] = "refresh"
    /\ Fault("init")
    /\ Unlock(p, "failed")
    /\ \E n \in CountBefore(p) : failures' = OneMore(n)
    /\ streak' = streak + 1
    /\ UNCHANGED <<call, stopped, cooling, panel, isCleared, shuttingDown, late>>

\* The panel stays BUSY past the timeout: the command was sent, so the panel may
\* show the old screen or the new one.  _hwInit() had reset the failure count.
BusyTimeout(p) ==
    /\ phase[p] = "refresh"
    /\ Fault("busy")
    /\ Unlock(p, "failed")
    /\ Drawn(p)
    /\ panel' \in {panel, call[p].screen}
    /\ failures' = OneMore(0)
    /\ streak' = streak + 1
    /\ UNCHANGED <<call, stopped, isCleared, shuttingDown>>

\* _sendBufferHw refuses a buffer of the wrong size (a render that failed).
RefuseBuffer(p) ==
    /\ phase[p] = "refresh"
    /\ call[p].op \in {"displayBuffer", "paintForShutdown"}
    /\ Fault("buffer")
    /\ Unlock(p, "failed")
    /\ UNCHANGED <<call, stopped, cooling, panel, isCleared, shuttingDown, failures,
                   streak, late>>

\* A metrics write throws SQLite::Exception (database locked, disk full): from
\* _hwInit() before anything is drawn, or right after the refresh, before the
\* failure count and _isCleared are brought up to date.
DbThrowsBefore(p) ==
    /\ phase[p] = "refresh"
    /\ Fault("db")
    /\ Unlock(p, "threw")
    /\ failures' \in CountBefore(p)
    /\ UNCHANGED <<call, stopped, cooling, panel, isCleared, shuttingDown, streak, late>>

DbThrowsAfter(p) ==
    /\ phase[p] = "refresh"
    /\ Fault("db")
    /\ Unlock(p, "threw")
    /\ Drawn(p)
    /\ panel' = call[p].screen
    /\ NoFailures
    /\ UNCHANGED <<call, stopped, isCleared, shuttingDown>>

\* Both at once: the count of the failed refresh throws before the failure count
\* _hwInit() has reset goes up.
DbThrowsAfterBusy(p) ==
    /\ phase[p] = "refresh"
    /\ "busy" \in FaultKinds
    /\ Fault("db")
    /\ Unlock(p, "threw")
    /\ Drawn(p)
    /\ panel' \in {panel, call[p].screen}
    /\ failures' = 0
    /\ streak' = streak + 1
    /\ UNCHANGED <<call, stopped, isCleared, shuttingDown>>

Refresh(p) ==
    \/ RefreshOk(p)
    \/ HwInitFails(p)
    \/ BusyTimeout(p)
    \/ RefuseBuffer(p)
    \/ DbThrowsBefore(p)
    \/ DbThrowsAfter(p)
    \/ DbThrowsAfterBusy(p)

\* The caller goes on with the result; the call and its result are forgotten.
Return(p) ==
    /\ phase[p] = "return"
    /\ phase' = [phase EXCEPT ![p] = "out"]
    /\ call' = [call EXCEPT ![p] = InitPanel]
    /\ result' = [result EXCEPT ![p] = "ok"]
    /\ UNCHANGED <<owner, stopped, cooling, panel, isCleared, shuttingDown,
                   failures, streak, late, faults>>

-----------------------------------------------------------------------------
(* What other threads and the clock do to the panel.                        *)

\* minRefreshSecs have passed since the last refresh.
CoolDown ==
    /\ cooling
    /\ cooling' = FALSE
    /\ UNCHANGED <<owner, phase, call, result, stopped, panel, isCleared, shuttingDown,
                   failures, streak, late, faults>>

RequestShutdown ==
    /\ ~shuttingDown
    /\ shuttingDown' = TRUE
    /\ UNCHANGED <<owner, phase, call, result, stopped, cooling, panel, isCleared,
                   failures, streak, late, faults>>

\* request_stop() on the thread, at any point of its call ...
RequestStop(p) ==
    /\ stopped' = [stopped EXCEPT ![p] = TRUE]
    /\ UNCHANGED <<owner, phase, call, result, cooling, panel, isCleared, shuttingDown,
                   failures, streak, late, faults>>

\* ... and the fresh token of a thread started again, after it was joined.
NewToken(p) ==
    /\ phase[p] = "out"
    /\ stopped' = [stopped EXCEPT ![p] = FALSE]
    /\ UNCHANGED <<owner, phase, call, result, cooling, panel, isCleared, shuttingDown,
                   failures, streak, late, faults>>

PanelStep(p) == Lock(p) \/ Bail(p) \/ StartRefresh(p) \/ Refresh(p)

Next ==
    \/ \E p \in Threads :
          \/ \E c \in Calls : Call(p, c)
          \/ PanelStep(p)
          \/ Return(p)
          \/ RequestStop(p)
          \/ NewToken(p)
    \/ CoolDown
    \/ RequestShutdown

Spec == Init /\ [][Next]_panelVars

\* A thread that holds _hwMutex is scheduled: it leaves the wait once the wait is
\* over, and a refresh cycle ends (the driver's BUSY wait has a timeout).  Nothing
\* is assumed about the clock, about who gets the mutex or about the callers.
Fairness ==
    \A p \in Threads : WF_panelVars(Bail(p) \/ StartRefresh(p)) /\ WF_panelVars(Refresh(p))

FairSpec == Spec /\ Fairness

-----------------------------------------------------------------------------
(* Properties.                                                              *)

\* DisplayManager.hpp: _hwMutex "serializes all EPD hardware access": a thread is
\* between the lock and the unlock of a call exactly when it owns the mutex, so
\* no two threads are ever at the hardware together.
SerializedHardware ==
    \A p \in Threads : phase[p] \in {"hold", "refresh"} <=> owner = {p}

\* No refresh runs before the minimum interval since the last one is over, except
\* the ones that are meant to: an Immediate buffer, the boot clear, the final
\* refresh of a shutdown, and a clear() whose wait requestShutdown() cut short.
RefreshRespectsInterval ==
    \A p \in Threads :
        phase[p] = "refresh" /\ cooling =>
            ~call[p].respects \/ (call[p].op = "clear" /\ shuttingDown)

\* "makes pending displays bail": once requestShutdown() has run, displayBuffer
\* draws at most the one buffer whose refresh had already begun, however many
\* threads were queued on the mutex or in the interval wait.
LateDisplays == late =< 1

\* DisplayManager.hpp: _isCleared is "True when the panel shows white".  The final
\* clear of a shutdown is skipped on the strength of it.  A BUSY timeout or a metrics
\* write that throws leaves the flag behind.
ClearedIsBlank == isCleared /\ faults.kinds \subseteq {"init", "buffer"} => panel = Blank

\* healthSnapshot(): a panel whose last refresh cycle failed is never reported "ok"
\* (as long as the metrics can be written).
HealthShowsLastFailure == streak > 0 /\ "db" \notin faults.kinds => Health # "ok"

\* requestShutdown() "wakes the min-refresh wait ... so tasks unblock within the
\* timeout-kill window instead of holding the lock": a call that holds the mutex
\* when the shutdown begins returns although the interval never ends.
ShutdownFreesPanel ==
    \A p \in Threads : phase[p] = "hold" /\ shuttingDown ~> phase[p] = "return"

\* "A stop request cancels a paint still waiting for the min refresh interval": a
\* stopped caller returns although the interval never ends.
StopFreesPanel ==
    \A p \in Threads : phase[p] = "hold" /\ StopSeen(p) ~> phase[p] = "return"

=============================================================================

------------------------- MODULE DisplayPanel_proofs -------------------------
(***************************************************************************)
(* Theorems about DisplayPanel for every set of threads and screens, every *)
(* set of faults and any number of them.                                   *)
(***************************************************************************)
EXTENDS DisplayPanel, TLAPS

\* Every call has one of five operations; displayBuffer, clearForShutdown and the
\* others carry the policy their callers in DisplayManager give them.
LEMMA CallShape ==
    ASSUME NEW c \in Calls
    PROVE  /\ c.op \in {"init", "displayBuffer", "clear", "clearForShutdown", "paintForShutdown"}
           /\ c.screen \in Screens \cup {Blank}
           /\ c.respects \in BOOLEAN
           /\ c.token \in BOOLEAN
           /\ c.op \in {"init", "clearForShutdown", "paintForShutdown"} => ~c.respects
<1>1. CASE c = InitPanel
  BY <1>1 DEF InitPanel
<1>2. CASE c = ClearForShutdown
  BY <1>2 DEF ClearForShutdown
<1>3. CASE c = Clear(TRUE) \/ c = Clear(FALSE)
  <2>1. CASE c = Clear(TRUE)
    BY <2>1 DEF Clear
  <2>2. CASE c = Clear(FALSE)
    BY <2>2 DEF Clear
  <2> QED
    BY <1>3, <2>1, <2>2
<1>4. ASSUME NEW s \in Screens, NEW r \in BOOLEAN, c = DisplayBuffer(s, r)
      PROVE  c.op = "displayBuffer" /\ c.screen = s /\ c.respects = r /\ c.token = TRUE
  BY <1>4 DEF DisplayBuffer
<1>5. ASSUME NEW s \in Screens, c = PaintForShutdown(s)
      PROVE  c.op = "paintForShutdown" /\ c.screen = s /\ c.respects = FALSE /\ c.token = FALSE
  BY <1>5 DEF PaintForShutdown
<1>6. \/ c = InitPanel \/ c = ClearForShutdown
      \/ c = Clear(TRUE) \/ c = Clear(FALSE)
      \/ \E s \in Screens, r \in BOOLEAN : c = DisplayBuffer(s, r)
      \/ \E s \in Screens : c = PaintForShutdown(s)
  BY SMT DEF Calls, Clear
<1> QED
  BY <1>1, <1>2, <1>3, <1>4, <1>5, <1>6

\* DisplayManager keeps its state well typed whoever calls it.
THEOREM TypeCorrect == Spec => []TypeOK
<1>1. Init => TypeOK
  <2> SUFFICES ASSUME Init PROVE TypeOK
    OBVIOUS
  <2>1. call \in [Threads -> Calls]
    <3>1. InitPanel \in Calls
      BY DEF Calls
    <3> QED
      BY <3>1 DEF Init
  <2>2. /\ phase \in [Threads -> {"out", "enter", "hold", "refresh", "return"}]
        /\ result \in [Threads -> {"ok", "failed", "threw"}]
        /\ stopped \in [Threads -> BOOLEAN]
    BY DEF Init
  <2>3. /\ failures \in 0..FailedAt /\ streak \in Nat /\ late \in Nat
        /\ faults \in [count : 0..MaxFaults, kinds : SUBSET FaultKinds]
    BY FaultAssumption DEF Init, FailedAt
  <2>4. /\ owner \in SUBSET Threads
        /\ cooling \in BOOLEAN
        /\ panel \in Screens \cup {Blank, Unpainted}
        /\ isCleared \in BOOLEAN
        /\ shuttingDown \in BOOLEAN
    BY DEF Init
  <2> QED
    BY <2>1, <2>2, <2>3, <2>4 DEF TypeOK
<1>2. TypeOK /\ [Next]_panelVars => TypeOK'
  <2> SUFFICES ASSUME TypeOK, [Next]_panelVars PROVE TypeOK'
    OBVIOUS
  <2> USE FaultAssumption DEF TypeOK, FailedAt
  <2>1. ASSUME NEW p \in Threads, NEW c \in Calls, Call(p, c) PROVE TypeOK'
    BY <2>1 DEF Call
  <2>2. ASSUME NEW p \in Threads, Lock(p) PROVE TypeOK'
    BY <2>2 DEF Lock
  <2>3. ASSUME NEW p \in Threads, Bail(p) PROVE TypeOK'
    BY <2>3 DEF Bail, Unlock
  <2>4. ASSUME NEW p \in Threads, StartRefresh(p) PROVE TypeOK'
    BY <2>4 DEF StartRefresh
  <2>5. ASSUME NEW p \in Threads, Refresh(p) PROVE TypeOK'
    <3>0. call[p].screen \in Screens \cup {Blank}
      BY CallShape
    <3>1. CASE RefreshOk(p)
      BY <3>0, <3>1 DEF RefreshOk, Unlock, Drawn, MarkCleared, NoFailures
    <3>2. CASE HwInitFails(p)
      BY <3>0, <3>2 DEF HwInitFails, Unlock, Fault, OneMore, CountBefore
    <3>3. CASE BusyTimeout(p)
      BY <3>0, <3>3 DEF BusyTimeout, Unlock, Drawn, Fault, OneMore
    <3>4. CASE RefuseBuffer(p)
      BY <3>0, <3>4 DEF RefuseBuffer, Unlock, Fault
    <3>5. CASE DbThrowsBefore(p)
      BY <3>0, <3>5 DEF DbThrowsBefore, Unlock, Fault, CountBefore
    <3>6. CASE DbThrowsAfter(p)
      BY <3>0, <3>6 DEF DbThrowsAfter, Unlock, Drawn, Fault, NoFailures
    <3>7. CASE DbThrowsAfterBusy(p)
      BY <3>0, <3>7 DEF DbThrowsAfterBusy, Unlock, Drawn, Fault
    <3> QED
      BY <2>5, <3>1, <3>2, <3>3, <3>4, <3>5, <3>6, <3>7 DEF Refresh
  <2>6. ASSUME NEW p \in Threads, Return(p) PROVE TypeOK'
    BY <2>6 DEF Return, Calls, Clear
  <2>7. ASSUME NEW p \in Threads, RequestStop(p) PROVE TypeOK'
    BY <2>7 DEF RequestStop
  <2>8. ASSUME NEW p \in Threads, NewToken(p) PROVE TypeOK'
    BY <2>8 DEF NewToken
  <2>9. CASE CoolDown
    BY <2>9 DEF CoolDown
  <2>10. CASE RequestShutdown
    BY <2>10 DEF RequestShutdown
  <2>11. CASE UNCHANGED panelVars
    BY <2>11 DEF panelVars
  <2> QED
    BY <2>1, <2>2, <2>3, <2>4, <2>5, <2>6, <2>7, <2>8, <2>9, <2>10, <2>11
    DEF Next, PanelStep
<1> QED
  BY <1>1, <1>2, PTL DEF Spec

-----------------------------------------------------------------------------
\* What every outcome of a refresh cycle has in common: the mutex is released, the
\* call is over, and only a displayBuffer after requestShutdown() counts as late.
LEMMA RefreshReturns ==
    ASSUME NEW p \in Threads, Refresh(p)
    PROVE  /\ phase[p] = "refresh"
           /\ phase' = [phase EXCEPT ![p] = "return"]
           /\ owner' = {}
           /\ call' = call /\ shuttingDown' = shuttingDown
           /\ \/ late' = late
              \/ late' = late + 1 /\ shuttingDown /\ call[p].op = "displayBuffer"
<1>1. CASE RefreshOk(p)
  BY <1>1 DEF RefreshOk, Unlock, Drawn
<1>2. CASE HwInitFails(p)
  BY <1>2 DEF HwInitFails, Unlock
<1>3. CASE BusyTimeout(p)
  BY <1>3 DEF BusyTimeout, Unlock, Drawn
<1>4. CASE RefuseBuffer(p)
  BY <1>4 DEF RefuseBuffer, Unlock
<1>5. CASE DbThrowsBefore(p)
  BY <1>5 DEF DbThrowsBefore, Unlock
<1>6. CASE DbThrowsAfter(p)
  BY <1>6 DEF DbThrowsAfter, Unlock, Drawn
<1>7. CASE DbThrowsAfterBusy(p)
  BY <1>7 DEF DbThrowsAfterBusy, Unlock, Drawn
<1> QED
  BY <1>1, <1>2, <1>3, <1>4, <1>5, <1>6, <1>7 DEF Refresh

\* A refresh that starts is one the policy lets through.
LEMMA StartIsAllowed ==
    ASSUME TypeOK, NEW p \in Threads, StartRefresh(p)
    PROVE  /\ call[p].op = "displayBuffer" => ~shuttingDown
           /\ cooling => ~call[p].respects \/ (call[p].op = "clear" /\ shuttingDown)
<1>1. /\ call[p].op \in {"init", "displayBuffer", "clear", "clearForShutdown", "paintForShutdown"}
      /\ call[p].op \in {"init", "clearForShutdown", "paintForShutdown"} => ~call[p].respects
  BY CallShape DEF TypeOK
<1>2. call[p].op = "displayBuffer" => ~StopSeen(p) /\ ~shuttingDown
  BY DEF StartRefresh, Bails
<1>3. call[p].op = "clear" => ~StopSeen(p)
  BY DEF StartRefresh, Bails
<1>4. ~call[p].respects \/ ~cooling \/ StopSeen(p) \/ shuttingDown
  BY DEF StartRefresh, WaitMinRefreshOver
<1> QED
  BY <1>1, <1>2, <1>3, <1>4

\* _hwMutex serializes the hardware: a thread is between the lock and the unlock of
\* a call of DisplayManager exactly when it owns the mutex.  Inductive with TypeOK.
THEOREM Serialized == Spec => []SerializedHardware
<1>1. Init => SerializedHardware
  BY DEF Init, SerializedHardware
<1>2. TypeOK /\ SerializedHardware /\ [Next]_panelVars => SerializedHardware'
  <2> SUFFICES ASSUME TypeOK, SerializedHardware, [Next]_panelVars
               PROVE  SerializedHardware'
    OBVIOUS
  <2> USE DEF TypeOK, SerializedHardware
  <2>1. ASSUME NEW p \in Threads, NEW c \in Calls, Call(p, c) PROVE SerializedHardware'
    BY <2>1 DEF Call
  <2>2. ASSUME NEW p \in Threads, Lock(p) PROVE SerializedHardware'
    BY <2>2 DEF Lock
  <2>3. ASSUME NEW p \in Threads, Bail(p) PROVE SerializedHardware'
    BY <2>3 DEF Bail, Unlock
  <2>4. ASSUME NEW p \in Threads, StartRefresh(p) PROVE SerializedHardware'
    BY <2>4 DEF StartRefresh
  <2>5. ASSUME NEW p \in Threads, Refresh(p) PROVE SerializedHardware'
    BY <2>5, RefreshReturns
  <2>6. ASSUME NEW p \in Threads, Return(p) PROVE SerializedHardware'
    BY <2>6 DEF Return
  <2>7. ASSUME NEW p \in Threads, RequestStop(p) \/ NewToken(p) PROVE SerializedHardware'
    BY <2>7 DEF RequestStop, NewToken
  <2>8. CASE CoolDown \/ RequestShutdown \/ UNCHANGED panelVars
    BY <2>8 DEF CoolDown, RequestShutdown, panelVars
  <2> QED
    BY <2>1, <2>2, <2>3, <2>4, <2>5, <2>6, <2>7, <2>8 DEF Next, PanelStep
<1> QED
  BY <1>1, <1>2, TypeCorrect, PTL DEF Spec

\* _waitMinRefresh holds for every interleaving: no refresh starts before the
\* minimum interval is over but the ones that are meant to.  A refresh restarts the
\* interval while another could be running unless the hardware is serialized, so
\* the induction needs SerializedHardware.
THEOREM IntervalRespected == Spec => []RefreshRespectsInterval
<1>1. Init => RefreshRespectsInterval
  BY DEF Init, RefreshRespectsInterval
<1>2. TypeOK /\ SerializedHardware /\ RefreshRespectsInterval /\ [Next]_panelVars
        => RefreshRespectsInterval'
  <2> SUFFICES ASSUME TypeOK, SerializedHardware, RefreshRespectsInterval, [Next]_panelVars
               PROVE  RefreshRespectsInterval'
    OBVIOUS
  <2> USE DEF TypeOK, RefreshRespectsInterval
  <2>1. ASSUME NEW p \in Threads, NEW c \in Calls, Call(p, c) PROVE RefreshRespectsInterval'
    BY <2>1 DEF Call
  <2>2. ASSUME NEW p \in Threads, Lock(p) PROVE RefreshRespectsInterval'
    BY <2>2 DEF Lock
  <2>3. ASSUME NEW p \in Threads, Bail(p) PROVE RefreshRespectsInterval'
    BY <2>3 DEF Bail, Unlock
  <2>4. ASSUME NEW p \in Threads, StartRefresh(p) PROVE RefreshRespectsInterval'
    <3>1. cooling => ~call[p].respects \/ (call[p].op = "clear" /\ shuttingDown)
      BY <2>4, StartIsAllowed
    <3> QED
      BY <2>4, <3>1 DEF StartRefresh
  <2>5. ASSUME NEW p \in Threads, Refresh(p) PROVE RefreshRespectsInterval'
    <3>1. \A q \in Threads : phase'[q] # "refresh"
      BY <2>5, RefreshReturns DEF SerializedHardware
    <3> QED
      BY <3>1
  <2>6. ASSUME NEW p \in Threads, Return(p) PROVE RefreshRespectsInterval'
    BY <2>6 DEF Return
  <2>7. ASSUME NEW p \in Threads, RequestStop(p) \/ NewToken(p) PROVE RefreshRespectsInterval'
    BY <2>7 DEF RequestStop, NewToken
  <2>8. CASE CoolDown \/ RequestShutdown \/ UNCHANGED panelVars
    BY <2>8 DEF CoolDown, RequestShutdown, panelVars
  <2> QED
    BY <2>1, <2>2, <2>3, <2>4, <2>5, <2>6, <2>7, <2>8 DEF Next, PanelStep
<1> QED
  BY <1>1, <1>2, TypeCorrect, Serialized, PTL DEF Spec

\* The late buffer has gone out during a shutdown, and no displayBuffer is at the
\* hardware any more: with TypeOK and SerializedHardware this makes LateDisplays
\* inductive.
LateIsLast ==
    /\ late =< 1
    /\ late = 1 => /\ shuttingDown
                   /\ \A q \in Threads : phase[q] = "refresh" => call[q].op # "displayBuffer"

\* requestShutdown() makes pending displays bail: at most one buffer is drawn by
\* displayBuffer afterwards, whatever the number of threads queued on the panel.
THEOREM ShutdownStopsDisplays == Spec => []LateDisplays
<1>1. Init => LateIsLast
  BY DEF Init, LateIsLast
<1>2. TypeOK /\ SerializedHardware /\ LateIsLast /\ [Next]_panelVars => LateIsLast'
  <2> SUFFICES ASSUME TypeOK, SerializedHardware, LateIsLast, [Next]_panelVars
               PROVE  LateIsLast'
    OBVIOUS
  <2> USE DEF TypeOK, LateIsLast
  <2>1. ASSUME NEW p \in Threads, NEW c \in Calls, Call(p, c) PROVE LateIsLast'
    BY <2>1 DEF Call
  <2>2. ASSUME NEW p \in Threads, Lock(p) PROVE LateIsLast'
    BY <2>2 DEF Lock
  <2>3. ASSUME NEW p \in Threads, Bail(p) PROVE LateIsLast'
    BY <2>3 DEF Bail, Unlock
  <2>4. ASSUME NEW p \in Threads, StartRefresh(p) PROVE LateIsLast'
    <3>1. call[p].op = "displayBuffer" => ~shuttingDown
      BY <2>4, StartIsAllowed
    <3> QED
      BY <2>4, <3>1 DEF StartRefresh
  <2>5. ASSUME NEW p \in Threads, Refresh(p) PROVE LateIsLast'
    <3>1. \A q \in Threads : phase'[q] # "refresh"
      BY <2>5, RefreshReturns DEF SerializedHardware
    <3>2. late' = late \/ (late = 0 /\ late' = 1 /\ shuttingDown)
      BY <2>5, RefreshReturns
    <3>3. shuttingDown' = shuttingDown
      BY <2>5, RefreshReturns
    <3> QED
      BY <3>1, <3>2, <3>3
  <2>6. ASSUME NEW p \in Threads, Return(p) PROVE LateIsLast'
    BY <2>6 DEF Return
  <2>7. ASSUME NEW p \in Threads, RequestStop(p) \/ NewToken(p) PROVE LateIsLast'
    BY <2>7 DEF RequestStop, NewToken
  <2>8. CASE CoolDown \/ RequestShutdown \/ UNCHANGED panelVars
    BY <2>8 DEF CoolDown, RequestShutdown, panelVars
  <2> QED
    BY <2>1, <2>2, <2>3, <2>4, <2>5, <2>6, <2>7, <2>8 DEF Next, PanelStep
<1>3. LateIsLast => LateDisplays
  BY DEF LateIsLast, LateDisplays
<1> QED
  BY <1>1, <1>2, <1>3, TypeCorrect, Serialized, PTL DEF Spec

\* _isCleared is true only while the panel shows white, as long as no refresh times
\* out on BUSY and no metrics write throws between the refresh and the flag.
THEOREM ClearedFlagIsTrue == Spec => []ClearedIsBlank
<1>1. Init => ClearedIsBlank
  BY DEF Init, ClearedIsBlank
<1>2. TypeOK /\ ClearedIsBlank /\ [Next]_panelVars => ClearedIsBlank'
  <2> SUFFICES ASSUME TypeOK, ClearedIsBlank, [Next]_panelVars PROVE ClearedIsBlank'
    OBVIOUS
  <2> USE DEF ClearedIsBlank
  <2>1. ASSUME NEW p \in Threads, NEW c \in Calls, Call(p, c) PROVE ClearedIsBlank'
    BY <2>1 DEF Call
  <2>2. ASSUME NEW p \in Threads, Lock(p) \/ Bail(p) \/ StartRefresh(p) PROVE ClearedIsBlank'
    BY <2>2 DEF Lock, Bail, StartRefresh
  <2>3. ASSUME NEW p \in Threads, Refresh(p) PROVE ClearedIsBlank'
    <3>1. CASE RefreshOk(p)
      BY <3>1 DEF RefreshOk, MarkCleared
    <3>2. CASE HwInitFails(p) \/ RefuseBuffer(p)
      <4>1. faults.kinds \subseteq faults'.kinds
        BY <3>2 DEF HwInitFails, RefuseBuffer, Fault
      <4>2. isCleared' = isCleared /\ panel' = panel
        BY <3>2 DEF HwInitFails, RefuseBuffer
      <4> QED
        BY <4>1, <4>2
    <3>3. CASE BusyTimeout(p) \/ DbThrowsBefore(p) \/ DbThrowsAfter(p) \/ DbThrowsAfterBusy(p)
      <4>1. ~(faults'.kinds \subseteq {"init", "buffer"})
        BY <3>3 DEF BusyTimeout, DbThrowsBefore, DbThrowsAfter, DbThrowsAfterBusy, Fault
      <4> QED
        BY <4>1
    <3> QED
      BY <2>3, <3>1, <3>2, <3>3 DEF Refresh
  <2>4. ASSUME NEW p \in Threads, Return(p) \/ RequestStop(p) \/ NewToken(p)
        PROVE ClearedIsBlank'
    BY <2>4 DEF Return, RequestStop, NewToken
  <2>5. CASE CoolDown \/ RequestShutdown \/ UNCHANGED panelVars
    BY <2>5 DEF CoolDown, RequestShutdown, panelVars
  <2> QED
    BY <2>1, <2>2, <2>3, <2>4, <2>5 DEF Next, PanelStep
<1> QED
  BY <1>1, <1>2, TypeCorrect, PTL DEF Spec

\* While the metrics can be written, a failed refresh cycle shows in healthSnapshot()
\* until a cycle works, however many threads fail and whichever way they fail.
THEOREM FailureShows == Spec => []HealthShowsLastFailure
<1> DEFINE Counted == streak > 0 /\ "db" \notin faults.kinds => failures > 0
<1>1. Init => Counted
  BY DEF Init
<1>2. TypeOK /\ Counted /\ [Next]_panelVars => Counted'
  <2> SUFFICES ASSUME TypeOK, Counted, [Next]_panelVars PROVE Counted'
    OBVIOUS
  <2>1. ASSUME NEW p \in Threads, NEW c \in Calls, Call(p, c) PROVE Counted'
    BY <2>1 DEF Call
  <2>2. ASSUME NEW p \in Threads, Lock(p) \/ Bail(p) \/ StartRefresh(p) PROVE Counted'
    BY <2>2 DEF Lock, Bail, StartRefresh
  <2>3. ASSUME NEW p \in Threads, Refresh(p) PROVE Counted'
    <3>1. CASE RefreshOk(p)
      BY <3>1 DEF RefreshOk, NoFailures
    <3>2. CASE HwInitFails(p)
      <4>1. PICK n \in CountBefore(p) : failures' = OneMore(n)
        BY <3>2 DEF HwInitFails
      <4>2. n \in Nat
        BY <4>1 DEF CountBefore, TypeOK, FailedAt
      <4> QED
        BY <3>2, <4>1, <4>2 DEF HwInitFails, Fault, OneMore, FailedAt
    <3>3. CASE BusyTimeout(p)
      BY <3>3 DEF BusyTimeout, OneMore, FailedAt
    <3>4. CASE RefuseBuffer(p)
      BY <3>4 DEF RefuseBuffer, Fault
    <3>5. CASE DbThrowsBefore(p) \/ DbThrowsAfter(p) \/ DbThrowsAfterBusy(p)
      BY <3>5 DEF DbThrowsBefore, DbThrowsAfter, DbThrowsAfterBusy, Fault
    <3> QED
      BY <2>3, <3>1, <3>2, <3>3, <3>4, <3>5 DEF Refresh
  <2>4. ASSUME NEW p \in Threads, Return(p) \/ RequestStop(p) \/ NewToken(p) PROVE Counted'
    BY <2>4 DEF Return, RequestStop, NewToken
  <2>5. CASE CoolDown \/ RequestShutdown \/ UNCHANGED panelVars
    BY <2>5 DEF CoolDown, RequestShutdown, panelVars
  <2> QED
    BY <2>1, <2>2, <2>3, <2>4, <2>5 DEF Next, PanelStep
<1>3. TypeOK /\ Counted => HealthShowsLastFailure
  BY DEF TypeOK, HealthShowsLastFailure, Health, FailedAt
<1> QED
  BY <1>1, <1>2, <1>3, TypeCorrect, PTL DEF Spec

=============================================================================

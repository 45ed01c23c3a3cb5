------------------------ MODULE DisplayProcess_proofs ------------------------
(***************************************************************************)
(* Theorems about DisplayProcess, for every set of events, status kinds,   *)
(* credentials and night ends, and any number of events and faults: the    *)
(* manager runs at most one content task, and the threads of the process   *)
(* use the panel as DisplayPanel allows.                                   *)
(***************************************************************************)
EXTENDS DisplayProcess, TLAPS

\* The part of the state the argument is about, well typed.
DataOK ==
    /\ pc = [p \in Threads |-> pc[p]]
    /\ queue \in Seq(EventTypes) /\ batch \in Seq(EventTypes)
    /\ latest \in Creds \cup {None}
    /\ latestStatus \in Kinds \cup {None}
    /\ nightEnd \in NightEnds
    /\ state \in Content \cup {"Boot"}
    /\ target \in Content
    /\ snap.ap \in Creds \cup {None} /\ snap.status \in Kinds \cup {None}
    /\ buffer \in [Content -> Screens \cup {None}]

\* Between the join of the old task and the start of the new one no task runs.
JoinedBeforeStart == pc[M] \in {"clearing", "start"} => \A t \in Content : pc[t] = "off"

\* A switch under way has a screen to switch to.
TargetHasData ==
    pc[M] \in {"stopping", "clearing", "start"} =>
        /\ target = "Status" => snap.status # None
        /\ target = "ApSetup" => snap.ap # None

\* The task of the current state has a screen to draw.
StateHasBuffer ==
    /\ buffer["Slideshow"] \in Screens
    /\ buffer["Registration"] \in Screens
    /\ state \in Content => buffer[state] \in Screens

IInv == DataOK /\ ContentIsState /\ JoinedBeforeStart /\ TargetHasData /\ StateHasBuffer

-----------------------------------------------------------------------------
\* The payload of an event has the type its handler stores.
LEMMA EventShape ==
    ASSUME NEW e \in EventTypes
    PROVE  /\ e.topic = "AP_SETUP_STATE" => e.arg \in Creds \cup {None}
           /\ e.topic = "STATUS_SCREEN" => e.arg \in Kinds \cup {None}
           /\ e.topic = "UPDATE_NIGHT_MODE" => e.arg.end \in NightEnds
  BY DEF EventTypes

\* Everything the tasks draw is a screen.
LEMMA ScreenShape ==
    /\ Loading \in Screens /\ Photo \in Screens /\ RegistrationCode \in Screens
    /\ \A k \in Kinds : StatusOf(k) \in Screens
    /\ \A c \in Creds : SetupOf(c) \in Screens
    /\ \A n \in NightEnds : NightOf(n) \in Screens
  BY DEF Screens

\* The chosen task has the data it draws.
LEMMA TargetShape ==
    ASSUME NEW s, NEW a, NEW r
    PROVE  /\ TargetOf(s, a, r) \in Content
           /\ TargetOf(s, a, r) = "Status" => s # None
           /\ TargetOf(s, a, r) = "ApSetup" => a # None
  BY DEF TargetOf, Content

\* main() starts with no content task and an empty bus.
LEMMA InitOK == ASSUME Init PROVE IInv
<1> USE DEF Init, Threads, Content, M
<1>1. DataOK
  <2>1. nightEnd \in NightEnds /\ latest \in Creds \cup {None} /\ latestStatus \in Kinds \cup {None}
    OBVIOUS
  <2>2. pc = [p \in Threads |-> pc[p]]
    OBVIOUS
  <2>3. buffer \in [Content -> Screens \cup {None}]
    BY ScreenShape
  <2>4. queue \in Seq(EventTypes) /\ batch \in Seq(EventTypes)
    OBVIOUS
  <2>5. snap.ap \in Creds \cup {None} /\ snap.status \in Kinds \cup {None}
    BY DEF NoSnap
  <2> QED
    BY <2>1, <2>2, <2>3, <2>4, <2>5 DEF DataOK
<1>2. ContentIsState /\ JoinedBeforeStart /\ TargetHasData
  BY DEF ContentIsState, JoinedBeforeStart, TargetHasData
<1>3. StateHasBuffer
  BY ScreenShape DEF StateHasBuffer
<1> QED
  BY <1>1, <1>2, <1>3 DEF IInv

-----------------------------------------------------------------------------
(* Steps that only move one thread.                                         *)

dataVars == <<queue, batch, latest, latestStatus, nightEnd, state, target, snap, buffer>>

\* Nothing the invariant is about changes.
LEMMA Stutters == ASSUME IInv, UNCHANGED <<pc, dataVars>> PROVE IInv'
  BY DEF IInv, DataOK, ContentIsState, JoinedBeforeStart, TargetHasData, StateHasBuffer, dataVars

\* The manager goes on, not into the middle of a switch.
LEMMA ManagerMoves ==
    ASSUME IInv, NEW l, l \notin {"stopping", "clearing", "start"}, Goto(M, l), UNCHANGED dataVars
    PROVE  IInv'
<1>1. DataOK' /\ StateHasBuffer'
  BY DEF IInv, DataOK, StateHasBuffer, dataVars, Goto
<1>2. pc'[M] = l /\ \A t \in Content : pc'[t] = pc[t]
  BY DEF IInv, DataOK, Goto, M, Threads, Content
<1> QED
  BY <1>1, <1>2 DEF IInv, ContentIsState, JoinedBeforeStart, TargetHasData, dataVars

\* A running content task goes on.
LEMMA ContentMoves ==
    ASSUME IInv, NEW t \in Content, pc[t] # "off", NEW l, Goto(t, l), UNCHANGED dataVars
    PROVE  IInv'
<1>1. DataOK' /\ StateHasBuffer'
  BY DEF IInv, DataOK, StateHasBuffer, dataVars, Goto
<1>2. pc'[M] = pc[M] /\ \A u \in Content : pc'[u] = pc[u] \/ u = t
  BY DEF IInv, DataOK, Goto, M, Threads, Content
<1> QED
  BY <1>1, <1>2 DEF IInv, ContentIsState, JoinedBeforeStart, TargetHasData, dataVars

\* DisplayClear or main() goes on; DisplayClear may publish.
LEMMA OthersMove ==
    ASSUME IInv, NEW p \in {"clear", "main"}, NEW l, Goto(p, l), queue' \in Seq(EventTypes),
           UNCHANGED <<batch, latest, latestStatus, nightEnd, state, target, snap, buffer>>
    PROVE  IInv'
<1>1. DataOK' /\ StateHasBuffer'
  BY DEF IInv, DataOK, StateHasBuffer, Goto
<1>2. pc'[M] = pc[M] /\ \A u \in Content : pc'[u] = pc[u]
  BY DEF IInv, DataOK, Goto, M, Threads, Content
<1> QED
  BY <1>1, <1>2 DEF IInv, ContentIsState, JoinedBeforeStart, TargetHasData

-----------------------------------------------------------------------------
(* The steps of the bus and of the clock.                                   *)

\* Handlers store what DataOK says an event carries.
LEMMA BusOK == ASSUME IInv, (\E e \in Events : Publish(e)) \/ Bus PROVE IInv'
<1> USE DEF inputVars, switchVars, settingVars, contentVars
<1>1. ASSUME NEW e \in Events, Publish(e) PROVE IInv'
  <2>1. queue' \in Seq(EventTypes)
    BY <1>1, ProcessAssumption DEF Publish, IInv, DataOK
  <2> QED
    BY <1>1, <2>1 DEF Publish, IInv, DataOK, ContentIsState, JoinedBeforeStart, TargetHasData,
                      StateHasBuffer
<1>2. ASSUME TakeBatch PROVE IInv'
  <2>1. queue' \in Seq(EventTypes) /\ batch' \in Seq(EventTypes)
    BY <1>2 DEF TakeBatch, IInv, DataOK
  <2> QED
    BY <1>2, <2>1 DEF TakeBatch, IInv, DataOK, ContentIsState, JoinedBeforeStart, TargetHasData,
                      StateHasBuffer
<1>3. ASSUME Dispatch PROVE IInv'
  <2> DEFINE e == Head(batch)
  <2>1. e \in EventTypes /\ Tail(batch) \in Seq(EventTypes)
    BY <1>3 DEF Dispatch, IInv, DataOK
  <2>2. batch' \in Seq(EventTypes)
    BY <1>3, <2>1 DEF Dispatch, IInv, DataOK
  <2>3. /\ latest' \in Creds \cup {None}
        /\ latestStatus' \in Kinds \cup {None}
        /\ nightEnd' \in NightEnds
    <3> HIDE DEF e
    <3>1. Handle(e)
      BY <1>3 DEF Dispatch, e
    <3>2. /\ latest \in Creds \cup {None} /\ latestStatus \in Kinds \cup {None}
          /\ nightEnd \in NightEnds
      BY DEF IInv, DataOK
    <3>3. /\ e.topic = "AP_SETUP_STATE" => e.arg \in Creds \cup {None}
          /\ e.topic = "STATUS_SCREEN" => e.arg \in Kinds \cup {None}
          /\ e.topic = "UPDATE_NIGHT_MODE" => e.arg.end \in NightEnds
      BY <2>1, EventShape
    <3> QED
      BY <3>1, <3>2, <3>3 DEF Handle, HandleApSetup, HandleStatus, HandleRegistration,
             HandleScheduledClear, HandleNightMode, HandleSetActive, HandleClearDisplay
  <2>4. UNCHANGED <<pc, queue, state, target, snap, buffer>>
    BY <1>3 DEF Dispatch
  <2> QED
    BY <2>2, <2>3, <2>4 DEF IInv, DataOK, ContentIsState, JoinedBeforeStart, TargetHasData,
                            StateHasBuffer
<1> QED
  BY <1>1, <1>2, <1>3 DEF Bus

\* The clock touches no task.
LEMMA ClockOK == ASSUME IInv, Clock PROVE IInv'
<1>1. UNCHANGED <<pc, dataVars>>
  BY DEF Clock, NightBoundary, RegistrationEnds, StatusTimesOut, CoolDown, dataVars, busVars,
         inputVars, switchVars, settingVars, contentVars
<1> QED
  BY <1>1, Stutters

\* A thread inside the panel stays where it is in its own code.
LEMMA InPanelOK == ASSUME IInv, NEW p \in Threads, InPanel(p) PROVE IInv'
<1>1. UNCHANGED <<pc, dataVars>>
  BY DEF InPanel, dataVars, busVars, inputVars, switchVars, settingVars, contentVars
<1> QED
  BY <1>1, Stutters

-----------------------------------------------------------------------------
(* The steps of the manager.                                                *)

\* The steps that only move the manager, and those that also change what it works on.
LEMMA ManagerOK == ASSUME IInv, Manager PROVE IInv'
<1> USE DEF busVars, inputVars, switchVars, settingVars, contentVars
<1>1. ASSUME ManagerBoot PROVE IInv'
  BY <1>1, ManagerMoves DEF ManagerBoot, CallPanel, dataVars
<1>2. ASSUME ManagerBooted PROVE IInv'
  <2>1. PICK l \in {"done", "backoff", "load", "arm"} : Goto(M, l)
    BY <1>2 DEF ManagerBooted, Caught
  <2> QED
    BY <1>2, <2>1, ManagerMoves DEF ManagerBooted, dataVars
<1>3. ASSUME ManagerArm PROVE IInv'
  BY <1>3, ManagerMoves DEF ManagerArm, dataVars
<1>4. ASSUME ManagerWake PROVE IInv'
  <2>1. latestStatus' \in Kinds \cup {None}
    BY <1>4 DEF ManagerWake, IInv, DataOK
  <2>2. snap'.ap \in Creds \cup {None} /\ snap'.status \in Kinds \cup {None}
    BY <1>4, <2>1 DEF ManagerWake, IInv, DataOK
  <2>3. /\ pc' = [p \in Threads |-> pc'[p]]
        /\ pc'[M] = "apply" /\ \A t \in Content : pc'[t] = pc[t]
    BY <1>4 DEF ManagerWake, Goto, IInv, DataOK, M, Threads, Content
  <2>4. UNCHANGED <<queue, batch, latest, nightEnd, state, target, buffer>>
    BY <1>4 DEF ManagerWake
  <2> QED
    BY <2>1, <2>2, <2>3, <2>4 DEF IInv, DataOK, ContentIsState, JoinedBeforeStart,
                                 TargetHasData, StateHasBuffer
<1>5. ASSUME ManagerKeep PROVE IInv'
  <2>1. NoSnap.ap \in Creds \cup {None} /\ NoSnap.status \in Kinds \cup {None}
    BY DEF NoSnap
  <2>2. CASE UNCHANGED contentVars
    <3>1. /\ pc' = [p \in Threads |-> pc'[p]]
          /\ pc'[M] = "arm" /\ \A t \in Content : pc'[t] = pc[t]
      BY <1>5 DEF ManagerKeep, Goto, IInv, DataOK, M, Threads, Content
    <3> QED
      BY <1>5, <2>1, <2>2, <3>1 DEF ManagerKeep, IInv, DataOK, ContentIsState,
                               JoinedBeforeStart, TargetHasData, StateHasBuffer
  <2>3. CASE SetCredentials(snap.ap) /\ snap.ap # None
    <3>1. SetupOf(snap.ap) \in Screens
      BY <2>3, ScreenShape DEF IInv, DataOK
    <3>2. /\ buffer' \in [Content -> Screens \cup {None}]
          /\ \A t \in Content : buffer'[t] = buffer[t] \/ buffer'[t] \in Screens
      BY <2>3, <3>1 DEF SetCredentials, IInv, DataOK, Content
    <3>3. /\ pc' = [p \in Threads |-> pc'[p]]
          /\ pc'[M] = "arm" /\ \A t \in Content : pc'[t] = pc[t]
      BY <1>5 DEF ManagerKeep, Goto, IInv, DataOK, M, Threads, Content
    <3>4. StateHasBuffer'
      <4>1. "Slideshow" \in Content /\ "Registration" \in Content
        BY DEF Content
      <4>2. state' = state
        BY <1>5 DEF ManagerKeep
      <4> QED
        BY <3>2, <4>1, <4>2 DEF IInv, StateHasBuffer
    <3> QED
      BY <1>5, <2>1, <3>2, <3>3, <3>4 DEF ManagerKeep, IInv, DataOK, ContentIsState,
                                    JoinedBeforeStart, TargetHasData
  <2>4. UNCHANGED contentVars \/ (SetCredentials(snap.ap) /\ snap.ap # None)
    BY <1>5, TargetShape DEF ManagerKeep
  <2> QED
    BY <2>2, <2>3, <2>4
<1>6. ASSUME ManagerSwitch PROVE IInv'
  <2>1. /\ target' \in Content
        /\ target' = "Status" => snap.status # None
        /\ target' = "ApSetup" => snap.ap # None
    BY <1>6, TargetShape DEF ManagerSwitch
  <2>2. /\ pc' = [p \in Threads |-> pc'[p]]
        /\ pc'[M] = "stopping" /\ \A t \in Content : pc'[t] = pc[t]
    BY <1>6 DEF ManagerSwitch, Goto, IInv, DataOK, M, Threads, Content
  <2>3. UNCHANGED <<queue, batch, latest, latestStatus, nightEnd, state, snap, buffer>>
    BY <1>6 DEF ManagerSwitch
  <2> QED
    BY <2>1, <2>2, <2>3 DEF IInv, DataOK, ContentIsState, JoinedBeforeStart, TargetHasData,
                            StateHasBuffer
<1>7. ASSUME ManagerJoin \/ ManagerEnd PROVE IInv'
  <2>1. PICK l \in {"clearing", "start", "done"} :
            Joined(l) /\ (l \in {"clearing", "start"} => pc[M] = "stopping")
    BY <1>7 DEF ManagerJoin, ManagerEnd
  <2>2. UNCHANGED dataVars
    BY <1>7 DEF ManagerJoin, ManagerEnd, dataVars
  <2>3. pc' = [p \in Threads |-> pc'[p]]
    BY <2>1 DEF Joined
  <2>4. pc'[M] = l /\ \A t \in Content : pc'[t] = "off"
    <3>1. M \in Threads /\ \A t \in Content : t \in Threads /\ t # M
      BY DEF M, Threads, Content
    <3>2. pc'[M] = l
      BY <2>1, <3>1 DEF Joined
    <3>3. ASSUME NEW t \in Content, t = state PROVE pc'[t] = "off"
      BY <2>1, <3>1, <3>3 DEF Joined
    <3>4. ASSUME NEW t \in Content, t # state PROVE pc'[t] = pc[t]
      BY <2>1, <3>1, <3>4 DEF Joined
    <3> QED
      BY <3>2, <3>3, <3>4 DEF IInv, ContentIsState
  <2> QED
    BY <2>1, <2>2, <2>3, <2>4 DEF IInv, DataOK, ContentIsState, JoinedBeforeStart,
                             TargetHasData, StateHasBuffer, dataVars
<1>8. ASSUME ManagerCleared PROVE IInv'
  <2>1. PICK l \in {"done", "backoff", "start"} : Goto(M, l)
    BY <1>8 DEF ManagerCleared, Caught
  <2>2. /\ pc' = [p \in Threads |-> pc'[p]]
        /\ pc'[M] = l /\ \A t \in Content : pc'[t] = pc[t]
    BY <2>1 DEF Goto, IInv, DataOK, M, Threads, Content
  <2>3. pc[M] = "clearing" /\ UNCHANGED dataVars
    BY <1>8 DEF ManagerCleared, dataVars
  <2> QED
    BY <2>2, <2>3 DEF IInv, DataOK, ContentIsState, JoinedBeforeStart, TargetHasData,
                      StateHasBuffer, dataVars
<1>9. ASSUME ManagerStart PROVE IInv'
  <2>1. NewBuffer(target) \in Screens
    <3>1. CASE target = "Status"
      BY <1>9, <3>1, ScreenShape DEF NewBuffer, ManagerStart, IInv, DataOK, TargetHasData
    <3>2. CASE target = "ApSetup"
      BY <1>9, <3>2, ScreenShape DEF NewBuffer, ManagerStart, IInv, DataOK, TargetHasData
    <3>3. CASE target = "NightBlank"
      BY <3>3, ScreenShape DEF NewBuffer, IInv, DataOK
    <3>4. CASE target \in {"Slideshow", "Registration"}
      BY <3>4 DEF NewBuffer, IInv, StateHasBuffer
    <3> QED
      BY <3>1, <3>2, <3>3, <3>4 DEF IInv, DataOK, Content
  <2>2. buffer' = [buffer EXCEPT ![target] = NewBuffer(target)]
    BY <1>9 DEF ManagerStart, Prepare
  <2>3. /\ buffer' \in [Content -> Screens \cup {None}]
        /\ buffer'[target] \in Screens
        /\ \A t \in Content : buffer'[t] = buffer[t] \/ buffer'[t] \in Screens
    BY <2>1, <2>2 DEF IInv, DataOK
  <2>4. /\ pc' = [p \in Threads |-> pc'[p]]
        /\ pc'[M] = "arm" /\ \A t \in Content : pc'[t] = pc[t] \/ t = target
    BY <1>9 DEF ManagerStart, IInv, DataOK, M, Threads, Content
  <2>5. state' = target /\ target' = "Slideshow"
        /\ UNCHANGED <<queue, batch, latest, latestStatus, nightEnd>>
    BY <1>9 DEF ManagerStart
  <2>6. snap'.ap \in Creds \cup {None} /\ snap'.status \in Kinds \cup {None}
    BY <1>9 DEF ManagerStart, NoSnap
  <2>7. ContentIsState'
    BY <1>9, <2>4, <2>5 DEF ManagerStart, IInv, JoinedBeforeStart, ContentIsState
  <2>8. StateHasBuffer'
    BY <2>3, <2>5 DEF IInv, StateHasBuffer, Content
  <2>9. "Slideshow" \in Content
    BY DEF Content
  <2> QED
    BY <2>3, <2>4, <2>5, <2>6, <2>7, <2>8, <2>9 DEF IInv, DataOK, JoinedBeforeStart, TargetHasData
<1>10. ASSUME ManagerClose PROVE IInv'
  BY <1>10, ManagerMoves DEF ManagerClose, dataVars
<1>11. ASSUME ManagerRetry PROVE IInv'
  <2>1. PICK l \in {"done", "arm", "boot"} : Goto(M, l)
    BY <1>11 DEF ManagerRetry
  <2> QED
    BY <1>11, <2>1, ManagerMoves DEF ManagerRetry, dataVars
<1> QED
  BY <1>1, <1>2, <1>3, <1>4, <1>5, <1>6, <1>7, <1>8, <1>9, <1>10, <1>11 DEF Manager

-----------------------------------------------------------------------------
(* The steps of the other threads.                                          *)

\* A content task never starts another and never changes the state of the manager.
LEMMA ContentOK == ASSUME IInv, NEW t \in Content, ContentTask(t) PROVE IInv'
<1>1. UNCHANGED dataVars
  BY DEF ContentTask, ContentDraw, ContentSkip, ContentDrawn, ContentRecheck, ContentRetry,
         ContentEnd, dataVars, busVars, inputVars, switchVars, settingVars, contentVars
<1>2. pc[t] # "off" /\ \E l : Goto(t, l)
  BY DEF ContentTask, ContentDraw, CallPanel, ContentSkip, ContentDrawn, ContentRecheck,
         ContentRetry, ContentEnd
<1> QED
  BY <1>1, <1>2, ContentMoves

\* DisplayClear does not touch the content tasks.
LEMMA ClearOK == ASSUME IInv, ClearTask PROVE IInv'
<1>1. queue' \in Seq(EventTypes)
  <2>1. ScheduledClear \in EventTypes
    BY DEF ScheduledClear, EventTypes
  <2>2. queue' = queue \/ queue' = Append(queue, ScheduledClear)
    BY DEF ClearTask, ClearWake, ClearDone, ClearEnd, busVars
  <2> QED
    BY <2>1, <2>2 DEF IInv, DataOK
<1>2. UNCHANGED <<batch, latest, latestStatus, nightEnd, state, target, snap, buffer>>
  BY DEF ClearTask, ClearWake, ClearDone, ClearEnd, busVars, inputVars, switchVars, settingVars,
         contentVars
<1>3. \E l : Goto("clear", l)
  BY DEF ClearTask, ClearWake, CallPanel, ClearDone, ClearEnd, C
<1> QED
  BY <1>1, <1>2, <1>3, OthersMove

\* main() stops and joins; it starts no task.
LEMMA MainOK == ASSUME IInv, Main PROVE IInv'
<1>1. UNCHANGED dataVars
  BY DEF Main, MainSignal, MainStopInputs, MainStopBus, MainStopManager, MainStopClear, MainJoined,
         MainLast, MainExit, dataVars, busVars, inputVars, switchVars, settingVars, contentVars
<1>2. \E l : Goto("main", l)
  <2>1. CASE MainLast
    BY <2>1 DEF MainLast, CallPanel
  <2> QED
    BY <2>1 DEF Main, MainSignal, MainStopInputs, MainStopBus, MainStopManager, MainStopClear,
                MainJoined, MainExit
<1>3. queue' \in Seq(EventTypes)
  BY <1>1 DEF dataVars, IInv, DataOK
<1> QED
  BY <1>1, <1>2, <1>3, OthersMove DEF dataVars

\* IInv is inductive.
LEMMA StepOK == ASSUME IInv, [Next]_vars PROVE IInv'
<1>1. CASE Exited \/ UNCHANGED vars
  <2>1. UNCHANGED <<pc, dataVars>>
    BY <1>1 DEF Exited, vars, dataVars, busVars, inputVars, switchVars, settingVars, contentVars
  <2> QED
    BY <2>1, Stutters
<1> QED
  BY <1>1, BusOK, ClockOK, InPanelOK, ManagerOK, ContentOK, ClearOK, MainOK DEF Next, Thread, OwnCode

\* DisplayTaskManager "runs exactly one content task": whatever arrives during a
\* switch, and whatever throws, at most one content thread exists, the one of the
\* manager's state.  The induction needs JoinedBeforeStart: a task is started only
\* after the one before it was joined.
THEOREM OneContentTask == Spec => []ContentIsState
<1>1. Init => IInv
  BY InitOK
<1>2. IInv /\ [Next]_vars => IInv'
  BY StepOK
<1>3. IInv => ContentIsState
  BY DEF IInv
<1> QED
  BY <1>1, <1>2, <1>3, PTL DEF Spec

-----------------------------------------------------------------------------
(* DisplayProcess implements DisplayPanel.                                  *)

\* What a thread may do to the panel, one step at a time.
LEMMA PanelMoves ==
    /\ \A p \in Threads, c \in Panel!Calls : Panel!Call(p, c) => Panel!Next
    /\ \A p \in Threads : Panel!PanelStep(p) => Panel!Next
    /\ \A p \in Threads : Panel!Return(p) => Panel!Next
    /\ \A p \in Threads : Panel!RequestStop(p) => Panel!Next
    /\ \A p \in Threads : Panel!NewToken(p) => Panel!Next
    /\ Panel!CoolDown => Panel!Next
    /\ Panel!RequestShutdown => Panel!Next
  BY DEF Panel!Next

\* Every call the threads make is one DisplayManager offers.
LEMMA PanelCalls ==
    /\ Panel!InitPanel \in Panel!Calls
    /\ Panel!ClearForShutdown \in Panel!Calls
    /\ Panel!Clear(FALSE) \in Panel!Calls
    /\ \A s \in Screens, r \in BOOLEAN : Panel!DisplayBuffer(s, r) \in Panel!Calls
    /\ \A s \in Screens : Panel!PaintForShutdown(s) \in Panel!Calls
<1>1. Panel!InitPanel \in Panel!Calls /\ Panel!ClearForShutdown \in Panel!Calls
  BY DEF Panel!Calls, Panel!Clear
<1>2. Panel!Clear(FALSE) \in Panel!Calls
  BY DEF Panel!Calls, Panel!Clear
<1>3. ASSUME NEW s \in Screens, NEW r \in BOOLEAN PROVE Panel!DisplayBuffer(s, r) \in Panel!Calls
  BY <1>3 DEF Panel!Calls, Panel!Clear
<1>4. ASSUME NEW s \in Screens PROVE Panel!PaintForShutdown(s) \in Panel!Calls
  BY <1>4 DEF Panel!Calls, Panel!Clear
<1> QED
  BY <1>1, <1>2, <1>3, <1>4

\* A step of the service is a step of the panel or leaves it alone.
LEMMA PanelUsed == ASSUME IInv, [Next]_vars PROVE [Panel!Next]_panelVars
<1>0. /\ M \in Threads /\ C \in Threads /\ "main" \in Threads
      /\ \A t \in Content : t \in Threads
      /\ state \in Content => state \in Threads
  BY DEF M, C, Threads
<1>1. CASE (\E e \in Events : Publish(e)) \/ Bus \/ Exited \/ UNCHANGED vars
  BY <1>1 DEF Publish, Bus, TakeBatch, Dispatch, Exited, vars
<1>2. CASE Clock
  BY <1>2, PanelMoves DEF Clock, NightBoundary, RegistrationEnds, StatusTimesOut, CoolDown
<1>3. ASSUME NEW p \in Threads, InPanel(p) PROVE [Panel!Next]_panelVars
  BY <1>3, PanelMoves DEF InPanel
<1>4. CASE Manager
  <2>1. CASE ManagerBoot
    <3>1. Panel!DisplayBuffer(Loading, FALSE) \in Panel!Calls
      BY PanelCalls, ScreenShape
    <3> QED
      BY <1>0, <2>1, <3>1, PanelMoves, PanelCalls DEF ManagerBoot, CallPanel
  <2>2. CASE ManagerBooted \/ ManagerCleared
    BY <1>0, <2>2, PanelMoves DEF ManagerBooted, ManagerCleared
  <2>3. CASE ManagerArm \/ ManagerWake \/ ManagerKeep \/ ManagerEnd \/ ManagerRetry
    BY <2>3 DEF ManagerArm, ManagerWake, ManagerKeep, ManagerEnd, ManagerRetry
  <2>4. CASE ManagerSwitch \/ ManagerClose
    BY <1>0, <2>4, PanelMoves DEF ManagerSwitch, ManagerClose, StopActive
  <2>5. CASE ManagerJoin
    BY <1>0, <2>5, PanelMoves, PanelCalls DEF ManagerJoin
  <2>6. CASE ManagerStart
    BY <1>0, <2>6, PanelMoves DEF ManagerStart, IInv, DataOK
  <2> QED
    BY <1>4, <2>1, <2>2, <2>3, <2>4, <2>5, <2>6 DEF Manager
<1>5. ASSUME NEW t \in Content, ContentTask(t) PROVE [Panel!Next]_panelVars
  <2>1. CASE ContentDraw(t)
    <3>1. state = t
      BY <2>1 DEF ContentDraw, IInv, ContentIsState
    <3>2. buffer[t] \in Screens
      BY <3>1 DEF IInv, StateHasBuffer
    <3>3. Respects(t) \in BOOLEAN
      BY DEF Respects
    <3>4. Panel!DisplayBuffer(buffer[t], Respects(t)) \in Panel!Calls
      BY <3>2, <3>3, PanelCalls
    <3> QED
      BY <1>0, <2>1, <3>4, PanelMoves DEF ContentDraw, CallPanel
  <2>2. CASE ContentSkip(t) \/ ContentRecheck(t) \/ ContentRetry(t)
    BY <2>2 DEF ContentSkip, ContentRecheck, ContentRetry
  <2>3. CASE ContentDrawn(t)
    BY <1>0, <2>3, PanelMoves DEF ContentDrawn
  <2>4. CASE ContentEnd(t)
    BY <1>0, <2>4, PanelMoves DEF ContentEnd
  <2> QED
    BY <1>5, <2>1, <2>2, <2>3, <2>4 DEF ContentTask
<1>6. CASE ClearTask
  BY <1>0, <1>6, PanelMoves, PanelCalls DEF ClearTask, ClearWake, CallPanel, ClearDone, ClearEnd
<1>7. CASE Main
  <2>1. CASE MainLast
    <3>1. CASE ~StatusIsUp
      BY <1>0, <2>1, <3>1, PanelMoves, PanelCalls DEF MainLast, CallPanel
    <3>2. CASE StatusIsUp
      <4>1. Panel!PaintForShutdown(buffer["Status"]) \in Panel!Calls
        BY <3>2, PanelCalls DEF StatusIsUp, IInv, StateHasBuffer, Content
      <4> QED
        BY <1>0, <2>1, <3>2, <4>1, PanelMoves DEF MainLast, CallPanel
    <3> QED
      BY <3>1, <3>2
  <2>2. CASE MainSignal \/ MainStopManager \/ MainStopClear \/ MainExit
    BY <1>0, <2>2, PanelMoves DEF MainSignal, MainStopManager, MainStopClear, MainExit
  <2>3. CASE MainStopInputs \/ MainStopBus \/ MainJoined
    BY <2>3 DEF MainStopInputs, MainStopBus, MainJoined
  <2> QED
    BY <1>7, <2>1, <2>2, <2>3 DEF Main
<1> QED
  BY <1>1, <1>2, <1>3, <1>4, <1>5, <1>6, <1>7 DEF Next, Thread, OwnCode

\* The threads of the display process use the panel only as DisplayPanel lets any
\* client use it: every step of the process is a step of DisplayPanel or leaves the
\* panel alone.  A content task draws only a screen it has (StateHasBuffer), and it
\* has one because the manager starts it with the data of its snapshot.
THEOREM ImplementsPanel == Spec => PanelSpec
<1>1. Init => IInv /\ Panel!Init
  BY InitOK DEF Init
<1>2. IInv /\ [Next]_vars => IInv'
  BY StepOK
<1>3. IInv /\ [Next]_vars => [Panel!Next]_panelVars
  BY PanelUsed
<1> QED
  BY <1>1, <1>2, <1>3, PTL DEF Spec, PanelSpec

=============================================================================

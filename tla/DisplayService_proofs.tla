----------------------- MODULE DisplayService_proofs -----------------------
(***************************************************************************)
(* More theorems about DisplayProcess, on top of DisplayProcess_proofs:    *)
(* the types, the safety of the panel carried over from DisplayPanel, and  *)
(* what the manager promises (a task always runs, it is the right one, the *)
(* last screen).  All hold for any events, credentials, status screens and *)
(* bounds; what they ask of faults and clock boundaries is in their        *)
(* statements.                                                             *)
(***************************************************************************)
EXTENDS DisplayProcess_proofs

\* The theorems about DisplayPanel, with the threads and screens of the service.
Any == INSTANCE DisplayPanel_proofs

-----------------------------------------------------------------------------
(* What was proved of DisplayPanel holds in the service.                    *)

\* The panel the service uses is the panel of those theorems: the two instances
\* have the same definitions.
LEMMA SamePanel == Spec => Any!Spec
<1>1. Panel!Init => Any!Init
  BY DEF Panel!Init, Any!Init, Panel!InitPanel, Any!InitPanel
<1>2. Panel!Calls = Any!Calls
  BY DEF Panel!Calls, Any!Calls, Panel!InitPanel, Any!InitPanel, Panel!DisplayBuffer,
         Any!DisplayBuffer, Panel!Clear, Any!Clear, Panel!ClearForShutdown,
         Any!ClearForShutdown, Panel!PaintForShutdown, Any!PaintForShutdown
<1>3. ASSUME NEW p \in Threads
      PROVE  /\ \A c \in Panel!Calls : Panel!Call(p, c) => Any!Call(p, c)
             /\ Panel!Return(p) => Any!Return(p)
             /\ Panel!RequestStop(p) => Any!RequestStop(p)
             /\ Panel!NewToken(p) => Any!NewToken(p)
  BY DEF Panel!Call, Any!Call, Panel!Return, Any!Return, Panel!InitPanel, Any!InitPanel,
         Panel!RequestStop, Any!RequestStop, Panel!NewToken, Any!NewToken
<1>4. ASSUME NEW p \in Threads
      PROVE  /\ Panel!Lock(p) => Any!Lock(p)
             /\ Panel!Bail(p) => Any!Bail(p)
             /\ Panel!StartRefresh(p) => Any!StartRefresh(p)
  BY DEF Panel!Lock, Any!Lock, Panel!Bail, Any!Bail, Panel!StartRefresh, Any!StartRefresh,
         Panel!WaitMinRefreshOver, Any!WaitMinRefreshOver, Panel!StopSeen,
         Any!StopSeen, Panel!Bails, Any!Bails, Panel!Unlock, Any!Unlock
<1>5. ASSUME NEW p \in Threads
      PROVE  Panel!Refresh(p) => Any!Refresh(p)
  <2> USE DEF Panel!Drawn, Any!Drawn, Panel!MarkCleared, Any!MarkCleared, Panel!NoFailures,
              Any!NoFailures, Panel!Fault, Any!Fault, Panel!OneMore, Any!OneMore,
              Panel!CountBefore, Any!CountBefore, Panel!Unlock, Any!Unlock,
              Panel!FailedAt, Any!FailedAt
  <2>1. Panel!RefreshOk(p) => Any!RefreshOk(p)
    BY DEF Panel!RefreshOk, Any!RefreshOk
  <2>2. Panel!HwInitFails(p) => Any!HwInitFails(p)
    BY DEF Panel!HwInitFails, Any!HwInitFails
  <2>3. Panel!BusyTimeout(p) => Any!BusyTimeout(p)
    BY DEF Panel!BusyTimeout, Any!BusyTimeout
  <2>4. Panel!RefuseBuffer(p) => Any!RefuseBuffer(p)
    BY DEF Panel!RefuseBuffer, Any!RefuseBuffer
  <2>5. Panel!DbThrowsBefore(p) => Any!DbThrowsBefore(p)
    BY DEF Panel!DbThrowsBefore, Any!DbThrowsBefore
  <2>6. Panel!DbThrowsAfter(p) => Any!DbThrowsAfter(p)
    BY DEF Panel!DbThrowsAfter, Any!DbThrowsAfter
  <2>7. Panel!DbThrowsAfterBusy(p) => Any!DbThrowsAfterBusy(p)
    BY DEF Panel!DbThrowsAfterBusy, Any!DbThrowsAfterBusy
  <2> QED
    BY <2>1, <2>2, <2>3, <2>4, <2>5, <2>6, <2>7 DEF Panel!Refresh, Any!Refresh
<1>6. /\ Panel!CoolDown => Any!CoolDown
      /\ Panel!RequestShutdown => Any!RequestShutdown
  BY DEF Panel!CoolDown, Any!CoolDown, Panel!RequestShutdown, Any!RequestShutdown
<1>7. Panel!Next => Any!Next
  BY <1>2, <1>3, <1>4, <1>5, <1>6 DEF Panel!Next, Any!Next, Panel!PanelStep, Any!PanelStep
<1>8. [Panel!Next]_panelVars => [Any!Next]_Any!panelVars
  BY <1>7 DEF panelVars, Any!panelVars
<1> QED
  BY <1>1, <1>8, ImplementsPanel, PTL DEF PanelSpec, Any!Spec

PanelSafe ==
    /\ Panel!TypeOK
    /\ Panel!SerializedHardware
    /\ Panel!RefreshRespectsInterval
    /\ Panel!LateDisplays
    /\ Panel!ClearedIsBlank
    /\ Panel!HealthShowsLastFailure

\* The display service uses the hardware safely: the manager, its content tasks,
\* DisplayClear and main() are never at the panel together, never refresh it too
\* early, draw at most one buffer after the shutdown was requested, and can trust
\* _isCleared and the reported health as far as DisplayPanel can.
THEOREM PanelIsSafe == Spec => []PanelSafe
<1>1. Any!Spec => []Any!TypeOK
  BY Any!TypeCorrect, PanelAssumption
<1>2. Any!Spec => []Any!SerializedHardware
  BY Any!Serialized, PanelAssumption
<1>3. Any!Spec => []Any!RefreshRespectsInterval
  BY Any!IntervalRespected, PanelAssumption
<1>4. Any!Spec => []Any!LateDisplays
  BY Any!ShutdownStopsDisplays, PanelAssumption
<1>5. Any!Spec => []Any!ClearedIsBlank
  BY Any!ClearedFlagIsTrue, PanelAssumption
<1>6. Any!Spec => []Any!HealthShowsLastFailure
  BY Any!FailureShows, PanelAssumption
<1>7. Any!TypeOK => Panel!TypeOK
  BY DEF Panel!TypeOK, Any!TypeOK, Panel!InitPanel, Any!InitPanel, Panel!DisplayBuffer, Any!DisplayBuffer, Panel!Clear,
         Any!Clear, Panel!ClearForShutdown, Any!ClearForShutdown, Panel!PaintForShutdown,
         Any!PaintForShutdown, Panel!Calls, Any!Calls, Panel!FailedAt, Any!FailedAt
<1>8. /\ Any!SerializedHardware => Panel!SerializedHardware
      /\ Any!RefreshRespectsInterval => Panel!RefreshRespectsInterval
      /\ Any!LateDisplays => Panel!LateDisplays
      /\ Any!ClearedIsBlank => Panel!ClearedIsBlank
      /\ Any!HealthShowsLastFailure => Panel!HealthShowsLastFailure
  BY DEF Panel!SerializedHardware, Any!SerializedHardware, Panel!RefreshRespectsInterval,
         Any!RefreshRespectsInterval, Panel!LateDisplays, Any!LateDisplays, Panel!ClearedIsBlank,
         Any!ClearedIsBlank, Panel!HealthShowsLastFailure, Any!HealthShowsLastFailure,
         Panel!Health, Any!Health, Panel!FailedAt, Any!FailedAt
<1>9. Any!TypeOK /\ Any!SerializedHardware /\ Any!RefreshRespectsInterval /\ Any!LateDisplays
        /\ Any!ClearedIsBlank /\ Any!HealthShowsLastFailure => PanelSafe
  BY <1>7, <1>8 DEF PanelSafe
<1> QED
  BY SamePanel, <1>1, <1>2, <1>3, <1>4, <1>5, <1>6, <1>9, PTL

-----------------------------------------------------------------------------
(* Types.                                                                   *)

Booting == {"boot", "initializing", "load", "loading"}
Over == {"last", "finishing", "exited"}

\* Where each thread can be in its own code.
Places ==
    /\ pc = [p \in Threads |-> pc[p]]
    /\ \A t \in Content : pc[t] \in {"off", "begin", "painting", "wait", "backoff", "done"}
    /\ pc[M] \in Booting \cup {"arm", "wait", "apply", "stopping", "clearing", "start", "close",
                               "closing", "backoff", "done"}
    /\ pc[C] \in {"wait", "clearing", "done"}
    /\ pc["main"] \in Over \cup {"run", "stopInputs", "stopBus", "stopManager", "joinManager",
                                 "joinClear"}

InputsOK == /\ statusOld \in BOOLEAN /\ until \in {"unset", "ahead", "past"}
            /\ registered \in BOOLEAN /\ restore \in BOOLEAN /\ changed \in BOOLEAN
SwitchOK == /\ booted \in BOOLEAN
            /\ snap \in [ap : Creds \cup {None}, status : Kinds \cup {None},
                         registration : BOOLEAN, restore : BOOLEAN]
            /\ shownStatus \in Kinds \cup {None} /\ shownNightEnd \in NightEnds \cup {None}
WaitOK == armed \in SUBSET BoundaryKinds /\ due \in BOOLEAN
SettingsOK == active \in BOOLEAN /\ nightPause \in BOOLEAN /\ inNight \in BOOLEAN
TasksOK == shown \in [Content -> BOOLEAN] /\ dirty \in BOOLEAN /\ attempted \in BOOLEAN
ClearVarsOK == clearRequested \in BOOLEAN /\ requested \in BOOLEAN
BoundsOK == events \in 0..MaxEvents /\ flips \in 0..MaxFlips /\ dailyClears \in 0..DailyClears

\* With the types of IInv and Panel!TypeOK, all of TypeOK.
Typed == /\ Places /\ half \in BOOLEAN /\ InputsOK /\ SwitchOK /\ WaitOK /\ SettingsOK
         /\ TasksOK /\ ClearVarsOK /\ BoundsOK

\* The state main() starts in.
LEMMA TypedInit == ASSUME Init PROVE Typed
<1>1. Places
  BY DEF Init, Places, Threads, Content, M, C, Booting, Over
<1>2. SwitchOK
  BY DEF Init, SwitchOK, NoSnap
<1>3. BoundsOK /\ SettingsOK
  BY ProcessAssumption DEF Init, BoundsOK, SettingsOK
<1>4. half \in BOOLEAN /\ InputsOK /\ WaitOK /\ TasksOK /\ ClearVarsOK
  BY DEF Init, InputsOK, WaitOK, TasksOK, ClearVarsOK
<1> QED
  BY <1>1, <1>2, <1>3, <1>4 DEF Typed

\* The payloads the handlers store in the settings.
LEMMA FlagShape ==
    ASSUME NEW e \in EventTypes
    PROVE  /\ e.topic = "SET_SLIDESHOW_ACTIVE" => e.arg \in BOOLEAN
           /\ e.topic = "UPDATE_NIGHT_MODE" => e.arg.pause \in BOOLEAN
  BY DEF EventTypes

\* Handlers store payloads of their type.
LEMMA TypedBus == ASSUME IInv, Typed, (\E e \in Events : Publish(e)) \/ Bus PROVE Typed'
<1>1. ASSUME NEW e \in Events, Publish(e) PROVE Typed'
  <2>1. BoundsOK'
    BY <1>1, ProcessAssumption DEF Publish, Typed, BoundsOK
  <2> QED
    BY <1>1, <2>1 DEF Publish, Typed, Places, InputsOK, SwitchOK, WaitOK, SettingsOK, TasksOK,
         ClearVarsOK, inputVars, waitVars, switchVars, settingVars, contentVars, clearVars
<1>2. ASSUME TakeBatch PROVE Typed'
  BY <1>2 DEF TakeBatch, Typed, Places, InputsOK, SwitchOK, WaitOK, SettingsOK, TasksOK,
         ClearVarsOK, BoundsOK, inputVars, waitVars, switchVars, settingVars, contentVars,
         clearVars, boundVars
<1>3. ASSUME Dispatch PROVE Typed'
  <2> DEFINE e == Head(batch)
  <2>1. e \in EventTypes
    BY <1>3 DEF Dispatch, IInv, DataOK
  <2> HIDE DEF e
  <2>2. Handle(e)
    BY <1>3 DEF Dispatch, e
  <2>3. InputsOK'
    <3>1. InputsOK
      BY DEF Typed
    <3> QED
      BY <2>2, <3>1 DEF InputsOK, Handle, HandleApSetup, HandleStatus, HandleRegistration,
             Registration, HandleScheduledClear, HandleNightMode, HandleSetActive,
             HandleClearDisplay, inputVars
  <2>4. SettingsOK'
    <3>1. SettingsOK
      BY DEF Typed
    <3> QED
      BY <2>1, <2>2, <3>1, FlagShape DEF SettingsOK, Handle, HandleApSetup, HandleStatus,
             HandleRegistration, HandleScheduledClear, HandleNightMode, HandleSetActive,
             HandleClearDisplay, settingVars
  <2>5. ClearVarsOK'
    BY <2>2 DEF Typed, ClearVarsOK, Handle, HandleApSetup, HandleStatus, HandleRegistration,
           HandleScheduledClear, HandleNightMode, HandleSetActive, HandleClearDisplay, clearVars
  <2>6. half' \in BOOLEAN
    BY <1>3 DEF Dispatch
  <2> QED
    BY <1>3, <2>3, <2>4, <2>5, <2>6 DEF Dispatch, Typed, Places, SwitchOK, WaitOK, TasksOK,
           BoundsOK, waitVars, switchVars, contentVars, boundVars
<1> QED
  BY <1>1, <1>2, <1>3 DEF Bus

\* A boundary passes.
LEMMA TypedClock == ASSUME Typed, Clock PROVE Typed'
<1> USE DEF Typed, Places, InputsOK, SwitchOK, WaitOK, SettingsOK, TasksOK, ClearVarsOK
<1>1. CASE NightBoundary
  <2>1. BoundsOK'
    BY <1>1, ProcessAssumption DEF NightBoundary, BoundsOK
  <2> QED
    BY <1>1, <2>1 DEF NightBoundary, Passes, busVars, inputVars, switchVars, contentVars, clearVars
<1>2. CASE RegistrationEnds
  BY <1>2 DEF RegistrationEnds, Passes, BoundsOK, busVars, switchVars, settingVars, contentVars,
              clearVars, boundVars
<1>4. CASE StatusTimesOut
  BY <1>4 DEF StatusTimesOut, Passes, BoundsOK, busVars, switchVars, settingVars, contentVars,
              clearVars, boundVars
<1>3. CASE CoolDown
  BY <1>3 DEF CoolDown, BoundsOK, busVars, inputVars, waitVars, switchVars, settingVars,
              contentVars, clearVars, boundVars
<1> QED
  BY <1>1, <1>2, <1>3, <1>4 DEF Clock

\* A thread that only goes on in its own code.
LEMMA TypedMoves ==
    ASSUME Typed, Places', UNCHANGED <<busVars, inputVars, waitVars, switchVars, settingVars,
           contentVars, clearVars, boundVars>>
    PROVE  Typed'
  BY DEF Typed, InputsOK, SwitchOK, WaitOK, SettingsOK, TasksOK, ClearVarsOK, BoundsOK, busVars,
         inputVars, waitVars, switchVars, settingVars, contentVars, clearVars, boundVars

\* A thread goes on; the others stay where they are.
LEMMA GotoPlaces ==
    ASSUME Places, NEW p \in Threads, NEW l, Goto(p, l)
    PROVE  /\ pc' = [q \in Threads |-> pc'[q]]
           /\ pc'[p] = l /\ \A q \in Threads \ {p} : pc'[q] = pc[q]
  BY DEF Places, Goto

\* The manager goes on to a place of its own.
LEMMA ManagerPlaces ==
    ASSUME Places, NEW l \in Booting \cup {"arm", "wait", "apply", "stopping", "clearing", "start",
                                           "close", "closing", "backoff", "done"},
           Goto(M, l)
    PROVE  Places'
  BY DEF Places, Goto, M, C, Threads, Content

\* The steps of the manager that leave everything but its place alone.
LEMMA TypedManagerMoves ==
    ASSUME IInv, Typed, ManagerBoot \/ ManagerCleared \/ ManagerClose \/ ManagerRetry PROVE Typed'
<1>1. \E l \in {"initializing", "loading", "done", "backoff", "start", "closing", "arm", "boot"} :
          Goto(M, l)
  BY DEF ManagerBoot, CallPanel, ManagerCleared, Caught, ManagerClose, ManagerRetry
<1>2. Places'
  BY <1>1, ManagerPlaces DEF Typed, Booting
<1> QED
  BY <1>2, TypedMoves DEF ManagerBoot, ManagerCleared, ManagerClose, ManagerRetry

\* The manager has joined the task it stopped.
LEMMA TypedJoin == ASSUME IInv, Typed, ManagerJoin \/ ManagerEnd PROVE Typed'
<1>1. PICK l \in {"clearing", "start", "done"} : Joined(l)
  BY DEF ManagerJoin, ManagerEnd
<1>2. Places'
  BY <1>1 DEF Joined, Typed, Places, M, C, Threads, Content, IInv, DataOK
<1> QED
  BY <1>2, TypedMoves DEF ManagerJoin, ManagerEnd

\* The steps of the manager.
LEMMA TypedManager == ASSUME IInv, Panel!TypeOK, Typed, Manager PROVE Typed'
<1> USE DEF busVars, inputVars, waitVars, switchVars, settingVars, contentVars, clearVars, boundVars
<1>1. CASE ManagerBooted
  <2>1. \E l \in {"done", "backoff", "load", "arm"} : Goto(M, l)
    BY <1>1 DEF ManagerBooted, Caught
  <2>2. Places'
    BY <2>1, ManagerPlaces DEF Typed, Booting
  <2>3. SwitchOK'
    BY <1>1 DEF ManagerBooted, Typed, SwitchOK
  <2> QED
    BY <1>1, <2>2, <2>3 DEF ManagerBooted, Typed, InputsOK, WaitOK, SettingsOK, TasksOK,
           ClearVarsOK, BoundsOK
<1>2. CASE ManagerArm
  <2>1. \E l \in {"close", "wait"} : Goto(M, l)
    BY <1>2 DEF ManagerArm
  <2>2. Places'
    BY <2>1, ManagerPlaces DEF Typed
  <2>3. WaitOK'
    BY <1>2 DEF ManagerArm, WaitOK
  <2> QED
    BY <1>2, <2>2, <2>3 DEF ManagerArm, Typed, InputsOK, SwitchOK, SettingsOK, TasksOK,
           ClearVarsOK, BoundsOK
<1>3. CASE ManagerWake
  <2>1. Places'
    BY <1>3, ManagerPlaces DEF ManagerWake, Typed
  <2>2. latest \in Creds \cup {None} /\ latestStatus' \in Kinds \cup {None}
    BY <1>3 DEF ManagerWake, IInv, DataOK
  <2>3. RegistrationRequired \in BOOLEAN /\ restore \in BOOLEAN
    BY DEF RegistrationRequired, Typed, InputsOK
  <2>4. SwitchOK'
    BY <1>3, <2>2, <2>3 DEF ManagerWake, Typed, SwitchOK
  <2>5. InputsOK'
    BY <1>3 DEF ManagerWake, Typed, InputsOK
  <2>6. half' \in BOOLEAN /\ WaitOK' /\ SettingsOK' /\ TasksOK' /\ ClearVarsOK' /\ BoundsOK'
    BY <1>3 DEF ManagerWake, Typed, WaitOK, SettingsOK, TasksOK, ClearVarsOK, BoundsOK
  <2> QED
    BY <2>1, <2>4, <2>5, <2>6 DEF Typed
<1>4. CASE ManagerKeep
  <2>1. Places'
    BY <1>4, ManagerPlaces DEF ManagerKeep, Typed
  <2>2. SwitchOK'
    BY <1>4 DEF ManagerKeep, NoSnap, Typed, SwitchOK
  <2>3. TasksOK'
    BY <1>4 DEF ManagerKeep, SetCredentials, Typed, TasksOK
  <2> QED
    BY <1>4, <2>1, <2>2, <2>3 DEF ManagerKeep, Typed, InputsOK, WaitOK, SettingsOK,
           ClearVarsOK, BoundsOK
<1>5. CASE ManagerSwitch
  <2>1. Places'
    BY <1>5, ManagerPlaces DEF ManagerSwitch, Typed
  <2> QED
    BY <1>5, <2>1 DEF ManagerSwitch, Typed, InputsOK, SwitchOK, WaitOK, SettingsOK, TasksOK,
           ClearVarsOK, BoundsOK
<1>6. CASE ManagerStart
  <2>1. Places'
    BY <1>6 DEF ManagerStart, Typed, Places, M, C, Threads, Content, IInv, DataOK
  <2>2. SwitchOK'
    <3>1. shownStatus' \in Kinds \cup {None} /\ shownNightEnd' \in NightEnds \cup {None}
      BY <1>6 DEF ManagerStart, Typed, SwitchOK, IInv, DataOK
    <3> QED
      BY <1>6, <3>1 DEF ManagerStart, NoSnap, Typed, SwitchOK
  <2>3. TasksOK'
    BY <1>6 DEF ManagerStart, Prepare, Typed, TasksOK, IInv, DataOK
  <2> QED
    BY <1>6, <2>1, <2>2, <2>3 DEF ManagerStart, Typed, InputsOK, WaitOK, SettingsOK,
           ClearVarsOK, BoundsOK
<1> QED
  BY <1>1, <1>2, <1>3, <1>4, <1>5, <1>6, TypedManagerMoves, TypedJoin DEF Manager

\* The steps of a content task.
LEMMA TypedContent == ASSUME Panel!TypeOK, Typed, NEW t \in Content, ContentTask(t) PROVE Typed'
<1> USE DEF busVars, inputVars, waitVars, switchVars, settingVars, contentVars, clearVars, boundVars
<1>1. \E l \in {"painting", "done", "wait", "backoff", "begin"} : Goto(t, l)
  BY DEF ContentTask, ContentDraw, CallPanel, ContentSkip, Idle, ContentDrawn, Caught,
         ContentRecheck, ContentRetry, ContentEnd
<1>2. Places'
  <2>1. PICK l \in {"painting", "done", "wait", "backoff", "begin"} : Goto(t, l)
    BY <1>1
  <2>2. /\ pc' = [q \in Threads |-> pc'[q]]
        /\ pc'[t] = l /\ \A q \in Threads \ {t} : pc'[q] = pc[q]
    BY <2>1, GotoPlaces DEF Typed, Threads
  <2>3. Content \subseteq Threads /\ {M, C, "main"} \subseteq Threads \ Content
    BY DEF M, C, Threads, Content
  <2> QED
    BY <2>2, <2>3 DEF Typed, Places
<1>3. TasksOK'
  <2>1. shown' \in [Content -> BOOLEAN]
    <3>1. (result[t] = "ok") \in BOOLEAN /\ (t = "Status" /\ shown[t]) \in BOOLEAN
      OBVIOUS
    <3> QED
      BY <3>1 DEF Typed, TasksOK, ContentTask, ContentDraw, ContentSkip, ContentDrawn, ContentRecheck,
           ContentRetry, ContentEnd
  <2>2. dirty' \in BOOLEAN /\ attempted' \in BOOLEAN
    BY DEF Typed, TasksOK, ContentTask, ContentDraw, ContentSkip, ContentDrawn, ContentRecheck,
           ContentRetry, ContentEnd
  <2> QED
    BY <2>1, <2>2 DEF TasksOK
<1>4. UNCHANGED <<half, inputVars, waitVars, switchVars, settingVars, clearVars, boundVars>>
  BY DEF ContentTask, ContentDraw, ContentSkip, ContentDrawn, ContentRecheck, ContentRetry, ContentEnd
<1> QED
  BY <1>2, <1>3, <1>4 DEF Typed, InputsOK, SwitchOK, WaitOK, SettingsOK, ClearVarsOK, BoundsOK

\* The steps of DisplayClear.
LEMMA TypedClear == ASSUME Typed, ClearTask PROVE Typed'
<1> USE DEF busVars, inputVars, waitVars, switchVars, settingVars, contentVars, clearVars, boundVars
<1>1. \E l \in {"clearing", "wait", "done"} : Goto(C, l)
  BY DEF ClearTask, ClearWake, CallPanel, ClearDone, ClearEnd
<1>2. Places'
  BY <1>1 DEF Goto, Typed, Places, M, C, Threads, Content
<1>3. ClearVarsOK'
  BY DEF Typed, ClearVarsOK, ClearTask, ClearWake, ClearDone, ClearEnd
<1>4. dailyClears' \in 0..DailyClears
  <2>1. dailyClears' = dailyClears \/ (dailyClears < DailyClears /\ dailyClears' = dailyClears + 1)
    BY DEF ClearTask, ClearWake, ClearDone, ClearEnd
  <2> QED
    BY <2>1, ProcessAssumption DEF Typed, BoundsOK
<1>5. UNCHANGED <<half, inputVars, waitVars, switchVars, settingVars, contentVars, events, flips>>
  BY DEF ClearTask, ClearWake, ClearDone, ClearEnd
<1> QED
  BY <1>2, <1>3, <1>4, <1>5 DEF Typed, InputsOK, SwitchOK, WaitOK, SettingsOK, TasksOK, BoundsOK

\* The steps of main().
LEMMA TypedMain == ASSUME Panel!TypeOK, Typed, Main PROVE Typed'
<1> USE DEF busVars, inputVars, waitVars, switchVars, settingVars, contentVars, clearVars, boundVars
<1>1. \E l \in {"stopInputs", "stopBus", "stopManager", "joinManager", "joinClear", "last",
                "finishing", "exited"} : Goto("main", l)
  <2>1. CASE MainLast
    BY <2>1 DEF MainLast, CallPanel
  <2> QED
    BY <2>1 DEF Main, MainSignal, MainStopInputs, MainStopBus, MainStopManager, MainStopClear,
                MainJoined, MainExit
<1>2. Places'
  <2>1. PICK l \in {"stopInputs", "stopBus", "stopManager", "joinManager", "joinClear", "last",
                    "finishing", "exited"} : Goto("main", l)
    BY <1>1
  <2>2. /\ pc' = [q \in Threads |-> pc'[q]]
        /\ pc'["main"] = l /\ \A q \in Threads \ {"main"} : pc'[q] = pc[q]
    BY <2>1, GotoPlaces DEF Typed, Threads
  <2>3. Content \cup {M, C} \subseteq Threads \ {"main"}
    BY DEF M, C, Threads, Content
  <2> QED
    BY <2>2, <2>3 DEF Typed, Places, Over
<1>3. TasksOK'
  BY DEF Typed, TasksOK, Main, MainSignal, MainStopInputs, MainStopBus, MainStopManager,
         MainStopClear, MainJoined, MainLast, MainExit
<1>4. UNCHANGED <<half, inputVars, waitVars, switchVars, settingVars, clearVars, boundVars>>
  BY DEF Main, MainSignal, MainStopInputs, MainStopBus, MainStopManager, MainStopClear,
         MainJoined, MainLast, MainExit
<1> QED
  BY <1>2, <1>3, <1>4 DEF Typed, InputsOK, SwitchOK, WaitOK, SettingsOK, ClearVarsOK, BoundsOK

\* Typed is inductive.
LEMMA TypedStep == ASSUME IInv, Panel!TypeOK, Typed, [Next]_vars PROVE Typed'
<1>1. CASE Exited \/ UNCHANGED vars \/ \E p \in Threads : InPanel(p)
  <2>1. UNCHANGED <<pc, busVars, inputVars, waitVars, switchVars, settingVars, contentVars,
                    clearVars, boundVars>>
    BY <1>1 DEF Exited, InPanel, vars
  <2>2. Places'
    BY <2>1 DEF Typed, Places
  <2> QED
    BY <2>1, <2>2, TypedMoves
<1> QED
  BY <1>1, TypedBus, TypedClock, TypedManager, TypedContent, TypedClear, TypedMain
     DEF Next, Thread, OwnCode

\* The parts make up TypeOK.
LEMMA TypesSuffice == ASSUME IInv, Panel!TypeOK, Typed PROVE TypeOK
<1>1. pc \in [Threads -> {"off", "begin", "painting", "wait", "backoff", "done",
                           "boot", "initializing", "load", "loading", "arm", "apply",
                           "stopping", "clearing", "start", "close", "closing",
                           "run", "stopInputs", "stopBus", "stopManager",
                           "joinManager", "joinClear", "last", "finishing", "exited"}]
  BY DEF Typed, Places, Threads, Content, M, C, Booting, Over
<1> QED
  BY <1>1 DEF TypeOK, IInv, DataOK, Typed, InputsOK, SwitchOK, WaitOK, SettingsOK, TasksOK,
              ClearVarsOK, BoundsOK

\* What has been shown so far, together.
LEMMA Known == Spec => [](IInv /\ PanelSafe /\ Typed)
<1>1. Init => IInv /\ Typed
  BY InitOK, TypedInit
<1>2. IInv /\ [Next]_vars => IInv'
  BY StepOK
<1>3. IInv /\ PanelSafe /\ Typed /\ [Next]_vars => Typed'
  BY TypedStep DEF PanelSafe
<1> QED
  BY <1>1, <1>2, <1>3, PanelIsSafe, PTL DEF Spec

\* The threads of the display service, its bus and its settings keep their types,
\* for any events the outside may publish and any faults.
THEOREM TypeCorrect == Spec => []TypeOK
<1>1. IInv /\ PanelSafe /\ Typed => TypeOK
  BY TypesSuffice DEF PanelSafe
<1> QED
  BY <1>1, Known, PTL

-----------------------------------------------------------------------------
(* Control: how the threads of the service move together.                   *)

\* The places in which a thread is inside a panel call.
InCall(p) ==
    \/ p \in Content /\ pc[p] = "painting"
    \/ p = M /\ pc[p] \in {"initializing", "loading", "clearing"}
    \/ p = C /\ pc[p] = "clearing"
    \/ p = "main" /\ pc[p] = "finishing"

CallsMatch == \A p \in Threads : phase[p] # "out" <=> InCall(p)

\* The manager decides about content only after a boot that worked.
BootFirst ==
    /\ ~booted => state = "Boot"
    /\ pc[M] \in Booting => ~booted
    /\ pc[M] \notin Booting \cup {"backoff", "done"} => booted

\* While the manager boots, clears or starts, and once it has ended, no task runs.
NoTask ==
    pc[M] \in Booting \cup {"clearing", "start", "backoff", "done"} =>
        \A t \in Content : pc[t] = "off"

\* A half handled event is still the head of the batch.
HalfHandled == half => batch # <<>> /\ Head(batch).topic = "UPDATE_NIGHT_MODE"

\* main() stops the bus, the manager and the clear thread, in this order.
Ended ==
    /\ pc["main"] \in Over \cup {"joinClear"} => pc[M] = "done"
    /\ pc["main"] \in Over => pc[C] = "done"

\* What is drawn by those who do not draw a content of their own, and by StatusScreen.
CallScreens ==
    /\ pc[C] = "clearing" => call[C].screen = Blank
    /\ pc[M] = "clearing" => call[M].screen = Blank
    /\ pc["Status"] = "painting" => call["Status"].screen = buffer["Status"]
    /\ pc["main"] = "finishing" /\ state = "Status" =>
           call["main"] = Panel!PaintForShutdown(buffer["Status"])
    /\ pc["main"] = "finishing" /\ state # "Status" => call["main"] = Panel!ClearForShutdown

\* StatusScreen draws the status the manager remembers as shown.
StatusBuffer ==
    state = "Status" => shownStatus \in Kinds /\ buffer["Status"] = StatusOf(shownStatus)

Control == /\ CallsMatch /\ BootFirst /\ NoTask /\ HalfHandled /\ Ended /\ CallScreens
           /\ StatusBuffer

\* Nothing is under way when main() starts.
LEMMA ControlInit == ASSUME Init PROVE Control
  BY DEF Init, Panel!Init, Control, CallsMatch, InCall, BootFirst, NoTask, HalfHandled, Ended,
         CallScreens, StatusBuffer, Threads, Content, M, C, Booting, Over

\* A step inside the panel concerns the phase and the result of its own thread.
LEMMA PanelStepShape ==
    ASSUME Panel!TypeOK, NEW p \in Threads, Panel!PanelStep(p)
    PROVE  /\ phase[p] # "out" /\ phase'[p] # "out"
           /\ \A q \in Threads : q # p => phase'[q] = phase[q] /\ result'[q] = result[q]
           /\ UNCHANGED <<call, stopped>>
  BY DEF Panel!TypeOK, Panel!PanelStep, Panel!Lock, Panel!Bail, Panel!StartRefresh, Panel!Refresh,
         Panel!RefreshOk, Panel!HwInitFails, Panel!BusyTimeout, Panel!RefuseBuffer,
         Panel!DbThrowsBefore, Panel!DbThrowsAfter, Panel!DbThrowsAfterBusy, Panel!Unlock

\* The calls still match when every thread that moved ends up matching.
LEMMA MatchMoves ==
    ASSUME CallsMatch,
           \A p \in Threads : \/ pc'[p] = pc[p] /\ phase'[p] = phase[p]
                              \/ phase'[p] # "out" <=> InCall(p)'
    PROVE  CallsMatch'
  BY DEF CallsMatch, InCall

controlVars == <<batch, half, state, booted, buffer, shownStatus>>

\* Control does not depend on anything else.
LEMMA ControlStutters == ASSUME Control, UNCHANGED <<pc, phase, call, controlVars>> PROVE Control'
  BY DEF Control, CallsMatch, InCall, BootFirst, NoTask, HalfHandled, Ended, CallScreens,
         StatusBuffer, controlVars

\* An event with two handlers stays at the head until both have run.
LEMMA ControlBus ==
    ASSUME Control, (\E e \in Events : Publish(e)) \/ Bus PROVE Control'
<1> USE DEF panelVars, switchVars, contentVars
<1>1. UNCHANGED <<pc, phase, call, state, booted, buffer, shownStatus>>
  BY DEF Publish, Bus, TakeBatch, Dispatch
<1>2. HalfHandled'
  <2>1. ASSUME NEW e \in Events, Publish(e) PROVE HalfHandled'
    BY <2>1 DEF Publish, Control, HalfHandled
  <2>2. CASE TakeBatch
    BY <2>2 DEF TakeBatch, Control, HalfHandled
  <2>3. CASE Dispatch
    BY <2>3 DEF Dispatch, HalfHandled
  <2> QED
    BY <2>1, <2>2, <2>3 DEF Bus
<1> QED
  BY <1>1, <1>2 DEF Control, CallsMatch, InCall, BootFirst, NoTask, Ended, CallScreens,
                    StatusBuffer

\* A boundary moves no thread.
LEMMA ControlClock == ASSUME Control, Clock PROVE Control'
<1>1. UNCHANGED <<pc, phase, call, controlVars>>
  BY DEF Clock, NightBoundary, RegistrationEnds, StatusTimesOut, CoolDown, Panel!CoolDown,
         controlVars, panelVars, busVars, switchVars, contentVars
<1> QED
  BY <1>1, ControlStutters

\* A thread inside a call stays inside it.
LEMMA ControlInPanel ==
    ASSUME Panel!TypeOK, Control, NEW p \in Threads, InPanel(p) PROVE Control'
<1>1. UNCHANGED <<pc, call, controlVars>>
  BY PanelStepShape DEF InPanel, controlVars, busVars, switchVars, contentVars
<1>2. CallsMatch'
  BY <1>1, PanelStepShape DEF InPanel, Control, CallsMatch, InCall
<1> QED
  BY <1>1, <1>2 DEF Control, BootFirst, NoTask, HalfHandled, Ended, CallScreens, StatusBuffer,
                    controlVars

\* What a thread that starts or ends a call, or asks another to stop, does to the panel.
LEMMA CallShape ==
    ASSUME Panel!TypeOK, NEW p \in Threads, NEW c, Panel!Call(p, c)
    PROVE  /\ phase' = [phase EXCEPT ![p] = "enter"] /\ phase'[p] = "enter"
           /\ call' = [call EXCEPT ![p] = c] /\ call'[p] = c
           /\ UNCHANGED <<result, stopped, panel, isCleared, faults>>
  BY DEF Panel!TypeOK, Panel!Call

\* The caller takes the result of its own call.
LEMMA ReturnShape ==
    ASSUME Panel!TypeOK, NEW p \in Threads, Panel!Return(p)
    PROVE  /\ phase[p] = "return"
           /\ phase' = [phase EXCEPT ![p] = "out"] /\ phase'[p] = "out"
           /\ \A q \in Threads : q # p => call'[q] = call[q] /\ result'[q] = result[q]
           /\ result'[p] = "ok"
           /\ UNCHANGED <<stopped, panel, isCleared, faults>>
  BY DEF Panel!TypeOK, Panel!Return

\* Stopping and starting a thread leaves the panel alone.
LEMMA TokenShape ==
    ASSUME NEW p, Panel!RequestStop(p) \/ Panel!NewToken(p)
    PROVE  UNCHANGED <<phase, call, result, panel, isCleared, faults>>
  BY DEF Panel!RequestStop, Panel!NewToken

\* A step of the manager that keeps state_ and moves no other thread.
LEMMA ControlManagerGoes ==
    ASSUME Typed, Control, NEW l, Goto(M, l), pc[M] # "done",
           \A q \in Threads : q # M => phase'[q] = phase[q] /\ call'[q] = call[q],
           phase'[M] # "out" <=> l \in {"initializing", "loading", "clearing"},
           l = "clearing" => call'[M].screen = Blank,
           ~booted' => state = "Boot",
           l \in Booting => ~booted',
           l \notin Booting \cup {"backoff", "done"} => booted',
           l \in Booting \cup {"clearing", "start", "backoff", "done"} =>
               \A t \in Content : pc[t] = "off",
           UNCHANGED <<batch, half, state, buffer, shownStatus>>
    PROVE  Control'
<1>1. pc'[M] = l /\ \A q \in Threads : q # M => pc'[q] = pc[q]
  BY DEF Goto, Typed, Places, M, Threads
<1>2. M \in Threads /\ C \in Threads \ {M} /\ "main" \in Threads \ {M} /\ "Status" \in Threads \ {M}
      /\ Content \subseteq Threads \ {M}
  BY DEF M, C, Threads, Content
<1>3. CallsMatch'
  BY <1>1, <1>2, MatchMoves DEF Control, InCall, M, C, Content
<1>4. BootFirst' /\ HalfHandled' /\ StatusBuffer'
  BY <1>1 DEF Control, BootFirst, HalfHandled, StatusBuffer
<1>5. NoTask'
  BY <1>1, <1>2 DEF NoTask
<1>6. Ended' /\ CallScreens'
  BY <1>1, <1>2 DEF Control, Ended, CallScreens
<1> QED
  BY <1>3, <1>4, <1>5, <1>6 DEF Control

\* The steps of the manager between a boot and the end of a task.
LEMMA ControlManagerSteps ==
    ASSUME IInv, Panel!TypeOK, Typed, Control,
           \/ ManagerBoot \/ ManagerBooted \/ ManagerArm \/ ManagerWake \/ ManagerKeep
           \/ ManagerSwitch \/ ManagerCleared \/ ManagerClose \/ ManagerRetry
    PROVE  Control'
<1> USE DEF panelVars, busVars, switchVars, contentVars
<1>0. M \in Threads
  BY DEF M, Threads
<1>1. CASE ManagerBoot
  <2>1. PICK l \in {"initializing", "loading"}, c \in {Panel!InitPanel, Panel!DisplayBuffer(Loading, FALSE)} :
            Goto(M, l) /\ Panel!Call(M, c)
    BY <1>1 DEF ManagerBoot, CallPanel
  <2>2. pc[M] \in Booting
    BY <1>1 DEF ManagerBoot, Booting
  <2>3. /\ \A q \in Threads : q # M => phase'[q] = phase[q] /\ call'[q] = call[q]
        /\ phase'[M] # "out"
    BY <1>0, <2>1, CallShape DEF Panel!TypeOK
  <2>4. ~booted' /\ state = "Boot" /\ UNCHANGED <<batch, half, state, buffer, shownStatus>>
    BY <1>1, <2>2 DEF ManagerBoot, Control, BootFirst
  <2>5. \A t \in Content : pc[t] = "off"
    BY <2>2 DEF Control, NoTask
  <2> QED
    BY <2>1, <2>2, <2>3, <2>4, <2>5, ControlManagerGoes DEF Booting
<1>2. CASE ManagerBooted
  <2>1. PICK l \in {"done", "backoff", "load", "arm"} :
            Goto(M, l) /\ (l = "arm" <=> booted')
    BY <1>2 DEF ManagerBooted, Caught
  <2>2. pc[M] \in {"initializing", "loading"}
    BY <1>2 DEF ManagerBooted
  <2>3. /\ \A q \in Threads : q # M => phase'[q] = phase[q] /\ call'[q] = call[q]
        /\ phase'[M] = "out"
    BY <1>0, <1>2, ReturnShape DEF ManagerBooted, Panel!TypeOK
  <2>4. state = "Boot" /\ UNCHANGED <<batch, half, state, buffer, shownStatus>>
    BY <1>2, <2>2 DEF ManagerBooted, Control, BootFirst, Booting
  <2>5. \A t \in Content : pc[t] = "off"
    BY <2>2 DEF Control, NoTask, Booting
  <2> QED
    BY <2>1, <2>2, <2>3, <2>4, <2>5, ControlManagerGoes DEF Booting
<1>3. CASE ManagerArm \/ ManagerWake \/ ManagerSwitch \/ ManagerClose
  <2>1. PICK l \in {"close", "wait", "apply", "stopping", "closing"} : Goto(M, l)
    BY <1>3 DEF ManagerArm, ManagerWake, ManagerSwitch, ManagerClose
  <2>2. pc[M] \in {"arm", "wait", "apply", "close"}
    BY <1>3 DEF ManagerArm, ManagerWake, ManagerSwitch, ManagerClose, LoopEnds
  <2>3. UNCHANGED <<phase, call>>
    BY <1>3, TokenShape DEF ManagerArm, ManagerWake, ManagerSwitch, ManagerClose, StopActive
  <2>4. booted' = booted /\ booted /\ UNCHANGED <<batch, half, state, buffer, shownStatus>>
    BY <1>3, <2>2 DEF ManagerArm, ManagerWake, ManagerSwitch, ManagerClose, Control, BootFirst,
                      Booting
  <2>5. phase[M] = "out"
    BY <1>0, <2>2 DEF Control, CallsMatch, InCall, M, C, Content
  <2> QED
    BY <2>1, <2>2, <2>3, <2>4, <2>5, ControlManagerGoes DEF Booting
<1>4. CASE ManagerCleared
  <2>1. PICK l \in {"done", "backoff", "start"} : Goto(M, l)
    BY <1>4 DEF ManagerCleared, Caught
  <2>2. pc[M] = "clearing"
    BY <1>4 DEF ManagerCleared
  <2>3. /\ \A q \in Threads : q # M => phase'[q] = phase[q] /\ call'[q] = call[q]
        /\ phase'[M] = "out"
    BY <1>0, <1>4, ReturnShape DEF ManagerCleared, Panel!TypeOK
  <2>4. booted' = booted /\ booted /\ UNCHANGED <<batch, half, state, buffer, shownStatus>>
    BY <1>4, <2>2 DEF ManagerCleared, Control, BootFirst, Booting
  <2>5. \A t \in Content : pc[t] = "off"
    BY <2>2 DEF Control, NoTask
  <2> QED
    BY <2>1, <2>2, <2>3, <2>4, <2>5, ControlManagerGoes DEF Booting
<1>5. CASE ManagerRetry
  <2>1. PICK l \in {"done", "arm", "boot"} :
            Goto(M, l) /\ (l = "arm" => booted) /\ (l = "boot" => ~booted)
    BY <1>5 DEF ManagerRetry
  <2>2. pc[M] = "backoff"
    BY <1>5 DEF ManagerRetry
  <2>3. UNCHANGED <<phase, call, booted, batch, half, state, buffer, shownStatus>>
    BY <1>5 DEF ManagerRetry
  <2>4. phase[M] = "out" /\ (~booted => state = "Boot") /\ \A t \in Content : pc[t] = "off"
    BY <1>0, <2>2 DEF Control, CallsMatch, InCall, BootFirst, NoTask, M, C, Content
  <2> QED
    BY <2>1, <2>2, <2>3, <2>4, ControlManagerGoes DEF Booting
<1>6. CASE ManagerKeep
  <2>1. /\ pc[M] = "apply" /\ Goto(M, "arm")
        /\ UNCHANGED <<phase, call, booted, batch, half, state, shownStatus>>
    BY <1>6 DEF ManagerKeep
  <2>2. buffer'["Status"] = buffer["Status"]
    BY <1>6 DEF ManagerKeep, SetCredentials, IInv, DataOK, Content
  <2>3. pc'[M] = "arm" /\ \A q \in Threads : q # M => pc'[q] = pc[q]
    BY <2>1 DEF Goto, Typed, Places, M, Threads
  <2>4. M \in Threads /\ C \in Threads \ {M} /\ "main" \in Threads \ {M} /\ "Status" \in Threads \ {M}
        /\ Content \subseteq Threads \ {M}
    BY DEF M, C, Threads, Content
  <2>5. CallsMatch'
    BY <2>1, <2>3, <2>4 DEF Control, CallsMatch, InCall, M, C, Content
  <2>6. BootFirst' /\ NoTask' /\ HalfHandled'
    BY <2>1, <2>3 DEF Control, BootFirst, NoTask, HalfHandled, Booting
  <2>7. Ended' /\ CallScreens' /\ StatusBuffer'
    BY <2>1, <2>2, <2>3, <2>4 DEF Control, Ended, CallScreens, StatusBuffer
  <2> QED
    BY <2>5, <2>6, <2>7 DEF Control
<1> QED
  BY <1>1, <1>2, <1>3, <1>4, <1>5, <1>6

\* After the join no content thread is left.
LEMMA ControlJoin ==
    ASSUME IInv, Panel!TypeOK, Typed, Control, ManagerJoin \/ ManagerEnd PROVE Control'
<1> USE DEF panelVars, busVars, switchVars, contentVars
<1>0. M \in Threads /\ C \in Threads \ {M} /\ "main" \in Threads \ {M} /\ "Status" \in Threads \ {M}
      /\ Content \subseteq Threads \ {M} /\ C \notin Content /\ "main" \notin Content
  BY DEF M, C, Threads, Content
<1>1. UNCHANGED <<booted, batch, half, state, buffer, shownStatus>>
  BY DEF ManagerJoin, ManagerEnd
<1>2. PICK l \in {"clearing", "start", "done"} :
          /\ Joined(l)
          /\ l = "clearing" => Panel!Call(M, Panel!Clear(FALSE))
          /\ l # "clearing" => UNCHANGED panelVars
  BY DEF ManagerJoin, ManagerEnd
<1>3. pc[M] \in {"stopping", "closing"} /\ ActiveJoinable
  BY DEF ManagerJoin, ManagerEnd
<1>4. pc'[M] = l
  BY <1>0, <1>2 DEF Joined
<1>5. ASSUME NEW q \in Threads, q # M, q # state PROVE pc'[q] = pc[q]
  BY <1>2, <1>5 DEF Joined
<1>6. \A t \in Content : pc'[t] = "off"
  <2>1. ASSUME NEW t \in Content, t = state PROVE pc'[t] = "off"
    BY <1>0, <1>2, <2>1 DEF Joined
  <2>2. ASSUME NEW t \in Content, t # state PROVE pc'[t] = "off"
    BY <1>0, <1>5, <2>2 DEF IInv, ContentIsState
  <2> QED
    BY <2>1, <2>2
<1>7. pc'[C] = pc[C] /\ pc'["main"] = pc["main"]
  BY <1>0, <1>5 DEF IInv, DataOK, Content, C
<1>8. phase[M] = "out" /\ \A t \in Content : pc[t] # "painting"
  BY <1>0, <1>3 DEF Control, CallsMatch, InCall, M, C, Content, ActiveJoinable, IInv, ContentIsState
<1>9. /\ \A q \in Threads : q # M => phase'[q] = phase[q] /\ call'[q] = call[q]
      /\ phase'[M] # "out" <=> l = "clearing"
      /\ l = "clearing" => call'[M].screen = Blank
  <2>1. CASE l = "clearing"
    BY <1>0, <1>2, <2>1, CallShape DEF Panel!TypeOK, Panel!Clear
  <2>2. CASE l # "clearing"
    BY <1>2, <1>8, <2>2
  <2> QED
    BY <2>1, <2>2
<1>10. CallsMatch'
  <2>1. ASSUME NEW q \in Threads PROVE phase'[q] # "out" <=> InCall(q)'
    <3>1. CASE q \in Content
      <4>1. q # M /\ q # C /\ q # "main"
        BY <3>1 DEF Content, M, C
      <4>2. phase[q] = "out"
        BY <1>8, <3>1, <4>1 DEF Control, CallsMatch, InCall
      <4> QED
        BY <1>6, <1>9, <3>1, <4>1, <4>2 DEF InCall
    <3>2. CASE q = M
      BY <1>0, <1>2, <1>4, <1>9, <3>2 DEF InCall, M, C
    <3>3. CASE q \in {C, "main"}
      BY <1>0, <1>7, <1>9, <3>3 DEF Control, CallsMatch, InCall
    <3> QED
      BY <3>1, <3>2, <3>3 DEF Threads, M, C
  <2> QED
    BY <2>1 DEF CallsMatch
<1>11. BootFirst' /\ NoTask' /\ HalfHandled' /\ StatusBuffer'
  BY <1>1, <1>3, <1>4, <1>6 DEF Control, BootFirst, NoTask, HalfHandled, StatusBuffer, Booting
<1>12. Ended' /\ CallScreens'
  <2>1. pc["main"] \notin Over \cup {"joinClear"}
    BY <1>3 DEF Control, Ended
  <2>2. pc'["Status"] = "off"
    BY <1>6 DEF Content
  <2> QED
    BY <1>0, <1>4, <1>7, <1>9, <2>1, <2>2 DEF Control, Ended, CallScreens, Over
<1> QED
  BY <1>10, <1>11, <1>12 DEF Control

\* The new task starts with the buffer the manager prepared.
LEMMA ControlStart == ASSUME IInv, Panel!TypeOK, Typed, Control, ManagerStart PROVE Control'
<1> USE DEF busVars
<1>0. M \in Threads /\ C \in Threads \ {M} /\ "main" \in Threads \ {M} /\ "Status" \in Threads \ {M}
      /\ Content \subseteq Threads \ {M} /\ C \notin Content /\ "main" \notin Content
      /\ target \in Content
  BY DEF M, C, Threads, Content, IInv, DataOK
<1>1. pc[M] = "start" /\ state' = target /\ UNCHANGED <<booted, batch, half, phase, call>>
  BY TokenShape DEF ManagerStart
<1>2. /\ pc'[M] = "arm" /\ pc'[target] = "begin"
      /\ \A q \in Threads : q \notin {M, target} => pc'[q] = pc[q]
  BY <1>0 DEF ManagerStart, Typed, Places
<1>3. pc["main"] \notin Over \cup {"joinClear"}
  BY <1>1 DEF Control, Ended
<1>4. pc["Status"] = "off" /\ pc[target] = "off"
  BY <1>0, <1>1 DEF Control, NoTask, Content
<1>5. CallsMatch'
  <2>1. phase[M] = "out" /\ phase[target] = "out"
    BY <1>0, <1>1, <1>4 DEF Control, CallsMatch, InCall, M, C
  <2>2. ASSUME NEW q \in {M, target} PROVE ~InCall(q)'
    BY <1>0, <1>2, <2>2 DEF InCall, M, C
  <2> QED
    BY <1>1, <1>2, <2>1, <2>2, MatchMoves DEF Control
<1>6. BootFirst' /\ NoTask' /\ HalfHandled' /\ Ended'
  BY <1>0, <1>1, <1>2, <1>3 DEF Control, BootFirst, NoTask, HalfHandled, Ended, Booting, Over
<1>7. CallScreens'
  BY <1>0, <1>1, <1>2, <1>3, <1>4 DEF Control, CallScreens, Over
<1>8. StatusBuffer'
  <2>1. CASE target = "Status"
    BY <1>1, <2>1 DEF ManagerStart, Prepare, NewBuffer, StatusBuffer, IInv, DataOK, TargetHasData,
                      Content
  <2> QED
    BY <1>1, <2>1 DEF StatusBuffer
<1> QED
  BY <1>5, <1>6, <1>7, <1>8 DEF Control

\* A content task draws its own buffer.
LEMMA ControlContent ==
    ASSUME IInv, Panel!TypeOK, Typed, Control, NEW t \in Content, ContentTask(t) PROVE Control'
<1> USE DEF panelVars, busVars, switchVars, contentVars
<1>0. t \in Threads /\ M \in Threads \ {t} /\ C \in Threads \ {t} /\ "main" \in Threads \ {t}
  BY DEF M, C, Threads, Content
<1>1. UNCHANGED controlVars
  BY DEF ContentTask, ContentDraw, ContentSkip, ContentDrawn, ContentRecheck, ContentRetry,
         ContentEnd, controlVars
<1>2. PICK l \in {"painting", "done", "wait", "backoff", "begin"} :
          /\ Goto(t, l) /\ pc[t] # "off"
          /\ \/ l = "painting" /\ \E r \in BOOLEAN : Panel!Call(t, Panel!DisplayBuffer(buffer[t], r))
             \/ l # "painting" /\ pc[t] = "painting" /\ Panel!Return(t)
             \/ l # "painting" /\ pc[t] # "painting" /\ UNCHANGED <<phase, call>>
  <2>1. CASE ContentDraw(t)
    BY <2>1 DEF ContentDraw, CallPanel, Respects
  <2>2. CASE ContentDrawn(t)
    BY <2>2 DEF ContentDrawn, Caught
  <2>3. CASE ContentSkip(t) \/ ContentRecheck(t) \/ ContentRetry(t)
    BY <2>3 DEF ContentSkip, Idle, ContentRecheck, ContentRetry
  <2>4. CASE ContentEnd(t)
    BY <2>4, TokenShape DEF ContentEnd
  <2> QED
    BY <2>1, <2>2, <2>3, <2>4 DEF ContentTask
<1>3. pc'[t] = l /\ \A q \in Threads : q # t => pc'[q] = pc[q]
  BY <1>0, <1>2 DEF Goto, Typed, Places
<1>4. /\ \A q \in Threads : q # t => phase'[q] = phase[q] /\ call'[q] = call[q]
      /\ phase'[t] # "out" <=> l = "painting"
      /\ l = "painting" => call'[t].screen = buffer[t]
  <2>1. CASE \E r \in BOOLEAN : Panel!Call(t, Panel!DisplayBuffer(buffer[t], r)) /\ l = "painting"
    BY <1>0, <2>1, CallShape DEF Panel!TypeOK, Panel!DisplayBuffer
  <2>2. CASE Panel!Return(t) /\ l # "painting"
    BY <1>0, <2>2, ReturnShape DEF Panel!TypeOK
  <2>3. CASE UNCHANGED <<phase, call>> /\ l # "painting" /\ pc[t] # "painting"
    <3>1. phase[t] = "out"
      BY <1>0, <2>3 DEF Control, CallsMatch, InCall
    <3> QED
      BY <2>3, <3>1
  <2> QED
    BY <1>2, <2>1, <2>2, <2>3
<1>5. CallsMatch'
  BY <1>0, <1>3, <1>4, MatchMoves DEF Control, InCall
<1>6. pc[M] \notin Booting \cup {"clearing", "start", "backoff", "done"}
  BY <1>2 DEF Control, NoTask
<1>7. BootFirst' /\ NoTask' /\ HalfHandled' /\ Ended' /\ StatusBuffer'
  BY <1>0, <1>1, <1>3, <1>6 DEF Control, BootFirst, NoTask, HalfHandled, Ended, StatusBuffer,
                               controlVars
<1>8. CallScreens'
  <2>1. "Status" \in Threads
    BY DEF Threads, Content
  <2> QED
    BY <1>0, <1>1, <1>3, <1>4, <2>1 DEF Control, CallScreens, controlVars
<1> QED
  BY <1>5, <1>7, <1>8 DEF Control

\* DisplayClear draws white.
LEMMA ControlClear ==
    ASSUME Panel!TypeOK, Typed, Control, ClearTask PROVE Control'
<1> USE DEF panelVars, busVars, switchVars, contentVars
<1>0. C \in Threads /\ M \in Threads \ {C} /\ "main" \in Threads \ {C} /\ "Status" \in Threads \ {C}
      /\ Content \subseteq Threads \ {C}
  BY DEF M, C, Threads, Content
<1>1. UNCHANGED controlVars
  BY DEF ClearTask, ClearWake, ClearDone, ClearEnd, controlVars
<1>2. PICK l \in {"clearing", "wait", "done"} :
          /\ Goto(C, l) /\ pc[C] # "done"
          /\ \/ l = "clearing" /\ Panel!Call(C, Panel!Clear(FALSE))
             \/ l # "clearing" /\ Panel!Return(C)
             \/ l # "clearing" /\ pc[C] = "wait" /\ UNCHANGED <<phase, call>>
  BY DEF ClearTask, ClearWake, CallPanel, ClearDone, ClearEnd
<1>3. pc'[C] = l /\ \A q \in Threads : q # C => pc'[q] = pc[q]
  BY <1>0, <1>2 DEF Goto, Typed, Places
<1>4. /\ \A q \in Threads : q # C => phase'[q] = phase[q] /\ call'[q] = call[q]
      /\ phase'[C] # "out" <=> l = "clearing"
      /\ l = "clearing" => call'[C].screen = Blank
  <2>1. CASE Panel!Call(C, Panel!Clear(FALSE)) /\ l = "clearing"
    BY <1>0, <2>1, CallShape DEF Panel!TypeOK, Panel!Clear
  <2>2. CASE Panel!Return(C) /\ l # "clearing"
    BY <1>0, <2>2, ReturnShape DEF Panel!TypeOK
  <2>3. CASE UNCHANGED <<phase, call>> /\ l # "clearing" /\ pc[C] = "wait"
    <3>1. phase[C] = "out"
      BY <1>0, <2>3 DEF Control, CallsMatch, InCall, C, M, Content
    <3> QED
      BY <2>3, <3>1
  <2> QED
    BY <1>2, <2>1, <2>2, <2>3
<1>5. CallsMatch'
  BY <1>0, <1>3, <1>4, MatchMoves DEF Control, InCall, C, M, Content
<1>6. BootFirst' /\ NoTask' /\ HalfHandled' /\ StatusBuffer'
  BY <1>0, <1>1, <1>3 DEF Control, BootFirst, NoTask, HalfHandled, StatusBuffer, controlVars
<1>7. Ended' /\ CallScreens'
  BY <1>0, <1>1, <1>2, <1>3, <1>4 DEF Control, Ended, CallScreens, controlVars
<1> QED
  BY <1>5, <1>6, <1>7 DEF Control

\* A step of main() that keeps the order of the shutdown.
LEMMA ControlMainGoes ==
    ASSUME Typed, Control, NEW l, Goto("main", l), UNCHANGED controlVars,
           \A q \in Threads : q # "main" => phase'[q] = phase[q] /\ call'[q] = call[q],
           phase'["main"] # "out" <=> l = "finishing",
           l \in Over \cup {"joinClear"} => pc[M] = "done",
           l \in Over => pc[C] = "done",
           l = "finishing" => IF state = "Status" THEN call'["main"] = Panel!PaintForShutdown(buffer["Status"])
                                                  ELSE call'["main"] = Panel!ClearForShutdown
    PROVE  Control'
<1>0. "main" \in Threads /\ M \in Threads \ {"main"} /\ C \in Threads \ {"main"}
      /\ Content \subseteq Threads \ {"main"} /\ "Status" \in Threads \ {"main"}
  BY DEF M, C, Threads, Content
<1>1. pc'["main"] = l /\ \A q \in Threads : q # "main" => pc'[q] = pc[q]
  BY <1>0 DEF Goto, Typed, Places
<1>2. CallsMatch'
  BY <1>0, <1>1, MatchMoves DEF Control, InCall, C, M, Content
<1>3. BootFirst' /\ NoTask' /\ HalfHandled' /\ StatusBuffer'
  BY <1>0, <1>1 DEF Control, BootFirst, NoTask, HalfHandled, StatusBuffer, controlVars
<1>4. Ended'
  BY <1>0, <1>1 DEF Ended
<1>5. CallScreens'
  <2>1. call'["main"] = Panel!PaintForShutdown(buffer["Status"])
          => call'["main"] = Panel!PaintForShutdown(buffer["Status"])'
    BY DEF Panel!PaintForShutdown, controlVars
  <2>2. call'["main"] = Panel!ClearForShutdown => call'["main"] = Panel!ClearForShutdown'
    BY DEF Panel!ClearForShutdown
  <2> QED
    BY <1>0, <1>1, <2>1, <2>2 DEF Control, CallScreens, controlVars
<1> QED
  BY <1>2, <1>3, <1>4, <1>5 DEF Control

\* main() goes on only after the threads it joins have ended.
LEMMA ControlMain ==
    ASSUME Panel!TypeOK, Typed, Control, Main PROVE Control'
<1> USE DEF panelVars, busVars, switchVars, contentVars
<1>0. "main" \in Threads
  BY DEF Threads
<1>1. UNCHANGED controlVars
  BY DEF Main, MainSignal, MainStopInputs, MainStopBus, MainStopManager, MainStopClear, MainJoined,
         MainLast, MainExit, controlVars
<1>2. CASE MainSignal \/ MainStopInputs \/ MainStopBus \/ MainStopManager \/ MainStopClear
              \/ MainJoined
  <2>1. PICK l \in {"stopInputs", "stopBus", "stopManager", "joinManager", "joinClear", "last"} :
            /\ Goto("main", l) /\ pc["main"] # "finishing"
            /\ l = "joinClear" => pc[M] = "done"
            /\ l = "last" => pc[C] = "done" /\ pc["main"] = "joinClear"
    BY <1>2 DEF MainSignal, MainStopInputs, MainStopBus, MainStopManager, MainStopClear, MainJoined
  <2>2. UNCHANGED <<phase, call>>
    BY <1>2, TokenShape DEF MainSignal, MainStopInputs, MainStopBus, MainStopManager, MainStopClear,
                            MainJoined, Panel!RequestShutdown
  <2>3. phase["main"] = "out"
    BY <1>0, <2>1 DEF Control, CallsMatch, InCall, M, C, Content
  <2> QED
    BY <1>1, <2>1, <2>2, <2>3, ControlMainGoes DEF Control, Ended, Over
<1>3. CASE MainExit
  <2>1. /\ pc["main"] = "finishing" /\ Goto("main", "exited") /\ Panel!Return("main")
    BY <1>3 DEF MainExit
  <2>2. /\ \A q \in Threads : q # "main" => phase'[q] = phase[q] /\ call'[q] = call[q]
        /\ phase'["main"] = "out"
    BY <1>0, <2>1, ReturnShape DEF Panel!TypeOK
  <2> QED
    BY <1>1, <2>1, <2>2, ControlMainGoes DEF Control, Ended, Over
<1>4. CASE MainLast
  <2>1. pc["main"] = "last" /\ pc[M] = "done" /\ pc[C] = "done"
    BY <1>4 DEF MainLast, Control, Ended, Over
  <2>2. CASE UNCHANGED panelVars /\ Goto("main", "exited")
    <3>1. phase["main"] = "out"
      BY <1>0, <2>1 DEF Control, CallsMatch, InCall, M, C, Content
    <3> QED
      BY <1>1, <2>1, <2>2, <3>1, ControlMainGoes
  <2>3. CASE state # "Status" /\ CallPanel("main", Panel!ClearForShutdown, "finishing")
    <3>1. /\ \A q \in Threads : q # "main" => phase'[q] = phase[q] /\ call'[q] = call[q]
          /\ phase'["main"] = "enter" /\ call'["main"] = Panel!ClearForShutdown
      BY <1>0, <2>3, CallShape DEF CallPanel, Panel!TypeOK
    <3> QED
      BY <1>1, <2>1, <2>3, <3>1, ControlMainGoes DEF CallPanel
  <2>4. CASE state = "Status" /\ CallPanel("main", Panel!PaintForShutdown(buffer["Status"]), "finishing")
    <3>1. /\ \A q \in Threads : q # "main" => phase'[q] = phase[q] /\ call'[q] = call[q]
          /\ phase'["main"] = "enter" /\ call'["main"] = Panel!PaintForShutdown(buffer["Status"])
      BY <1>0, <2>4, CallShape DEF CallPanel, Panel!TypeOK
    <3> QED
      BY <1>1, <2>1, <2>4, <3>1, ControlMainGoes DEF CallPanel
  <2> QED
    BY <1>4, <2>2, <2>3, <2>4 DEF MainLast, StatusIsUp
<1> QED
  BY <1>2, <1>3, <1>4 DEF Main

\* Control is inductive.
LEMMA ControlStep ==
    ASSUME IInv, Panel!TypeOK, Typed, Control, [Next]_vars PROVE Control'
<1>1. CASE Exited \/ UNCHANGED vars
  BY <1>1, ControlStutters DEF Exited, vars, panelVars, busVars, switchVars, contentVars, controlVars
<1> QED
  BY <1>1, ControlBus, ControlClock, ControlInPanel, ControlManagerSteps, ControlJoin, ControlStart,
     ControlContent, ControlClear, ControlMain DEF Next, Thread, OwnCode, Manager

\* What every later proof builds on.
Base == IInv /\ PanelSafe /\ Typed /\ Control

\* What the three arguments below rest on.
LEMMA BaseHolds == Spec => []Base
<1>1. Init => Control
  BY ControlInit
<1>2. IInv /\ PanelSafe /\ Typed /\ Control /\ [Next]_vars => Control'
  BY ControlStep DEF PanelSafe
<1>3. IInv /\ PanelSafe /\ Typed /\ Control => Base
  BY DEF Base
<1> QED
  BY <1>1, <1>2, <1>3, Known, PTL DEF Spec

-----------------------------------------------------------------------------
(* A content task always runs, unless a metrics write throws.               *)

NoDb == "db" \notin faults.kinds

NoThrow == \A p \in Threads : result[p] # "threw" /\ pc[p] # "backoff"

\* The status screen is at the top of _run() only with something to draw.
DrawsOnce == pc["Status"] = "begin" => ~shown["Status"]

\* Only a switch or the end of the manager stops a content task, and the stop is
\* forgotten with the thread.
StopsInSwitch ==
    \A t \in Content :
        stopped[t] => pc[M] \in {"stopping", "closing"} /\ pc[t] \notin {"off", "done"}

\* Outside a switch the task of the state is running.
TaskRuns ==
    pc[M] \in {"arm", "wait", "apply", "close"} /\ state \in Content =>
        pc[state] \notin {"off", "done"}

\* changed_ starts out set, so the first wait does not hold up the first task.
BootPending == state = "Boot" /\ pc[M] \in Booting \cup {"arm", "wait"} => changed

Healthy == NoThrow /\ DrawsOnce /\ StopsInSwitch /\ TaskRuns /\ BootPending

\* Nothing has thrown and nothing is stopped.
LEMMA HealthyInit == ASSUME Init PROVE Healthy
  BY DEF Init, Panel!Init, Healthy, NoThrow, DrawsOnce, StopsInSwitch, TaskRuns, BootPending,
         Threads, Content, M, C, Booting

\* A history without database faults has only such prefixes, and nothing throws in it.
LEMMA NoDbStep ==
    ASSUME Panel!TypeOK, [Panel!Next]_panelVars, NoDb'
    PROVE  NoDb /\ \A p \in Threads : result'[p] = "threw" => result[p] = "threw"
<1>1. CASE UNCHANGED panelVars
  BY <1>1 DEF panelVars, NoDb
<1>2. ASSUME NEW q \in Threads, Panel!Refresh(q)
      PROVE  NoDb /\ \A p \in Threads : result'[p] = "threw" => result[p] = "threw"
  <2>1. CASE Panel!RefreshOk(q)
    BY <2>1 DEF Panel!RefreshOk, Panel!Unlock, Panel!TypeOK, NoDb
  <2>2. CASE Panel!HwInitFails(q) \/ Panel!BusyTimeout(q) \/ Panel!RefuseBuffer(q)
    BY <2>2 DEF Panel!HwInitFails, Panel!BusyTimeout, Panel!RefuseBuffer, Panel!Fault,
                Panel!Unlock, Panel!TypeOK, NoDb
  <2>3. CASE Panel!DbThrowsBefore(q) \/ Panel!DbThrowsAfter(q) \/ Panel!DbThrowsAfterBusy(q)
    BY <2>3 DEF Panel!DbThrowsBefore, Panel!DbThrowsAfter, Panel!DbThrowsAfterBusy, Panel!Fault, NoDb
  <2> QED
    BY <1>2, <2>1, <2>2, <2>3 DEF Panel!Refresh
<1>3. ASSUME NEW q \in Threads, Panel!Lock(q) \/ Panel!Bail(q) \/ Panel!StartRefresh(q)
      PROVE  NoDb /\ \A p \in Threads : result'[p] = "threw" => result[p] = "threw"
  BY <1>3 DEF Panel!Lock, Panel!Bail, Panel!StartRefresh, Panel!Unlock, Panel!TypeOK, NoDb
<1>4. ASSUME NEW q \in Threads,
             \/ \E c \in Panel!Calls : Panel!Call(q, c)
             \/ Panel!Return(q) \/ Panel!RequestStop(q) \/ Panel!NewToken(q)
      PROVE  NoDb /\ \A p \in Threads : result'[p] = "threw" => result[p] = "threw"
  BY <1>4 DEF Panel!Call, Panel!Return, Panel!RequestStop, Panel!NewToken, Panel!TypeOK, NoDb
<1>5. CASE Panel!CoolDown \/ Panel!RequestShutdown
  BY <1>5 DEF Panel!CoolDown, Panel!RequestShutdown, NoDb
<1> QED
  BY <1>1, <1>2, <1>3, <1>4, <1>5 DEF Panel!Next, Panel!PanelStep

\* The bus, the clock and steps inside the panel move nobody.
LEMMA HealthyPlaces ==
    ASSUME Base, Healthy, UNCHANGED <<pc, shown, stopped, state>>, changed' \in {changed, TRUE},
           \A p \in Threads : result'[p] = "threw" => result[p] = "threw"
    PROVE  Healthy'
  BY DEF Healthy, NoThrow, DrawsOnce, StopsInSwitch, TaskRuns, BootPending

\* A handler ends no task.
LEMMA HealthyBus ==
    ASSUME Base, Healthy, (\E e \in Events : Publish(e)) \/ Bus PROVE Healthy'
<1> USE DEF panelVars, switchVars, contentVars
<1>1. UNCHANGED <<pc, shown, stopped, state, result>>
  BY DEF Publish, Bus, TakeBatch, Dispatch
<1>2. changed' \in {changed, TRUE}
  <2>1. CASE Dispatch
    BY <2>1 DEF Dispatch, Handle, HandleApSetup, HandleStatus, HandleRegistration,
           HandleScheduledClear, HandleNightMode, HandleSetActive, HandleClearDisplay, inputVars
  <2> QED
    BY <2>1 DEF Publish, Bus, TakeBatch, inputVars
<1> QED
  BY <1>1, <1>2, HealthyPlaces

\* A boundary ends no task.
LEMMA HealthyClock == ASSUME Base, Healthy, Clock PROVE Healthy'
<1>1. UNCHANGED <<pc, shown, stopped, state, result, changed>>
  BY DEF Clock, NightBoundary, RegistrationEnds, StatusTimesOut, CoolDown, Panel!CoolDown,
         panelVars, switchVars, contentVars, inputVars
<1> QED
  BY <1>1, HealthyPlaces

\* A call that does not throw ends no task.
LEMMA HealthyInPanel ==
    ASSUME Base, Healthy, NEW p \in Threads, InPanel(p),
           \A q \in Threads : result'[q] = "threw" => result[q] = "threw"
    PROVE  Healthy'
<1>1. UNCHANGED <<pc, shown, stopped, state, changed>>
  BY PanelStepShape DEF InPanel, Base, PanelSafe, switchVars, contentVars, inputVars
<1> QED
  BY <1>1, HealthyPlaces

\* The manager, outside a switch.
LEMMA HealthyManagerSteps ==
    ASSUME Base, Healthy, \A q \in Threads : result'[q] = "threw" => result[q] = "threw",
           \/ ManagerBoot \/ ManagerBooted \/ ManagerArm \/ ManagerWake \/ ManagerKeep
           \/ ManagerCleared \/ ManagerRetry
    PROVE  Healthy'
<1> USE DEF panelVars, inputVars, switchVars, contentVars
<1>0. M \in Threads /\ Content \subseteq Threads \ {M} /\ "Status" \in Content
  BY DEF M, Threads, Content
<1>1. UNCHANGED <<stopped, state>>
  BY <1>0, CallShape, ReturnShape DEF ManagerBoot, CallPanel, ManagerBooted, ManagerArm,
     ManagerWake, ManagerKeep, ManagerCleared, ManagerRetry, Base, PanelSafe
<1>2. shown' = shown
  BY DEF ManagerBoot, ManagerBooted, ManagerArm, ManagerWake, ManagerKeep, SetCredentials,
         ManagerCleared, ManagerRetry
<1>3. PICK l \in {"initializing", "loading", "load", "arm", "close", "wait", "apply", "start"} :
          /\ Goto(M, l)
          /\ l = "start" => pc[M] = "clearing"
          /\ l \in {"initializing", "loading", "load"} => pc[M] \in Booting
          /\ l = "arm" => pc[M] \in Booting \/ (pc[M] = "apply" /\ state # "Boot")
          /\ l \in {"close", "wait"} => pc[M] = "arm"
          /\ l = "apply" => pc[M] = "wait"
  <2>1. result[M] # "threw" /\ pc[M] # "backoff"
    BY <1>0 DEF Healthy, NoThrow
  <2>2. CASE ManagerKeep
    BY <2>2, TargetShape DEF ManagerKeep, Content
  <2> QED
    BY <2>1, <2>2 DEF ManagerBoot, CallPanel, ManagerBooted, ManagerArm, ManagerWake,
       ManagerCleared, ManagerRetry, Booting
<1>4. l # "apply" => changed' = changed
  BY <1>3 DEF ManagerBoot, ManagerBooted, ManagerArm, ManagerWake, ManagerKeep,
         ManagerCleared, ManagerRetry, Goto, M, Typed, Places, Base, Threads
<1>5. pc'[M] = l /\ \A q \in Threads : q # M => pc'[q] = pc[q]
  BY <1>0, <1>3 DEF Goto, Base, Typed, Places
<1>6. NoThrow' /\ DrawsOnce'
  BY <1>0, <1>2, <1>3, <1>5 DEF Healthy, NoThrow, DrawsOnce
<1>7. StopsInSwitch'
  BY <1>0, <1>1, <1>3, <1>5 DEF Healthy, StopsInSwitch, Booting
<1>8. TaskRuns'
  <2>1. pc[M] \in Booting => state = "Boot"
    BY DEF Base, Control, BootFirst
  <2>2. "Boot" \notin Content
    BY DEF Content
  <2>3. \A t \in Content : pc'[t] = pc[t]
    BY <1>0, <1>5
  <2>4. pc[M] \in Booting \cup {"arm", "wait", "apply"} \/ l = "start"
    BY <1>3
  <2> QED
    BY <1>1, <1>3, <1>5, <2>1, <2>2, <2>3, <2>4 DEF Healthy, TaskRuns
<1>9. BootPending'
  BY <1>1, <1>3, <1>4, <1>5 DEF Healthy, BootPending, Booting
<1> QED
  BY <1>6, <1>7, <1>8, <1>9 DEF Healthy

\* The manager stops its task, for a switch or at the end.
LEMMA HealthyStop ==
    ASSUME Base, Healthy, ManagerSwitch \/ ManagerClose PROVE Healthy'
<1> USE DEF panelVars, inputVars, switchVars, contentVars
<1>0. M \in Threads /\ Content \subseteq Threads \ {M} /\ "Status" \in Content
  BY DEF M, Threads, Content
<1>1. UNCHANGED <<state, shown>> /\ StopActive
  BY DEF ManagerSwitch, ManagerClose
<1>2. PICK l \in {"stopping", "closing"} : Goto(M, l)
  BY DEF ManagerSwitch, ManagerClose
<1>3. pc[M] \in {"apply", "wait", "close"}
  BY DEF ManagerSwitch, ManagerClose, LoopEnds
<1>4. pc'[M] = l /\ \A q \in Threads : q # M => pc'[q] = pc[q]
  BY <1>0, <1>2 DEF Goto, Base, Typed, Places
<1>5. result' = result
  BY <1>1, TokenShape DEF StopActive
<1>6. NoThrow' /\ DrawsOnce' /\ TaskRuns' /\ BootPending'
  BY <1>0, <1>1, <1>2, <1>4, <1>5 DEF Healthy, NoThrow, DrawsOnce, TaskRuns, BootPending, Booting
<1>7. StopsInSwitch'
  <2>1. \A t \in Content : ~stopped[t]
    BY <1>3 DEF Healthy, StopsInSwitch
  <2>2. \A t \in Content : stopped'[t] => t = state
    BY <1>0, <1>1, <2>1 DEF StopActive, Panel!RequestStop, Base, PanelSafe, Panel!TypeOK
  <2>3. state \in Content => pc[state] \notin {"off", "done"}
    BY <1>3 DEF Healthy, TaskRuns
  <2> QED
    BY <1>0, <1>2, <1>4, <2>2, <2>3 DEF StopsInSwitch
<1> QED
  BY <1>6, <1>7 DEF Healthy

\* The manager leaves its state only after the join.
LEMMA HealthyJoin ==
    ASSUME Base, Healthy, ManagerJoin \/ ManagerEnd PROVE Healthy'
<1> USE DEF panelVars, inputVars, switchVars, contentVars
<1>0. M \in Threads /\ Content \subseteq Threads \ {M} /\ "Status" \in Content
  BY DEF M, Threads, Content
<1>1. UNCHANGED <<state, shown, stopped, result>>
  BY <1>0, CallShape DEF ManagerJoin, ManagerEnd, Base, PanelSafe
<1>2. PICK l \in {"clearing", "start", "done"} : Joined(l)
  BY DEF ManagerJoin, ManagerEnd
<1>3. ActiveJoinable
  BY DEF ManagerJoin, ManagerEnd
<1>4. pc'[M] = l /\ \A q \in Threads : q # M => pc'[q] \in {pc[q], "off"}
  BY <1>0, <1>2 DEF Joined
<1>5. \A t \in Content : ~stopped[t]
  BY <1>3 DEF ActiveJoinable, Healthy, StopsInSwitch, Base, IInv, ContentIsState
<1>6. NoThrow' /\ DrawsOnce'
  BY <1>0, <1>1, <1>2, <1>4 DEF Healthy, NoThrow, DrawsOnce
<1>7. StopsInSwitch' /\ TaskRuns' /\ BootPending'
  BY <1>1, <1>2, <1>4, <1>5 DEF StopsInSwitch, TaskRuns, BootPending, Booting
<1> QED
  BY <1>6, <1>7 DEF Healthy

\* The started task is alive and not stopped.
LEMMA HealthyStart == ASSUME Base, Healthy, ManagerStart PROVE Healthy'
<1>0. M \in Threads /\ Content \subseteq Threads \ {M} /\ "Status" \in Content /\ target \in Content
      /\ "Boot" \notin Content
  BY DEF M, Threads, Content, Base, IInv, DataOK
<1>1. pc[M] = "start" /\ state' = target /\ result' = result
  BY TokenShape DEF ManagerStart
<1>2. /\ pc'[M] = "arm" /\ pc'[target] = "begin"
      /\ \A q \in Threads : q \notin {M, target} => pc'[q] = pc[q]
  BY <1>0 DEF ManagerStart, Base, Typed, Places
<1>3. /\ shown'[target] = FALSE
      /\ \A t \in Content : t # target => shown'[t] = shown[t]
  BY <1>0 DEF ManagerStart, Prepare, Base, Typed, TasksOK
<1>4. \A t \in Content : ~stopped'[t]
  BY <1>0, <1>1 DEF ManagerStart, Panel!NewToken, Healthy, StopsInSwitch, Base, PanelSafe,
                    Panel!TypeOK
<1>5. NoThrow' /\ DrawsOnce'
  BY <1>0, <1>1, <1>2, <1>3 DEF Healthy, NoThrow, DrawsOnce
<1>6. StopsInSwitch' /\ TaskRuns' /\ BootPending'
  BY <1>0, <1>1, <1>2, <1>4 DEF StopsInSwitch, TaskRuns, BootPending
<1> QED
  BY <1>5, <1>6 DEF Healthy

\* A task that was not stopped goes on.
LEMMA HealthyContent ==
    ASSUME Base, Healthy, NEW t \in Content, ContentTask(t),
           \A q \in Threads : result'[q] = "threw" => result[q] = "threw"
    PROVE  Healthy'
<1> USE DEF panelVars, inputVars, switchVars, contentVars
<1>0. t \in Threads /\ M \in Threads \ {t} /\ Content \subseteq Threads \ {M} /\ "Status" \in Content
  BY DEF M, Threads, Content
<1>1. UNCHANGED <<state, changed>>
  BY DEF ContentTask, ContentDraw, ContentSkip, ContentDrawn, ContentRecheck, ContentRetry, ContentEnd
<1>2. result[t] # "threw" /\ pc[t] # "backoff"
  BY <1>0 DEF Healthy, NoThrow
<1>3. PICK l \in {"painting", "done", "wait", "begin"} :
          /\ Goto(t, l) /\ pc[t] # "off"
          /\ l = "begin" => t # "Status" /\ shown' = shown
          /\ l = "done" => stopped[t]
  <2>1. CASE ContentSkip(t)
    <3>1. t = "Status" => ~shown["Status"]
      BY <2>1 DEF ContentSkip, Healthy, DrawsOnce
    <3>2. t # "Status"
      BY <2>1, <3>1 DEF ContentSkip, Draws
    <3> QED
      BY <2>1, <3>2 DEF ContentSkip, Idle
  <2>2. CASE ContentRecheck(t)
    BY <2>2 DEF ContentRecheck, Loops
  <2> QED
    BY <1>2, <2>1, <2>2 DEF ContentTask, ContentDraw, CallPanel, ContentDrawn, ContentRetry,
                            ContentEnd
<1>4. pc'[t] = l /\ \A q \in Threads : q # t => pc'[q] = pc[q]
  BY <1>0, <1>3 DEF Goto, Base, Typed, Places
<1>5. /\ \A u \in Content : stopped'[u] => stopped[u]
      /\ l = "done" => ~stopped'[t]
  <2>1. CASE ContentEnd(t)
    BY <1>0, <2>1 DEF ContentEnd, Panel!NewToken, Base, PanelSafe, Panel!TypeOK
  <2>2. CASE ContentDraw(t)
    BY <1>0, <1>3, <1>4, <2>2, CallShape DEF ContentDraw, CallPanel, Goto, Base, Typed, Places, PanelSafe
  <2>3. CASE ContentDrawn(t)
    BY <1>0, <1>2, <1>3, <1>4, <2>3, ReturnShape DEF ContentDrawn, Goto, Base, Typed, Places, PanelSafe
  <2>4. CASE ContentSkip(t) \/ ContentRecheck(t) \/ ContentRetry(t)
    BY <1>0, <1>2, <1>3, <1>4, <2>4 DEF ContentSkip, ContentRecheck, ContentRetry, Goto, Base, Typed, Places
  <2> QED
    BY <2>1, <2>2, <2>3, <2>4 DEF ContentTask
<1>6. t # "Status" => shown'["Status"] = shown["Status"]
  BY <1>0 DEF ContentTask, ContentDraw, ContentSkip, ContentDrawn, ContentRecheck, ContentRetry,
              ContentEnd, Base, Typed, TasksOK
<1>7. NoThrow'
  BY <1>0, <1>4 DEF Healthy, NoThrow
<1>8. DrawsOnce'
  BY <1>0, <1>3, <1>4, <1>6 DEF Healthy, DrawsOnce, Content, Threads
<1>9. StopsInSwitch'
  BY <1>0, <1>3, <1>4, <1>5 DEF Healthy, StopsInSwitch
<1>10. TaskRuns' /\ BootPending'
  BY <1>0, <1>1, <1>3, <1>4 DEF Healthy, TaskRuns, BootPending, StopsInSwitch
<1> QED
  BY <1>7, <1>8, <1>9, <1>10 DEF Healthy

\* DisplayClear and main() stop no content task.
LEMMA HealthyOthers ==
    ASSUME Base, Healthy, ClearTask \/ Main,
           \A q \in Threads : result'[q] = "threw" => result[q] = "threw"
    PROVE  Healthy'
<1> USE DEF panelVars, inputVars, switchVars, contentVars
<1>0. /\ C \in Threads /\ "main" \in Threads /\ M \in Threads \ {C, "main"} /\ "Status" \in Content
      /\ Content \subseteq Threads \ {M, C, "main"}
  BY DEF M, C, Threads, Content
<1>1. UNCHANGED <<state, changed>>
  BY DEF ClearTask, ClearWake, ClearDone, ClearEnd, Main, MainSignal, MainStopInputs, MainStopBus,
         MainStopManager, MainStopClear, MainJoined, MainLast, MainExit
<1>2. PICK p \in {C, "main"}, l \in {"clearing", "wait", "done", "stopInputs", "stopBus",
             "stopManager", "joinManager", "joinClear", "last", "finishing", "exited"} : Goto(p, l)
  <2>1. CASE ClearTask
    BY <2>1 DEF ClearTask, ClearWake, CallPanel, ClearDone, ClearEnd
  <2>2. CASE MainLast
    BY <2>2 DEF MainLast, CallPanel
  <2>3. CASE Main /\ ~MainLast
    BY <2>3 DEF Main, MainSignal, MainStopInputs, MainStopBus, MainStopManager, MainStopClear,
                MainJoined, MainExit
  <2> QED
    BY <2>1, <2>2, <2>3
<1>3. pc'[p] = l /\ \A q \in Threads : q # p => pc'[q] = pc[q]
  BY <1>0, <1>2 DEF Goto, Base, Typed, Places
<1>4. \A t \in Content : stopped'[t] = stopped[t]
  <2>1. CASE ClearTask
    BY <1>0, <2>1, CallShape, ReturnShape DEF ClearTask, ClearWake, CallPanel, ClearDone, ClearEnd,
           Base, PanelSafe
  <2>2. CASE MainLast
    BY <1>0, <2>2, CallShape DEF MainLast, CallPanel, Base, PanelSafe
  <2>3. CASE MainExit
    BY <1>0, <2>3, ReturnShape DEF MainExit, Base, PanelSafe
  <2>4. CASE MainStopManager \/ MainStopClear
    BY <1>0, <2>4 DEF MainStopManager, MainStopClear, Panel!RequestStop, Base, PanelSafe, Panel!TypeOK
  <2>5. CASE MainSignal \/ MainStopInputs \/ MainStopBus \/ MainJoined
    BY <2>5 DEF MainSignal, MainStopInputs, MainStopBus, MainJoined, Panel!RequestShutdown
  <2> QED
    BY <2>1, <2>2, <2>3, <2>4, <2>5 DEF Main
<1>5. NoThrow'
  BY <1>0, <1>2, <1>3 DEF Healthy, NoThrow
<1>6. DrawsOnce'
  <2>1. CASE MainExit
    <3>1. pc["Status"] = "off"
      BY <1>0, <2>1 DEF MainExit, Base, Control, Ended, NoTask, Over
    <3> QED
      BY <1>0, <1>3, <3>1 DEF DrawsOnce
  <2>2. CASE ~MainExit
    <3>1. shown' = shown
      BY <2>2 DEF ClearTask, ClearWake, ClearDone, ClearEnd, Main, MainSignal, MainStopInputs,
             MainStopBus, MainStopManager, MainStopClear, MainJoined, MainLast
    <3> QED
      BY <1>0, <1>3, <3>1 DEF Healthy, DrawsOnce
  <2> QED
    BY <2>1, <2>2
<1>7. StopsInSwitch' /\ TaskRuns' /\ BootPending'
  BY <1>0, <1>1, <1>3, <1>4 DEF Healthy, StopsInSwitch, TaskRuns, BootPending
<1> QED
  BY <1>5, <1>6, <1>7 DEF Healthy

\* Healthy is preserved by every step without a throw.
LEMMA HealthyStep ==
    ASSUME Base, NoDb => Healthy, [Next]_vars PROVE (NoDb => Healthy)'
<1> SUFFICES ASSUME NoDb' PROVE Healthy'
  OBVIOUS
<1>1. NoDb /\ \A p \in Threads : result'[p] = "threw" => result[p] = "threw"
  BY PanelUsed, NoDbStep DEF Base, PanelSafe
<1>2. Healthy
  BY <1>1
<1>3. CASE Exited \/ UNCHANGED vars
  BY <1>2, <1>3 DEF Exited, vars, panelVars, switchVars, contentVars, inputVars, Healthy, NoThrow,
                    DrawsOnce, StopsInSwitch, TaskRuns, BootPending
<1> QED
  BY <1>1, <1>2, <1>3, HealthyBus, HealthyClock, HealthyInPanel, HealthyManagerSteps, HealthyStop,
     HealthyJoin, HealthyStart, HealthyContent, HealthyOthers DEF Next, Thread, OwnCode, Manager

\* A throw is never forgotten, so Healthy holds until the first.
LEMMA HealthyHolds == Spec => [](NoDb => Healthy)
<1>1. Init => (NoDb => Healthy)
  BY HealthyInit
<1>2. Base /\ (NoDb => Healthy) /\ [Next]_vars => (NoDb => Healthy)'
  BY HealthyStep
<1> QED
  BY <1>1, <1>2, BaseHolds, PTL DEF Spec

\* DisplayTaskManager "runs exactly one content task": as long as no metrics write
\* has thrown, a manager that waits with nothing left to handle has a task whose
\* thread is alive, whatever arrived during the switch that started it.  (A write
\* that throws in the clear of a switch leaves the manager without one.)  The
\* induction needs StopsInSwitch: nobody but the manager ends a task, and it joins
\* the one it has stopped before it starts another.
THEOREM TaskAlwaysRuns == Spec => []("db" \notin faults.kinds => ContentRuns)
<1>1. Base /\ (NoDb => Healthy) => ("db" \notin faults.kinds => ContentRuns)
  BY DEF Base, IInv, DataOK, NoDb, Healthy, TaskRuns, BootPending, ContentRuns
<1> QED
  BY <1>1, BaseHolds, HealthyHolds, PTL

-----------------------------------------------------------------------------
(* The task that runs is the right one.                                     *)

\* No night or registration boundary has passed and no metrics write has thrown.
Undisturbed == flips = 0 /\ until # "past" /\ NoDb

\* The decision the manager is carrying out is up to date unless a change is flagged
\* or an event is half handled.
Decided ==
    ~changed /\ ~half =>
        /\ pc[M] = "apply" => /\ snap.status = latestStatus
                              /\ snap.ap = latest
                              /\ snap.registration = RegistrationRequired
        /\ pc[M] \in {"stopping", "clearing", "start"} => target = Desired
        /\ pc[M] \in {"arm", "wait"} => state = Desired

desiredVars == <<latest, latestStatus, until, registered, nightPause, inNight>>

\* What is asked for depends on these inputs only.
LEMMA DesiredSame ==
    ASSUME UNCHANGED desiredVars
    PROVE  Desired' = Desired /\ RegistrationRequired' = RegistrationRequired
  BY DEF desiredVars, Desired, TargetOf, RegistrationRequired, NightBlankNow

\* A step that changes no input and no decision.
LEMMA DecidedSame ==
    ASSUME Decided, UNCHANGED <<desiredVars, changed, half, snap, target, state>>, pc'[M] = pc[M]
    PROVE  Decided'
<1>1. Desired' = Desired /\ RegistrationRequired' = RegistrationRequired
  BY DesiredSame
<1> QED
  BY <1>1 DEF Decided, desiredVars

\* A boundary or a throw is never forgotten.
LEMMA UndisturbedBefore ==
    ASSUME Base, [Next]_vars, Undisturbed' PROVE Undisturbed /\ ~NightBoundary /\ ~RegistrationEnds
<1>1. NoDb
  BY PanelUsed, NoDbStep DEF Base, PanelSafe, Undisturbed
<1>2. flips \in Nat
  BY ProcessAssumption DEF Base, Typed, BoundsOK
<1>3. CASE NightBoundary \/ RegistrationEnds
  BY <1>2, <1>3 DEF NightBoundary, RegistrationEnds, Undisturbed
<1>4. CASE ~NightBoundary /\ ~RegistrationEnds
  <2> DEFINE Kept == flips' = flips /\ (until = "past" => until' = "past")
  <2> SUFFICES Kept
    BY <1>1, <1>4 DEF Undisturbed
  <2> USE DEF boundVars, inputVars
  <2>1. CASE (\E e \in Events : Publish(e)) \/ TakeBatch
    BY <2>1 DEF Publish, TakeBatch
  <2>2. CASE Clock
    BY <1>4, <2>2 DEF Clock, StatusTimesOut, CoolDown
  <2>3. CASE Dispatch
    <3>1. flips' = flips /\ Handle(Head(batch))
      BY <2>3 DEF Dispatch
    <3>2. until = "past" => until' = "past"
      BY <3>1 DEF Handle, HandleApSetup, HandleStatus, HandleRegistration, Registration,
             HandleScheduledClear, HandleNightMode, HandleSetActive, HandleClearDisplay
    <3> QED
      BY <3>1, <3>2
  <2>4. CASE Manager
    BY <2>4 DEF Manager, ManagerBoot, ManagerBooted, ManagerArm, ManagerWake, ManagerKeep,
       ManagerSwitch, ManagerJoin, ManagerCleared, ManagerStart, ManagerClose, ManagerEnd,
       ManagerRetry
  <2>5. ASSUME NEW p \in Threads, InPanel(p) \/ ContentTask(p) PROVE Kept
    BY <2>5 DEF InPanel, ContentTask, ContentDraw, ContentSkip, ContentDrawn, ContentRecheck,
       ContentRetry, ContentEnd
  <2>6. CASE ClearTask
    BY <2>6 DEF ClearTask, ClearWake, ClearDone, ClearEnd
  <2>7. CASE Main
    BY <2>7 DEF Main, MainSignal, MainStopInputs, MainStopBus, MainStopManager, MainStopClear,
       MainJoined, MainLast, MainExit
  <2>8. CASE Exited \/ UNCHANGED vars
    BY <2>8 DEF Exited, vars
  <2> HIDE DEF Kept
  <2> QED
    BY <2>1, <2>2, <2>3, <2>4, <2>5, <2>6, <2>7, <2>8 DEF Next, Bus, Thread, OwnCode
<1> QED
  BY <1>3, <1>4

\* A handler that changes an input flags the change or is half way.
LEMMA DecidedBus ==
    ASSUME Base, Decided, (\E e \in Events : Publish(e)) \/ Bus PROVE Decided'
<1> USE DEF inputVars, switchVars, settingVars
<1>1. CASE (\E e \in Events : Publish(e)) \/ TakeBatch
  BY <1>1, DecidedSame DEF Publish, TakeBatch, desiredVars
<1>2. CASE Dispatch
  <2> DEFINE e == Head(batch)
  <2>1. Handle(e) /\ half' = (e.topic = "UPDATE_NIGHT_MODE" /\ ~half)
        /\ UNCHANGED <<pc, snap, target, state>>
    BY <1>2 DEF Dispatch
  <2>2. half => e.topic = "UPDATE_NIGHT_MODE"
    BY DEF Base, Control, HalfHandled
  <2> HIDE DEF e
  <2>3. half \in BOOLEAN
    BY DEF Base, Typed
  <2>4. CASE e.topic \in {"SET_SLIDESHOW_ACTIVE", "CLEAR_DISPLAY"}
    <3>1. UNCHANGED <<desiredVars, changed>>
      BY <2>1, <2>4 DEF Handle, HandleSetActive, HandleClearDisplay, desiredVars
    <3>2. half' = half
      BY <2>1, <2>2, <2>3, <2>4
    <3> QED
      BY <2>1, <3>1, <3>2, DecidedSame
  <2>5. CASE e.topic \notin {"SET_SLIDESHOW_ACTIVE", "CLEAR_DISPLAY"}
    <3>1. changed' \/ half'
      BY <2>1, <2>5 DEF Handle, HandleApSetup, HandleStatus, HandleRegistration,
             HandleScheduledClear, HandleNightMode, SlideshowHandles
    <3> QED
      BY <3>1 DEF Decided
  <2> QED
    BY <2>4, <2>5
<1> QED
  BY <1>1, <1>2 DEF Bus

\* The manager carries its decision from the snapshot to the state.
LEMMA DecidedManager == ASSUME Base, Healthy, Decided, Manager PROVE Decided'
<1> USE DEF busVars, inputVars, switchVars, settingVars
<1>0. M \in Threads
  BY DEF M, Threads
<1>1. ASSUME NEW l, Goto(M, l) \/ Joined(l) PROVE pc'[M] = l
  BY <1>0, <1>1 DEF Goto, Joined, Base, Typed, Places
<1>2. CASE ManagerBoot \/ ManagerClose \/ ManagerEnd
  <2>1. pc'[M] \in {"initializing", "loading", "closing", "done"}
    BY <1>1, <1>2 DEF ManagerBoot, CallPanel, ManagerClose, ManagerEnd
  <2> QED
    BY <2>1 DEF Decided
<1>3. CASE ManagerBooted
  <2>1. changed
    BY <1>3 DEF ManagerBooted, Healthy, BootPending, Base, Control, BootFirst, Booting
  <2> QED
    BY <1>3, <2>1 DEF ManagerBooted, Decided
<1>4. CASE ManagerRetry
  BY <1>0, <1>4 DEF ManagerRetry, Healthy, NoThrow
<1>5. CASE ManagerArm
  <2>1. pc[M] = "arm" /\ pc'[M] \in {"close", "wait"} /\ UNCHANGED <<desiredVars, changed, half, state>>
    BY <1>1, <1>5 DEF ManagerArm, desiredVars
  <2> QED
    BY <2>1, DesiredSame DEF Decided
<1>6. CASE ManagerWake
  <2>1. /\ pc'[M] = "apply"
        /\ snap'.status = latestStatus' /\ snap'.ap = latest' /\ latest' = latest
        /\ snap'.registration = RegistrationRequired
        /\ RegistrationRequired' = RegistrationRequired
    BY <1>1, <1>6 DEF ManagerWake, RegistrationRequired
  <2> QED
    BY <2>1 DEF Decided
<1>7. CASE ManagerKeep
  <2>1. /\ pc[M] = "apply" /\ pc'[M] = "arm" /\ UNCHANGED <<desiredVars, changed, half, state>>
        /\ state = TargetOf(snap.status, snap.ap, snap.registration)
    BY <1>1, <1>7 DEF ManagerKeep, desiredVars
  <2> QED
    BY <2>1, DesiredSame DEF Decided, Desired
<1>8. CASE ManagerSwitch
  <2>1. /\ pc[M] = "apply" /\ pc'[M] = "stopping" /\ UNCHANGED <<desiredVars, changed, half>>
        /\ target' = TargetOf(snap.status, snap.ap, snap.registration)
    BY <1>1, <1>8 DEF ManagerSwitch, desiredVars
  <2> QED
    BY <2>1, DesiredSame DEF Decided, Desired
<1>9. CASE ManagerJoin \/ ManagerCleared
  <2>1. /\ pc[M] \in {"stopping", "clearing"} /\ pc'[M] \in {"clearing", "start"}
        /\ UNCHANGED <<desiredVars, changed, half, target>>
    BY <1>0, <1>1, <1>9 DEF ManagerJoin, ManagerCleared, Healthy, NoThrow, desiredVars
  <2> QED
    BY <2>1, DesiredSame DEF Decided
<1>10. CASE ManagerStart
  <2>1. /\ pc[M] = "start" /\ pc'[M] = "arm" /\ UNCHANGED <<desiredVars, changed, half>>
        /\ state' = target
    BY <1>0, <1>10 DEF ManagerStart, desiredVars, Base, Typed, Places, IInv, DataOK, Content, M
  <2> QED
    BY <2>1, DesiredSame DEF Decided
<1> QED
  BY <1>2, <1>3, <1>4, <1>5, <1>6, <1>7, <1>8, <1>9, <1>10 DEF Manager

\* The other threads change neither the decision nor what it is about.
LEMMA DecidedOthers ==
    ASSUME Base, Decided,
           \/ StatusTimesOut \/ CoolDown \/ Exited \/ UNCHANGED vars
           \/ \E p \in Threads : InPanel(p)
           \/ \E t \in Content : ContentTask(t)
           \/ ClearTask \/ Main
    PROVE  Decided'
<1> USE DEF busVars, inputVars, switchVars, settingVars
<1>0. M \in Threads /\ M \notin Content /\ M # C /\ M # "main"
  BY DEF M, C, Threads, Content
<1>1. ASSUME NEW p, p # M, NEW l, Goto(p, l) PROVE pc'[M] = pc[M]
  BY <1>0, <1>1 DEF Goto, Base, Typed, Places
<1>2. CASE StatusTimesOut \/ CoolDown \/ Exited \/ UNCHANGED vars \/ \E p \in Threads : InPanel(p)
  BY <1>2, DecidedSame DEF StatusTimesOut, CoolDown, Exited, vars, InPanel, desiredVars
<1>3. ASSUME NEW t \in Content, ContentTask(t) PROVE Decided'
  <2>1. UNCHANGED <<desiredVars, changed, half, snap, target, state>>
    BY <1>3 DEF ContentTask, ContentDraw, ContentSkip, ContentDrawn, ContentRecheck, ContentRetry,
           ContentEnd, desiredVars
  <2>2. \E l : Goto(t, l)
    BY <1>3 DEF ContentTask, ContentDraw, CallPanel, ContentSkip, ContentDrawn, ContentRecheck,
           ContentRetry, ContentEnd
  <2> QED
    BY <1>0, <1>1, <2>1, <2>2, DecidedSame
<1>4. CASE ClearTask
  <2>1. UNCHANGED <<desiredVars, changed, half, snap, target, state>>
    BY <1>4 DEF ClearTask, ClearWake, ClearDone, ClearEnd, desiredVars
  <2>2. \E l : Goto(C, l)
    BY <1>4 DEF ClearTask, ClearWake, CallPanel, ClearDone, ClearEnd
  <2> QED
    BY <1>0, <1>1, <2>1, <2>2, DecidedSame
<1>5. CASE Main
  <2>1. UNCHANGED <<desiredVars, changed, half, snap, target, state>>
    BY <1>5 DEF Main, MainSignal, MainStopInputs, MainStopBus, MainStopManager, MainStopClear,
           MainJoined, MainLast, MainExit, desiredVars
  <2>2. \E l : Goto("main", l)
    <3>1. CASE MainLast
      BY <3>1 DEF MainLast, CallPanel
    <3> QED
      BY <1>5, <3>1 DEF Main, MainSignal, MainStopInputs, MainStopBus, MainStopManager,
             MainStopClear, MainJoined, MainExit
  <2> QED
    BY <1>0, <1>1, <2>1, <2>2, DecidedSame
<1> QED
  BY <1>2, <1>3, <1>4, <1>5

\* Decided is preserved by every undisturbed step.
LEMMA DecidedStep ==
    ASSUME Base, NoDb => Healthy, Undisturbed => Decided, [Next]_vars
    PROVE  (Undisturbed => Decided)'
<1> SUFFICES ASSUME Undisturbed' PROVE Decided'
  OBVIOUS
<1>1. Undisturbed /\ ~NightBoundary /\ ~RegistrationEnds
  BY UndisturbedBefore
<1>2. Decided /\ Healthy
  BY <1>1 DEF Undisturbed
<1> QED
  BY <1>1, <1>2, DecidedBus, DecidedManager, DecidedOthers DEF Next, Clock, Thread, OwnCode

\* The manager never goes to sleep on a stale decision: whatever is published during
\* a switch, a manager that waits with no change flagged runs the screen the latest
\* events and settings ask for.  The theorem excludes what really breaks it: a metrics
\* write that threw, and the night and registration boundaries, which the manager
\* misses when they pass between its snapshot and the next arming.
THEOREM ManagerSettles ==
    Spec => [](flips = 0 /\ until # "past" /\ "db" \notin faults.kinds => Settled)
<1>1. Init => Decided
  BY DEF Init, Decided
<1>2. Base /\ (NoDb => Healthy) /\ (Undisturbed => Decided) /\ [Next]_vars
        => (Undisturbed => Decided)'
  BY DecidedStep
<1>3. (Undisturbed => Decided)
        => (flips = 0 /\ until # "past" /\ "db" \notin faults.kinds => Settled)
  BY DEF Undisturbed, NoDb, Decided, Settled
<1> QED
  BY <1>1, <1>2, <1>3, BaseHolds, HealthyHolds, PTL DEF Spec

-----------------------------------------------------------------------------
(* The last screen.                                                         *)

NoFault == faults.kinds = {}

\* A status screen that was drawn is up, unless it was cleared.
StatusUp ==
    /\ state = "Status"
    /\ shown["Status"] \/ (phase["Status"] = "return" /\ result["Status"] = "ok")
    => panel \in {Blank, StatusOf(shownStatus)}

\* The final call of main() leaves the screen it was made for.
FinalDone ==
    phase["main"] = "return" =>
        panel = IF state = "Status" THEN StatusOf(shownStatus) ELSE Blank

Final == StatusUp /\ FinalDone /\ LastScreen

\* Nothing has been shown when main() starts.
LEMMA FinalInit == ASSUME Init PROVE Final
  BY DEF Init, Panel!Init, Final, StatusUp, FinalDone, LastScreen, Threads, Content

\* A fault is never forgotten.
LEMMA NoFaultBefore == ASSUME Panel!TypeOK, [Panel!Next]_panelVars, NoFault' PROVE NoFault
<1>1. CASE UNCHANGED panelVars
  BY <1>1 DEF panelVars, NoFault
<1>2. ASSUME NEW p \in Threads,
             Panel!PanelStep(p) \/ (\E c \in Panel!Calls : Panel!Call(p, c)) \/ Panel!Return(p)
                \/ Panel!RequestStop(p) \/ Panel!NewToken(p)
      PROVE  NoFault
  BY <1>2 DEF Panel!PanelStep, Panel!Lock, Panel!Bail, Panel!StartRefresh, Panel!Refresh,
         Panel!RefreshOk, Panel!HwInitFails, Panel!BusyTimeout, Panel!RefuseBuffer, Panel!Fault,
         Panel!DbThrowsBefore, Panel!DbThrowsAfter, Panel!DbThrowsAfterBusy, Panel!Call,
         Panel!Return, Panel!RequestStop, Panel!NewToken, NoFault
<1>3. CASE Panel!CoolDown \/ Panel!RequestShutdown
  BY <1>3 DEF Panel!CoolDown, Panel!RequestShutdown, NoFault
<1> QED
  BY <1>1, <1>2, <1>3 DEF Panel!Next

\* Without faults a call draws its screen or bails out.
LEMMA PaintShape ==
    ASSUME Panel!TypeOK, NEW p \in Threads, Panel!PanelStep(p), NoFault'
    PROVE  \/ phase'[p] # "return" /\ panel' = panel
           \/ /\ phase'[p] = "return" /\ result'[p] = "failed" /\ panel' = panel
              /\ Panel!Bails(p)
           \/ phase'[p] = "return" /\ result'[p] = "ok" /\ panel' = call[p].screen
<1>1. CASE Panel!Lock(p) \/ Panel!StartRefresh(p)
  BY <1>1 DEF Panel!Lock, Panel!StartRefresh, Panel!TypeOK
<1>2. CASE Panel!Bail(p)
  BY <1>2 DEF Panel!Bail, Panel!Unlock, Panel!TypeOK
<1>3. CASE Panel!RefreshOk(p)
  BY <1>3 DEF Panel!RefreshOk, Panel!Unlock, Panel!TypeOK
<1>4. ASSUME NEW k, Panel!Fault(k) PROVE FALSE
  BY <1>4 DEF Panel!Fault, NoFault
<1> QED
  BY <1>1, <1>2, <1>3, <1>4 DEF Panel!PanelStep, Panel!Refresh, Panel!HwInitFails,
     Panel!BusyTimeout, Panel!RefuseBuffer, Panel!DbThrowsBefore, Panel!DbThrowsAfter,
     Panel!DbThrowsAfterBusy

\* Once main() draws the last screen nobody else is in the panel.
LEMMA Alone ==
    ASSUME Base, pc["main"] \in Over
    PROVE  \A q \in Threads : q # "main" => phase[q] = "out"
<1>1. pc[M] = "done" /\ pc[C] = "done" /\ \A t \in Content : pc[t] = "off"
  BY DEF Base, Control, Ended, NoTask
<1> QED
  BY <1>1 DEF Base, Control, CallsMatch, InCall, Threads, Content, M, C

\* A refresh without a fault leaves the screen it was called with.
LEMMA FinalInPanel ==
    ASSUME Base, Final, NoFault, NoFault', NEW p \in Threads, InPanel(p) PROVE Final'
<1> USE DEF switchVars, contentVars
<1>0. "main" \in Threads /\ "Status" \in Threads /\ M \in Threads /\ C \in Threads
      /\ "Status" \in Content
  BY DEF Threads, Content, M, C
<1>1. /\ Panel!PanelStep(p) /\ UNCHANGED <<pc, state, shownStatus, shown, buffer>>
      /\ Panel!TypeOK
  BY DEF InPanel, Base, PanelSafe
<1>2. /\ phase[p] # "out" /\ InCall(p)
      /\ \A q \in Threads : q # p => phase'[q] = phase[q] /\ result'[q] = result[q]
  BY <1>1, PanelStepShape DEF Base, Control, CallsMatch
<1>3. p # "main" => pc["main"] \notin Over
  BY <1>2, Alone
<1>4. StatusUp'
  <2> SUFFICES ASSUME state = "Status",
                      shown["Status"] \/ (phase'["Status"] = "return" /\ result'["Status"] = "ok")
               PROVE  panel' \in {Blank, StatusOf(shownStatus)}
    BY <1>1 DEF StatusUp, StatusOf
  <2>1. call[p].screen \in {Blank, StatusOf(shownStatus)}
    <3>1. buffer["Status"] = StatusOf(shownStatus)
      BY DEF Base, Control, StatusBuffer
    <3>2. CASE p \in Content
      <4>1. p = "Status" /\ pc["Status"] = "painting"
        BY <1>2, <3>2 DEF InCall, Base, IInv, ContentIsState, Content, M, C
      <4> QED
        BY <3>1, <4>1 DEF Base, Control, CallScreens
    <3>3. CASE p = M
      <4>1. pc[M] \notin Booting
        BY DEF Base, Control, BootFirst
      <4> QED
        BY <1>2, <3>3, <4>1 DEF InCall, Base, Control, CallScreens, Booting, M, C, Content
    <3>4. CASE p = C
      BY <1>2, <3>4 DEF InCall, Base, Control, CallScreens, M, C, Content
    <3>5. CASE p = "main"
      <4>1. call["main"] = Panel!PaintForShutdown(buffer["Status"])
        BY <1>2, <3>5 DEF InCall, Base, Control, CallScreens, M, C, Content
      <4> QED
        BY <3>1, <3>5, <4>1 DEF Panel!PaintForShutdown
    <3> QED
      BY <3>2, <3>3, <3>4, <3>5 DEF Threads, M, C
  <2>2. CASE panel' = call[p].screen
    BY <2>1, <2>2
  <2>3. CASE panel' = panel /\ ~(phase'[p] = "return" /\ result'[p] = "ok")
    BY <1>0, <1>2, <2>3 DEF Final, StatusUp
  <2> QED
    BY <1>1, <2>2, <2>3, PaintShape
<1>5. FinalDone'
  <2>1. CASE p # "main"
    <3>1. phase["main"] # "return"
      BY <1>0, <1>3, <2>1 DEF Base, Control, CallsMatch, InCall, Over, M, C, Content
    <3> QED
      BY <1>0, <1>2, <2>1, <3>1 DEF FinalDone
  <2>2. CASE p = "main"
    <3>1. pc["main"] = "finishing"
      BY <1>2, <2>2 DEF InCall, M, C, Content
    <3>2. CASE state = "Status"
      <4>1. call["main"] = Panel!PaintForShutdown(StatusOf(shownStatus))
        BY <3>1, <3>2 DEF Base, Control, CallScreens, StatusBuffer
      <4>2. ~Panel!Bails("main") /\ call["main"].screen = StatusOf(shownStatus)
        BY <4>1 DEF Panel!Bails, Panel!PaintForShutdown
      <4> QED
        BY <1>1, <2>2, <3>2, <4>2, PaintShape DEF FinalDone, StatusOf
    <3>3. CASE state # "Status"
      <4>1. call["main"] = Panel!ClearForShutdown
        BY <3>1, <3>3 DEF Base, Control, CallScreens
      <4>2. call["main"].screen = Blank /\ (Panel!Bails("main") => isCleared)
        BY <4>1 DEF Panel!Bails, Panel!ClearForShutdown
      <4>3. isCleared => panel = Blank
        BY DEF Base, PanelSafe, Panel!ClearedIsBlank, NoFault
      <4> QED
        BY <1>1, <2>2, <3>3, <4>2, <4>3, PaintShape DEF FinalDone
    <3> QED
      BY <3>2, <3>3
  <2> QED
    BY <2>1, <2>2
<1>6. LastScreen'
  <2>1. pc["main"] # "exited"
    BY <1>2, <1>3 DEF InCall, Over, M, C, Content
  <2> QED
    BY <1>1, <2>1 DEF LastScreen
<1> QED
  BY <1>4, <1>5, <1>6 DEF Final

\* A step that draws nothing and ends no call of StatusScreen or main().
LEMMA FinalSame ==
    ASSUME Final, UNCHANGED <<panel, state, shownStatus>>, shown'["Status"] = shown["Status"],
           phase'["Status"] = "return" => phase["Status"] = "return" /\ result'["Status"] = result["Status"],
           phase'["main"] = "return" => phase["main"] = "return",
           pc'["main"] = "exited" => pc["main"] = "exited"
    PROVE  Final'
  BY DEF Final, StatusUp, FinalDone, LastScreen, StatusOf

\* Steps that neither draw nor move a thread.
LEMMA FinalQuiet ==
    ASSUME Base, Final,
           (\E e \in Events : Publish(e)) \/ Bus \/ Clock \/ Exited \/ UNCHANGED vars
    PROVE  Final'
<1>1. UNCHANGED <<panel, state, shownStatus, shown, phase, result, pc>>
  BY DEF Publish, Bus, TakeBatch, Dispatch, Clock, NightBoundary, RegistrationEnds, StatusTimesOut,
         CoolDown, Panel!CoolDown, Exited, vars, panelVars, switchVars, contentVars
<1> QED
  BY <1>1, FinalSame

\* A status screen the manager starts has not been shown; its own calls only begin and end here.
LEMMA FinalManager == ASSUME Base, Final, Manager PROVE Final'
<1> USE DEF panelVars, switchVars, contentVars
<1>0. M \in Threads /\ "main" \in Threads \ {M} /\ "Status" \in Threads \ {M} /\ Panel!TypeOK
  BY DEF M, Threads, Content, Base, PanelSafe
<1>1. CASE ManagerStart
  <2>1. /\ state' = target /\ UNCHANGED <<panel, phase, result>>
        /\ target = "Status" => shown'["Status"] = FALSE
    BY <1>1, TokenShape DEF ManagerStart, Prepare, Base, Typed, TasksOK, Content
  <2>2. /\ pc[M] = "start" /\ pc["Status"] = "off" /\ pc["main"] \notin Over
    BY <1>1 DEF ManagerStart, Base, Control, NoTask, Ended, Content
  <2>3. phase["Status"] = "out" /\ phase["main"] = "out"
    BY <1>0, <2>2 DEF Base, Control, CallsMatch, InCall, Over, M, C, Content
  <2>4. pc'["main"] = pc["main"]
    BY <1>0, <1>1 DEF ManagerStart, Base, IInv, DataOK, Content
  <2> QED
    BY <2>1, <2>2, <2>3, <2>4 DEF Final, StatusUp, FinalDone, LastScreen, Over
<1>2. CASE ~ManagerStart
  <2>1. UNCHANGED <<state, shownStatus, shown>>
    BY <1>2 DEF Manager, ManagerBoot, ManagerBooted, ManagerArm, ManagerWake, ManagerKeep,
           SetCredentials, ManagerSwitch, ManagerJoin, ManagerCleared, ManagerClose, ManagerEnd,
           ManagerRetry
  <2>2. \/ \E c : Panel!Call(M, c)
        \/ Panel!Return(M)
        \/ \E p : Panel!RequestStop(p)
        \/ UNCHANGED panelVars
    BY <1>2 DEF Manager, ManagerBoot, CallPanel, ManagerBooted, ManagerArm, ManagerWake, ManagerKeep,
           ManagerSwitch, ManagerJoin, ManagerCleared, ManagerClose, StopActive, ManagerEnd,
           ManagerRetry
  <2>3. panel' = panel /\ \A q \in Threads : q # M => phase'[q] = phase[q] /\ result'[q] = result[q]
    <3>1. ASSUME NEW c, Panel!Call(M, c)
          PROVE  panel' = panel /\ \A q \in Threads : q # M => phase'[q] = phase[q] /\ result'[q] = result[q]
      BY <1>0, <3>1, CallShape DEF Panel!TypeOK
    <3>2. CASE Panel!Return(M)
      BY <1>0, <3>2, ReturnShape DEF Panel!TypeOK
    <3>3. CASE (\E p : Panel!RequestStop(p)) \/ UNCHANGED panelVars
      BY <3>3, TokenShape
    <3> QED
      BY <2>2, <3>1, <3>2, <3>3
  <2>4. pc'["main"] = pc["main"]
    <3>1. ASSUME NEW l, Goto(M, l) PROVE pc'["main"] = pc["main"]
      BY <1>0, <3>1 DEF Goto, Base, Typed, Places
    <3>2. ASSUME NEW l, Joined(l) PROVE pc'["main"] = pc["main"]
      BY <1>0, <3>2 DEF Joined, Base, IInv, DataOK, Content
    <3> QED
      BY <1>2, <3>1, <3>2 DEF Manager, ManagerBoot, CallPanel, ManagerBooted, ManagerArm,
         ManagerWake, ManagerKeep, ManagerSwitch, ManagerJoin, ManagerCleared, ManagerClose,
         ManagerEnd, ManagerRetry
  <2> QED
    BY <1>0, <2>1, <2>3, <2>4, FinalSame
<1> QED
  BY <1>1, <1>2

\* StatusScreen sets shown_ only after a paint that worked.
LEMMA FinalContent ==
    ASSUME Base, Final, NEW t \in Content, ContentTask(t) PROVE Final'
<1> USE DEF panelVars, switchVars, contentVars
<1>0. t \in Threads \ {"main"} /\ "main" \in Threads /\ "Status" \in Threads /\ "Status" \in Content
      /\ Panel!TypeOK
  BY DEF Threads, Content, Base, PanelSafe
<1>1. UNCHANGED <<state, shownStatus>>
  BY DEF ContentTask, ContentDraw, ContentSkip, ContentDrawn, ContentRecheck, ContentRetry, ContentEnd
<1>2. pc'["main"] = pc["main"]
  <2>1. \E l : Goto(t, l)
    BY DEF ContentTask, ContentDraw, CallPanel, ContentSkip, ContentDrawn, ContentRecheck,
           ContentRetry, ContentEnd
  <2> QED
    BY <1>0, <2>1 DEF Goto, Base, Typed, Places
<1>3. CASE ContentDrawn(t)
  <2>1. /\ panel' = panel /\ phase'[t] = "out" /\ phase[t] = "return"
        /\ \A q \in Threads : q # t => phase'[q] = phase[q] /\ result'[q] = result[q]
    BY <1>0, <1>3, ReturnShape DEF ContentDrawn, Panel!TypeOK
  <2>2. shown'["Status"] => shown["Status"] \/ (t = "Status" /\ result[t] = "ok")
    BY <1>0, <1>3 DEF ContentDrawn, Base, Typed, TasksOK
  <2>3. t # "Status" => shown'["Status"] = shown["Status"]
    BY <1>0, <1>3 DEF ContentDrawn, Base, Typed, TasksOK
  <2>4. CASE t # "Status"
    BY <1>0, <1>1, <1>2, <2>1, <2>3, <2>4, FinalSame
  <2>5. CASE t = "Status"
    <3>1. StatusUp'
      BY <1>1, <2>1, <2>2, <2>5 DEF Final, StatusUp, StatusOf
    <3> QED
      BY <1>0, <1>1, <1>2, <2>1, <3>1 DEF Final, FinalDone, LastScreen, StatusOf
  <2> QED
    BY <2>4, <2>5
<1>4. CASE ~ContentDrawn(t)
  <2>1. \/ \E c : Panel!Call(t, c)
        \/ Panel!NewToken(t)
        \/ UNCHANGED panelVars
    BY <1>4 DEF ContentTask, ContentDraw, CallPanel, ContentSkip, ContentRecheck, ContentRetry,
                ContentEnd
  <2>2. /\ UNCHANGED <<panel, result>>
        /\ \A q \in Threads : phase'[q] = "return" => phase[q] = "return"
    <3>1. ASSUME NEW c, Panel!Call(t, c)
          PROVE  /\ UNCHANGED <<panel, result>>
                 /\ \A q \in Threads : phase'[q] = "return" => phase[q] = "return"
      BY <1>0, <3>1, CallShape DEF Panel!TypeOK
    <3>2. CASE Panel!NewToken(t) \/ UNCHANGED panelVars
      BY <3>2, TokenShape
    <3> QED
      BY <2>1, <3>1, <3>2
  <2>3. shown'["Status"] = shown["Status"]
    <3>1. shown["Status"] \in BOOLEAN
      BY <1>0 DEF Base, Typed, TasksOK
    <3> QED
      BY <1>0, <1>4, <3>1 DEF ContentTask, ContentDraw, ContentSkip, ContentRecheck, ContentRetry,
         ContentEnd, Base, Typed, TasksOK
  <2> QED
    BY <1>0, <1>1, <1>2, <2>2, <2>3, FinalSame
<1> QED
  BY <1>3, <1>4

\* DisplayClear only calls and returns.
LEMMA FinalClear == ASSUME Base, Final, ClearTask PROVE Final'
<1> USE DEF panelVars, switchVars, contentVars
<1>0. C \in Threads /\ "main" \in Threads \ {C} /\ "Status" \in Threads \ {C} /\ Panel!TypeOK
  BY DEF C, Threads, Content, Base, PanelSafe
<1>1. UNCHANGED <<state, shownStatus, shown>>
  BY DEF ClearTask, ClearWake, ClearDone, ClearEnd
<1>2. pc'["main"] = pc["main"]
  <2>1. \E l : Goto(C, l)
    BY DEF ClearTask, ClearWake, CallPanel, ClearDone, ClearEnd
  <2> QED
    BY <1>0, <2>1 DEF Goto, Base, Typed, Places
<1>3. panel' = panel /\ \A q \in Threads : q # C => phase'[q] = phase[q] /\ result'[q] = result[q]
  <2>1. CASE ClearWake
    <3>1. Panel!Call(C, Panel!Clear(FALSE))
      BY <2>1 DEF ClearWake, CallPanel
    <3>2. phase' = [phase EXCEPT ![C] = "enter"] /\ UNCHANGED <<result, panel>>
      BY <1>0, <3>1, CallShape
    <3> QED
      BY <1>0, <3>2 DEF Panel!TypeOK
  <2>2. CASE ClearDone
    BY <1>0, <2>2, ReturnShape DEF ClearDone, Panel!TypeOK
  <2>3. CASE ClearEnd
    BY <2>3 DEF ClearEnd
  <2> QED
    BY <2>1, <2>2, <2>3 DEF ClearTask
<1> QED
  BY <1>0, <1>1, <1>2, <1>3, FinalSame

\* The last call of main(): the status screen once more, or white.
LEMMA FinalMain == ASSUME Base, Final, Main PROVE Final'
<1> USE DEF panelVars, switchVars, contentVars
<1>0. "main" \in Threads /\ "Status" \in Threads \ {"main"} /\ "Status" \in Content /\ Panel!TypeOK
  BY DEF Threads, Content, Base, PanelSafe
<1>1. UNCHANGED <<state, shownStatus>>
  BY DEF Main, MainSignal, MainStopInputs, MainStopBus, MainStopManager, MainStopClear, MainJoined,
         MainLast, MainExit
<1>2. ASSUME NEW l, Goto("main", l) PROVE pc'["main"] = l
  BY <1>0, <1>2 DEF Goto, Base, Typed, Places
<1>3. CASE MainSignal \/ MainStopInputs \/ MainStopBus \/ MainStopManager \/ MainStopClear \/ MainJoined
  <2>1. UNCHANGED <<panel, phase, result, shown>>
    BY <1>3, TokenShape DEF MainSignal, MainStopInputs, MainStopBus, MainStopManager, MainStopClear,
                            MainJoined, Panel!RequestShutdown
  <2>2. pc'["main"] # "exited"
    BY <1>2, <1>3 DEF MainSignal, MainStopInputs, MainStopBus, MainStopManager, MainStopClear,
                      MainJoined
  <2> QED
    BY <1>1, <2>1, <2>2, FinalSame
<1>4. CASE MainLast /\ ~(StatusIsUp /\ shown["Status"])
  <2>1. PICK c : CallPanel("main", c, "finishing")
    BY <1>4 DEF MainLast
  <2>2. /\ panel' = panel /\ phase'["main"] = "enter"
        /\ phase'["Status"] = phase["Status"] /\ result' = result
    BY <1>0, <2>1, CallShape DEF CallPanel, Panel!TypeOK
  <2>3. pc'["main"] = "finishing"
    BY <1>2, <2>1 DEF CallPanel
  <2>4. shown' = shown
    BY <1>4 DEF MainLast
  <2> QED
    BY <1>1, <2>2, <2>3, <2>4, FinalSame
<1>5. CASE MainLast /\ StatusIsUp /\ shown["Status"]
  <2>1. UNCHANGED <<panel, phase, result, shown>>
    BY <1>5 DEF MainLast
  <2>2. StatusUp' /\ FinalDone'
    BY <1>1, <2>1 DEF Final, StatusUp, FinalDone, StatusOf
  <2>3. panel \in {Blank, StatusOf(shownStatus)} /\ shownStatus \in Kinds
    BY <1>5 DEF StatusIsUp, Final, StatusUp, Base, Control, StatusBuffer
  <2>4. LastScreen'
    BY <1>1, <2>1, <2>3 DEF LastScreen, StatusOf
  <2> QED
    BY <2>2, <2>4 DEF Final
<1>6. CASE MainExit
  <2>1. /\ phase["main"] = "return" /\ phase'["main"] = "out" /\ panel' = panel
        /\ phase'["Status"] = phase["Status"] /\ result'["Status"] = result["Status"]
    BY <1>0, <1>6, ReturnShape DEF MainExit, Panel!TypeOK
  <2>2. panel = IF state = "Status" THEN StatusOf(shownStatus) ELSE Blank
    BY <2>1 DEF Final, FinalDone
  <2>3. StatusUp' /\ FinalDone'
    BY <1>1, <2>1, <2>2 DEF StatusUp, FinalDone, StatusOf
  <2>4. state = "Status" => shownStatus \in Kinds
    BY DEF Base, Control, StatusBuffer
  <2>5. LastScreen'
    BY <1>1, <2>1, <2>2, <2>4 DEF LastScreen, StatusOf
  <2> QED
    BY <2>3, <2>5 DEF Final
<1> QED
  BY <1>3, <1>4, <1>5, <1>6 DEF Main

\* Final is preserved by every step without a fault.
LEMMA FinalStep ==
    ASSUME Base, NoFault => Final, [Next]_vars PROVE (NoFault => Final)'
<1> SUFFICES ASSUME NoFault' PROVE Final'
  OBVIOUS
<1>1. NoFault
  BY PanelUsed, NoFaultBefore DEF Base, PanelSafe
<1>2. Final
  BY <1>1
<1> QED
  BY <1>1, <1>2, FinalQuiet, FinalInPanel, FinalManager, FinalContent, FinalClear, FinalMain
     DEF Next, Thread, OwnCode

\* main(): "leave the status screen of a reboot up, otherwise a blank white screen".
\* As long as the hardware and the database have worked, the process never exits with
\* anything else on the panel, whatever was shown, cleared or half way through a
\* switch when the signal came.  It rests on Ended and NoTask (nobody else is at the
\* panel any more), on StatusBuffer (the screen drawn last is the one the manager
\* remembers) and on ClearedIsBlank, by which clearForShutdown() may skip its clear.
THEOREM LastScreenIsRight == Spec => [](faults.kinds = {} => LastScreen)
<1>1. Init => (NoFault => Final)
  BY FinalInit
<1>2. Base /\ (NoFault => Final) /\ [Next]_vars => (NoFault => Final)'
  BY FinalStep
<1>3. (NoFault => Final) => (faults.kinds = {} => LastScreen)
  BY DEF NoFault, Final
<1> QED
  BY <1>1, <1>2, <1>3, BaseHolds, PTL DEF Spec

=============================================================================

--------------------------- MODULE DisplayProcess ---------------------------
(***************************************************************************)
(* The display service (src/apps/display/main.cpp): the threads that share *)
(* the panel of DisplayPanel.                                              *)
(*                                                                         *)
(*   "manager"   DisplayTaskManager: decides which content task runs       *)
(*   Content     the content tasks, one per DisplayState but Boot          *)
(*   "clear"     DisplayClear: the daily and the requested clear           *)
(*   "main"      the shutdown sequence of main()                           *)
(*   the bus     EventBus: one dispatch thread, FIFO, batch by batch       *)
(*                                                                         *)
(* Requests from the outside (IPC, the websocket service, the Wi-Fi        *)
(* watcher) are the events of the constant Events, published in any order. *)
(* Time is abstracted to the boundaries the code compares clocks with: the *)
(* minimum refresh interval (in DisplayPanel), the night window, the       *)
(* registration window, the status timeout, the hour of the daily clear.   *)
(* Photos are one screen: which photo comes next is not this module's.     *)
(***************************************************************************)
EXTENDS Naturals, Sequences, FiniteSets

CONSTANTS
    Kinds,        \* status screens (StatusScreenKind with its version)
    Creds,        \* credentials of the setup access point
    NightEnds,    \* end hours of the night window
    None,         \* absent value: no status screen, no access point
    Events,       \* what the outside may publish on the bus
    MaxEvents,    \* bound on the number of published events
    Boundaries,   \* clock boundaries that may pass: subset of BoundaryKinds
    MaxFlips,     \* bound on the night boundaries that pass
    DailyClears,  \* bound on the daily clears
    Signals,      \* whether main() may receive SIGTERM: a subset of {"SIGTERM"}
    StoredActive, \* values slideshow_active may have in the database at the start
    StoredPause,  \* whether it may hold a night mode that pauses
    Blank, Unpainted, FaultKinds, MaxFaults     \* see DisplayPanel

BoundaryKinds == {"night", "registration", "status"}

Content == {"Slideshow", "NightBlank", "Registration", "ApSetup", "Status"}
Threads == Content \cup {"manager", "clear", "main"}

Loading == <<"Boot", None>>
Photo == <<"Slideshow", None>>
RegistrationCode == <<"Registration", None>>
StatusOf(kind) == <<"Status", kind>>
SetupOf(cred) == <<"ApSetup", cred>>
NightOf(end) == <<"NightBlank", end>>

Screens ==
    {Loading, Photo, RegistrationCode} \cup {StatusOf(k) : k \in Kinds}
    \cup {SetupOf(c) : c \in Creds} \cup {NightOf(n) : n \in NightEnds}

EventTypes ==
    [topic : {"AP_SETUP_STATE"}, arg : Creds \cup {None}]
    \cup [topic : {"STATUS_SCREEN"}, arg : Kinds \cup {None}]
    \cup [topic : {"FRAME_REGISTRATION", "SET_SLIDESHOW_ACTIVE"}, arg : BOOLEAN]
    \cup [topic : {"UPDATE_NIGHT_MODE"}, arg : [pause : BOOLEAN, end : NightEnds, now : BOOLEAN]]
    \cup [topic : {"CLEAR_DISPLAY", "SCHEDULED_CLEAR"}, arg : {None}]

ScheduledClear == [topic |-> "SCHEDULED_CLEAR", arg |-> None]

ASSUME ProcessAssumption ==
    /\ None \notin Kinds \cup Creds \cup NightEnds
    /\ NightEnds # {}
    /\ Events \subseteq EventTypes \ {ScheduledClear}
    /\ Boundaries \subseteq BoundaryKinds
    /\ MaxEvents \in Nat /\ MaxFlips \in Nat /\ DailyClears \in Nat
    /\ StoredActive \subseteq BOOLEAN /\ StoredPause \subseteq BOOLEAN

\* What DisplayPanel assumes of the constants it is instantiated with.
ASSUME PanelAssumption ==
    /\ Blank \notin Screens /\ Unpainted \notin Screens \cup {Blank}
    /\ FaultKinds \subseteq {"init", "busy", "buffer", "db"} /\ MaxFaults \in Nat

VARIABLES
    \* DisplayPanel
    owner, phase, call, result, stopped, cooling, panel, isCleared, shuttingDown,
    failures, streak, late, faults,
    \* where each thread is in its own code
    pc,
    \* EventBus: the queue, the batch being dispatched, and whether the first of
    \* the two handlers of the batch's head has run
    queue, batch, half,
    \* DisplayTaskManager, shared with the bus thread under mtx_
    latest, latestStatus, statusOld, until, registered, restore, changed,
    \* DisplayTaskManager, its own thread
    state, booted, snap, target, armed, due, shownStatus, shownNightEnd,
    \* RuntimeSettings, and whether the clock is inside the night window
    active, nightPause, nightEnd, inNight,
    \* content tasks: what they draw, whether it was shown, ApNetworkSetupScreen's
    \* dirty_ and attempted
    buffer, shown, dirty, attempted,
    \* DisplayClear: clearRequested_, and its value when the thread woke up
    clearRequested, requested,
    \* bounds
    events, flips, dailyClears

Panel == INSTANCE DisplayPanel

panelVars == <<owner, phase, call, result, stopped, cooling, panel, isCleared,
               shuttingDown, failures, streak, late, faults>>
busVars == <<queue, batch, half>>
inputVars == <<latest, latestStatus, statusOld, until, registered, restore, changed>>
waitVars == <<armed, due>>
switchVars == <<state, booted, snap, target, shownStatus, shownNightEnd>>
settingVars == <<active, nightPause, nightEnd, inNight>>
contentVars == <<buffer, shown, dirty, attempted>>
clearVars == <<clearRequested, requested>>
boundVars == <<events, flips, dailyClears>>
vars == <<panelVars, pc, busVars, inputVars, waitVars, switchVars, settingVars,
          contentVars, clearVars, boundVars>>

-----------------------------------------------------------------------------
(* RegistrationWindow and RuntimeSettings.                                  *)

RegistrationRequired == until = "ahead" /\ ~registered

\* isNightBlankNow(): night mode is on, its style is Pause, and the hour is in its
\* window (inNight is only kept for such a night).
NightBlankNow == nightPause /\ inNight

Registration(reported) ==
    /\ registered' = (registered \/ reported)
    /\ until' = IF ~reported /\ until = "unset" THEN "ahead" ELSE until

-----------------------------------------------------------------------------
TypeOK ==
    /\ Panel!TypeOK
    /\ pc \in [Threads -> {"off", "begin", "painting", "wait", "backoff", "done",
                           "boot", "initializing", "load", "loading", "arm", "apply",
                           "stopping", "clearing", "start", "close", "closing",
                           "run", "stopInputs", "stopBus", "stopManager",
                           "joinManager", "joinClear", "last", "finishing", "exited"}]
    /\ queue \in Seq(EventTypes)
    /\ batch \in Seq(EventTypes)
    /\ half \in BOOLEAN
    /\ latest \in Creds \cup {None}
    /\ latestStatus \in Kinds \cup {None}
    /\ statusOld \in BOOLEAN
    /\ until \in {"unset", "ahead", "past"}
    /\ registered \in BOOLEAN
    /\ restore \in BOOLEAN
    /\ changed \in BOOLEAN
    /\ state \in Content \cup {"Boot"}
    /\ booted \in BOOLEAN
    /\ snap \in [ap : Creds \cup {None}, status : Kinds \cup {None},
                 registration : BOOLEAN, restore : BOOLEAN]
    /\ target \in Content
    /\ armed \in SUBSET BoundaryKinds
    /\ due \in BOOLEAN
    /\ shownStatus \in Kinds \cup {None}
    /\ shownNightEnd \in NightEnds \cup {None}
    /\ active \in BOOLEAN
    /\ nightPause \in BOOLEAN
    /\ nightEnd \in NightEnds
    /\ inNight \in BOOLEAN
    /\ buffer \in [Content -> Screens \cup {None}]
    /\ shown \in [Content -> BOOLEAN]
    /\ dirty \in BOOLEAN
    /\ attempted \in BOOLEAN
    /\ clearRequested \in BOOLEAN
    /\ requested \in BOOLEAN
    /\ events \in 0..MaxEvents
    /\ flips \in 0..MaxFlips
    /\ dailyClears \in 0..DailyClears

NoSnap == [ap |-> None, status |-> None, registration |-> FALSE, restore |-> FALSE]

\* main() has started the clear thread, the manager and the bus.  The settings are
\* whatever the database holds.
Init ==
    /\ Panel!Init
    /\ pc = [p \in Threads |-> CASE p \in Content -> "off"
                                 [] p = "manager" -> "boot"
                                 [] p = "clear"   -> "wait"
                                 [] OTHER         -> "run"]
    /\ queue = <<>> /\ batch = <<>> /\ half = FALSE
    /\ latest = None /\ latestStatus = None /\ statusOld = FALSE
    /\ until = "unset" /\ registered = FALSE
    /\ restore = FALSE /\ changed = TRUE
    /\ state = "Boot" /\ booted = FALSE /\ snap = NoSnap /\ target = "Slideshow"
    /\ armed = {} /\ due = FALSE
    /\ shownStatus = None /\ shownNightEnd = None
    /\ active \in StoredActive /\ nightPause \in StoredPause /\ nightEnd \in NightEnds
    /\ inNight \in BOOLEAN /\ (inNight => nightPause)
    /\ buffer = [t \in Content |-> CASE t = "Slideshow"    -> Photo
                                     [] t = "Registration" -> RegistrationCode
                                     [] OTHER              -> None]
    /\ shown = [t \in Content |-> FALSE]
    /\ dirty = FALSE /\ attempted = FALSE
    /\ clearRequested = FALSE /\ requested = FALSE
    /\ events = 0 /\ flips = 0 /\ dailyClears = 0

Goto(p, l) == pc' = [pc EXCEPT ![p] = l]

-----------------------------------------------------------------------------
(* EventBus.                                                                *)

\* A publisher outside the modelled threads: DisplayIpc, the subscriber of the
\* websocket service, WifiModeWatcher.  They run until main stops them.
Publish(e) ==
    /\ pc["main"] \in {"run", "stopInputs"}
    /\ events < MaxEvents
    /\ events' = events + 1
    /\ queue' = Append(queue, e)
    /\ UNCHANGED <<panelVars, pc, batch, half, inputVars, waitVars, switchVars,
                   settingVars, contentVars, clearVars, flips, dailyClears>>

\* waitAndProcess() swaps the queue out; once the bus is stopped the queue is left.
TakeBatch ==
    /\ pc["main"] \in {"run", "stopInputs"}
    /\ batch = <<>>
    /\ queue # <<>>
    /\ batch' = queue
    /\ queue' = <<>>
    /\ UNCHANGED <<panelVars, pc, half, inputVars, waitVars, switchVars, settingVars,
                   contentVars, clearVars, boundVars>>

HandleApSetup(e) ==
    /\ latest' = e.arg
    /\ changed' = TRUE
    /\ UNCHANGED <<latestStatus, statusOld, until, registered, restore, settingVars, clearVars>>

HandleStatus(e) ==
    /\ latestStatus' = e.arg
    /\ statusOld' = FALSE
    /\ changed' = TRUE
    /\ UNCHANGED <<latest, until, registered, restore, settingVars, clearVars>>

HandleRegistration(e) ==
    /\ Registration(e.arg)
    /\ changed' = TRUE
    /\ UNCHANGED <<latest, latestStatus, statusOld, restore, settingVars, clearVars>>

HandleScheduledClear(e) ==
    /\ restore' = TRUE
    /\ changed' = TRUE
    /\ UNCHANGED <<latest, latestStatus, statusOld, until, registered, settingVars, clearVars>>

\* Mutant of SlideshowHandles: the manager is subscribed before the slideshow.
SlideshowHandlesLast == half
\* Of the two handlers of UPDATE_NIGHT_MODE the slideshow's runs first.
SlideshowHandles == ~half

\* The manager's handler only wakes the manager: it counts on the slideshow's
\* handler, subscribed first, to have stored the new window.
HandleNightMode(e) ==
    /\ IF SlideshowHandles
       THEN /\ nightPause' = e.arg.pause
            /\ nightEnd' = e.arg.end
            /\ inNight' = (e.arg.pause /\ e.arg.now)
            /\ UNCHANGED <<active, changed>>
       ELSE changed' = TRUE /\ UNCHANGED settingVars
    /\ UNCHANGED <<latest, latestStatus, statusOld, until, registered, restore, clearVars>>

HandleSetActive(e) ==
    /\ active' = e.arg
    /\ UNCHANGED <<inputVars, nightPause, nightEnd, inNight, clearVars>>

HandleClearDisplay(e) ==
    /\ clearRequested' = TRUE
    /\ UNCHANGED <<inputVars, settingVars, requested>>

Handle(e) ==
    \/ e.topic = "AP_SETUP_STATE"       /\ HandleApSetup(e)
    \/ e.topic = "STATUS_SCREEN"        /\ HandleStatus(e)
    \/ e.topic = "FRAME_REGISTRATION"   /\ HandleRegistration(e)
    \/ e.topic = "SCHEDULED_CLEAR"      /\ HandleScheduledClear(e)
    \/ e.topic = "UPDATE_NIGHT_MODE"    /\ HandleNightMode(e)
    \/ e.topic = "SET_SLIDESHOW_ACTIVE" /\ HandleSetActive(e)
    \/ e.topic = "CLEAR_DISPLAY"        /\ HandleClearDisplay(e)

\* One handler call.  UPDATE_NIGHT_MODE has two handlers whose effects matter here
\* and they run one after the other.
Dispatch ==
    /\ batch # <<>>
    /\ Handle(Head(batch))
    /\ half' = (Head(batch).topic = "UPDATE_NIGHT_MODE" /\ ~half)
    /\ batch' = IF half' THEN batch ELSE Tail(batch)
    /\ UNCHANGED <<panelVars, pc, queue, waitVars, switchVars, contentVars, boundVars>>

-----------------------------------------------------------------------------
(* The clock.                                                               *)

\* The boundary `b` passes; a manager that armed it is due.
Passes(b) ==
    /\ b \in Boundaries
    /\ due' = (due \/ (pc["manager"] = "wait" /\ b \in armed))

NightBoundary ==
    /\ nightPause
    /\ flips < MaxFlips
    /\ Passes("night")
    /\ inNight' = ~inNight
    /\ flips' = flips + 1
    /\ UNCHANGED <<panelVars, pc, busVars, inputVars, armed, switchVars, active, nightPause,
                   nightEnd, contentVars, clearVars, events, dailyClears>>

RegistrationEnds ==
    /\ until = "ahead"
    /\ Passes("registration")
    /\ until' = "past"
    /\ UNCHANGED <<panelVars, pc, busVars, latest, latestStatus, statusOld, registered, restore,
                   changed, armed, switchVars, settingVars, contentVars, clearVars, boundVars>>

StatusTimesOut ==
    /\ latestStatus # None
    /\ ~statusOld
    /\ Passes("status")
    /\ statusOld' = TRUE
    /\ UNCHANGED <<panelVars, pc, busVars, latest, latestStatus, until, registered, restore,
                   changed, armed, switchVars, settingVars, contentVars, clearVars, boundVars>>

CoolDown ==
    /\ Panel!CoolDown
    /\ UNCHANGED <<pc, busVars, inputVars, waitVars, switchVars, settingVars, contentVars,
                   clearVars, boundVars>>

-----------------------------------------------------------------------------
(* Steps of a thread inside a panel call, and the shape of the others.      *)

InPanel(p) ==
    /\ Panel!PanelStep(p)
    /\ UNCHANGED <<pc, busVars, inputVars, waitVars, switchVars, settingVars, contentVars,
                   clearVars, boundVars>>

CallPanel(p, c, l) ==
    /\ Panel!Call(p, c)
    /\ Goto(p, l)

\* The wrapper of Task::start() catches what the call threw: the thread ends if it
\* was stopped meanwhile, else it runs _run() again after a backoff.
Caught(p) == IF stopped[p] THEN "done" ELSE "backoff"

-----------------------------------------------------------------------------
(* DisplayTaskManager.                                                      *)

M == "manager"

\* _boot(): display_.init(), then the loading screen, Immediate.
ManagerBoot ==
    /\ \/ pc[M] = "boot" /\ CallPanel(M, Panel!InitPanel, "initializing")
       \/ pc[M] = "load" /\ CallPanel(M, Panel!DisplayBuffer(Loading, FALSE), "loading")
    /\ UNCHANGED <<busVars, inputVars, waitVars, switchVars, settingVars, contentVars,
                   clearVars, boundVars>>

ManagerBooted ==
    /\ pc[M] \in {"initializing", "loading"}
    /\ Panel!Return(M)
    /\ Goto(M, IF result[M] = "threw" THEN Caught(M)
               ELSE IF pc[M] = "initializing" THEN "load" ELSE "arm")
    /\ booted' = (pc[M] = "loading" /\ result[M] # "threw")
    /\ UNCHANGED <<busVars, inputVars, waitVars, state, snap, target, shownStatus,
                   shownNightEnd, settingVars, contentVars, clearVars, boundVars>>

\* The top of the loop: give up if stopped, else compute wakeAt and wait for it or
\* for a change.  A status that is already too old makes wakeAt lie in the past.
ManagerArm ==
    /\ pc[M] = "arm"
    /\ Goto(M, IF stopped[M] THEN "close" ELSE "wait")
    /\ armed' = {b \in BoundaryKinds :
                    \/ b = "night" /\ nightPause
                    \/ b = "status" /\ latestStatus # None
                    \/ b = "registration" /\ RegistrationRequired}
    /\ due' = (latestStatus # None /\ statusOld)
    /\ UNCHANGED <<panelVars, busVars, inputVars, switchVars, settingVars, contentVars,
                   clearVars, boundVars>>

\* Wakes up under mtx_: hides a status that has been up too long and takes the
\* snapshot _apply() works on.
ManagerWake ==
    /\ pc[M] = "wait"
    /\ ~stopped[M]
    /\ changed \/ due
    /\ latestStatus' = IF statusOld THEN None ELSE latestStatus
    /\ snap' = [ap |-> latest, status |-> latestStatus',
                registration |-> RegistrationRequired, restore |-> restore]
    /\ restore' = FALSE
    /\ changed' = FALSE
    /\ armed' = {} /\ due' = FALSE
    /\ Goto(M, "apply")
    /\ UNCHANGED <<panelVars, busVars, latest, statusOld, until, registered, state,
                   booted, target, shownStatus, shownNightEnd, settingVars, contentVars,
                   clearVars, boundVars>>

\* The priority of the screens: status, Wi-Fi setup, registration, night, photos.
TargetOf(status, ap, registration) ==
    IF status # None THEN "Status"
    ELSE IF ap # None THEN "ApSetup"
    ELSE IF registration THEN "Registration"
    ELSE IF NightBlankNow THEN "NightBlank" ELSE "Slideshow"

\* The right task runs but must draw again.
Stale(t) ==
    \/ t = "Status" /\ (snap.restore \/ snap.status # shownStatus)
    \/ t = "NightBlank" /\ (snap.restore \/ nightEnd # shownNightEnd)

\* Mutant of SetCredentials: new credentials do not mark the screen dirty.
SetCredentialsClean(cred) ==
    /\ buffer' = [buffer EXCEPT !["ApSetup"] = SetupOf(cred)]
    /\ UNCHANGED <<dirty, shown, attempted>>

\* ApNetworkSetupScreen::setCredentials
SetCredentials(cred) ==
    /\ buffer' = [buffer EXCEPT !["ApSetup"] = SetupOf(cred)]
    /\ dirty' = (dirty \/ buffer["ApSetup"] # SetupOf(cred))
    /\ UNCHANGED <<shown, attempted>>

\* _apply(), nothing to switch.
ManagerKeep ==
    /\ pc[M] = "apply"
    /\ LET t == TargetOf(snap.status, snap.ap, snap.registration)
       IN /\ t = state /\ ~Stale(t)
          /\ IF t = "ApSetup" THEN SetCredentials(snap.ap) ELSE UNCHANGED contentVars
    /\ Goto(M, "arm")
    /\ snap' = NoSnap
    /\ UNCHANGED <<panelVars, busVars, inputVars, waitVars, state, booted, target, shownStatus,
                   shownNightEnd, settingVars, clearVars, boundVars>>

\* _stopActive(): Task::stop() of the task state_ names; a task whose thread is not
\* joinable is left alone.
StopActive ==
    IF state \in Content /\ pc[state] # "off"
    THEN Panel!RequestStop(state)
    ELSE UNCHANGED panelVars

ActiveJoinable == state \in Content => pc[state] \in {"off", "done"}

\* _apply(), a switch: stop the running task ...
ManagerSwitch ==
    /\ pc[M] = "apply"
    /\ LET t == TargetOf(snap.status, snap.ap, snap.registration)
       IN /\ t # state \/ Stale(t)
          /\ target' = t
    /\ StopActive
    /\ Goto(M, "stopping")
    /\ UNCHANGED <<busVars, inputVars, waitVars, state, booted, snap, shownStatus,
                   shownNightEnd, settingVars, contentVars, clearVars, boundVars>>

LeavesScreen == state \notin {"Boot", "Slideshow"} /\ target = "Slideshow"

\* Mutant of Joined: the manager goes on without the join.
NotJoined(l) == Goto(M, l)
Joined(l) ==
    pc' = [p \in Threads |-> IF p = M THEN l ELSE IF p = state THEN "off" ELSE pc[p]]

\* ... wait for it to end, and clear the screen it leaves behind if no photo will
\* replace it (display_.clear() without a stop token) ...
ManagerJoin ==
    /\ pc[M] = "stopping"
    /\ ActiveJoinable
    /\ IF LeavesScreen /\ ~active
       THEN Panel!Call(M, Panel!Clear(FALSE)) /\ Joined("clearing")
       ELSE UNCHANGED panelVars /\ Joined("start")
    /\ UNCHANGED <<busVars, inputVars, waitVars, switchVars, settingVars, contentVars,
                   clearVars, boundVars>>

ManagerCleared ==
    /\ pc[M] = "clearing"
    /\ Panel!Return(M)
    /\ Goto(M, IF result[M] = "threw" THEN Caught(M) ELSE "start")
    /\ UNCHANGED <<busVars, inputVars, waitVars, switchVars, settingVars, contentVars,
                   clearVars, boundVars>>

\* Mutant of NewBuffer: the status is read again, outside the snapshot.
LiveBuffer(t) ==
    CASE t = "Status"     -> StatusOf(latestStatus)
      [] t = "ApSetup"    -> SetupOf(snap.ap)
      [] t = "NightBlank" -> NightOf(nightEnd)
      [] OTHER            -> buffer[t]

\* What set() and setCredentials() hand to the task.
NewBuffer(t) ==
    CASE t = "Status"     -> StatusOf(snap.status)
      [] t = "ApSetup"    -> SetupOf(snap.ap)
      [] t = "NightBlank" -> NightOf(nightEnd)
      [] OTHER            -> buffer[t]

\* What they and the start of _run() prepare.
Prepare ==
    /\ buffer' = [buffer EXCEPT ![target] = NewBuffer(target)]
    /\ dirty' = (dirty \/ (target = "ApSetup" /\ buffer[target] # NewBuffer(target)))
    /\ shown' = [shown EXCEPT ![target] = FALSE]
    /\ attempted' = (target # "ApSetup" /\ attempted)

\* ... and start the target's thread: set(), start() and the store to state_ are one
\* step.  The target has no thread before its start(), so nobody else sees set(); and
\* state_ is read by the manager alone, and by main() after it has joined the manager,
\* so nobody tells a store just after the start from one together with it.
ManagerStart ==
    /\ pc[M] = "start"
    /\ Prepare
    /\ shownStatus' = IF target = "Status" THEN snap.status ELSE shownStatus
    /\ shownNightEnd' = IF target = "NightBlank" THEN nightEnd ELSE shownNightEnd
    /\ state' = target
    /\ Panel!NewToken(target)
    /\ pc' = [pc EXCEPT ![M] = "arm", ![target] = "begin"]
    /\ snap' = NoSnap /\ target' = "Slideshow"
    /\ UNCHANGED <<busVars, inputVars, waitVars, booted, settingVars, clearVars, boundVars>>

\* Mutant of LoopEnds: the stop does not end the wait.
LoopEndsAtTop == pc[M] = "close"
LoopEnds == pc[M] = "close" \/ (pc[M] = "wait" /\ stopped[M])

\* The loop ends: a stopped manager stops its task and ends with it.
ManagerClose ==
    /\ LoopEnds
    /\ StopActive
    /\ Goto(M, "closing")
    /\ UNCHANGED <<busVars, inputVars, waitVars, switchVars, settingVars, contentVars,
                   clearVars, boundVars>>

ManagerEnd ==
    /\ pc[M] = "closing"
    /\ ActiveJoinable
    /\ Joined("done")
    /\ UNCHANGED <<panelVars, busVars, inputVars, waitVars, switchVars, settingVars,
                   contentVars, clearVars, boundVars>>

ManagerRetry ==
    /\ pc[M] = "backoff"
    /\ Goto(M, IF stopped[M] THEN "done" ELSE IF booted THEN "arm" ELSE "boot")
    /\ UNCHANGED <<panelVars, busVars, inputVars, waitVars, switchVars, settingVars,
                   contentVars, clearVars, boundVars>>

Manager ==
    \/ ManagerBoot \/ ManagerBooted \/ ManagerArm \/ ManagerWake \/ ManagerKeep
    \/ ManagerSwitch \/ ManagerJoin \/ ManagerCleared \/ ManagerStart
    \/ ManagerClose \/ ManagerEnd \/ ManagerRetry

-----------------------------------------------------------------------------
(* The content tasks.  "begin" is the top of _run() and of its loop.        *)

\* The tasks whose _run() loops and looks again; the others draw once and wait
\* for the stop.
Loops == {"Slideshow", "Registration", "ApSetup"}

\* Does the task draw now?  StatusScreen and the loops remember what they showed;
\* the setup and registration screens also come back after somebody else's clear;
\* an inactive slideshow draws nothing.
Draws(t) ==
    CASE t = "Slideshow"    -> active
      [] t = "NightBlank"   -> TRUE
      [] t = "Registration" -> ~shown[t] \/ isCleared
      [] t = "ApSetup"      -> ~shown[t] \/ dirty \/ isCleared
      [] t = "Status"       -> ~shown[t]

\* Only the first setup screen after a start ignores the minimum interval.
Respects(t) == t # "ApSetup" \/ attempted

ContentDraw(t) ==
    /\ pc[t] = "begin"
    /\ ~stopped[t]
    /\ Draws(t)
    /\ CallPanel(t, Panel!DisplayBuffer(buffer[t], Respects(t)), "painting")
    /\ dirty' = (t # "ApSetup" /\ dirty)
    /\ attempted' = (t = "ApSetup" \/ attempted)
    /\ UNCHANGED <<busVars, inputVars, waitVars, switchVars, settingVars, buffer, shown,
                   clearVars, boundVars>>

\* Mutant of Idle: a slideshow without anything to draw returns from _run().
IdleOnlyInSetup(t) == IF t \in {"Status", "Slideshow"} THEN "done" ELSE "wait"
Idle(t) == IF t = "Status" THEN "done" ELSE "wait"

\* Nothing to draw.  With only default images the slideshow also sits out the
\* minimum interval here, outside the panel, so that it can change its mind.
ContentSkip(t) ==
    /\ pc[t] = "begin"
    /\ ~stopped[t]
    /\ ~Draws(t) \/ (t = "Slideshow" /\ cooling)
    /\ Goto(t, Idle(t))
    /\ UNCHANGED <<panelVars, busVars, inputVars, waitVars, switchVars, settingVars,
                   contentVars, clearVars, boundVars>>

\* displayBuffer() is back.  The slideshow catches exceptions itself, the other
\* tasks leave them to the wrapper.
ContentDrawn(t) ==
    /\ pc[t] = "painting"
    /\ Panel!Return(t)
    /\ IF result[t] = "threw" /\ t # "Slideshow"
       THEN Goto(t, Caught(t)) /\ UNCHANGED shown
       ELSE Goto(t, "wait") /\ shown' = [shown EXCEPT ![t] = result[t] = "ok"]
    /\ UNCHANGED <<busVars, inputVars, waitVars, switchVars, settingVars, buffer, dirty,
                   attempted, clearVars, boundVars>>

\* The recheck interval, the time for the next photo, a wake-up or the stop.
ContentRecheck(t) ==
    /\ t \in Loops
    /\ pc[t] = "wait"
    /\ Goto(t, "begin")
    /\ UNCHANGED <<panelVars, busVars, inputVars, waitVars, switchVars, settingVars,
                   contentVars, clearVars, boundVars>>

\* The backoff of the wrapper is over and _run() starts again, its locals fresh.
ContentRetry(t) ==
    /\ pc[t] = "backoff"
    /\ ~stopped[t]
    /\ Goto(t, "begin")
    /\ shown' = [shown EXCEPT ![t] = t = "Status" /\ shown[t]]
    /\ attempted' = (t # "ApSetup" /\ attempted)
    /\ UNCHANGED <<panelVars, busVars, inputVars, waitVars, switchVars, settingVars, buffer,
                   dirty, clearVars, boundVars>>

\* The thread ends; its token and the locals of _run() go with it.
ContentEnd(t) ==
    /\ stopped[t]
    /\ pc[t] \in {"begin", "backoff"} \/ (pc[t] = "wait" /\ t \notin Loops)
    /\ Goto(t, "done")
    /\ Panel!NewToken(t)
    /\ shown' = [shown EXCEPT ![t] = t = "Status" /\ shown[t]]
    /\ attempted' = (t # "ApSetup" /\ attempted)
    /\ UNCHANGED <<busVars, inputVars, waitVars, switchVars, settingVars, buffer, dirty,
                   clearVars, boundVars>>

ContentTask(t) ==
    \/ ContentDraw(t) \/ ContentSkip(t) \/ ContentDrawn(t) \/ ContentRecheck(t)
    \/ ContentRetry(t) \/ ContentEnd(t)

-----------------------------------------------------------------------------
(* DisplayClear.                                                            *)

C == "clear"

\* A request or the daily hour.  The clear itself takes no stop token.
ClearWake ==
    /\ pc[C] = "wait"
    /\ ~stopped[C]
    /\ \/ clearRequested /\ UNCHANGED dailyClears
       \/ dailyClears < DailyClears /\ dailyClears' = dailyClears + 1
    /\ requested' = clearRequested
    /\ clearRequested' = FALSE
    /\ CallPanel(C, Panel!Clear(FALSE), "clearing")
    /\ UNCHANGED <<busVars, inputVars, waitVars, switchVars, settingVars, contentVars,
                   events, flips>>

\* Mutant of Announces: the condition inverted.
AnnouncesRequested == requested /\ isCleared /\ result[C] # "threw"
Announces == ~requested /\ isCleared /\ result[C] # "threw"

\* A daily clear that worked is announced so that the content comes back; a clear
\* somebody asked for stays.  isCleared is read after the mutex is free again.
ClearDone ==
    /\ pc[C] = "clearing"
    /\ Panel!Return(C)
    /\ queue' = IF Announces THEN Append(queue, ScheduledClear) ELSE queue
    /\ requested' = FALSE
    /\ Goto(C, "wait")
    /\ UNCHANGED <<batch, half, inputVars, waitVars, switchVars, settingVars, contentVars,
                   clearRequested, boundVars>>

ClearEnd ==
    /\ pc[C] = "wait"
    /\ stopped[C]
    /\ Goto(C, "done")
    /\ UNCHANGED <<panelVars, busVars, inputVars, waitVars, switchVars, settingVars,
                   contentVars, clearVars, boundVars>>

ClearTask == ClearWake \/ ClearDone \/ ClearEnd

-----------------------------------------------------------------------------
(* main(): the shutdown.                                                    *)

MainSignal ==
    /\ pc["main"] = "run"
    /\ "SIGTERM" \in Signals
    /\ Panel!RequestShutdown
    /\ Goto("main", "stopInputs")
    /\ UNCHANGED <<busVars, inputVars, waitVars, switchVars, settingVars, contentVars,
                   clearVars, boundVars>>

\* subscriber, REP server and Wi-Fi watcher have stopped; eventBus.stop() is called.
MainStopInputs ==
    /\ pc["main"] = "stopInputs"
    /\ Goto("main", "stopBus")
    /\ UNCHANGED <<panelVars, busVars, inputVars, waitVars, switchVars, settingVars,
                   contentVars, clearVars, boundVars>>

\* The dispatch thread finishes its batch; what is still queued is never delivered.
MainStopBus ==
    /\ pc["main"] = "stopBus"
    /\ batch = <<>>
    /\ Goto("main", "stopManager")
    /\ UNCHANGED <<panelVars, busVars, inputVars, waitVars, switchVars, settingVars,
                   contentVars, clearVars, boundVars>>

MainStopManager ==
    /\ pc["main"] = "stopManager"
    /\ Panel!RequestStop(M)
    /\ Goto("main", "joinManager")
    /\ UNCHANGED <<busVars, inputVars, waitVars, switchVars, settingVars, contentVars,
                   clearVars, boundVars>>

MainStopClear ==
    /\ pc["main"] = "joinManager"
    /\ pc[M] = "done"
    /\ Panel!RequestStop(C)
    /\ Goto("main", "joinClear")
    /\ UNCHANGED <<busVars, inputVars, waitVars, switchVars, settingVars, contentVars,
                   clearVars, boundVars>>

MainJoined ==
    /\ pc["main"] = "joinClear"
    /\ pc[C] = "done"
    /\ Goto("main", "last")
    /\ UNCHANGED <<panelVars, busVars, inputVars, waitVars, switchVars, settingVars,
                   contentVars, clearVars, boundVars>>

\* Mutant of StatusIsUp: goes by StatusScreen's flag, which outlives its screen.
StatusWasUp == shown["Status"]
StatusIsUp == state = "Status"

\* The last screen: a status screen stays, or is drawn now if it was not yet
\* (finishForShutdown); anything else is cleared.
MainLast ==
    /\ pc["main"] = "last"
    /\ \/ /\ ~StatusIsUp
          /\ CallPanel("main", Panel!ClearForShutdown, "finishing")
       \/ /\ StatusIsUp /\ shown["Status"]
          /\ UNCHANGED panelVars /\ Goto("main", "exited")
       \/ /\ StatusIsUp /\ ~shown["Status"]
          /\ CallPanel("main", Panel!PaintForShutdown(buffer["Status"]), "finishing")
    /\ UNCHANGED <<busVars, inputVars, waitVars, switchVars, settingVars, contentVars,
                   clearVars, boundVars>>

MainExit ==
    /\ pc["main"] = "finishing"
    /\ Panel!Return("main")
    /\ Goto("main", "exited")
    /\ shown' = IF call["main"].op = "paintForShutdown"
                THEN [shown EXCEPT !["Status"] = result["main"] = "ok"] ELSE shown
    /\ UNCHANGED <<busVars, inputVars, waitVars, switchVars, settingVars, buffer, dirty,
                   attempted, clearVars, boundVars>>

Main ==
    \/ MainSignal \/ MainStopInputs \/ MainStopBus \/ MainStopManager \/ MainStopClear
    \/ MainJoined \/ MainLast \/ MainExit

\* The process is gone: nothing happens any more.
Exited == pc["main"] = "exited" /\ UNCHANGED vars

-----------------------------------------------------------------------------
Bus == TakeBatch \/ Dispatch

Clock ==
    /\ pc["main"] # "exited"
    /\ NightBoundary \/ RegistrationEnds \/ StatusTimesOut \/ CoolDown

OwnCode(p) ==
    \/ p = M /\ Manager
    \/ p \in Content /\ ContentTask(p)
    \/ p = C /\ ClearTask

Thread(p) == InPanel(p) \/ OwnCode(p)

Next ==
    \/ \E e \in Events : Publish(e)
    \/ Bus
    \/ Clock
    \/ \E p \in Threads : Thread(p)
    \/ Main
    \/ Exited

Spec == Init /\ [][Next]_vars

\* Every thread of the process is scheduled, its timed waits end, and the minimum
\* interval passes.  The mutex is not assumed to be fair (weak fairness on taking
\* it), no signal need arrive and no event need be published.
Fairness ==
    /\ WF_vars(Bus)
    /\ WF_vars(Clock)
    /\ \A p \in Threads : WF_vars(InPanel(p)) /\ WF_vars(OwnCode(p))
    /\ WF_vars(Main /\ pc["main"] # "run")

FairSpec == Spec /\ Fairness

-----------------------------------------------------------------------------
(* Properties.                                                              *)

\* "runs exactly one content task ... Switching stops the running task first": a
\* content thread exists only for the state the manager is in, so two of them
\* never compete for the panel, whatever arrives during a switch.
ContentIsState == \A t \in Content : pc[t] # "off" => state = t

\* "runs exactly one content task": whenever the manager is back in its wait with
\* nothing left to handle, the task of its state is running.
ContentRuns ==
    pc[M] = "wait" /\ ~changed => state \in Content /\ pc[state] \notin {"off", "done"}

Desired == TargetOf(latestStatus, latest, RegistrationRequired)

\* The manager never goes to sleep on a stale decision: when it waits, no change is
\* flagged, no wake-up is due and no handler is half way, the screen it runs is the
\* one the latest events, the settings and the clock ask for.
Settled ==
    pc[M] = "wait" /\ ~changed /\ ~due /\ ~half => state = Desired

\* main(): "leave the status screen of a reboot up, otherwise a blank white screen":
\* the process never leaves a photo, a QR code, the night or the loading screen, or
\* a status screen other than the current one, on the panel it can no longer change.
LastScreen ==
    pc["main"] = "exited" => panel \in {Blank} \cup {StatusOf(k) : k \in {shownStatus} \cap Kinds}

\* The threads of the process use the panel the way DisplayPanel lets any client
\* use it, so what holds of DisplayPanel holds here.
PanelSpec == Panel!Init /\ [][Panel!Next]_panelVars

\* A signal ends the process: no thread waits for ever on another, on the panel or
\* on the bus.
ShutdownCompletes == pc["main"] = "stopInputs" ~> pc["main"] = "exited"

Shows(t) ==
    CASE t = "Status"       -> panel = StatusOf(latestStatus)
      [] t = "ApSetup"      -> panel = SetupOf(latest)
      [] t = "Registration" -> panel = RegistrationCode
      [] t = "NightBlank"   -> panel = NightOf(nightEnd)
      [] t = "Slideshow"    -> IF active THEN panel = Photo
                                         ELSE panel \in {Blank, Photo, Loading}

\* Once the events stop coming the panel ends up showing, and keeps showing, what
\* they ask for, the daily clear included: it never leaves a stale or an empty panel.
PanelConverges == <>[](pc["main"] = "run" => Shows(Desired))

\* RegistrationWindow.hpp: "The screen shows from the first refusal for `windowSecs`
\* ... after that it stays off until the next reboot".
RegistrationTimesOut == <>[](until = "past" => state # "Registration")

=============================================================================

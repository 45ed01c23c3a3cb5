---------------------------- MODULE SlideshowOps ----------------------------
(***************************************************************************)
(* The display operations of the dashboard: the thunks of the              *)
(* slideshowOperation slice, the actions timer, the loading snackbars, and *)
(* the buttons of the frame page and of the photo preview that start them. *)
(*                                                                         *)
(* JavaScript runs one callback at a time, so a step is what a thunk does  *)
(* between two awaits.  A request is a step of its own: the board handles  *)
(* it and the answer is there (ans); the thunk goes on later.  Any request *)
(* can fail, before or after the board did what it asks.  A reload of the  *)
(* page ends every thunk; redux-persist keeps the slices.                  *)
(*                                                                         *)
(* The value an interval save carries and the order of status answers are  *)
(* the subject of BoardSettings: here a status check may bring any answer. *)
(* The board is external.                                                  *)
(***************************************************************************)
EXTENDS Naturals

CONSTANT Runs      \* invocations of the thunks that may overlap

\* showImageThunk, skipImageThunk, clearDisplayThunk,
\* updateDisplayImagesLoopInterval, toggleSlideshowThunk
Plain == {"show", "skip", "clear", "interval"}
Ops == Plain \cup {"toggle"}

VARIABLES
    flag,      \* isToggling, isClearingDisplay, ...: operation -> BOOLEAN
    startTime, \* the slice's startTime is set
    run,       \* where each thunk is, with its locals
    loading,   \* snackbars.loading: whose loading snackbar is shown
    timer,     \* slideshow-actions-timer is active
    seen,      \* slideshowStatus as last written: isActive, isRefreshing
    usable,    \* connected, status known, app-initial-load-timer over, loop started
    board,     \* external: active, and what it was told to become (wants)
    stuck,     \* history: flags a reload left behind
    overrun    \* history: a monitor reset isToggling a second time

slice == <<flag, startTime>>
page == <<seen, usable>>
history == <<stuck, overrun>>
vars == <<slice, run, loading, timer, page, board, history>>

Idle == [op |-> "none", at |-> "idle", ans |-> "none",
         was |-> FALSE, hit |-> FALSE, late |-> FALSE, gave |-> FALSE]

\* was: wasActive.  hit: the last poll saw the switch.  late: ten minutes are over.
\* gave: the thunk has reset isToggling.

RunStates ==
    [op : Ops \cup {"none"}, at : {"idle", "sent", "post", "poll", "wait", "clear"},
     ans : {"none", "ok", "bad"}, was : BOOLEAN, hit : BOOLEAN, late : BOOLEAN,
     gave : BOOLEAN]

TypeOK ==
    /\ flag \in [Ops -> BOOLEAN] /\ startTime \in BOOLEAN
    /\ run \in [Runs -> RunStates]
    /\ loading \subseteq Runs
    /\ timer \in BOOLEAN
    /\ seen \in [active : BOOLEAN, refreshing : BOOLEAN] /\ usable \in BOOLEAN
    /\ board \in [active : BOOLEAN, wants : BOOLEAN]
    /\ stuck \subseteq Ops /\ overrun \in BOOLEAN

Init ==
    /\ flag = [o \in Ops |-> FALSE] /\ startTime = FALSE
    /\ run = [r \in Runs |-> Idle]
    /\ loading = {}
    /\ timer = FALSE
    /\ seen = [active |-> FALSE, refreshing |-> FALSE] /\ usable = FALSE
    /\ board \in {[active |-> a, wants |-> a] : a \in BOOLEAN}
    /\ stuck = {} /\ overrun = FALSE

-----------------------------------------------------------------------------
(* The slice                                                               *)

SetStatus(o, on) == flag' = [flag EXCEPT ![o] = on] /\ startTime' = on

\* Mutant of NoneActive: the check forgets the save of the interval.
NoneActiveButInterval == \A o \in Ops \ {"interval"} : ~flag[o]

\* "Prevent multiple simultaneous operations": the first lines of every thunk.
NoneActive == \A o \in Ops : ~flag[o]

\* resetTimer, then startTimer.
RestartTimer == timer' = TRUE

At(r, a, n) == run[r].at = a /\ run[r].ans = n

Goto(r, a) == run' = [run EXCEPT ![r].at = a, ![r].ans = "none", ![r].hit = FALSE]

End(r) == run' = [run EXCEPT ![r] = Idle] /\ loading' = loading \ {r}

-----------------------------------------------------------------------------
(* The buttons                                                             *)

ButtonsEnabled ==
    /\ ~timer /\ usable /\ ~seen.refreshing
    /\ ~flag["toggle"] /\ ~flag["clear"] /\ ~flag["skip"]

\* Mutant of ShowEnabled: the dialog does not look at the actions timer.
ShowEnabledUnderTimer ==
    /\ seen.active /\ ~seen.refreshing
    /\ \A o \in {"toggle", "clear", "skip", "show"} : ~flag[o]

\* "Jetzt anzeigen" in the preview dialog, which does not look at the connection.
ShowEnabled ==
    /\ seen.active /\ ~seen.refreshing /\ ~timer
    /\ \A o \in {"toggle", "clear", "skip", "show"} : ~flag[o]

Offered(o) ==
    CASE o = "toggle"   -> ButtonsEnabled
      [] o = "interval" -> ButtonsEnabled /\ ~flag["interval"]
      [] o = "skip"     -> ButtonsEnabled /\ seen.active
      [] o = "clear"    -> ButtonsEnabled /\ ~seen.active
      [] o = "show"     -> ShowEnabled

-----------------------------------------------------------------------------
(* The thunks                                                              *)

Start(r, o) ==
    /\ run[r] = Idle /\ Offered(o) /\ NoneActive
    /\ SetStatus(o, TRUE)
    /\ loading' = loading \cup {r}
    /\ run' = [run EXCEPT ![r].op = o, ![r].at = "sent"]
    /\ UNCHANGED <<timer, page, board, history>>

\* fetchWithTimeout: an answer, a refusal, a network error or the abort after ten
\* minutes.  A status request reads, POST /slideshow tells the board.
Respond(r) ==
    /\ run[r].at \in {"sent", "post", "poll", "clear"} /\ run[r].ans = "none"
    /\ \E a \in {"ok", "bad"}, done \in BOOLEAN :
         /\ a = "ok" => done
         /\ run' = [run EXCEPT
                ![r].ans = a,
                ![r].was = IF run[r].op = "toggle" /\ run[r].at = "sent" /\ a = "ok"
                           THEN board.active ELSE @,
                ![r].hit = run[r].at = "poll" /\ a = "ok" /\ board.active # run[r].was]
         /\ board' = IF run[r].at = "post" /\ done
                     THEN [board EXCEPT !.wants = ~run[r].was] ELSE board
    /\ UNCHANGED <<slice, loading, timer, page, history>>

\* The rest of a thunk with one request: the success starts the actions timer.
PlainOk(r) ==
    /\ run[r].op \in Plain /\ At(r, "sent", "ok")
    /\ RestartTimer
    /\ SetStatus(run[r].op, FALSE)
    /\ End(r)
    /\ UNCHANGED <<page, board, history>>

\* Its catch: a network error, success = false, or 409 while refreshing or paused.
PlainFails(r) ==
    /\ run[r].op \in Plain /\ At(r, "sent", "bad")
    /\ SetStatus(run[r].op, FALSE)
    /\ End(r)
    /\ UNCHANGED <<timer, page, board, history>>

\* The status is known: stop if active, else start.
ToggleSend(r) ==
    /\ run[r].op = "toggle" /\ At(r, "sent", "ok")
    /\ Goto(r, "post")
    /\ UNCHANGED <<slice, loading, timer, page, board, history>>

ToggleFails(r) ==
    /\ run[r].op = "toggle" /\ (At(r, "sent", "bad") \/ At(r, "post", "bad"))
    /\ SetStatus("toggle", FALSE)
    /\ End(r)
    /\ UNCHANGED <<timer, page, board, history>>

\* monitorOperation starts.
Monitor(r) ==
    /\ At(r, "post", "ok")
    /\ Goto(r, "poll")
    /\ UNCHANGED <<slice, loading, timer, page, board, history>>

\* The board has switched: isToggling goes, the timer starts, and after a stop the
\* panel is cleared.
Switched(r) ==
    /\ At(r, "poll", "ok") /\ run[r].hit
    /\ SetStatus("toggle", FALSE)
    /\ RestartTimer
    /\ overrun' = (overrun \/ run[r].gave)
    /\ IF run[r].was
       THEN /\ run' = [run EXCEPT ![r].at = "clear", ![r].ans = "none",
                                  ![r].hit = FALSE, ![r].gave = TRUE]
            /\ UNCHANGED loading
       ELSE End(r)
    /\ UNCHANGED <<page, board, stuck>>

NotYet(r) ==
    /\ At(r, "poll", "ok") /\ ~run[r].hit
    /\ Goto(r, "wait")
    /\ UNCHANGED <<slice, loading, timer, page, board, history>>

\* The inner catch: only the loading snackbar goes.
PollThrows(r) ==
    /\ At(r, "poll", "bad")
    /\ loading' = loading \ {r}
    /\ Goto(r, "wait")
    /\ UNCHANGED <<slice, timer, page, board, history>>

StopCleared(r) ==
    /\ At(r, "clear", "ok")
    /\ End(r)
    /\ UNCHANGED <<slice, timer, page, board, history>>

\* The same catch, reached from the clear of a stop: the loop goes on.
StopClearThrows(r) ==
    /\ At(r, "clear", "bad")
    /\ loading' = loading \ {r}
    /\ Goto(r, "wait")
    /\ UNCHANGED <<slice, timer, page, board, history>>

\* MAX_OPERATION_WAIT_TIME is over.
Deadline(r) ==
    /\ run[r].at \in {"poll", "wait", "clear"} /\ ~run[r].late
    /\ run' = [run EXCEPT ![r].late = TRUE]
    /\ UNCHANGED <<slice, loading, timer, page, board, history>>

PollAgain(r) ==
    /\ At(r, "wait", "none") /\ ~run[r].late
    /\ Goto(r, "poll")
    /\ UNCHANGED <<slice, loading, timer, page, board, history>>

MonitorTimesOut(r) ==
    /\ At(r, "wait", "none") /\ run[r].late
    /\ SetStatus("toggle", FALSE)
    /\ overrun' = (overrun \/ run[r].gave)
    /\ End(r)
    /\ UNCHANGED <<timer, page, board, stuck>>

ThunkStep(r) ==
    \/ Respond(r) \/ PlainOk(r) \/ PlainFails(r)
    \/ ToggleSend(r) \/ ToggleFails(r) \/ Monitor(r)
    \/ Switched(r) \/ NotYet(r) \/ PollThrows(r)
    \/ StopCleared(r) \/ StopClearThrows(r)
    \/ PollAgain(r) \/ MonitorTimesOut(r)

-----------------------------------------------------------------------------
(* The page and the board                                                  *)

\* syncSpecificTimer finds nothing left: updateTimer stops the timer.
TimerEnds ==
    /\ timer
    /\ timer' = FALSE
    /\ UNCHANGED <<slice, run, loading, page, board, history>>

\* Mutant of StatusLands: a payload without "refreshing" is stored as it is.
StatusLandsUnchecked ==
    /\ seen' \in [active : BOOLEAN]
    /\ UNCHANGED <<slice, run, loading, timer, usable, board, history>>

\* checkSlideshowStatusThunk settles; a rejected check resets both fields.
StatusLands ==
    /\ seen' \in [active : BOOLEAN, refreshing : BOOLEAN]
    /\ UNCHANGED <<slice, run, loading, timer, usable, board, history>>

\* usePiConnection, lastCheckedAt, app-initial-load-timer, isLoopLoading.
UsableChanges ==
    /\ usable' = ~usable
    /\ UNCHANGED <<slice, run, loading, timer, seen, board, history>>

\* Mutant of Reload: the persisted loading snackbars are not dropped.
ReloadKeepsSnackbars ==
    /\ run' = [r \in Runs |-> Idle]
    /\ stuck' = {o \in Ops : flag[o]}
    /\ usable' = FALSE
    /\ UNCHANGED <<slice, loading, timer, seen, board, overrun>>

\* The page is loaded anew: the persisted slices come back as they were, and
\* Snackbars drops the loading snackbars when it mounts.
Reload ==
    /\ run' = [r \in Runs |-> Idle]
    /\ loading' = {}
    /\ stuck' = {o \in Ops : flag[o]}
    /\ usable' = FALSE
    /\ UNCHANGED <<slice, timer, seen, board, overrun>>

BoardSwitches ==
    /\ board.active # board.wants
    /\ board' = [board EXCEPT !.active = board.wants]
    /\ UNCHANGED <<slice, run, loading, timer, page, history>>

\* Another dashboard, or the frame's owner through the app, starts or stops it.
OtherClient ==
    /\ board' = [board EXCEPT !.wants = ~board.wants]
    /\ UNCHANGED <<slice, run, loading, timer, page, history>>

Next ==
    \/ \E r \in Runs, o \in Ops : Start(r, o)
    \/ \E r \in Runs : ThunkStep(r) \/ Deadline(r)
    \/ TimerEnds \/ StatusLands \/ UsableChanges \/ Reload
    \/ BoardSwitches \/ OtherClient

Spec == Init /\ [][Next]_vars

\* Callbacks run, requests are answered or aborted, and time passes.  No user has
\* to click, and neither the board nor the connection has to do anything.
FairSpec == Spec /\ \A r \in Runs : WF_vars(ThunkStep(r)) /\ WF_vars(Deadline(r))

-----------------------------------------------------------------------------
(* Properties                                                              *)

\* The thunk took its flag and has not come to the line that gives it up.
Holds(r) == run[r].op # "none" /\ ~run[r].gave

\* A flag that disables buttons, and a loading snackbar, belong to a thunk that is
\* still running and will remove them; a reload clears the snackbars, and the flags
\* it leaves behind are the only ones without a thunk.
BusyMeansWork ==
    /\ \A o \in Ops \ stuck : flag[o] => \E r \in Runs : run[r].op = o /\ Holds(r)
    /\ \A r \in loading : run[r].op # "none"

\* The actions timer keeps commands apart: while it runs, no operation that was
\* started from a button is still before its own end, also when the frame page and
\* the preview dialog, which gate on different flags, are both used.
NoCommandUnderTimer ==
    ~overrun => \A r \in Runs : timer => ~Holds(r)

\* Until a monitor that outlived its failed clear resets isToggling again, the flags
\* are a lock: one operation at a time, and each one gives it up.
Holders == IF overrun THEN {} ELSE {r \in Runs : Holds(r)}
Lock == INSTANCE OperationLock WITH holders <- Holders
LockSpec == Lock!FairSpec

\* "Prevent multiple simultaneous operations", without the exception.
OneOperation == \A r, s \in Runs : Holds(r) /\ Holds(s) => r = s

=============================================================================

# Shareframe board: formal models

TLA+ models of the services that run on the Shareframe picture frame (a Raspberry Pi with a
7.5" e-paper panel) and of the dashboard in the browser that controls it: model checked with TLC
on small instances, and proved with TLAPS for every value of the constants where that is
possible. Paths below are relative to the repository.

## 1. The system

Five services run under s6 and talk over nng sockets; each has an in-process event bus.

| part | state | operations | interacts with |
|---|---|---|---|
| **DisplayManager** (`src/display/DisplayManager.cpp`) | `_hwMutex`, `_lastDisplayTime`, `_isCleared`, `_shuttingDown`, `_consecutiveFailures` | init, displayBuffer, clear, clearForShutdown, paintForShutdown, requestShutdown, healthSnapshot | called by every thread of the display service |
| **DisplayTaskManager** (`src/task/DisplayTaskManager.cpp`) | latest Wi-Fi, status and registration reports, `changed_`, `restore_`, `state_` | five bus handlers, boot, wait, apply (switch) | starts, stops and joins the content tasks |
| **Content tasks** (`StatusScreen`, `ApNetworkSetupScreen`, `RegistrationScreen`, `NightBlankScreen`, `DisplayImageLoop`) | their buffer, `shown_`, `dirty_`, wake flags | start, stop, set, `_run` | panel; settings; bus |
| **DisplayClear** | `clearRequested_` | daily clear, requested clear | panel; publishes `SCHEDULED_CLEAR` |
| **EventBus** (`include/events/EventBus.hpp`) | queue, handlers | subscribe, publish, dispatch, stop | all tasks of a process |
| **Task / PeriodicTask** | `jthread`, `mtx_`, `cv_`, `runNow_`, failure counts | start (with the retry wrapper), stop, runNow | base of every task |
| **RegistrationWindow, RuntimeSettings, NightWindow** | end of the window; slideshow, night and order settings, persisted | report, required, endsAt; getters and setters | manager, slideshow, IPC |
| **Image store** (`ImageManager`, `ImageRepository`, `ImageUpdate`, `ExpiredImageCleanup`, `MissingImageCheck`) | files, SQLite rows, message queue | save, remove, remove expired, remove orphans, reconcile | websocket; publishes `IMAGE_NEW`, `IMAGE_REMOVED` |
| **WebsocketClient, ServerContact, AuthTokenManager** | connection, send queue, token | connect, reconnect, token refresh, registration report | server, bus |
| **RemoteCommand, UpdateManager** | command queue; update phase | gated reboot, update, reset | display and update services over IPC |
| **Dashboard server, Heartbeat, migrations** | sessions, login throttle; schema version | HTTP handlers, status upload | IPC |

The dashboard frontend (`dashboard-frontend/frontend/src`, React with a redux store that
redux-persist keeps in the browser) talks to the dashboard server over HTTP:

| part | state | operations | interacts with |
|---|---|---|---|
| **Display operations** (`store/slideshowOperation`, `store/timers`, `store/snackbars`, `main/frame/frameActions.tsx`) | five busy flags, the actions timer, loading snackbars | toggle, show, skip, clear, set the interval; the monitor of a toggle | board; the frame page and the preview dialog gate on the flags |
| **Copies of board state** (`slideshowStatus`, `slideshowImages`, `displayCustomization`, `network`, `connectionMode`, `services`, `frameInfo`, `displayStats`, `updates`, `frameLogs`, night mode, interval) | the copy, its flags, drafts, a cache | fetch, poll, save, refetch, reset on failure | board; every page |
| **Authentication** (`store/auth`) | `isAuthenticated` | check, login, logout | board; routes |
| **Power, updates, loading wall, connection** (`store/piPower`, `store/updates`, `store/loadingWall`, `App.tsx`, `context/piConnection`) | the wall with its deadline, `isConnected` | restart, shut down, reset, update; health checks | board; hides or disables every page |
| **Shell** (dialogs, navigation, layout, theme) | open dialogs, path | open, close | |

What is hard here: up to eight threads of the display service contend for one mutex that is held
through a wait of minutes and a refresh of seconds; switches join a thread that may be anywhere;
events, three clock boundaries and SIGTERM arrive at any point of that; database writes throw in
the middle of hardware sequences; the e-paper keeps its last picture for ever, so the last write
before the exit must be right; two threads change files and rows without a transaction across
them while the process may be killed; the connection drops and messages are lost or repeated. In
the frontend, thunks overlap at every await, requests wait up to ten minutes and answers overtake
each other, a reload ends all thunks and keeps what they wrote, the board goes away while it is
being asked, and other clients change it.

Properties that make each part correct: the panel is used by one thread at a time, not too early,
and is given up at once at a shutdown; exactly one content task runs and it is the right one; the
panel converges to what was asked for; the exit leaves the right picture; a stop is never slept
through; no needed file is deleted, none is forgotten, and what was missed is fetched. In the
frontend: one display operation at a time and none under the timer, every flag has a thunk that
will reset it, a settled copy holds what the board holds and the page shows it, polling repairs the
rest, the wall stays up until the board is back and does not stick.

## 2. Modules

| module | models | composes |
|---|---|---|
| `DisplayPanel` | DisplayManager with any number of client threads | |
| `DisplayProcess` | the display service: manager, content tasks, DisplayClear, bus, main | `DisplayPanel` (INSTANCE `Panel`) |
| `TaskLifecycle` | Task and PeriodicTask at the level of the condition variable | |
| `ImageStore` | the image part of the websocket service, the server external | |
| `SlideshowOps` | the frontend's display operations | refines `OperationLock` (INSTANCE `Lock`) |
| `OperationLock` | abstract: the lock the busy flags stand for | |
| `BoardSettings` | the frontend's copies of board state, one slice per behaviour | |
| `BoardPower` | power commands, updates, loading wall, health checks of the frontend | |
| `MCDisplayProcess` | event sets for TLC | |
| `DisplayPanel_proofs`, `TaskLifecycle_proofs`, `ImageStore_proofs`, `SlideshowOps_proofs`, `BoardSettings_proofs`, `BoardPower_proofs` | theorems about the module of that name | |
| `DisplayProcess_proofs` | refinement of the panel, one content task | |
| `DisplayService_proofs` | the other theorems about `DisplayProcess` | `DisplayProcess_proofs`, `DisplayPanel_proofs` (INSTANCE `Any`) |

### DisplayPanel

`DisplayPanel` is both the model of DisplayManager and the abstract specification of what a panel
client may do. A call goes `out -> enter -> hold -> refresh -> return -> out`. `Lock` is the
`lock_guard`; `WaitMinRefreshOver` says when `_waitMinRefresh` is back; `Bails` collects the early
returns after it; `Refresh` is one hardware cycle with its outcome. The stop token of a thread is
`stopped[p]`, and `call[p].token` says whether the caller hands it over: the clear of a switch and
the daily clear do not. A buffer is the screen it draws; `cooling` stands for "the last refresh is
less than minRefreshSecs ago". Faults are the power-on timeout (`init`), the BUSY timeout (`busy`,
after which the panel may show either screen), a buffer of the wrong size (`buffer`, a failed
render) and a metrics write that throws before or after the drawing (`db`). The history variables
`streak`, `late` and `faults` record failed cycles in a row, buffers drawn after requestShutdown()
and the kinds of fault met so far.

### DisplayProcess

`pc[p]` is the place of each thread in its own code; panel calls are the steps of `Panel`. The
manager: `ManagerBoot/Booted` (`_boot`), `ManagerArm` (wakeAt), `ManagerWake` (the snapshot taken
under `mtx_`), `ManagerKeep/Switch/Join/Cleared/Start` (`_apply`), `ManagerClose/End`, and
`ManagerRetry` (the wrapper of Task::start after an exception). A bus event is handled by one
`Dispatch` step; `UPDATE_NIGHT_MODE` has two handlers and takes two steps, so the manager can run
between them. Clock boundaries are actions: `NightBoundary`, `RegistrationEnds`, `StatusTimesOut`,
`CoolDown`; the manager is `due` only if it armed the boundary before it passed. The end of a switch
is one step (`ManagerStart`: `set()`, `start()` and the store to `state_`,
`DisplayTaskManager.cpp:177-198`): the target has no thread before its `start()`, and `state_` is
read by the manager alone and, after the manager was joined, by main(), so no other thread can tell
the order. Content tasks share one set of actions, with `Draws`, `Respects` and `Idle` telling them
apart. `Main` follows main() from the signal to the exit, in its order. Requests from outside the
process (DisplayIpc, the subscriber, the Wi-Fi watcher) are the constant `Events`, published in any
order.

Simplified: photos are one screen; the backoff of the wrapper counts nothing here
(`TaskLifecycle` does) and its abort after ten failures is not reached within one fault; the
waits of this module are not slept through (that hazard is `TaskLifecycle`'s).

### TaskLifecycle

The worker's `wait_for` is split into lock, predicate, the gap before the sleep, sleep, relock.
`Task::stop()` sets the flag, then notifies, then joins, none of it under `mtx_`; `runNow()` sets
its flag under `mtx_`. `tokenWait`, chosen in `Init`, is the form of the task's waits: with the stop token
(manager, registration, night, status, image update) or without (DisplayClear, PeriodicTask, setup
screen, the wrapper's backoff). The constants are the code's: 10 failures, 60 seconds.

### ImageStore

Files and rows are changed one system call or statement at a time by `Update` and `Cleanup`;
`Crash`, the death of the process, stops everything between any two of them, and `Restart` runs
`removeOrphaned`. What the process has written outlives it. That does not carry over to a loss of
power: saveImage syncs nothing (`ImageManager.cpp:63-71`), so a file may then be short or empty
under a committed row. A file name is the triple (second of receipt, expiry, id). The server is
external: it never reuses an id, and it answers `check_missing_images` with what the list lacks.
Lists made offline wait in `parked`, the websocket's send queue. Disk faults cut a file short;
database faults make a statement throw.

### SlideshowOps and OperationLock

JavaScript runs one callback at a time, so a step is what a thunk does between two awaits.
`run[r]` is one invocation with its place (`sent`, `post`, `poll`, `wait`, `clear`), the answer it
has been given and the locals it carries over awaits (`was` is `wasActive`). `Start` is the click
with the button's condition (`Offered`) and the thunk's own check (`NoneActive`); `Respond` is any
request's end, including a failure after the board has obeyed; `PlainOk`/`PlainFails` end the four
thunks with one request; `ToggleSend` to `MonitorTimesOut` follow toggleSlideshowThunk, including
the inner catch that a failed clear shares with a failed poll. `Reload` ends all thunks, keeps the
persisted slices, and drops the loading snackbars as `Snackbars` does on mount. A status check may
bring any answer, since its order is the subject of `BoardSettings`. `gave`, `stuck` and `overrun`
are history. `OperationLock` says what the flags promise: nobody starts while somebody holds, and
the holder lets go.

### BoardSettings

Fifteen slices follow one pattern and differ in few respects. The pattern is the module; the
respects are traits, and a slice is the union of what its thunks and reducers do
(`NightSlice`, ...) and what the components that use it add (`NightCard`, `RouterContext`, ...).
`Init` chooses one. A fetch is `Fetch -> GetAnswer -> GetLands` (or `GetFails -> GetRejected`); the
value is read when the board answers and shown when the answer lands, in any order. A save is
`Save -> PutAnswer -> PutLands` or `PutFails -> PutRejected`; it may take effect although it
failed. The photo page edits a draft during which it does not poll. The logs are cached for thirty
seconds. Login and logout are the saves of the slice `isAuthenticated`.

The interval and the night mode are shown in a `form` of the frame page. Both take the copy when the
page opens (`Opened`, `Reopen`), are typed in (`Edit`) and are what is saved; the night form is
filled again whenever the copy changes (`Reseeded`), the field of the interval is not. Their fetch
rounds the board's seconds to whole minutes (`Fetched`), their save stores what was entered. For
that, values are numbers of seconds; the run has 870 (14.5 minutes, which rounds to 15), 900 and
1200. They stay opaque in the other slices. Whole seconds only: a form of fractions of a second is
left out, and so is the unit (minutes or hours) of the field. Of the status, the photo on show and
the time of the last check, which a failed check keeps, are left out.

`SettledCopy` is about the copy in the store, `SettledPage` about what the user sees: the night form,
unless it was typed in since, and the switch of the customization. It is not claimed for the field of
the interval, which keeps the value it was opened with.

### BoardPower

`run[r]` is an invocation of restartPi, shutdownPi, factoryResetPi or performUpdate; `wall` is the
loadingWall slice; `conn` is `isConnected`, written by health checks that are counted by what has
become of them (`ping`), so any of them may land next. `PingLands` includes App's effect that takes
the wall down on a reconnect, `Deadline` is App's fallback. A check inside `pollHealth` is one step
(it is aborted after three seconds). No answer to a power command counts as accepted
(`CommandLost`), as in `sendPowerCommand`. The board goes down only when told to, and comes back
by itself from a restart or an update. `gone` is the browser's error page: a reload found no board.

`held` is the history behind `WallHeld`. It is set when the wall goes up on a page that knows the
board as connected and has no failed check under way, and it lasts through the drop and the reboot.
It ends when the board is back, when a check of a present board fails by itself, when the page is
loaded anew, or when a failure lands before an answer the board has given already (`Overtakes`),
which section 3 describes.

## 3. Runs

All bounds are constants of the cfg files.

| run | result | question |
|---|---|---|
| Panel | holds | two threads, one fault of any kind: mutual exclusion, interval, late displays, `_isCleared`, health; a shutdown or a stop frees the panel although time stands still |
| ProcessSafety | holds | any two events of every topic, status timeout, SIGTERM: one right task, last screen |
| ProcessShutdown | holds | SIGTERM ends the process, with a refused registration or a clear request, a throwing database, night and registration boundaries |
| ProcessConverges | holds | two events around a daily clear: the panel converges |
| TaskSafety | holds | wake-ups, failure counts, stop, for both kinds of wait |
| Image | holds | files and rows agree after a crash, a lost connection, a failed statement or a full disk; what was missed is fetched, what has expired goes |
| OpsSafety | holds | two overlapping display operations, failing requests, reloads, a second client: flags have owners, the timer separates, refinement of `OperationLock` with its liveness |
| Settings | holds | each of the fifteen slices: settled copies, settled pages, polling, flags |
| Power | holds | two overlapping commands, a lost request, late health answers, a reload: wall, down poll, connection |
| TaskPlainStop | violated | stop() slept through by a wait without token |
| ProcessRegistration | violated | the registration window ends between snapshot and arming |
| OpsOverlap | violated | a monitor whose clear failed resets the flag of another toggle |

The violated runs are described, with the lines they contradict, under `findings` in
`PROJECT.json`.

Behaviours the models show under faults or events that the passing runs leave out; each comes up
as soon as the cfg admits the case, and none has a run of its own:

- A metrics write that throws in the clear of a switch (`DisplayTaskManager.cpp:175`) leaves the
  manager waiting with no content task until the next event: `ContentRuns` fails with
  `FaultKinds = {"db"}` and `StoredActive = {FALSE}`.
- A metrics write that throws after the drawing, or a BUSY timeout, leaves `_isCleared` true on a
  drawn panel (`DisplayManager.cpp:238`), and clearForShutdown() skips its clear: without its
  condition on `faults.kinds`, `ClearedIsBlank` fails.
- Every refresh cycle begins with `_hwInit()`, which resets `_consecutiveFailures` when the power-on
  works (`DisplayManager.cpp:327`): a panel whose refreshes all end in a BUSY timeout stays
  "degraded" and is never reported "failed".
- finishForShutdown() skips the paint when `shown_` is set (`StatusScreen.cpp:37`), also when a
  CLEAR_DISPLAY has blanked the panel since: the process then exits with a blank panel.
- A slideshow deactivated between the manager's check (`DisplayTaskManager.cpp:174`) and its own
  first look leaves the setup screen on the panel, which the test
  `StoppedSlideshowGetsABlankPanelInsteadOfAStaleQr` means to exclude: `PanelConverges` fails with
  `SET_SLIDESHOW_ACTIVE` events.
- A night that begins or ends between `isNightBlankNow()` in a switch and the next arming of the
  wait is missed until the other end of the window, as in ProcessRegistration: `PanelConverges`
  fails with `Boundaries = {"night"}` and `StoredPause = {TRUE}`.
- A full disk leaves a row that points to a truncated file (`ImageManager.cpp:69`), so
  `WantedKeepsFile` asks for a whole file only if the disk was never full.
- A reload in the middle of an operation leaves its persisted flag set, and nothing dispatches
  `resetOperation`: the buttons stay disabled (`stuck` in SlideshowOps and BoardSettings). The same
  holds for `restarting` of a service.
- toggleSlideshowThunk reads the status again, so it can do the opposite of what its button says
  when somebody else switched the slideshow meanwhile.
- The field of the interval shows the value the store had when the page was opened
  (`frameActions.tsx:71`): the fetch that the layout dispatches does not reach an open page, and a save
  then writes the old value back. With the condition on `reseeds` dropped, `SettledPage` fails.
- A frame page opened again during a save starts a fetch that may read the old value and land after
  the save: the copy and the form keep the old value until the next fetch (`excused`).
- The network page's `loading` is reset by `addNetwork.fulfilled` while the fetch it dispatched is
  still under way, and a customization page mounted twice can let an old answer overwrite a save
  (`excused`).
- A check of the session that lands after a login or logout flips `isAuthenticated` until the next
  check; a refused logout counts as done.
- restartPi wants a single failed health check before it waits for the board to return, so it can
  reload the page before the reboot. shutdownPi does not look at the result of its poll: it says the
  frame is off after the two minutes of the poll even if the board still answers, although its
  comment (`piPower.Slice.tsx:117`) speaks of a confirmed stop.
- The wall goes down as soon as a failed health check is followed by one that works: after a check
  that failed by itself before the board dropped (`PingFails`), after a reload that met the board
  still up with the wall persisted, or if it was put up on a page not connected at that moment. It
  goes down in the middle of the reboot, with no request lost, if an answer given before the drop
  lands after the failure of a later check: health checks are sent every 30 seconds, wait up to ten
  minutes, and setIsConnected takes whichever lands last (`piConnectionContext.tsx:16-18`). The
  comment `App.tsx:31-32` says that the wall stays up while the board reboots. `WallHeld` excuses
  these cases through `held`; without `Overtakes` in `PingLands` the run Power finds the last one.
  It also goes down after three minutes in any case, although a comment (`piPower.Slice.tsx:83`)
  says it stays. Two power commands may be under way at once, and an update whose answer is lost is
  reported as failed although it started.

Bounds. Two panel threads are enough for one holding the mutex and one waiting for it; the theorems
cover any number. Two events suffice for an event to arrive during the switch another one caused.
ProcessConverges publishes a status screen, its end and two sets of credentials around one daily
clear; no status times out there, so one that was cleared must come back. ProcessShutdown starts
with the slideshow stopped, so that a switch away from another screen clears the panel, without a
token, while the shutdown may be waiting for it; its one event is a refused registration or a
request that DisplayClear clear the panel. One fault lets every step fail once with all the recovery
after it; no code counts faults except the failure streak, which the proofs cover, and the wrapper
(TaskSafety has ten). Two images and one crash let each of the two image threads be interrupted
while the other works. The clock of ImageStore has three values: before, at and after an expiry. Two
invocations of a display operation let a monitor outlive its operation while another runs; the
theorems cover any number. Three fetches let two overtake each other while a save refetches; two
changes let a save meet a change elsewhere or a reload. Two health checks can overtake each other,
and two power commands can overlap; the run leaves out the factory reset, which is a shutdown
without the clear and with other words. One lost request is enough to fool a poll that wants one
answer and must not fool one that wants two. Deadlock checking is off where nothing has to happen
any more (no signal, server quiet, nobody clicks); with SIGTERM the process ends in the `Exited`
self-loop.

Fairness. Threads are scheduled (weak fairness on each thread's own steps). The panel mutex is not
assumed fair. In Panel it is assumed only that the owner of the mutex runs and that a refresh ends
(the driver's BUSY wait has a timeout); time need not pass. In DisplayProcess timed waits and the
minimum interval end; events and signals never have to happen. TaskLifecycle has two
specifications: `FairSpec` (TaskSafety), in which deadlines pass, and `PromptSpec` (TaskPlainStop),
in which none need ever pass, so what holds under it is prompt. In ImageStore the service is
restarted (s6), the websocket reconnects (its library retries for ever) and time passes. In the
frontend modules callbacks run, every request is answered or aborted (`fetchWithTimeout`), intervals
fire while their page is open and deadlines pass; nobody has to click. BoardPower also assumes that
a command the board accepted is carried out and that a restart or update ends; the others need
somebody to plug the frame in.

Settled is checked without night and registration boundaries: ProcessRegistration shows what goes
wrong when one falls between the snapshot and the arming. PanelConverges is checked without faults:
a night or status screen whose paint fails is not tried again.

## 4. Proofs

Every safety invariant, action property and type invariant that a passing run checks, and the safety
half of the refinement of `OperationLock`, is also a theorem, four of them under the hypotheses
named below. The runs fix a few threads, images, events or thunks and one fault; the theorems hold
for any number of them. Where a property is not inductive, the module names the parts of its
inductive invariant; each was checked with TLC before it was proved. Assumptions on constants are
the `ASSUME`s of the modelled modules: bounds are natural numbers, blank and unpainted panels are
not screens, image ids and the places for concurrent fetches are finite sets.

`DisplayPanel_proofs`, from `ScreensAssumption` and `FaultAssumption` only:

- **TypeCorrect**: `TypeOK` is inductive.
- **Serialized**: `SerializedHardware` is inductive with `TypeOK`: only `Lock` makes a thread the
  owner, and only from a free mutex.
- **IntervalRespected**: needs `SerializedHardware`, because the step that could break it is another
  thread's refresh starting the interval anew while this one is past its wait.
- **ShutdownStopsDisplays**: `LateDisplays` is not inductive. The strengthening `LateIsLast` adds
  that once a late buffer was drawn, no thread is in the refresh of a displayBuffer; since a new one
  cannot start after the shutdown, no second follows. It rests on `SerializedHardware`.
- **ClearedFlagIsTrue**: `ClearedIsBlank`, which speaks of histories without BUSY timeouts and
  database faults; section 3 says what happens under those two kinds.
- **FailureShows**: `HealthShowsLastFailure`, which speaks of histories without database faults; the
  invariant is that a streak of failed cycles leaves a failure count above zero.

`DisplayProcess_proofs`, from `ProcessAssumption` and the panel's assumptions:

- **OneContentTask**: `ContentIsState`. Inductive with `JoinedBeforeStart` (while the manager
  clears or starts, no content thread exists), `TargetHasData` and `StateHasBuffer` (a target was
  chosen with the data it draws) and the types.
- **ImplementsPanel**: `Spec => PanelSpec`. Every step of the service is a step of `Panel!Next` or
  leaves the panel alone. The mapping is the identity on the panel's variables; the invariant is
  needed because a panel call must be one of `Calls` (a real screen) and a new token may be given
  only to a thread outside the panel.

`DisplayService_proofs` builds on these two, from `ProcessAssumption` and `PanelAssumption`:

- **PanelIsSafe** (`PanelSafe`): the six safety theorems of DisplayPanel, instantiated with the
  threads and screens of the service and carried over through ImplementsPanel, which is a means to
  this end: the service changes the panel's variables through `Panel`'s actions only, so it says
  little by itself and no run checks it.
- **TypeCorrect**: `TypeOK`, from `Typed` (among it `Places`: where each thread can be in its own code)
  and the types of the two proofs below it.
- **TaskAlwaysRuns**: `ContentRuns` as long as no metrics write has thrown. `Control` says how
  threads and panel calls match (`CallsMatch`), that the manager switches only after a boot that
  worked (`BootFirst`) and that no task runs while it boots, clears or starts one (`NoTask`).
  `Healthy` adds that only the manager's switch ends a task (`StopsInSwitch`). The hypothesis is
  needed: section 3 shows the throw in the clear of a switch that leaves no task.
- **ManagerSettles**: `Settled` as long as no night or registration boundary has passed and no metrics
  write has thrown. `Decided` follows the decision through the switch: from the snapshot until the
  task is started, either the target is what the inputs ask for or a change is flagged. A boundary
  that falls between the snapshot and the arming breaks it, as ProcessRegistration shows; the timeout
  of a status screen, which the manager applies itself when it wakes, does not.
- **LastScreenIsRight**: `LastScreen` as long as no fault of any kind has happened. When main() decides,
  every other thread has ended (`Ended`), the status task's buffer is the status the manager remembers
  (`StatusBuffer`), its `shown_` implies that the panel shows that or is white (`StatusUp`), and
  `_isCleared` can be trusted, so clearForShutdown() may skip its clear.

`TaskLifecycle_proofs`, from `LifecycleAssumption`:

- **TypeCorrect**, **RequestNotLost** (`RunNowNotLost`), **StopNotLost** (`TokenStopNotLost`),
  **AbortIsEarned** (`AbortNeedsStreak`) from one invariant. `LockHeld` says when the worker has
  `mtx_`; `NoRequestInGap` that no request falls between predicate and sleep, because runNow() needs
  the mutex there; `OwedIsSet` that a request stays in `runNow_` until the loop is back at its top.
  A stop does fall into that gap, and only the second look of a wait with the token saves it.
  `CountsStreak` ties the wrapper's count to the failures that happened.
- **BackoffDoubles**: `BackoffFollowsFailures` for every `MaxBackoff` and every `MaxConsecutive` up to the
  code's ten. `BackoffDoubling` describes the delay inside and outside the wait. The limit is there
  because the provers evaluate 2^k for a number k but know no law of exponents and no induction over
  k: `NextPower` shows the eleven cases the code can reach.

`ImageStore_proofs`, from `StoreAssumption` (any finite set of images):

- **TypeCorrect**, **WantedKept** (`WantedKeepsFile`), **NothingForgotten** (`NoOrphans`) from one
  invariant about two threads without a common lock. What one thread has read stays true enough
  until it acts: `UpdateOK` (an image to be written has no row, the file to be unlinked is the
  row's), `CleanupOK` (a row in the cleanup's list has lost its file, or still has the expired one
  it is about to lose; one that is gone does not come back), `QueueOK` (no PICTURE follows the CLEAR
  of its image), `FilesOwned` (a file without a row is the one being inserted). The server's promise
  not to reuse an id, part of the external model, is what the second half of `CleanupOK` rests on.

`BoardSettings_proofs`, from `SettingsAssumption` (any number of fetches):

- **TypeCorrect**; **CopyHoldsBoard** (`SettledCopy`): for the slices of the claim and unless excused, a
  fetch under way is alone and carries the current value (`FetchAlone`), and the copy is the board's
  value, rounded where the fetch rounds, except between a save and its reducer (`CopyOrSave`).
- **PageShowsBoard** (`SettledPage`): from `SettledCopy` and `FormTracks`: a form that is filled
  again and has not been typed in since is the copy, and during a save it holds what is being saved
  or, if the page was opened again, the copy.

`BoardPower_proofs`, from `PowerAssumption` (any number of thunks, health checks and reloads):

- **TypeCorrect**; **DownTrusted** (`DownPollTrusted`), with `FallsSeen`: while the board is away every
  thunk knows that it fell, and until then its streak of failed checks counts faults; **WallStays**
  (`WallHeld`), with `HeldThrough`: while the wall is held, a failed check is under way and the
  connection is lost only if the board is away, and once the page knows that it is lost no answer given
  before is left that could be taken for a reconnect.

`SlideshowOps_proofs`, with no assumption on `Runs`:

- **OpsTypeCorrect**: `TypeOK` is inductive.
- **FlagsHaveOwners**: `BusyMeansWork`. The invariant `Shape` says which thunk can be where with
  which answer: only a toggle leaves `sent`, and `gave` is set exactly by a monitor past its switch.
- **TimerSeparates** and **FlagsAreALock** (`Spec => Lock!Spec`): both rest on `Exclusive`: until an
  overrun, at most one invocation holds, it has its flag set, and none holds while the timer runs. An
  operation starts only where its button and `NoneActive` allow, so it starts with every flag down
  and, because each button looks at the timer, with the timer over.

Only model checked: liveness (ShutdownFreesPanel, StopFreesPanel, PanelConverges,
ShutdownCompletes, StopEnds, CatchesUp, ExpiredRowsGo, PollingConverges, FlagsEnd, WallEnds,
ConnectionConverges and the fairness of `LockSpec`), which is outside this prover, and the three
violated properties. BackoffFollowsFailures beyond ten failures in a row is neither.

## 5. Not modelled

Pixels, fonts, QR codes, wording and logs; the mock panel; `fs::remove` errors (logged and ignored
by the code: the file becomes an orphan); the loss of power, with files written but not synced; the
safe-mode call `--clear`; `screenSnapshot`; cryptography, HTTP, subprocesses and configuration;
vendored code (`external/`). In the frontend: rendering, layout and theme; which dialog is open,
except where it decides what may be confirmed; wording of snackbars and alerts; the flags of a
connection attempt from the hotspot (`connecting`, `failedSinceRequest`); changePasswordThunk and
the upload of diagnostics, which leave no state behind; the migrations of the persisted store; the
reload after a stale chunk; overlapping restarts of several services.

## 6. Plan

1. `SlideshowLoop` with `DisplayIpc`: skip, show, new image, removed image, `refreshing_`,
   the default images, and the waits; composed with the panel. Hazards: lost wake flags, the loop
   over missing files, check-then-act on `isRefreshing()`.
2. `NightWindow`, `PlaybackOrder`, `ShuffleBag`, `ApSetupDebounce` as functions checked against
   reference definitions; clock jumps.
3. `AuthToken` and `WebsocketClient`: token refresh, close codes, registration reports.
4. `RemoteControl`: RemoteCommand, UpdateManager, the reboot gate; crash and resume of an update.
5. `EventBridge`: publisher and subscriber between services; `IpcClient` with timeouts.
6. `LoginThrottle`, sessions, heartbeat, server contact, migrations.
7. The connection attempt from the hotspot; SlideshowOps composed with the board's DisplayIpc.

Proofs next: for the modules above, in the proof module of the component they belong to
(`SlideshowLoop` with `DisplayService_proofs`, `AuthToken` and `WebsocketClient` with
`ImageStore_proofs`). In DisplayProcess, what is left of the panel at an exit under faults: a weaker
`LastScreen` that says which fault leaves which picture.

----------------------------- MODULE BoardPower -----------------------------
(***************************************************************************)
(* Restarting, shutting down, resetting and updating the frame from the    *)
(* dashboard: the thunks of the piPower slice and performUpdate, the       *)
(* loading wall with the two effects of App that take it down, and the     *)
(* health checks of PiConnectionProvider, whose answers may overtake each  *)
(* other (they wait up to ten minutes and are sent every thirty seconds).  *)
(*                                                                         *)
(* A check inside pollHealth is one step: its answer is at most three      *)
(* seconds old when it is used.  Snackbars are left out.  The frame and    *)
(* the browser are external.  A request the frame could have answered but  *)
(* that failed or came too late counts as a fault (fails).                 *)
(***************************************************************************)
EXTENDS Naturals

CONSTANTS
    Runs,         \* invocations of the thunks that may overlap
    Commands,     \* the commands of this instance
    MaxPings,     \* bound on the provider's health checks in flight
    MaxCommands,  \* bound on confirmed dialogs
    MaxLoads,     \* bound on reloads by the user
    MaxFails      \* bound on faults

\* restartPi, shutdownPi, factoryResetPi, performUpdate
AllCommands == {"restart", "shutdown", "reset", "update"}

ASSUME PowerAssumption ==
    /\ Commands \subseteq AllCommands
    /\ MaxPings \in Nat /\ MaxCommands \in Nat /\ MaxLoads \in Nat /\ MaxFails \in Nat

VARIABLES
    run,     \* where each thunk is
    wall,    \* the loadingWall slice: message, hideAfter is set
    asked,   \* the update dialog is open
    conn,    \* isConnected; App's prevConnected is the same after every render
    ping,    \* health checks in flight, by what has become of them
    load,    \* the page: "gone" (the browser's error page), "loading", "ready"
    board,   \* external: reachable, and the command it is carrying out
    held,    \* history: nothing may take the wall down yet, see WallHeld
    used     \* commands confirmed, reloads, faults

vars == <<run, wall, asked, conn, ping, load, board, held, used>>

\* fell: history, the board was unreachable at some time since the confirmation.
Idle == [op |-> "none", at |-> "idle", ans |-> "none", streak |-> 0, fell |-> FALSE]
NoPing == [sent |-> 0, running |-> 0, failed |-> 0]
NoWall == [msg |-> "none", hideAfter |-> FALSE]

Messages == AllCommands \cup {"off", "fresh"}

RunStates ==
    [op : Commands \cup {"none"}, at : {"idle", "clear", "cmd", "down", "up"},
     ans : {"none", "accepted", "rejected"}, streak : 0..1, fell : BOOLEAN]

TypeOK ==
    /\ run \in [Runs -> RunStates]
    /\ wall \in [msg : Messages \cup {"none"}, hideAfter : BOOLEAN]
    /\ asked \in BOOLEAN /\ conn \in BOOLEAN
    /\ ping \in [{"sent", "running", "failed"} -> 0..MaxPings]
    /\ load \in {"gone", "loading", "ready"}
    /\ board \in [up : BOOLEAN, todo : Commands \cup {"none"}]
    /\ held \in BOOLEAN
    /\ used \in [commands : 0..MaxCommands, loads : 0..MaxLoads, fails : 0..MaxFails]

Init ==
    /\ run = [r \in Runs |-> Idle]
    /\ wall = NoWall /\ asked = FALSE
    /\ conn = FALSE /\ ping = NoPing
    /\ load = "loading"
    /\ board = [up |-> TRUE, todo |-> "none"]
    /\ held = FALSE
    /\ used = [commands |-> 0, loads |-> 0, fails |-> 0]

MayFail == used.fails < MaxFails
Failed == used' = [used EXCEPT !.fails = @ + 1]

-----------------------------------------------------------------------------
(* The wall and the page                                                   *)

\* Mutant of Show: the wall gets no deadline.
ShowForever(m) == wall' = [msg |-> m, hideAfter |-> FALSE]

\* showLoadingWall
Show(m) == wall' = [msg |-> m, hideAfter |-> TRUE]

WallUp == wall.msg # "none"

\* The initial authentication check has settled and three seconds are over.
Ready ==
    /\ load = "loading"
    /\ load' = "ready"
    /\ UNCHANGED <<run, wall, asked, conn, ping, board, held, used>>

\* window.location.reload(), or the user's: every thunk ends, the wall is persisted,
\* isConnected starts at false.  A board that is not there cannot serve the page.
LoadPage ==
    /\ run' = [r \in Runs |-> Idle]
    /\ asked' = FALSE
    /\ conn' = FALSE /\ ping' = NoPing
    /\ load' = IF board.up THEN "loading" ELSE "gone"
    /\ held' = FALSE

Reload ==
    /\ used.loads < MaxLoads
    /\ LoadPage
    /\ used' = [used EXCEPT !.loads = @ + 1]
    /\ UNCHANGED <<wall, board>>

\* The hard fallback.  The polls for the board to stop end in time: at most two of
\* the wall's three minutes.
Deadline ==
    /\ load # "gone" /\ WallUp /\ wall.hideAfter
    /\ \A r \in Runs : run[r].at # "down"
    /\ wall' = NoWall
    /\ UNCHANGED <<run, asked, conn, ping, load, board, held, used>>

-----------------------------------------------------------------------------
(* PiConnectionProvider                                                    *)

Ping ==
    /\ load # "gone" /\ ping.sent + ping.running + ping.failed < MaxPings
    /\ ping' = [ping EXCEPT !.sent = @ + 1]
    /\ UNCHANGED <<run, wall, asked, conn, load, board, held, used>>

\* One of the health checks gets the answer a.
Answered(a) == ping.sent > 0 /\ ping' = [ping EXCEPT !.sent = @ - 1, ![a] = @ + 1]

PingAnswer ==
    /\ Answered(IF board.up THEN "running" ELSE "failed")
    /\ UNCHANGED <<run, wall, asked, conn, load, board, held, used>>

PingFails ==
    /\ board.up /\ MayFail
    /\ Answered("failed")
    /\ Failed
    /\ held' = FALSE
    /\ UNCHANGED <<run, wall, asked, conn, load, board>>

\* Mutant of Reconnects: the last value is not remembered.
Connected(c) == c

\* A reconnect: false before, true now.
Reconnects(c) == c /\ ~conn

\* A failure lands before an answer the board has given already.
Overtakes(a) == a = "failed" /\ ping.running > 0

\* Mutant of PingLands: a failed check is logged only.
PingLandsLogged(a) ==
    LET c == a = "running" IN
    /\ ping[a] > 0
    /\ ping' = [ping EXCEPT ![a] = @ - 1]
    /\ conn' = (conn \/ c)
    /\ wall' = IF WallUp /\ Reconnects(c) THEN NoWall ELSE wall
    /\ held' = (held /\ ~Overtakes(a))
    /\ UNCHANGED <<run, asked, load, board, used>>

\* setIsConnected, and App's effect: a reconnect dismisses the wall.
PingLands(a) ==
    LET c == a = "running" IN
    /\ ping[a] > 0
    /\ ping' = [ping EXCEPT ![a] = @ - 1]
    /\ conn' = c
    /\ wall' = IF WallUp /\ Reconnects(c) THEN NoWall ELSE wall
    /\ held' = (held /\ ~Overtakes(a))
    /\ UNCHANGED <<run, asked, load, board, used>>

-----------------------------------------------------------------------------
(* The thunks                                                              *)

\* "Jetzt installieren": the button looks at the connection, its dialog does not.
AskUpdate ==
    /\ load = "ready" /\ ~WallUp /\ conn /\ ~asked
    /\ "update" \in Commands
    /\ asked' = TRUE
    /\ UNCHANGED <<run, wall, conn, ping, load, board, held, used>>

CancelUpdate ==
    /\ asked
    /\ asked' = FALSE
    /\ UNCHANGED <<run, wall, conn, ping, load, board, held, used>>

\* The invocations are interchangeable: a new one takes a fixed idle name.
FreeRun == CHOOSE r \in Runs : run[r] = Idle

\* The dialogs of the power menu and of the factory reset look at the connection.
Offered(o) == load = "ready" /\ ~WallUp /\ IF o = "update" THEN asked ELSE conn

\* Confirming closes the dialog and dispatches the thunk; nothing keeps a second
\* dialog from being opened meanwhile.
Confirm(r, o) ==
    /\ run[r] = Idle /\ r = FreeRun /\ used.commands < MaxCommands
    /\ Offered(o)
    /\ asked' = (asked /\ o # "update")
    /\ run' = [run EXCEPT ![r] = [Idle EXCEPT !.op = o, !.fell = ~board.up,
                                  !.at = IF o = "shutdown" THEN "clear" ELSE "cmd"]]
    /\ used' = [used EXCEPT !.commands = @ + 1]
    /\ UNCHANGED <<wall, conn, ping, load, board, held>>

\* The panel is cleared, or not: the shutdown goes on.
ClearSettles(r) ==
    /\ run[r].at = "clear"
    /\ run' = [run EXCEPT ![r].at = "cmd"]
    /\ UNCHANGED <<wall, asked, conn, ping, load, board, held, used>>

\* The board accepts the command and answers, or is torn down first: no answer means
\* accepted, except to performUpdate.
Obeys(r) ==
    /\ run[r].at = "cmd" /\ run[r].ans = "none" /\ board.up
    /\ board' = [board EXCEPT !.todo = run[r].op]
    /\ \E a \in {"accepted"} \cup (IF run[r].op = "update" THEN {"rejected"} ELSE {}) :
         run' = [run EXCEPT ![r].ans = a]
    /\ UNCHANGED <<wall, asked, conn, ping, load, held, used>>

\* success: false
Refuses(r) ==
    /\ run[r].at = "cmd" /\ run[r].ans = "none" /\ board.up
    /\ run' = [run EXCEPT ![r].ans = "rejected"]
    /\ UNCHANGED <<wall, asked, conn, ping, load, board, held, used>>

\* The command never arrives.
CommandLost(r) ==
    /\ run[r].at = "cmd" /\ run[r].ans = "none"
    /\ run' = [run EXCEPT ![r].ans = IF run[r].op = "update" THEN "rejected" ELSE "accepted"]
    /\ IF board.up THEN MayFail /\ Failed ELSE UNCHANGED used
    /\ UNCHANGED <<wall, asked, conn, ping, load, board, held>>

\* The wall goes up; the power commands then wait for the board to stop.
Accepted(r) ==
    /\ run[r].ans = "accepted"
    /\ Show(run[r].op)
    /\ held' = (held \/ (conn /\ ping.failed = 0))
    /\ run' = IF run[r].op = "update" THEN [run EXCEPT ![r] = Idle]
              ELSE [run EXCEPT ![r].at = "down", ![r].ans = "none"]
    /\ UNCHANGED <<asked, conn, ping, load, board, used>>

Rejected(r) ==
    /\ run[r].ans = "rejected"
    /\ run' = [run EXCEPT ![r] = Idle]
    /\ UNCHANGED <<wall, asked, conn, ping, load, board, held, used>>

\* Mutants of Consecutive: one answer is enough, and one too many is asked for.
ConsecutiveOne(r) == 1
ConsecutiveThree(r) == 3

\* pollHealth: checks in a row that must agree.
Consecutive(r) == IF run[r].op = "restart" THEN 1 ELSE 2

\* The down poll is over, with or without a result: a restart polls for the board to
\* come back, the others show their last message.
AfterDown(r) ==
    IF run[r].op = "restart"
    THEN run' = [run EXCEPT ![r].at = "up", ![r].streak = 0] /\ UNCHANGED wall
    ELSE /\ run' = [run EXCEPT ![r] = Idle]
         /\ Show(IF run[r].op = "shutdown" THEN "off" ELSE "fresh")

PollDown(r) ==
    /\ run[r].at = "down"
    /\ \E reachable \in BOOLEAN :
         /\ reachable => board.up
         /\ IF board.up /\ ~reachable THEN MayFail /\ Failed ELSE UNCHANGED used
         /\ IF ~reachable /\ run[r].streak + 1 >= Consecutive(r)
            THEN AfterDown(r)
            ELSE /\ run' = [run EXCEPT ![r].streak = IF reachable THEN 0 ELSE @ + 1]
                 /\ UNCHANGED wall
    /\ UNCHANGED <<asked, conn, ping, load, board, held>>

DownTimesOut(r) ==
    /\ run[r].at = "down"
    /\ AfterDown(r)
    /\ UNCHANGED <<asked, conn, ping, load, board, held, used>>

\* The board answers again: the page reloads itself.
PollUp(r) ==
    /\ run[r].at = "up" /\ board.up
    /\ LoadPage
    /\ UNCHANGED <<wall, board, used>>

\* It never came back in time: the wall stays.
UpTimesOut(r) ==
    /\ run[r].at = "up"
    /\ run' = [run EXCEPT ![r] = Idle]
    /\ UNCHANGED <<wall, asked, conn, ping, load, board, held, used>>

ThunkStep(r) ==
    \/ ClearSettles(r) \/ Obeys(r) \/ Refuses(r) \/ CommandLost(r)
    \/ Accepted(r) \/ Rejected(r)
    \/ PollDown(r) \/ DownTimesOut(r) \/ PollUp(r) \/ UpTimesOut(r)

-----------------------------------------------------------------------------
(* The frame                                                               *)

BoardDrops ==
    /\ board.up /\ board.todo # "none"
    /\ board' = [board EXCEPT !.up = FALSE]
    /\ run' = [r \in Runs |-> IF run[r] = Idle THEN Idle ELSE [run[r] EXCEPT !.fell = TRUE]]
    /\ UNCHANGED <<wall, asked, conn, ping, load, held, used>>

\* A restart or an update brings it back by itself, the others once somebody plugs it
\* in, or sets it up again.
BoardReturns ==
    /\ ~board.up
    /\ board' = [up |-> TRUE, todo |-> "none"]
    /\ held' = FALSE
    /\ UNCHANGED <<run, wall, asked, conn, ping, load, used>>

Next ==
    \/ Ready \/ Reload \/ Deadline
    \/ Ping \/ PingAnswer \/ PingFails \/ \E a \in {"running", "failed"} : PingLands(a)
    \/ AskUpdate \/ CancelUpdate
    \/ \E r \in Runs : ThunkStep(r) \/ \E o \in Commands : Confirm(r, o)
    \/ BoardDrops \/ BoardReturns

Spec == Init /\ [][Next]_vars

\* Callbacks run, intervals fire, requests end and time passes; a command accepted by
\* the board is carried out, and a restart ends.
FairSpec ==
    /\ Spec
    /\ WF_vars(Ready) /\ WF_vars(Deadline)
    /\ WF_vars(Ping) /\ WF_vars(PingAnswer)
    /\ \A a \in {"running", "failed"} : WF_vars(PingLands(a))
    /\ \A r \in Runs : WF_vars(ThunkStep(r))
    /\ WF_vars(BoardDrops)
    /\ WF_vars(board.todo \in {"restart", "update"} /\ BoardReturns)

-----------------------------------------------------------------------------
(* Properties                                                              *)

\* The poll for the board to stop is not fooled: when it ends with a result, the
\* board did stop since the command was confirmed, unless as many requests failed by
\* themselves as the poll wants in a row (one for a restart, two for the messages
\* that tell the user the frame is off or reset).
DownPollTrusted ==
    [][\A r \in Runs :
         run[r].at = "down" /\ run'[r].at # "down" /\ PollDown(r)
           => run[r].fell \/ used'.fails >= (IF run[r].op = "restart" THEN 1 ELSE 2)]_vars

\* "It stays up while the board reboots and doesn't vanish the moment an update starts":
\* from the moment a connected page puts the wall up no health check takes it down, not
\* one sent or answered before the reboot either, until the board has come back (held).
\* The page gives this up when it is loaded again, when a check of a board that is there
\* fails, and when a failure overtakes an answer given earlier.
WallHeld ==
    [][wall' # wall /\ PingLands("running") => ~held]_vars

\* "Never let the wall stick": it goes away, also when a thunk shows a second message,
\* when the board never comes back and when the page is loaded again.
WallEnds == WallUp ~> ~WallUp \/ load = "gone"

\* Health checks that overtake each other leave the connection wrong for a while
\* only: in the end the pages are enabled exactly when the board is there.
ConnectionConverges == <>[](load = "gone" \/ conn = board.up)

=============================================================================

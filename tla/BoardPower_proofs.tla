-------------------------- MODULE BoardPower_proofs --------------------------
(***************************************************************************)
(* Theorems about BoardPower for any number of overlapping thunks, health  *)
(* checks, dialogs, reloads and faults.                                    *)
(***************************************************************************)
EXTENDS BoardPower, TLAPS

(* The inductive invariant, in named parts.                                *)

\* The provider never has more than MaxPings health checks under way.
PingsBounded == ping.sent + ping.running + ping.failed =< MaxPings

\* A page that was not served runs nothing.
GoneIsQuiet == load = "gone" => ping.sent = 0

\* While the board is away, every thunk under way has seen it fall; until then the
\* checks that found it away are faults.
FallsSeen ==
    \A r \in Runs :
        /\ run[r].at # "idle" /\ ~board.up => run[r].fell
        /\ ~run[r].fell => run[r].streak =< used.fails

\* While the wall is held the connection is lost only to a board that is away, and then no
\* answer given before it went is left to be taken for a reconnect.
HeldThrough ==
    held =>
        /\ ping.failed > 0 => ~board.up
        /\ ~conn => ~board.up /\ ping.running = 0

\* A thunk that is not under way has no locals.
IdleIsIdle ==
    \A r \in Runs : IF run[r].at = "idle" THEN run[r] = Idle ELSE run[r].op \in Commands

IInv == TypeOK /\ PingsBounded /\ GoneIsQuiet /\ FallsSeen /\ IdleIsIdle /\ HeldThrough

-----------------------------------------------------------------------------
(* Lemmas about records.                                                    *)

\* The fields of a thunk's state.
LEMMA RunShape ==
    ASSUME NEW x \in RunStates
    PROVE  /\ x.op \in Commands \cup {"none"}
           /\ x.at \in {"idle", "clear", "cmd", "down", "up"}
           /\ x.ans \in {"none", "accepted", "rejected"}
           /\ x.streak \in 0..1 /\ x.fell \in BOOLEAN
BY DEF RunStates

\* The steps of a thunk change one or two fields and leave the others.
LEMMA AtUpdate ==
    ASSUME NEW x \in RunStates, NEW a \in {"idle", "clear", "cmd", "down", "up"}
    PROVE  LET y == [x EXCEPT !.at = a]
           IN /\ y \in RunStates /\ y.at = a
              /\ y.op = x.op /\ y.fell = x.fell /\ y.streak = x.streak
BY DEF RunStates

\* A command is answered.
LEMMA AnsUpdate ==
    ASSUME NEW x \in RunStates, NEW a \in {"none", "accepted", "rejected"}
    PROVE  LET y == [x EXCEPT !.ans = a]
           IN /\ y \in RunStates /\ y.at = x.at
              /\ y.op = x.op /\ y.fell = x.fell /\ y.streak = x.streak
BY DEF RunStates

\* An accepted command: the thunk polls for the board to stop.
LEMMA AcceptUpdate ==
    ASSUME NEW x \in RunStates
    PROVE  LET y == [x EXCEPT !.at = "down", !.ans = "none"]
           IN /\ y \in RunStates /\ y.at = "down"
              /\ y.op = x.op /\ y.fell = x.fell /\ y.streak = x.streak
BY DEF RunStates

\* A health check of the poll counts.
LEMMA StreakUpdate ==
    ASSUME NEW x \in RunStates, NEW n \in 0..1
    PROVE  LET y == [x EXCEPT !.streak = n]
           IN /\ y \in RunStates /\ y.at = x.at
              /\ y.op = x.op /\ y.fell = x.fell /\ y.streak = n
BY DEF RunStates

\* The board was seen to stop: the thunk polls for its return.
LEMMA UpUpdate ==
    ASSUME NEW x \in RunStates
    PROVE  LET y == [x EXCEPT !.at = "up", !.streak = 0]
           IN /\ y \in RunStates /\ y.at = "up"
              /\ y.op = x.op /\ y.fell = x.fell /\ y.streak = 0
<1>1. 0 \in 0..1
  OBVIOUS
<1> QED
  BY <1>1 DEF RunStates

\* The board stops while the thunk is under way.
LEMMA FellUpdate ==
    ASSUME NEW x \in RunStates
    PROVE  LET y == [x EXCEPT !.fell = TRUE]
           IN y \in RunStates /\ y.fell /\ y.at = x.at /\ y.op = x.op
BY DEF RunStates

\* A thunk that has not been started.
LEMMA IdleShape ==
    /\ Idle \in RunStates /\ Idle.at = "idle" /\ Idle.ans = "none"
    /\ Idle.streak = 0 /\ Idle.fell = FALSE
BY DEF Idle, RunStates

\* Commands confirmed, reloads and faults, one by one.
LEMMA UsedShape ==
    ASSUME TypeOK
    PROVE  /\ used.commands \in 0..MaxCommands /\ used.loads \in 0..MaxLoads
           /\ used.fails \in 0..MaxFails
BY DEF TypeOK

\* One more fault stays within the bound.
LEMMA FaultCount ==
    ASSUME TypeOK, MayFail, Failed
    PROVE  /\ used' \in [commands : 0..MaxCommands, loads : 0..MaxLoads, fails : 0..MaxFails]
           /\ used'.fails = used.fails + 1
<1>1. used.fails + 1 \in 0..MaxFails
  BY UsedShape, PowerAssumption DEF MayFail
<1> QED
  BY <1>1 DEF TypeOK, Failed

\* The counts of the health checks.
LEMMA PingShape ==
    ASSUME TypeOK
    PROVE  /\ ping["sent"] \in Nat /\ ping["running"] \in Nat /\ ping["failed"] \in Nat
           /\ ping.sent = ping["sent"] /\ ping.running = ping["running"]
           /\ ping.failed = ping["failed"]
BY PowerAssumption DEF TypeOK

\* No wall.
LEMMA NoWallShape ==
    /\ NoWall \in [msg : Messages \cup {"none"}, hideAfter : BOOLEAN]
    /\ NoWall.msg = "none"
BY DEF NoWall

\* Walls that are up.
LEMMA WallShape ==
    ASSUME NEW m \in Messages, Show(m)
    PROVE  wall' \in [msg : Messages \cup {"none"}, hideAfter : BOOLEAN] /\ WallUp'
BY DEF Show, WallUp, Messages, AllCommands

-----------------------------------------------------------------------------
(* Steps.                                                                   *)

\* A thunk under way takes a step: it keeps what it has seen of the board and counts
\* no check twice, and at most puts a wall up.
LEMMA RunStep ==
    ASSUME IInv, NEW r \in Runs, run[r].at # "idle",
           NEW y \in RunStates, run' = [run EXCEPT ![r] = y],
           y = Idle \/ (y.at # "idle" /\ y.op = run[r].op /\ y.fell = run[r].fell),
           ~y.fell => y.streak =< used'.fails,
           UNCHANGED <<asked, conn, ping, load>>,
           held' \in BOOLEAN, held' => held \/ (conn /\ ping.failed = 0),
           board' \in [up : BOOLEAN, todo : Commands \cup {"none"}], board'.up = board.up,
           wall' \in [msg : Messages \cup {"none"}, hideAfter : BOOLEAN],
           used' \in [commands : 0..MaxCommands, loads : 0..MaxLoads, fails : 0..MaxFails],
           used'.fails >= used.fails
    PROVE  IInv'
<1> USE DEF IInv
<1>1. run \in [Runs -> RunStates]
  BY DEF TypeOK
<1>2. /\ run' \in [Runs -> RunStates] /\ run'[r] = y
      /\ \A q \in Runs \ {r} : run'[q] = run[q]
  BY <1>1
<1>3. TypeOK'
  BY <1>2 DEF TypeOK
<1>4. PingsBounded' /\ GoneIsQuiet'
  BY DEF PingsBounded, GoneIsQuiet
<1>5. FallsSeen'
  <2>1. \A q \in Runs : run[q].streak \in Nat
    BY <1>1, RunShape
  <2>2. used.fails \in Nat /\ used'.fails \in Nat
    BY PowerAssumption DEF TypeOK
  <2> QED
    BY <1>2, <2>1, <2>2, IdleShape DEF FallsSeen
<1>6. IdleIsIdle'
  BY <1>2, IdleShape DEF IdleIsIdle
<1>7. HeldThrough'
  BY PingShape DEF HeldThrough
<1> QED
  BY <1>3, <1>4, <1>5, <1>6, <1>7

\* A thunk under way keeps the invariant, whatever step it takes; only PollUp leaves
\* its page.
LEMMA ThunkKeeps ==
    ASSUME IInv, NEW r \in Runs, ThunkStep(r), ~PollUp(r)
    PROVE  IInv'
<1> DEFINE x == run[r]
<1>1. /\ run \in [Runs -> RunStates] /\ x \in RunStates
      /\ x.streak \in 0..1 /\ used.fails \in Nat
      /\ ~x.fell => x.streak =< used.fails
  BY RunShape, UsedShape, PowerAssumption DEF IInv, TypeOK, FallsSeen
<1>2. /\ board \in [up : BOOLEAN, todo : Commands \cup {"none"}]
      /\ wall \in [msg : Messages \cup {"none"}, hideAfter : BOOLEAN]
      /\ used \in [commands : 0..MaxCommands, loads : 0..MaxLoads, fails : 0..MaxFails]
      /\ held \in BOOLEAN
  BY DEF IInv, TypeOK
<1>3. /\ x.ans # "none" => x.at # "idle"
      /\ x.at # "idle" => x.op \in Commands
  BY IdleShape DEF IInv, IdleIsIdle
<1>4. ASSUME NEW y \in RunStates, run' = [run EXCEPT ![r] = y], x.at # "idle",
             y = Idle \/ (y.at # "idle" /\ y.op = x.op /\ y.fell = x.fell /\ y.streak = x.streak),
             UNCHANGED <<asked, conn, ping, load>>,
             held' \in BOOLEAN, held' => held \/ (conn /\ ping.failed = 0),
             board' \in [up : BOOLEAN, todo : Commands \cup {"none"}], board'.up = board.up,
             wall' \in [msg : Messages \cup {"none"}, hideAfter : BOOLEAN],
             used' \in [commands : 0..MaxCommands, loads : 0..MaxLoads, fails : 0..MaxFails],
             used'.fails \in Nat, used'.fails >= used.fails
      PROVE  IInv'
  <2>1. ~y.fell => y.streak =< used'.fails
    BY <1>1, <1>4, IdleShape
  <2> QED
    BY <1>4, <2>1, RunStep
<1>5. CASE ClearSettles(r)
  <2> DEFINE y == [x EXCEPT !.at = "cmd"]
  <2>1. /\ y \in RunStates /\ y.at = "cmd"
        /\ y.op = x.op /\ y.fell = x.fell /\ y.streak = x.streak
    BY <1>1, AtUpdate
  <2>2. /\ run' = [run EXCEPT ![r] = y] /\ x.at # "idle"
        /\ UNCHANGED <<wall, asked, conn, ping, load, board, held, used>>
    BY <1>5 DEF ClearSettles
  <2>3. /\ board' \in [up : BOOLEAN, todo : Commands \cup {"none"}] /\ board'.up = board.up
        /\ wall' \in [msg : Messages \cup {"none"}, hideAfter : BOOLEAN]
        /\ used' \in [commands : 0..MaxCommands, loads : 0..MaxLoads, fails : 0..MaxFails]
        /\ used'.fails \in Nat /\ used'.fails >= used.fails
    BY <1>1, <1>2, <2>2
  <2> HIDE DEF x, y
  <2> QED
    BY <1>2, <1>4, <2>1, <2>2, <2>3
<1>6. CASE Obeys(r) \/ Refuses(r) \/ CommandLost(r)
  <2>1. PICK a \in {"accepted", "rejected"} : run' = [run EXCEPT ![r].ans = a]
    BY <1>6 DEF Obeys, Refuses, CommandLost
  <2> DEFINE y == [x EXCEPT !.ans = a]
  <2>2. /\ y \in RunStates /\ y.at = x.at
        /\ y.op = x.op /\ y.fell = x.fell /\ y.streak = x.streak
    <3>1. x \in RunStates /\ a \in {"none", "accepted", "rejected"}
      BY <1>1
    <3> HIDE DEF x
    <3> QED
      BY <3>1, AnsUpdate
  <2>3. run' = [run EXCEPT ![r] = y]
    BY <2>1
  <2>4. x.at # "idle" /\ UNCHANGED <<asked, conn, ping, load, held, wall>>
    BY <1>6 DEF Obeys, Refuses, CommandLost
  <2>5. board' \in [up : BOOLEAN, todo : Commands \cup {"none"}] /\ board'.up = board.up
    BY <1>2, <1>3, <1>6 DEF Obeys, Refuses, CommandLost
  <2>6. /\ used' \in [commands : 0..MaxCommands, loads : 0..MaxLoads, fails : 0..MaxFails]
        /\ used'.fails \in Nat /\ used'.fails >= used.fails
    <3>1. CASE used' = used
      BY <1>1, <1>2, <3>1
    <3>2. CASE MayFail /\ Failed
      BY <1>1, <3>2, FaultCount DEF IInv
    <3> QED
      BY <1>6, <3>1, <3>2 DEF Obeys, Refuses, CommandLost
  <2> HIDE DEF x, y
  <2> QED
    BY <1>4, <2>2, <2>3, <2>4, <2>5, <2>6, <1>2
<1>7. CASE Accepted(r)
  <2>1. x.at # "idle" /\ x.op \in Messages
    BY <1>3, <1>7, PowerAssumption DEF Accepted, Messages
  <2>2. wall' \in [msg : Messages \cup {"none"}, hideAfter : BOOLEAN]
    BY <1>7, <2>1, WallShape DEF Accepted
  <2>3. /\ UNCHANGED <<asked, conn, ping, load, board, used>>
        /\ held' \in BOOLEAN /\ (held' => held \/ (conn /\ ping.failed = 0))
    <3>1. conn \in BOOLEAN
      BY DEF IInv, TypeOK
    <3> QED
      BY <1>2, <1>7, <3>1 DEF Accepted
  <2>4. /\ board' \in [up : BOOLEAN, todo : Commands \cup {"none"}] /\ board'.up = board.up
        /\ used' \in [commands : 0..MaxCommands, loads : 0..MaxLoads, fails : 0..MaxFails]
        /\ used'.fails \in Nat /\ used'.fails >= used.fails
    BY <1>1, <1>2, <2>3
  <2>5. CASE x.op = "update"
    <3>1. run' = [run EXCEPT ![r] = Idle]
      BY <1>7, <2>5 DEF Accepted
    <3> HIDE DEF x
    <3> QED
      BY <1>4, <2>1, <2>2, <2>3, <2>4, <3>1, IdleShape
  <2>6. CASE x.op # "update"
    <3> DEFINE y == [x EXCEPT !.at = "down", !.ans = "none"]
    <3>1. /\ y \in RunStates /\ y.at = "down"
          /\ y.op = x.op /\ y.fell = x.fell /\ y.streak = x.streak
      BY <1>1, AcceptUpdate
    <3>2. run' = [run EXCEPT ![r] = y]
      BY <1>1, <1>7, <2>6 DEF Accepted
    <3> HIDE DEF x, y
    <3> QED
      BY <1>4, <2>1, <2>2, <2>3, <2>4, <3>1, <3>2
  <2> QED
    BY <2>5, <2>6
<1>8. CASE Rejected(r) \/ UpTimesOut(r)
  <2>1. /\ run' = [run EXCEPT ![r] = Idle] /\ x.at # "idle"
        /\ UNCHANGED <<wall, asked, conn, ping, load, board, held, used>>
    BY <1>3, <1>8 DEF Rejected, UpTimesOut
  <2>2. /\ board' \in [up : BOOLEAN, todo : Commands \cup {"none"}] /\ board'.up = board.up
        /\ wall' \in [msg : Messages \cup {"none"}, hideAfter : BOOLEAN]
        /\ used' \in [commands : 0..MaxCommands, loads : 0..MaxLoads, fails : 0..MaxFails]
        /\ used'.fails \in Nat /\ used'.fails >= used.fails
    BY <1>1, <1>2, <2>1
  <2> HIDE DEF x
  <2> QED
    BY <1>2, <1>4, <2>1, <2>2, IdleShape
<1>9. ASSUME x.at = "down", AfterDown(r),
             UNCHANGED <<asked, conn, ping, load, board, held>>,
             used' \in [commands : 0..MaxCommands, loads : 0..MaxLoads, fails : 0..MaxFails],
             used'.fails \in Nat, used'.fails >= used.fails
      PROVE  IInv'
  <2>1. CASE x.op = "restart"
    <3> DEFINE y == [x EXCEPT !.at = "up", !.streak = 0]
    <3>1. /\ y \in RunStates /\ y.at = "up"
          /\ y.op = x.op /\ y.fell = x.fell /\ y.streak = 0
      BY <1>1, UpUpdate
    <3>2. run' = [run EXCEPT ![r] = y] /\ wall' = wall
      BY <1>1, <1>9, <2>1 DEF AfterDown
    <3>3. ~y.fell => y.streak =< used'.fails
      BY <1>9, <3>1
    <3> HIDE DEF y
    <3> QED
      BY <1>2, <1>9, <3>1, <3>2, <3>3, RunStep
  <2>2. CASE x.op # "restart"
    <3>1. "off" \in Messages /\ "fresh" \in Messages
      BY DEF Messages
    <3>2. /\ run' = [run EXCEPT ![r] = Idle]
          /\ wall' \in [msg : Messages \cup {"none"}, hideAfter : BOOLEAN]
      BY <1>9, <2>2, <3>1, WallShape DEF AfterDown
    <3> HIDE DEF x
    <3> QED
      BY <1>2, <1>4, <1>9, <3>2, IdleShape
  <2> QED
    BY <2>1, <2>2
<1>10. CASE DownTimesOut(r)
  <2>1. x.at = "down" /\ AfterDown(r) /\ UNCHANGED <<asked, conn, ping, load, board, held, used>>
    BY <1>10 DEF DownTimesOut
  <2> QED
    BY <1>1, <1>2, <1>9, <2>1
<1>11. CASE PollDown(r)
  <2>1. PICK reachable \in BOOLEAN :
           /\ reachable => board.up
           /\ IF board.up /\ ~reachable THEN MayFail /\ Failed ELSE UNCHANGED used
           /\ IF ~reachable /\ x.streak + 1 >= Consecutive(r)
              THEN AfterDown(r)
              ELSE /\ run' = [run EXCEPT ![r].streak = IF reachable THEN 0 ELSE @ + 1]
                   /\ UNCHANGED wall
    BY <1>11 DEF PollDown
  <2>2. x.at = "down" /\ UNCHANGED <<asked, conn, ping, load, board, held>>
    BY <1>11 DEF PollDown
  <2>3. /\ used' \in [commands : 0..MaxCommands, loads : 0..MaxLoads, fails : 0..MaxFails]
        /\ used'.fails \in Nat /\ used'.fails >= used.fails
        /\ board.up /\ ~reachable => used'.fails = used.fails + 1
    <3>1. CASE board.up /\ ~reachable
      BY <1>1, <2>1, <3>1, FaultCount DEF IInv
    <3>2. CASE ~(board.up /\ ~reachable)
      BY <1>1, <1>2, <2>1, <3>2
    <3> QED
      BY <3>1, <3>2
  <2>4. CASE ~reachable /\ x.streak + 1 >= Consecutive(r)
    BY <1>9, <2>1, <2>2, <2>3, <2>4
  <2>5. CASE ~(~reachable /\ x.streak + 1 >= Consecutive(r))
    <3> DEFINE n == IF reachable THEN 0 ELSE x.streak + 1
               y == [x EXCEPT !.streak = n]
    <3>1. n \in 0..1 /\ (~reachable => n = x.streak + 1) /\ (reachable => n = 0)
      BY <1>1, <2>5 DEF Consecutive
    <3>2. run' = [run EXCEPT ![r] = y] /\ wall' = wall
      BY <1>1, <2>1, <2>5
    <3> HIDE DEF n
    <3>3. /\ y \in RunStates /\ y.at = x.at
          /\ y.op = x.op /\ y.fell = x.fell /\ y.streak = n
      BY <1>1, <3>1, StreakUpdate
    <3>4. ~x.fell => board.up
      BY <2>2 DEF IInv, FallsSeen
    <3>5. ~y.fell => y.streak =< used'.fails
      BY <1>1, <2>3, <3>1, <3>3, <3>4
    <3> HIDE DEF y
    <3> QED
      BY <1>2, <2>2, <2>3, <3>2, <3>3, <3>5, RunStep
  <2> QED
    BY <2>4, <2>5
<1> QED
  BY <1>5, <1>6, <1>7, <1>8, <1>10, <1>11 DEF ThunkStep

\* A page load ends every thunk and forgets the connection, and the wall is not held.
LEMMA LoadKeeps ==
    ASSUME IInv, LoadPage, UNCHANGED <<wall, board>>,
           used' \in [commands : 0..MaxCommands, loads : 0..MaxLoads, fails : 0..MaxFails]
    PROVE  IInv'
<1> USE DEF IInv, LoadPage
<1>1. \A r \in Runs : run'[r] = Idle
  OBVIOUS
<1>2. /\ ping' \in [{"sent", "running", "failed"} -> 0..MaxPings]
      /\ ping'.sent = 0 /\ ping'.running = 0 /\ ping'.failed = 0
  BY PowerAssumption DEF NoPing
<1>3. TypeOK'
  <2>1. run' \in [Runs -> RunStates]
    BY IdleShape
  <2> QED
    BY <1>2, <2>1 DEF TypeOK
<1>4. PingsBounded' /\ GoneIsQuiet'
  BY <1>2, PowerAssumption DEF PingsBounded, GoneIsQuiet
<1>5. FallsSeen' /\ IdleIsIdle'
  <2>1. used'.fails \in Nat
    BY PowerAssumption
  <2> QED
    BY <1>1, <2>1, IdleShape DEF FallsSeen, IdleIsIdle
<1>6. HeldThrough'
  BY DEF HeldThrough
<1> QED
  BY <1>3, <1>4, <1>5, <1>6

\* The page, the wall and the update dialog: the connection does not change.
LEMMA PageKeeps ==
    ASSUME IInv, Ready \/ Deadline \/ AskUpdate \/ CancelUpdate
    PROVE  IInv'
<1> USE DEF IInv
<1>1. /\ UNCHANGED <<run, conn, ping, board, held, used>>
      /\ load' \in {"gone", "loading", "ready"} /\ (load' = "gone" <=> load = "gone")
      /\ asked' \in BOOLEAN
      /\ wall' \in [msg : Messages \cup {"none"}, hideAfter : BOOLEAN]
  <2>1. /\ load \in {"gone", "loading", "ready"} /\ asked \in BOOLEAN
        /\ wall \in [msg : Messages \cup {"none"}, hideAfter : BOOLEAN]
    BY DEF TypeOK
  <2>2. CASE Ready
    BY <2>1, <2>2 DEF Ready
  <2>3. CASE Deadline
    BY <2>1, <2>3, NoWallShape DEF Deadline
  <2>4. CASE AskUpdate
    BY <2>1, <2>4 DEF AskUpdate
  <2>5. CASE CancelUpdate
    BY <2>1, <2>5 DEF CancelUpdate
  <2> QED
    BY <2>2, <2>3, <2>4, <2>5
<1>2. TypeOK'
  BY <1>1 DEF TypeOK
<1>3. PingsBounded' /\ GoneIsQuiet' /\ FallsSeen' /\ IdleIsIdle'
  BY <1>1 DEF PingsBounded, GoneIsQuiet, FallsSeen, IdleIsIdle
<1>4. HeldThrough'
  BY <1>1 DEF HeldThrough
<1> QED
  BY <1>2, <1>3, <1>4

\* Health checks: while the board is away none is answered any more, and a failure that
\* overtakes an answer gives the wall up.
LEMMA PingKeeps ==
    ASSUME IInv,
           \/ Ping \/ PingAnswer \/ PingFails
           \/ \E a \in {"running", "failed"} : PingLands(a)
    PROVE  IInv'
<1> USE DEF IInv
<1>1. /\ UNCHANGED <<run, asked, load, board>>
      /\ wall' \in [msg : Messages \cup {"none"}, hideAfter : BOOLEAN]
  <2>1. UNCHANGED <<run, asked, load, board>> /\ wall' \in {wall, NoWall}
    BY DEF Ping, PingAnswer, PingFails, PingLands
  <2> QED
    BY <2>1, NoWallShape DEF TypeOK
<1>2. /\ ping \in [{"sent", "running", "failed"} -> 0..MaxPings]
      /\ ping["sent"] \in Nat /\ ping["running"] \in Nat /\ ping["failed"] \in Nat
      /\ ping["sent"] + ping["running"] + ping["failed"] =< MaxPings
      /\ MaxPings \in Nat
  BY PingShape, PowerAssumption DEF TypeOK, PingsBounded
<1>3. /\ ping' \in [{"sent", "running", "failed"} -> 0..MaxPings]
      /\ ping'["sent"] + ping'["running"] + ping'["failed"] =< MaxPings
      /\ load = "gone" => ping'["sent"] = 0
  <2>1. CASE Ping
    BY <1>2, <2>1 DEF Ping
  <2>2. CASE Answered("running")
    BY <1>2, <2>2 DEF Answered, GoneIsQuiet
  <2>3. CASE Answered("failed")
    BY <1>2, <2>3 DEF Answered, GoneIsQuiet
  <2>4. ASSUME NEW a \in {"running", "failed"}, PingLands(a)
        PROVE  /\ ping' \in [{"sent", "running", "failed"} -> 0..MaxPings]
               /\ ping'["sent"] + ping'["running"] + ping'["failed"] =< MaxPings
               /\ load = "gone" => ping'["sent"] = 0
    <3>1. CASE a = "running"
      BY <1>2, <2>4, <3>1 DEF PingLands, GoneIsQuiet
    <3>2. CASE a = "failed"
      BY <1>2, <2>4, <3>2 DEF PingLands, GoneIsQuiet
    <3> QED
      BY <3>1, <3>2
  <2> QED
    BY <2>1, <2>2, <2>3, <2>4 DEF PingAnswer, PingFails
<1>4. /\ used' \in [commands : 0..MaxCommands, loads : 0..MaxLoads, fails : 0..MaxFails]
      /\ used'.fails \in Nat /\ used.fails \in Nat /\ used'.fails >= used.fails
  <2>1. used.fails \in Nat
    BY UsedShape, PowerAssumption
  <2>2. CASE used' = used
    BY <2>1, <2>2 DEF TypeOK
  <2>3. CASE MayFail /\ Failed
    BY <2>1, <2>3, FaultCount
  <2> QED
    BY <2>2, <2>3 DEF Ping, PingAnswer, PingFails, PingLands
<1>5. conn' \in BOOLEAN /\ held' \in BOOLEAN
  BY DEF Ping, PingAnswer, PingFails, PingLands, TypeOK
<1>6. TypeOK'
  BY <1>1, <1>3, <1>4, <1>5 DEF TypeOK
<1>7. PingsBounded' /\ GoneIsQuiet'
  BY <1>1, <1>3 DEF PingsBounded, GoneIsQuiet
<1>8. FallsSeen' /\ IdleIsIdle'
  <2>1. \A q \in Runs : run[q].streak \in Nat
    BY RunShape DEF TypeOK
  <2> QED
    BY <1>1, <1>4, <2>1 DEF FallsSeen, IdleIsIdle
<1>9. HeldThrough'
  <2> SUFFICES ASSUME held'
               PROVE  /\ ping'["failed"] > 0 => ~board.up
                      /\ ~conn' => ~board.up /\ ping'["running"] = 0
    BY <1>1 DEF HeldThrough
  <2>1. held /\ ~PingFails
    BY DEF Ping, PingAnswer, PingFails, PingLands
  <2>2. /\ ping["failed"] > 0 => ~board.up
        /\ ~conn => ~board.up /\ ping["running"] = 0
    BY <2>1 DEF HeldThrough
  <2>3. CASE Ping
    BY <1>2, <2>2, <2>3 DEF Ping
  <2>4. CASE PingAnswer
    <3>1. conn' = conn
      BY <2>4 DEF PingAnswer
    <3>2. CASE board.up
      BY <1>2, <2>2, <2>4, <3>1, <3>2 DEF PingAnswer, Answered
    <3>3. CASE ~board.up
      BY <1>2, <2>2, <2>4, <3>1, <3>3 DEF PingAnswer, Answered
    <3> QED
      BY <3>2, <3>3
  <2>5. CASE PingLands("running")
    <3>1. conn' = TRUE /\ ping'["failed"] = ping["failed"]
      BY <1>2, <2>5 DEF PingLands
    <3> QED
      BY <2>2, <3>1
  <2>6. CASE PingLands("failed")
    <3>1. ping["failed"] > 0 /\ ~(ping["running"] > 0) /\ ping'["running"] = ping["running"]
      BY <1>2, <2>6 DEF PingLands, Overtakes
    <3> QED
      BY <1>2, <2>2, <3>1
  <2> QED
    BY <2>1, <2>3, <2>4, <2>5, <2>6
<1> QED
  BY <1>6, <1>7, <1>8, <1>9

\* Confirming a dialog: the thunk starts with nothing seen and nothing counted.
LEMMA ConfirmKeeps ==
    ASSUME IInv, NEW r \in Runs, NEW o \in Commands, Confirm(r, o)
    PROVE  IInv'
<1> DEFINE y == [Idle EXCEPT !.op = o, !.fell = ~board.up,
                             !.at = IF o = "shutdown" THEN "clear" ELSE "cmd"]
<1> USE DEF IInv
<1>1. /\ y \in RunStates /\ y.op = o /\ (~board.up => y.fell)
      /\ y.at \in {"clear", "cmd"} /\ y.streak = 0
  <2>1. board.up \in BOOLEAN /\ 0 \in 0..1
    BY DEF TypeOK
  <2> QED
    BY <2>1 DEF Idle, RunStates
<1>2. run' = [run EXCEPT ![r] = y]
  BY DEF Confirm
<1>3. /\ run' \in [Runs -> RunStates] /\ run'[r] = y
      /\ \A q \in Runs \ {r} : run'[q] = run[q]
  BY <1>1, <1>2 DEF TypeOK
<1> HIDE DEF y
<1>4. UNCHANGED <<wall, conn, ping, load, board, held>>
  BY DEF Confirm
<1>5. /\ used' \in [commands : 0..MaxCommands, loads : 0..MaxLoads, fails : 0..MaxFails]
      /\ used'.fails = used.fails /\ used.fails \in Nat
  <2>1. used.commands + 1 \in 0..MaxCommands /\ used.fails \in Nat
    BY UsedShape, PowerAssumption DEF Confirm
  <2> QED
    BY <2>1 DEF Confirm, TypeOK
<1>6. asked' \in BOOLEAN
  BY DEF Confirm, TypeOK
<1>8. TypeOK'
  BY <1>3, <1>4, <1>5, <1>6 DEF TypeOK
<1>9. PingsBounded' /\ GoneIsQuiet'
  BY <1>4 DEF PingsBounded, GoneIsQuiet
<1>10. FallsSeen' /\ IdleIsIdle'
  <2>1. y.streak =< used'.fails /\ y.at # "idle" /\ y.op \in Commands
    BY <1>1, <1>5
  <2> QED
    BY <1>1, <1>3, <1>4, <1>5, <2>1 DEF FallsSeen, IdleIsIdle
<1>11. HeldThrough'
  BY <1>4 DEF HeldThrough
<1> QED
  BY <1>8, <1>9, <1>10, <1>11

\* The board goes away, which every thunk under way then knows, and comes back.
LEMMA BoardKeeps ==
    ASSUME IInv, BoardDrops \/ BoardReturns
    PROVE  IInv'
<1> USE DEF IInv
<1>1. CASE BoardDrops
  <2>1. \A r \in Runs : /\ run[r] = Idle => run'[r] = Idle
                        /\ run[r] # Idle => run'[r] = [run[r] EXCEPT !.fell = TRUE]
    BY <1>1 DEF BoardDrops
  <2>2. \A r \in Runs : [run[r] EXCEPT !.fell = TRUE] \in RunStates
    BY FellUpdate DEF TypeOK
  <2>3. run' \in [Runs -> RunStates]
    BY <1>1, <2>2, IdleShape DEF BoardDrops
  <2>4. \A r \in Runs : run'[r] = Idle \/ /\ run'[r].fell /\ run'[r].at = run[r].at
                                          /\ run'[r].op = run[r].op /\ run[r] # Idle
    <3> SUFFICES ASSUME NEW r \in Runs, run[r] # Idle
                 PROVE  run'[r].fell /\ run'[r].at = run[r].at /\ run'[r].op = run[r].op
      BY <2>1
    <3>1. run[r] \in RunStates /\ run'[r] = [run[r] EXCEPT !.fell = TRUE]
      BY <2>1 DEF TypeOK
    <3> QED
      BY <3>1, FellUpdate
  <2>5. board' \in [up : BOOLEAN, todo : Commands \cup {"none"}]
    BY <1>1 DEF BoardDrops, TypeOK
  <2>6. UNCHANGED <<wall, asked, conn, ping, load, held, used>>
    BY <1>1 DEF BoardDrops
  <2>10. board.up
    BY <1>1 DEF BoardDrops
  <2>7. TypeOK'
    BY <2>3, <2>5, <2>6 DEF TypeOK
  <2>8. PingsBounded' /\ GoneIsQuiet' /\ HeldThrough'
    BY <2>6, <2>10 DEF PingsBounded, GoneIsQuiet, HeldThrough
  <2>9. FallsSeen' /\ IdleIsIdle'
    <3>1. used.fails \in Nat
      BY UsedShape, PowerAssumption
    <3> QED
      BY <2>4, <2>6, <3>1, IdleShape DEF FallsSeen, IdleIsIdle
  <2> QED
    BY <2>7, <2>8, <2>9
<1>2. CASE BoardReturns
  <2>1. /\ board' \in [up : BOOLEAN, todo : Commands \cup {"none"}] /\ board'.up
        /\ UNCHANGED <<run, wall, asked, conn, ping, load, used>> /\ held' = FALSE
    BY <1>2 DEF BoardReturns
  <2>2. TypeOK'
    BY <2>1 DEF TypeOK
  <2>3. PingsBounded' /\ GoneIsQuiet' /\ FallsSeen' /\ IdleIsIdle'
    BY <2>1 DEF PingsBounded, GoneIsQuiet, FallsSeen, IdleIsIdle
  <2>4. HeldThrough'
    BY <2>1 DEF HeldThrough
  <2> QED
    BY <2>2, <2>3, <2>4
<1> QED
  BY <1>1, <1>2

-----------------------------------------------------------------------------
(* The theorems.                                                            *)

\* The first page.
LEMMA InitInv == Init => IInv
<1> SUFFICES ASSUME Init PROVE IInv
  OBVIOUS
<1> USE DEF Init
<1>1. /\ ping \in [{"sent", "running", "failed"} -> 0..MaxPings]
      /\ ping.sent = 0 /\ ping.running = 0 /\ ping.failed = 0
  BY PowerAssumption DEF NoPing
<1>2. /\ used \in [commands : 0..MaxCommands, loads : 0..MaxLoads, fails : 0..MaxFails]
      /\ used.fails = 0
  BY PowerAssumption
<1>3. run \in [Runs -> RunStates] /\ \A r \in Runs : run[r] = Idle
  BY IdleShape
<1>4. TypeOK
  BY <1>1, <1>2, <1>3, NoWallShape DEF TypeOK
<1>5. PingsBounded /\ GoneIsQuiet
  BY <1>1, PowerAssumption DEF PingsBounded, GoneIsQuiet
<1>6. FallsSeen /\ IdleIsIdle
  BY <1>2, <1>3, IdleShape DEF FallsSeen, IdleIsIdle
<1>7. HeldThrough
  BY DEF HeldThrough
<1> QED
  BY <1>4, <1>5, <1>6, <1>7 DEF IInv

\* Every step of the page, its thunks, the health checks and the board.
LEMMA NextInv == IInv /\ [Next]_vars => IInv'
<1> SUFFICES ASSUME IInv, [Next]_vars PROVE IInv'
  OBVIOUS
<1>1. CASE Reload
  <2>1. used' \in [commands : 0..MaxCommands, loads : 0..MaxLoads, fails : 0..MaxFails]
    <3>1. used.loads + 1 \in 0..MaxLoads
      BY <1>1, UsedShape, PowerAssumption DEF Reload, IInv
    <3> QED
      BY <1>1, <3>1 DEF Reload, IInv, TypeOK
  <2> QED
    BY <1>1, <2>1, LoadKeeps DEF Reload
<1>2. ASSUME NEW r \in Runs, PollUp(r) PROVE IInv'
  <2>1. used' \in [commands : 0..MaxCommands, loads : 0..MaxLoads, fails : 0..MaxFails]
    BY <1>2 DEF PollUp, IInv, TypeOK
  <2> QED
    BY <1>2, <2>1, LoadKeeps DEF PollUp
<1>3. CASE UNCHANGED vars
  BY <1>3 DEF vars, IInv, TypeOK, PingsBounded, GoneIsQuiet, FallsSeen, IdleIsIdle,
              HeldThrough
<1> QED
  BY <1>1, <1>2, <1>3, PageKeeps, PingKeeps, ThunkKeeps, ConfirmKeeps, BoardKeeps DEF Next

\* The inductive invariant holds throughout.
LEMMA Inductive == Spec => []IInv
BY InitInv, NextInv, PTL DEF Spec

\* The state of the page, of its thunks and of the board stays well typed, and the
\* provider has at most MaxPings health checks under way.
THEOREM TypeCorrect == Spec => []TypeOK
<1>1. IInv => TypeOK
  BY DEF IInv
<1> QED
  BY <1>1, Inductive, PTL

\* pollHealth is not fooled: a poll for the board to stop ends with a result only when
\* the board did stop, or when as many checks failed by themselves as it wants in a row.
THEOREM DownTrusted == Spec => DownPollTrusted
<1> DEFINE A == \A r \in Runs :
                  run[r].at = "down" /\ run'[r].at # "down" /\ PollDown(r)
                    => run[r].fell \/ used'.fails >= (IF run[r].op = "restart" THEN 1 ELSE 2)
<1>1. IInv /\ [Next]_vars => [A]_vars
  <2> SUFFICES ASSUME IInv, NEW r \in Runs,
                      run[r].at = "down", run'[r].at # "down", PollDown(r), ~run[r].fell
               PROVE  used'.fails >= (IF run[r].op = "restart" THEN 1 ELSE 2)
    OBVIOUS
  <2>1. /\ run \in [Runs -> RunStates] /\ run[r].streak \in 0..1 /\ used.fails \in Nat
        /\ run[r].streak =< used.fails /\ board.up
    BY RunShape, UsedShape, PowerAssumption DEF IInv, TypeOK, FallsSeen
  <2>2. PICK reachable \in BOOLEAN :
           /\ IF board.up /\ ~reachable THEN MayFail /\ Failed ELSE UNCHANGED used
           /\ IF ~reachable /\ run[r].streak + 1 >= Consecutive(r)
              THEN AfterDown(r)
              ELSE /\ run' = [run EXCEPT ![r].streak = IF reachable THEN 0 ELSE @ + 1]
                   /\ UNCHANGED wall
    BY DEF PollDown
  <2>3. ~reachable /\ run[r].streak + 1 >= Consecutive(r)
    <3>1. ASSUME NEW n, run' = [run EXCEPT ![r].streak = n] PROVE run'[r].at = run[r].at
      BY <2>1, <3>1 DEF RunStates
    <3> QED
      BY <2>2, <3>1
  <2>4. used'.fails = used.fails + 1
    BY <2>1, <2>2, <2>3, FaultCount DEF IInv
  <2> QED
    BY <2>1, <2>3, <2>4 DEF Consecutive
<1>2. Spec => [][A]_vars
  BY <1>1, Inductive, PTL DEF Spec
<1> QED
  BY <1>2 DEF DownPollTrusted

\* App's reconnect effect takes down no wall that is held: not when the update starts,
\* not while the board is away, whatever checks were answered before it went.
THEOREM WallStays == Spec => WallHeld
<1> DEFINE A == wall' # wall /\ PingLands("running") => ~held
<1>1. IInv /\ [Next]_vars => [A]_vars
  <2> SUFFICES ASSUME IInv, held, PingLands("running") PROVE wall' = wall
    OBVIOUS
  <2>1. ping["running"] > 0
    BY DEF PingLands
  <2>2. conn
    BY <2>1, PingShape DEF IInv, HeldThrough
  <2> QED
    BY <2>2 DEF PingLands, Reconnects
<1>2. Spec => [][A]_vars
  BY <1>1, Inductive, PTL DEF Spec
<1> QED
  BY <1>2 DEF WallHeld
=============================================================================

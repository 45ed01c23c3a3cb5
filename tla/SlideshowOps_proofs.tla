------------------------ MODULE SlideshowOps_proofs -------------------------
(***************************************************************************)
(* SlideshowOps for any number of overlapping invocations: the busy flags  *)
(* belong to running thunks, and they are a lock until a monitor outlives  *)
(* its failed clear.                                                       *)
(***************************************************************************)
EXTENDS SlideshowOps, TLAPS

-----------------------------------------------------------------------------
(* What the helpers do to a thunk                                          *)

\* The thunk is over; the others are where they were.
LEMMA EndEffect ==
    ASSUME run \in [Runs -> RunStates], loading \subseteq Runs, NEW r \in Runs, End(r)
    PROVE  /\ run' \in [Runs -> RunStates] /\ loading' \subseteq Runs
           /\ run'[r] = Idle /\ \A q \in Runs \ {r} : run'[q] = run[q]
           /\ loading' = loading \ {r}
<1>1. Idle \in RunStates
  BY DEF Idle, RunStates
<1> QED
  BY <1>1 DEF End

\* A thunk that goes on keeps its operation and what it has given up.
LEMMA GotoEffect ==
    ASSUME run \in [Runs -> RunStates], NEW r \in Runs,
           NEW a \in {"idle", "sent", "post", "poll", "wait", "clear"}, Goto(r, a)
    PROVE  /\ run' \in [Runs -> RunStates]
           /\ run'[r].op = run[r].op /\ run'[r].at = a /\ run'[r].gave = run[r].gave
           /\ \A q \in Runs \ {r} : run'[q] = run[q]
<1> DEFINE x == [run[r] EXCEPT !.at = a, !.ans = "none", !.hit = FALSE]
<1>1. run[r] \in RunStates
  OBVIOUS
<1>2. x \in RunStates /\ x.op = run[r].op /\ x.at = a /\ x.gave = run[r].gave
  BY <1>1 DEF RunStates
<1>3. run' = [run EXCEPT ![r] = x]
  BY DEF Goto
<1>4. run' \in [Runs -> RunStates] /\ run'[r] = x /\ \A q \in Runs \ {r} : run'[q] = run[q]
  BY <1>2, <1>3
<1> QED
  BY <1>2, <1>4

\* setOperationStatus writes one flag.
LEMMA SetStatusEffect ==
    ASSUME flag \in [Ops -> BOOLEAN], NEW o \in Ops, NEW on \in BOOLEAN, SetStatus(o, on)
    PROVE  /\ flag' \in [Ops -> BOOLEAN] /\ startTime' \in BOOLEAN
           /\ flag'[o] = on /\ \A u \in Ops \ {o} : flag'[u] = flag[u]
BY DEF SetStatus

\* A click starts one thunk.
LEMMA StartEffect ==
    ASSUME run \in [Runs -> RunStates], NEW r \in Runs, NEW o \in Ops, Start(r, o)
    PROVE  /\ run' \in [Runs -> RunStates]
           /\ run'[r].op = o /\ run'[r].at = "sent" /\ run'[r].gave = FALSE
           /\ \A q \in Runs \ {r} : run'[q] = run[q]
<1> DEFINE x == [run[r] EXCEPT !.op = o, !.at = "sent"]
<1>1. run[r] \in RunStates /\ run[r].gave = FALSE
  BY DEF Start, Idle
<1>2. x \in RunStates /\ x.op = o /\ x.at = "sent" /\ x.gave = FALSE
  BY <1>1 DEF RunStates
<1>3. run' = [run EXCEPT ![r] = x]
  BY DEF Start
<1>4. run' \in [Runs -> RunStates] /\ run'[r] = x /\ \A q \in Runs \ {r} : run'[q] = run[q]
  BY <1>2, <1>3
<1> QED
  BY <1>2, <1>4

\* An answer reaches one thunk and moves none.
LEMMA RespondEffect ==
    ASSUME run \in [Runs -> RunStates], board \in [active : BOOLEAN, wants : BOOLEAN],
           NEW r \in Runs, Respond(r)
    PROVE  /\ run' \in [Runs -> RunStates]
           /\ run'[r].op = run[r].op /\ run'[r].at = run[r].at /\ run'[r].gave = run[r].gave
           /\ \A q \in Runs \ {r} : run'[q] = run[q]
           /\ board' \in [active : BOOLEAN, wants : BOOLEAN]
<1>1. PICK a \in {"ok", "bad"}, done \in BOOLEAN :
        /\ run' = [run EXCEPT
               ![r].ans = a,
               ![r].was = IF run[r].op = "toggle" /\ run[r].at = "sent" /\ a = "ok"
                          THEN board.active ELSE @,
               ![r].hit = run[r].at = "poll" /\ a = "ok" /\ board.active # run[r].was]
        /\ board' = IF run[r].at = "post" /\ done
                    THEN [board EXCEPT !.wants = ~run[r].was] ELSE board
  BY DEF Respond
<1>2. run[r].was \in BOOLEAN /\ board.active \in BOOLEAN
  BY DEF RunStates
<1>3. board' \in [active : BOOLEAN, wants : BOOLEAN]
  BY <1>1, <1>2
<1>4. PICK w \in BOOLEAN, h \in BOOLEAN :
        run' = [run EXCEPT ![r].ans = a, ![r].was = w, ![r].hit = h]
  BY <1>1, <1>2, Zenon
<1>5. PICK x \in RunStates : /\ run' = [run EXCEPT ![r] = x]
                             /\ x.op = run[r].op /\ x.at = run[r].at /\ x.gave = run[r].gave
  <2> DEFINE x == [run[r] EXCEPT !.ans = a, !.was = w, !.hit = h]
  <2>1. run[r] \in RunStates
    OBVIOUS
  <2>2. x \in RunStates /\ x.op = run[r].op /\ x.at = run[r].at /\ x.gave = run[r].gave
    BY <2>1 DEF RunStates
  <2>3. run' = [run EXCEPT ![r] = x]
    BY <1>4
  <2> QED
    BY <2>2, <2>3
<1>6. run' \in [Runs -> RunStates] /\ run'[r] = x /\ \A q \in Runs \ {r} : run'[q] = run[q]
  BY <1>5
<1> QED
  BY <1>3, <1>5, <1>6

\* The ten minutes of a monitor pass.
LEMMA DeadlineEffect ==
    ASSUME run \in [Runs -> RunStates], NEW r \in Runs, Deadline(r)
    PROVE  /\ run' \in [Runs -> RunStates]
           /\ run'[r].op = run[r].op /\ run'[r].at = run[r].at /\ run'[r].gave = run[r].gave
           /\ \A q \in Runs \ {r} : run'[q] = run[q]
<1> DEFINE x == [run[r] EXCEPT !.late = TRUE]
<1>1. run[r] \in RunStates
  OBVIOUS
<1>2. x \in RunStates /\ x.op = run[r].op /\ x.at = run[r].at /\ x.gave = run[r].gave
  BY <1>1 DEF RunStates
<1>3. run' = [run EXCEPT ![r] = x]
  BY DEF Deadline
<1>4. run' \in [Runs -> RunStates] /\ run'[r] = x /\ \A q \in Runs \ {r} : run'[q] = run[q]
  BY <1>2, <1>3
<1> QED
  BY <1>2, <1>4

\* After a stop the monitor gives isToggling up and goes on with the clear.
LEMMA SwitchedEffect ==
    ASSUME run \in [Runs -> RunStates], loading \subseteq Runs, NEW r \in Runs, Switched(r)
    PROVE  /\ run' \in [Runs -> RunStates] /\ loading' \subseteq loading
           /\ \/ run'[r] = Idle /\ loading' = loading \ {r}
              \/ run'[r].op = run[r].op /\ run'[r].at = "clear" /\ run'[r].gave = TRUE
           /\ \A q \in Runs \ {r} : run'[q] = run[q]
<1>1. CASE run[r].was
  <2> DEFINE x == [run[r] EXCEPT !.at = "clear", !.ans = "none", !.hit = FALSE, !.gave = TRUE]
  <2>1. run[r] \in RunStates
    OBVIOUS
  <2>2. x \in RunStates /\ x.op = run[r].op /\ x.at = "clear" /\ x.gave = TRUE
    BY <2>1 DEF RunStates
  <2>3. run' = [run EXCEPT ![r] = x] /\ loading' = loading
    BY <1>1 DEF Switched
  <2>4. run' \in [Runs -> RunStates] /\ run'[r] = x /\ \A q \in Runs \ {r} : run'[q] = run[q]
    BY <2>2, <2>3
  <2> QED
    BY <2>2, <2>3, <2>4
<1>2. CASE ~run[r].was
  <2>1. End(r)
    BY <1>2 DEF Switched
  <2> QED
    BY <2>1, EndEffect
<1> QED
  BY <1>1, <1>2

-----------------------------------------------------------------------------
(* Invariants                                                              *)

\* The slice, the thunks and the page keep their types.
THEOREM OpsTypeCorrect == Spec => []TypeOK
<1>1. Init => TypeOK
  <2> SUFFICES ASSUME Init PROVE TypeOK
    OBVIOUS
  <2>1. Idle \in RunStates
    BY DEF Idle, RunStates
  <2>2. run \in [Runs -> RunStates]
    BY <2>1 DEF Init
  <2>3. board \in [active : BOOLEAN, wants : BOOLEAN]
    BY DEF Init
  <2>4. /\ flag \in [Ops -> BOOLEAN] /\ startTime \in BOOLEAN
        /\ loading \subseteq Runs /\ timer \in BOOLEAN
        /\ seen \in [active : BOOLEAN, refreshing : BOOLEAN] /\ usable \in BOOLEAN
        /\ stuck \subseteq Ops /\ overrun \in BOOLEAN
    BY DEF Init
  <2> QED
    BY <2>2, <2>3, <2>4 DEF TypeOK
<1>2. TypeOK /\ [Next]_vars => TypeOK'
  <2> SUFFICES ASSUME TypeOK, [Next]_vars PROVE TypeOK'
    OBVIOUS
  <2> USE DEF TypeOK
  <2>0. "toggle" \in Ops /\ Plain \subseteq Ops /\ TRUE \in BOOLEAN /\ FALSE \in BOOLEAN
    BY DEF Ops
  <2>1. ASSUME NEW r \in Runs, NEW o \in Ops, Start(r, o) PROVE TypeOK'
    <3>1. run' \in [Runs -> RunStates]
      BY <2>1, StartEffect
    <3>2. flag' \in [Ops -> BOOLEAN] /\ startTime' \in BOOLEAN
      BY <2>0, <2>1, SetStatusEffect DEF Start
    <3> QED
      BY <2>1, <3>1, <3>2 DEF Start, page, history
  <2>2. ASSUME NEW r \in Runs, Respond(r) PROVE TypeOK'
    <3>1. run' \in [Runs -> RunStates] /\ board' \in [active : BOOLEAN, wants : BOOLEAN]
      BY <2>2, RespondEffect
    <3> QED
      BY <2>2, <3>1 DEF Respond, slice, page, history
  <2>3. ASSUME NEW r \in Runs, PlainOk(r) \/ PlainFails(r) PROVE TypeOK'
    <3>1. run' \in [Runs -> RunStates] /\ loading' \subseteq Runs
      BY <2>3, EndEffect DEF PlainOk, PlainFails
    <3>2. flag' \in [Ops -> BOOLEAN] /\ startTime' \in BOOLEAN
      BY <2>0, <2>3, SetStatusEffect DEF PlainOk, PlainFails
    <3>3. timer' \in BOOLEAN
      BY <2>3 DEF PlainOk, PlainFails, RestartTimer
    <3> QED
      BY <2>3, <3>1, <3>2, <3>3 DEF PlainOk, PlainFails, page, history
  <2>4. ASSUME NEW r \in Runs, ToggleSend(r) \/ Monitor(r) \/ NotYet(r) \/ PollAgain(r)
        PROVE TypeOK'
    <3>1. run' \in [Runs -> RunStates]
      BY <2>4, GotoEffect DEF ToggleSend, Monitor, NotYet, PollAgain
    <3> QED
      BY <2>4, <3>1 DEF ToggleSend, Monitor, NotYet, PollAgain, slice, page, history
  <2>5. ASSUME NEW r \in Runs, PollThrows(r) \/ StopClearThrows(r) PROVE TypeOK'
    <3>1. run' \in [Runs -> RunStates]
      BY <2>5, GotoEffect DEF PollThrows, StopClearThrows
    <3> QED
      BY <2>5, <3>1 DEF PollThrows, StopClearThrows, slice, page, history
  <2>6. ASSUME NEW r \in Runs, ToggleFails(r) \/ MonitorTimesOut(r) PROVE TypeOK'
    <3>1. run' \in [Runs -> RunStates] /\ loading' \subseteq Runs
      BY <2>6, EndEffect DEF ToggleFails, MonitorTimesOut
    <3>2. flag' \in [Ops -> BOOLEAN] /\ startTime' \in BOOLEAN
      BY <2>0, <2>6, SetStatusEffect DEF ToggleFails, MonitorTimesOut
    <3>3. overrun' \in BOOLEAN
      BY <2>6 DEF ToggleFails, MonitorTimesOut, history
    <3> QED
      BY <2>6, <3>1, <3>2, <3>3 DEF ToggleFails, MonitorTimesOut, page, history
  <2>7. ASSUME NEW r \in Runs, Switched(r) PROVE TypeOK'
    <3>1. run' \in [Runs -> RunStates] /\ loading' \subseteq loading
      BY <2>7, SwitchedEffect
    <3>2. flag' \in [Ops -> BOOLEAN] /\ startTime' \in BOOLEAN
      BY <2>0, <2>7, SetStatusEffect DEF Switched
    <3>3. overrun' \in BOOLEAN /\ timer' \in BOOLEAN
      BY <2>7 DEF Switched, RestartTimer
    <3> QED
      BY <2>7, <3>1, <3>2, <3>3 DEF Switched, page
  <2>8. ASSUME NEW r \in Runs, StopCleared(r) PROVE TypeOK'
    <3>1. run' \in [Runs -> RunStates] /\ loading' \subseteq Runs
      BY <2>8, EndEffect DEF StopCleared
    <3> QED
      BY <2>8, <3>1 DEF StopCleared, slice, page, history
  <2>9. ASSUME NEW r \in Runs, Deadline(r) PROVE TypeOK'
    <3>1. run' \in [Runs -> RunStates]
      BY <2>9, DeadlineEffect
    <3> QED
      BY <2>9, <3>1 DEF Deadline, slice, page, history
  <2>10. CASE TimerEnds \/ StatusLands \/ UsableChanges
    BY <2>10 DEF TimerEnds, StatusLands, UsableChanges, slice, page, history
  <2>11. CASE Reload
    <3>1. Idle \in RunStates
      BY DEF Idle, RunStates
    <3> QED
      BY <2>11, <3>1 DEF Reload, slice
  <2>12. CASE BoardSwitches \/ OtherClient \/ UNCHANGED vars
    BY <2>12 DEF BoardSwitches, OtherClient, vars, slice, page, history
  <2> QED
    BY <2>1, <2>2, <2>3, <2>4, <2>5, <2>6, <2>7, <2>8, <2>9, <2>10, <2>11, <2>12
       DEF Next, ThunkStep
<1> QED
  BY <1>1, <1>2, PTL DEF Spec

\* Where a thunk can be: an idle record belongs to nobody, only a toggle has a
\* monitor, and isToggling is given up by a monitor, before the clear of a stop.
WellPlaced(x) ==
    /\ x.op = "none" => x.at = "idle"
    /\ x.at \in {"post", "poll", "wait", "clear"} => x.op = "toggle"
    /\ x.gave = TRUE => x.at \in {"poll", "wait", "clear"}
    /\ x.at = "clear" => x.gave = TRUE

Shape == \A r \in Runs : WellPlaced(run[r])

\* A step in which a thunk goes on and keeps what it holds.
Goes(r) ==
    \/ Respond(r) \/ Deadline(r) \/ ToggleSend(r) \/ Monitor(r) \/ NotYet(r) \/ PollAgain(r)
    \/ PollThrows(r) \/ StopClearThrows(r)

\* A step in which a thunk resets its flag and ends.
Ends(r) == PlainOk(r) \/ PlainFails(r) \/ ToggleFails(r) \/ MonitorTimesOut(r)

\* A step that concerns no thunk.
Still == TimerEnds \/ StatusLands \/ UsableChanges \/ BoardSwitches \/ OtherClient
         \/ UNCHANGED vars

\* What a step can be.
LEMMA StepCases ==
    ASSUME [Next]_vars
    PROVE  \/ \E r \in Runs, o \in Ops : Start(r, o)
           \/ \E r \in Runs : Goes(r) \/ Ends(r) \/ Switched(r) \/ StopCleared(r)
           \/ Reload \/ Still
BY DEF Next, ThunkStep, Goes, Ends, Still

\* A thunk that goes on keeps its operation, its flag and what it gave up.
LEMMA GoesEffect ==
    ASSUME TypeOK, Shape, NEW r \in Runs, Goes(r)
    PROVE  /\ \A q \in Runs : run'[q].op = run[q].op /\ run'[q].gave = run[q].gave
           /\ \A q \in Runs \ {r} : run'[q] = run[q]
           /\ run[r].op # "none"
           /\ \/ run'[r].at = run[r].at
              \/ run[r].op = "toggle" /\ run[r].at = "sent" /\ run'[r].at = "post"
              \/ run[r].at = "post" /\ run'[r].at = "poll"
              \/ run[r].at \in {"poll", "wait", "clear"} /\ run'[r].at \in {"poll", "wait"}
           /\ flag' = flag /\ timer' = timer /\ overrun' = overrun /\ stuck' = stuck
           /\ loading' \subseteq loading
<1> USE DEF TypeOK, Shape, WellPlaced
<1>1. CASE Respond(r)
  <2>1. /\ run'[r].op = run[r].op /\ run'[r].at = run[r].at /\ run'[r].gave = run[r].gave
        /\ \A q \in Runs \ {r} : run'[q] = run[q]
    BY <1>1, RespondEffect
  <2>2. run[r].at # "idle" /\ UNCHANGED <<slice, loading, timer, history>>
    BY <1>1 DEF Respond
  <2> QED
    BY <2>1, <2>2 DEF slice, history
<1>2. CASE Deadline(r)
  BY <1>2, DeadlineEffect DEF Deadline, slice, history
<1>3. CASE ToggleSend(r)
  BY <1>3, GotoEffect DEF ToggleSend, At, slice, history
<1>4. CASE Monitor(r)
  BY <1>4, GotoEffect DEF Monitor, At, slice, history
<1>5. CASE NotYet(r)
  BY <1>5, GotoEffect DEF NotYet, At, slice, history
<1>6. CASE PollAgain(r)
  BY <1>6, GotoEffect DEF PollAgain, At, slice, history
<1>7. CASE PollThrows(r) \/ StopClearThrows(r)
  BY <1>7, GotoEffect DEF PollThrows, StopClearThrows, At, slice, history
<1> QED
  BY <1>1, <1>2, <1>3, <1>4, <1>5, <1>6, <1>7 DEF Goes

\* A thunk that ends resets the flag of its operation, and only that.
LEMMA EndsEffect ==
    ASSUME TypeOK, Shape, NEW r \in Runs, Ends(r)
    PROVE  /\ run'[r] = Idle /\ \A q \in Runs \ {r} : run'[q] = run[q]
           /\ loading' = loading \ {r}
           /\ run[r].op \in Ops
           /\ flag'[run[r].op] = FALSE /\ \A u \in Ops \ {run[r].op} : flag'[u] = flag[u]
           /\ overrun' = FALSE => overrun = FALSE /\ run[r].gave = FALSE
           /\ stuck' = stuck
<1> USE DEF TypeOK
<1>0. "toggle" \in Ops /\ Plain \subseteq Ops /\ FALSE \in BOOLEAN
  BY DEF Ops
<1>1. End(r)
  BY DEF Ends, PlainOk, PlainFails, ToggleFails, MonitorTimesOut
<1>2. run'[r] = Idle /\ (\A q \in Runs \ {r} : run'[q] = run[q]) /\ loading' = loading \ {r}
  BY <1>1, EndEffect
<1>3. run[r].op \in Ops /\ SetStatus(run[r].op, FALSE)
  BY <1>0 DEF Ends, PlainOk, PlainFails, ToggleFails, MonitorTimesOut, At, Shape, WellPlaced
<1>4. flag'[run[r].op] = FALSE /\ \A u \in Ops \ {run[r].op} : flag'[u] = flag[u]
  BY <1>0, <1>3, SetStatusEffect
<1>5. run[r].gave \in BOOLEAN
  BY DEF RunStates
<1>6. overrun' = FALSE => overrun = FALSE /\ run[r].gave = FALSE
  <2>1. CASE PlainOk(r) \/ PlainFails(r) \/ ToggleFails(r)
    <3>1. run[r].at \in {"sent", "post"} /\ overrun' = overrun
      BY <2>1 DEF PlainOk, PlainFails, ToggleFails, At, history
    <3> QED
      BY <1>5, <3>1 DEF Shape, WellPlaced
  <2>2. CASE MonitorTimesOut(r)
    <3>1. overrun' = (overrun \/ run[r].gave)
      BY <2>2 DEF MonitorTimesOut
    <3> QED
      BY <1>5, <3>1, Zenon
  <2> QED
    BY <2>1, <2>2 DEF Ends
<1>7. stuck' = stuck
  BY DEF Ends, PlainOk, PlainFails, ToggleFails, MonitorTimesOut, history
<1> QED
  BY <1>2, <1>3, <1>4, <1>6, <1>7

\* An invocation that is not under way.
LEMMA IdleFacts == Idle.op = "none" /\ Idle.at = "idle" /\ Idle.gave = FALSE
BY DEF Idle

\* Shape is inductive.
LEMMA ShapeInvariant == Spec => []Shape
<1>1. Init => Shape
  <2> SUFFICES ASSUME Init, NEW q \in Runs
               PROVE  run[q] = Idle
    BY IdleFacts DEF Shape, WellPlaced
  <2> QED
    BY DEF Init
<1>2. TypeOK /\ Shape /\ [Next]_vars => Shape'
  <2> SUFFICES ASSUME TypeOK, Shape, [Next]_vars PROVE Shape'
    OBVIOUS
  <2>0. SUFFICES ASSUME NEW q \in Runs
        PROVE  WellPlaced(run'[q])
    BY DEF Shape
  <2>s. CASE run'[q] = run[q]
    BY <2>s DEF Shape
  <2>i. CASE run'[q] = Idle
    BY <2>i, IdleFacts DEF WellPlaced
  <2>1. ASSUME NEW r \in Runs, NEW o \in Ops, Start(r, o), q = r
        PROVE  run'[q].op = o /\ run'[q].at = "sent" /\ run'[q].gave = FALSE /\ o # "none"
    BY <2>1, StartEffect DEF TypeOK, Ops, Plain
  <2>2. ASSUME NEW r \in Runs, NEW o \in Ops, Start(r, o), q # r PROVE run'[q] = run[q]
    <3>1. \A p \in Runs \ {r} : run'[p] = run[p]
      BY <2>2, StartEffect DEF TypeOK
    <3> QED
      BY <2>2, <3>1
  <2>3. ASSUME NEW r \in Runs, Goes(r), q = r
        PROVE  /\ run'[q].op = run[q].op /\ run'[q].gave = run[q].gave /\ run[q].op # "none"
               /\ \/ run'[q].at = run[q].at
                  \/ run[q].op = "toggle" /\ run[q].at = "sent" /\ run'[q].at = "post"
                  \/ run[q].at = "post" /\ run'[q].at = "poll"
                  \/ run[q].at \in {"poll", "wait", "clear"} /\ run'[q].at \in {"poll", "wait"}
    BY <2>3, GoesEffect
  <2>4. ASSUME NEW r \in Runs, Goes(r), q # r PROVE run'[q] = run[q]
    BY <2>4, GoesEffect
  <2>5. ASSUME NEW r \in Runs, Ends(r) PROVE run'[q] = Idle \/ run'[q] = run[q]
    BY <2>5, EndsEffect
  <2>6. ASSUME NEW r \in Runs, Switched(r)
        PROVE  \/ run'[q] = Idle \/ run'[q] = run[q]
               \/ run'[q].op = "toggle" /\ run'[q].at = "clear" /\ run'[q].gave = TRUE
    <3>1. run[r].op = "toggle"
      BY <2>6 DEF Switched, At, Shape, WellPlaced
    <3> QED
      BY <2>6, <3>1, SwitchedEffect DEF TypeOK
  <2>7. ASSUME NEW r \in Runs, StopCleared(r) PROVE run'[q] = Idle \/ run'[q] = run[q]
    BY <2>7, EndEffect DEF StopCleared, TypeOK
  <2>8. CASE Reload
    BY <2>8, <2>i DEF Reload
  <2>9. CASE Still
    BY <2>9, <2>s DEF Still, TimerEnds, StatusLands, UsableChanges, BoardSwitches, OtherClient,
                vars
  <2>10. ASSUME NEW r \in Runs, NEW o \in Ops, Start(r, o)
         PROVE  WellPlaced(run'[q])
    BY <2>1, <2>2, <2>10, <2>s DEF WellPlaced
  <2>11. ASSUME NEW r \in Runs, Goes(r)
         PROVE  WellPlaced(run'[q])
    BY <2>3, <2>4, <2>11, <2>s DEF Shape, WellPlaced
  <2>12. ASSUME NEW r \in Runs, Switched(r)
         PROVE  WellPlaced(run'[q])
    BY <2>6, <2>12, <2>s, <2>i DEF WellPlaced
  <2> QED
    BY <2>5, <2>7, <2>8, <2>9, <2>10, <2>11, <2>12, <2>s, <2>i, StepCases
<1> QED
  BY <1>1, <1>2, OpsTypeCorrect, PTL DEF Spec

-----------------------------------------------------------------------------
(* What a step does to the thunks that hold a flag                         *)

\* A click is taken only when no flag is set and the timer is off.
LEMMA StartHolds ==
    ASSUME TypeOK, NEW r \in Runs, NEW o \in Ops, Start(r, o)
    PROVE  /\ Holds(r)' /\ run'[r].op = o
           /\ \A q \in Runs \ {r} : run'[q] = run[q]
           /\ \A u \in Ops : flag[u] = FALSE
           /\ flag'[o] = TRUE /\ \A u \in Ops \ {o} : flag'[u] = FALSE
           /\ timer = FALSE /\ timer' = FALSE /\ overrun' = overrun /\ stuck' = stuck
           /\ loading' = loading \cup {r}
<1>0. "none" \notin Ops /\ TRUE \in BOOLEAN
  BY DEF Ops, Plain
<1>1. run'[r].op = o /\ run'[r].gave = FALSE /\ \A q \in Runs \ {r} : run'[q] = run[q]
  BY StartEffect DEF TypeOK
<1>2. Holds(r)'
  BY <1>0, <1>1 DEF Holds
<1>3. \A u \in Ops : flag[u] = FALSE
  BY DEF Start, NoneActive, TypeOK
<1>4. flag'[o] = TRUE /\ \A u \in Ops \ {o} : flag'[u] = flag[u]
  BY <1>0, SetStatusEffect DEF Start, TypeOK
<1>5. timer = FALSE
  <2>1. Offered(o) => ~timer
    BY DEF Offered, ButtonsEnabled, ShowEnabled, Ops, Plain
  <2> QED
    BY <2>1 DEF Start, TypeOK
<1>6. timer' = timer /\ overrun' = overrun /\ stuck' = stuck /\ loading' = loading \cup {r}
  BY DEF Start, history
<1> QED
  BY <1>1, <1>2, <1>3, <1>4, <1>5, <1>6

\* A thunk that has come to its line: it no longer holds its flag, and unless
\* overrun becomes true it held it until now.
Gives(r) ==
    /\ ~Holds(r)' /\ \A q \in Runs \ {r} : run'[q] = run[q]
    /\ run[r].op \in Ops
    /\ flag'[run[r].op] = FALSE /\ \A u \in Ops \ {run[r].op} : flag'[u] = flag[u]
    /\ overrun' = FALSE => overrun = FALSE /\ Holds(r)
    /\ stuck' = stuck
    /\ \/ loading' = loading \ {r}
       \/ run'[r].op = run[r].op /\ loading' = loading

\* An end gives the lock up.
LEMMA EndsGives ==
    ASSUME TypeOK, Shape, NEW r \in Runs, Ends(r)
    PROVE  Gives(r)
<1>1. "none" \notin Ops
  BY DEF Ops, Plain
<1> QED
  BY <1>1, EndsEffect, IdleFacts DEF Gives, Holds

\* A monitor that sees the switch gives the lock up.
LEMMA SwitchedGives ==
    ASSUME TypeOK, Shape, NEW r \in Runs, Switched(r)
    PROVE  Gives(r)
<1>0. "toggle" \in Ops /\ "none" \notin Ops /\ FALSE \in BOOLEAN
  BY DEF Ops, Plain
<1>1. run[r].op = "toggle"
  BY DEF Switched, At, Shape, WellPlaced
<1>2. flag'["toggle"] = FALSE /\ \A u \in Ops \ {"toggle"} : flag'[u] = flag[u]
  BY <1>0, SetStatusEffect DEF Switched, TypeOK
<1>3. /\ \/ run'[r] = Idle /\ loading' = loading \ {r}
         \/ run'[r].op = run[r].op /\ run'[r].gave = TRUE /\ loading' = loading
      /\ \A q \in Runs \ {r} : run'[q] = run[q]
  <2>1. CASE run[r].was
    BY <2>1, <1>1, SwitchedEffect, IdleFacts DEF Switched, TypeOK
  <2>2. CASE ~run[r].was
    BY <2>2, EndEffect DEF Switched, TypeOK
  <2> QED
    BY <2>1, <2>2
<1>4. overrun' = FALSE => overrun = FALSE /\ run[r].gave = FALSE
  <2>1. run[r].gave \in BOOLEAN /\ overrun \in BOOLEAN
    BY DEF TypeOK, RunStates
  <2>2. overrun' = (overrun \/ run[r].gave) /\ stuck' = stuck
    BY DEF Switched
  <2> QED
    BY <2>1, <2>2, Zenon
<1>5. ~Holds(r)'
  BY <1>3, IdleFacts DEF Holds
<1> QED
  BY <1>0, <1>1, <1>2, <1>3, <1>4, <1>5 DEF Gives, Holds, Switched

\* The clear of a stop ends long after isToggling was given up.
LEMMA StopClearedHolds ==
    ASSUME TypeOK, Shape, NEW r \in Runs, StopCleared(r)
    PROVE  /\ ~Holds(r) /\ ~Holds(r)' /\ \A q \in Runs \ {r} : run'[q] = run[q]
           /\ flag' = flag /\ timer' = timer /\ overrun' = overrun /\ stuck' = stuck
           /\ loading' = loading \ {r}
<1>1. run[r].gave = TRUE
  BY DEF StopCleared, At, Shape, WellPlaced
<1>2. run'[r] = Idle /\ (\A q \in Runs \ {r} : run'[q] = run[q]) /\ loading' = loading \ {r}
  BY EndEffect DEF StopCleared, TypeOK
<1> QED
  BY <1>1, <1>2, IdleFacts DEF StopCleared, Holds, slice, history

\* A reload leaves no holder.
LEMMA ReloadHolds ==
    ASSUME Reload
    PROVE  \A q \in Runs : run'[q] = Idle /\ ~Holds(q)'
BY IdleFacts DEF Reload, Holds

\* The other steps change no holder.
LEMMA StillHolds ==
    ASSUME Still, TypeOK
    PROVE  /\ run' = run /\ flag' = flag /\ overrun' = overrun /\ stuck' = stuck
           /\ loading' = loading /\ (timer' = TRUE => timer = TRUE)
BY DEF Still, TimerEnds, StatusLands, UsableChanges, BoardSwitches, OtherClient, vars,
       slice, page, history, TypeOK

-----------------------------------------------------------------------------
(* The flags are a lock                                                    *)

\* What makes it one: whoever holds a flag has it set, holds alone, and has started
\* when the timer was off, which only the end of an operation turns on.
Exclusive ==
    overrun = FALSE =>
        /\ \A r \in Runs : Holds(r) => flag[run[r].op] = TRUE /\ timer = FALSE
        /\ \A r, s \in Runs : Holds(r) /\ Holds(s) => r = s

\* A holder holds for an operation.
LEMMA HolderHasOp == ASSUME TypeOK, NEW r \in Runs, Holds(r) PROVE run[r].op \in Ops
BY DEF TypeOK, RunStates, Holds

\* An operation starts only while nobody holds.
LEMMA StartFromFree ==
    ASSUME TypeOK, Exclusive, overrun = FALSE, NEW r \in Runs, NEW o \in Ops, Start(r, o)
    PROVE  \A q \in Runs : ~Holds(q) /\ (Holds(q)' => q = r)
<1>1. \A q \in Runs : ~Holds(q)
  <2> SUFFICES ASSUME NEW q \in Runs, Holds(q) PROVE FALSE
    OBVIOUS
  <2>1. run[q].op \in Ops
    BY HolderHasOp
  <2>2. flag[run[q].op] = TRUE
    BY DEF Exclusive
  <2>3. flag[run[q].op] = FALSE
    BY <2>1, StartHolds
  <2> QED
    BY <2>2, <2>3
<1>2. \A q \in Runs \ {r} : run'[q] = run[q]
  BY StartHolds
<1>3. \A q \in Runs : Holds(q)' => q = r
  BY <1>1, <1>2 DEF Holds
<1> QED
  BY <1>1, <1>3

\* Who gives the flag up was the only one to hold it.
LEMMA NobodyAfterGives ==
    ASSUME Exclusive, NEW r \in Runs, Gives(r), overrun' = FALSE
    PROVE  Holds(r) /\ \A q \in Runs : (Holds(q) => q = r) /\ ~Holds(q)'
<1>1. Holds(r) /\ overrun = FALSE
  BY DEF Gives
<1>2. \A q \in Runs : Holds(q) => q = r
  BY <1>1 DEF Exclusive
<1>3. ASSUME NEW q \in Runs PROVE ~Holds(q)'
  <2>1. CASE q = r
    BY <2>1 DEF Gives
  <2>2. CASE q # r
    BY <1>2, <2>2 DEF Gives, Holds
  <2> QED
    BY <2>1, <2>2
<1> QED
  BY <1>1, <1>2, <1>3

\* Exclusive is inductive.
LEMMA ExclusiveInvariant == Spec => []Exclusive
<1>1. Init => Exclusive
  <2> SUFFICES ASSUME Init, NEW q \in Runs PROVE ~Holds(q)
    BY DEF Exclusive
  <2> QED
    BY IdleFacts DEF Init, Holds
<1>2. TypeOK /\ Shape /\ Exclusive /\ [Next]_vars => Exclusive'
  <2> SUFFICES ASSUME TypeOK, Shape, Exclusive, [Next]_vars, overrun' = FALSE
               PROVE  /\ \A q \in Runs : Holds(q)' => flag'[run'[q].op] = TRUE /\ timer' = FALSE
                      /\ \A q, s \in Runs : Holds(q)' /\ Holds(s)' => q = s
    BY DEF Exclusive
  <2> DEFINE Goal == /\ \A q \in Runs : Holds(q)' => flag'[run'[q].op] = TRUE /\ timer' = FALSE
                     /\ \A q, s \in Runs : Holds(q)' /\ Holds(s)' => q = s
  <2>n. (\A q \in Runs : ~Holds(q)') => Goal
    OBVIOUS
  <2>1. ASSUME NEW r \in Runs, NEW o \in Ops, Start(r, o) PROVE Goal
    <3>1. overrun = FALSE
      BY <2>1, StartHolds
    <3>2. \A q \in Runs : Holds(q)' => q = r
      BY <2>1, <3>1, StartFromFree
    <3>3. run'[r].op = o /\ flag'[o] = TRUE /\ timer' = FALSE
      BY <2>1, StartHolds
    <3> QED
      BY <3>2, <3>3
  <2>2. ASSUME NEW r \in Runs, Goes(r) PROVE Goal
    <3>1. /\ \A q \in Runs : run'[q].op = run[q].op /\ run'[q].gave = run[q].gave
          /\ flag' = flag /\ timer' = timer /\ overrun' = overrun
      BY <2>2, GoesEffect
    <3>2. \A q \in Runs : Holds(q)' = Holds(q)
      BY <3>1 DEF Holds
    <3> QED
      BY <3>1, <3>2 DEF Exclusive
  <2>3. ASSUME NEW r \in Runs, Ends(r) \/ Switched(r) PROVE Goal
    <3>1. Gives(r)
      BY <2>3, EndsGives, SwitchedGives
    <3> QED
      BY <2>n, <3>1, NobodyAfterGives
  <2>4. ASSUME NEW r \in Runs, StopCleared(r) PROVE Goal
    <3>1. /\ flag' = flag /\ timer' = timer /\ overrun' = overrun
          /\ ~Holds(r)' /\ \A q \in Runs \ {r} : run'[q] = run[q]
      BY <2>4, StopClearedHolds
    <3>2. \A q \in Runs : Holds(q)' => Holds(q) /\ run'[q].op = run[q].op
      BY <3>1 DEF Holds
    <3> QED
      BY <3>1, <3>2 DEF Exclusive
  <2>5. CASE Reload
    BY <2>5, <2>n, ReloadHolds
  <2>6. CASE Still
    <3>1. /\ run' = run /\ flag' = flag /\ overrun' = overrun /\ (timer' = TRUE => timer = TRUE)
          /\ timer' \in BOOLEAN
      BY <2>6, StillHolds DEF TypeOK, Still, TimerEnds, StatusLands, UsableChanges,
                              BoardSwitches, OtherClient, vars
    <3>2. \A q \in Runs : Holds(q)' => Holds(q)
      BY <3>1 DEF Holds
    <3> QED
      BY <3>1, <3>2 DEF Exclusive
  <2> QED
    BY <2>1, <2>2, <2>3, <2>4, <2>5, <2>6, StepCases
<1> QED
  BY <1>1, <1>2, OpsTypeCorrect, ShapeInvariant, PTL DEF Spec

\* While the actions timer runs, no operation started from a button is before its own
\* end, whichever of the two places with different gates it was started from.
THEOREM TimerSeparates == Spec => []NoCommandUnderTimer
<1>1. TypeOK /\ Exclusive => NoCommandUnderTimer
  BY DEF TypeOK, Exclusive, NoCommandUnderTimer
<1> QED
  BY <1>1, OpsTypeCorrect, ExclusiveInvariant, PTL

\* Flags and loading snackbars belong to a running thunk; the flags a reload left
\* behind are the only exception.
THEOREM FlagsHaveOwners == Spec => []BusyMeansWork
<1>1. Init => BusyMeansWork
  BY DEF Init, BusyMeansWork
<1>2. TypeOK /\ Shape /\ BusyMeansWork /\ [Next]_vars => BusyMeansWork'
  <2> SUFFICES ASSUME TypeOK, Shape, BusyMeansWork, [Next]_vars PROVE BusyMeansWork'
    OBVIOUS
  <2>0. "none" \notin Ops
    BY DEF Ops, Plain
  <2>1. ASSUME NEW r \in Runs, NEW o \in Ops, Start(r, o) PROVE BusyMeansWork'
    <3>1. \A u \in Ops \ stuck' : flag'[u] => \E q \in Runs : run'[q].op = u /\ Holds(q)'
      BY <2>1, StartHolds
    <3>2. \A q \in loading' : run'[q].op # "none"
      <4>1. /\ run'[r].op = o /\ loading' = loading \cup {r}
            /\ \A q \in Runs \ {r} : run'[q] = run[q]
        BY <2>1, StartHolds
      <4> QED
        BY <2>0, <4>1 DEF BusyMeansWork, TypeOK
    <3> QED
      BY <3>1, <3>2 DEF BusyMeansWork
  <2>2. ASSUME NEW r \in Runs, Goes(r) PROVE BusyMeansWork'
    <3>1. /\ \A q \in Runs : run'[q].op = run[q].op /\ run'[q].gave = run[q].gave
          /\ flag' = flag /\ stuck' = stuck /\ loading' \subseteq loading
      BY <2>2, GoesEffect
    <3> QED
      BY <3>1 DEF BusyMeansWork, Holds, TypeOK
  <2>3. ASSUME NEW r \in Runs, Ends(r) \/ Switched(r) PROVE BusyMeansWork'
    <3>1. Gives(r)
      BY <2>3, EndsGives, SwitchedGives
    <3>2. ASSUME NEW u \in Ops \ stuck', flag'[u]
          PROVE  \E q \in Runs : run'[q].op = u /\ Holds(q)'
      <4>1. u # run[r].op /\ flag[u] /\ u \notin stuck
        BY <3>1, <3>2 DEF Gives
      <4>2. PICK q \in Runs : run[q].op = u /\ Holds(q)
        BY <4>1 DEF BusyMeansWork
      <4>3. run'[q] = run[q]
        BY <3>1, <4>1, <4>2 DEF Gives
      <4> QED
        BY <4>2, <4>3 DEF Holds
    <3>3. \A q \in loading' : run'[q].op # "none"
      BY <3>1 DEF Gives, BusyMeansWork, TypeOK
    <3> QED
      BY <3>2, <3>3 DEF BusyMeansWork
  <2>4. ASSUME NEW r \in Runs, StopCleared(r) PROVE BusyMeansWork'
    <3>1. /\ ~Holds(r) /\ \A q \in Runs \ {r} : run'[q] = run[q]
          /\ flag' = flag /\ stuck' = stuck /\ loading' = loading \ {r}
      BY <2>4, StopClearedHolds
    <3>2. ASSUME NEW u \in Ops \ stuck', flag'[u]
          PROVE  \E q \in Runs : run'[q].op = u /\ Holds(q)'
      <4>1. PICK q \in Runs : run[q].op = u /\ Holds(q)
        BY <3>1, <3>2 DEF BusyMeansWork
      <4>2. run'[q] = run[q]
        BY <3>1, <4>1
      <4> QED
        BY <4>1, <4>2 DEF Holds
    <3>3. \A q \in loading' : run'[q].op # "none"
      BY <3>1 DEF BusyMeansWork, TypeOK
    <3> QED
      BY <3>2, <3>3 DEF BusyMeansWork
  <2>5. CASE Reload
    BY <2>5 DEF Reload, slice, BusyMeansWork, TypeOK
  <2>6. CASE Still
    BY <2>6, StillHolds DEF BusyMeansWork, Holds
  <2> QED
    BY <2>1, <2>2, <2>3, <2>4, <2>5, <2>6, StepCases
<1> QED
  BY <1>1, <1>2, OpsTypeCorrect, ShapeInvariant, PTL DEF Spec

\* Every step of the thunks, the page and the board is a step of OperationLock or
\* leaves it alone (the safety part of LockSpec; that the lock is given up is TLC's).
THEOREM FlagsAreALock == Spec => Lock!Spec
<1>1. Init => Lock!Init
  BY IdleFacts DEF Init, Lock!Init, Holders, Holds
<1>2. TypeOK /\ TypeOK' /\ Shape /\ Exclusive /\ [Next]_vars => [Lock!Next]_Holders
  <2> SUFFICES ASSUME TypeOK, TypeOK', Shape, Exclusive, [Next]_vars
               PROVE  \/ Holders' = Holders
                      \/ Holders = {} /\ \E r \in Runs : Holders' = {r}
                      \/ Holders # {} /\ Holders' = {}
    BY DEF Lock!Next, Lock!Acquire, Lock!Release
  <2>0. (overrun' = TRUE \/ \A q \in Runs : ~Holds(q)') => Holders' = {}
    BY DEF Holders
  <2>1. ASSUME NEW r \in Runs, NEW o \in Ops, Start(r, o), overrun = FALSE
        PROVE  Holders = {} /\ Holders' = {r}
    <3>1. \A q \in Runs : ~Holds(q) /\ (Holds(q)' => q = r)
      BY <2>1, StartFromFree
    <3>2. Holds(r)' /\ overrun' = FALSE
      BY <2>1, StartHolds
    <3> QED
      BY <2>1, <3>1, <3>2 DEF Holders
  <2>2. ASSUME NEW r \in Runs, Goes(r) PROVE Holders' = Holders
    <3>1. /\ \A q \in Runs : run'[q].op = run[q].op /\ run'[q].gave = run[q].gave
          /\ overrun' = overrun
      BY <2>2, GoesEffect
    <3> QED
      BY <3>1 DEF Holders, Holds
  <2>3. ASSUME NEW r \in Runs, Ends(r) \/ Switched(r) PROVE Holders' = {}
    <3>1. Gives(r)
      BY <2>3, EndsGives, SwitchedGives
    <3>2. CASE overrun' = FALSE
      BY <2>0, <3>1, <3>2, NobodyAfterGives
    <3>3. CASE overrun' = TRUE
      BY <2>0, <3>3
    <3> QED
      BY <3>2, <3>3 DEF TypeOK
  <2>4. ASSUME NEW r \in Runs, StopCleared(r) PROVE Holders' = Holders
    <3>1. /\ overrun' = overrun /\ ~Holds(r) /\ ~Holds(r)'
          /\ \A q \in Runs \ {r} : run'[q] = run[q]
      BY <2>4, StopClearedHolds
    <3>2. \A q \in Runs : Holds(q)' = Holds(q)
      BY <3>1 DEF Holds
    <3> QED
      BY <3>1, <3>2 DEF Holders
  <2>5. CASE Reload
    BY <2>0, <2>5, ReloadHolds
  <2>6. CASE Still
    BY <2>6, StillHolds DEF Holders, Holds
  <2>7. ASSUME NEW r \in Runs, NEW o \in Ops, Start(r, o), overrun # FALSE
        PROVE  Holders' = Holders
    BY <2>7, StartHolds DEF Holders, TypeOK
  <2> QED
    BY <2>1, <2>2, <2>3, <2>4, <2>5, <2>6, <2>7, StepCases
<1> QED
  BY <1>1, <1>2, OpsTypeCorrect, ShapeInvariant, ExclusiveInvariant, PTL DEF Spec, Lock!Spec

=============================================================================

--------------------------- MODULE ImageStore_proofs ---------------------------
(***************************************************************************)
(* Theorems about ImageStore for every finite set of images, every set of  *)
(* expiries, any length of time and any number of faults.                  *)
(***************************************************************************)
EXTENDS ImageStore, FiniteSetTheorems, SequenceTheorems, TLAPS

(* The inductive invariant, in named parts.                                *)

\* A message from the server is about an image it has sent; one it has cleared it
\* does not want again.
FlightOK(m) == m.id \in sent /\ (m.type = "CLEAR" => server[m.id] = 0)

\* No PICTURE of this image is waiting in ImageUpdate::queue_.
NoneQueued(id) == \A i \in 1..Len(queue) : queue[i].type = "PICTURE" => queue[i].id # id

\* At most one list is parked: a check is only asked for by a connection that opens,
\* which has just sent what was parked.
ParkedOne ==
    /\ check => parked = <<>>
    /\ parked = <<>> \/ Len(parked) = 1

\* A row's path carries its expiry and its id.
RowsOK ==
    \A id \in Ids :
        /\ Stored(id) => /\ rows[id].path[2] = rows[id].expiresAt
                         /\ rows[id].path[3] = id
                         /\ id \in sent
        /\ server[id] # 0 => id \in sent

\* A CLEAR is never overtaken by a PICTURE of the same image.
QueueOK ==
    \A i \in 1..Len(queue) :
        /\ FlightOK(queue[i])
        /\ \A j \in 1..Len(queue) :
              i < j /\ queue[i].type = "CLEAR" /\ queue[j].type = "PICTURE"
                  => queue[i].id # queue[j].id

UpdateOK ==
    /\ ~up => update = UpdateIdle
    /\ update.at # "idle" => FlightOK(update.msg)
    /\ update.at \in {"write", "insert"} => ~Stored(update.msg.id)
    /\ update.at = "insert" =>
          /\ update.path[2] = update.msg.expiresAt
          /\ update.path[3] = update.msg.id
          /\ update.msg.expiresAt >= now => update.path \in DOMAIN files
    /\ update.at \in {"lookup", "unlink", "delete"} => NoneQueued(update.msg.id)
    /\ update.at = "unlink" =>
          /\ update.path[3] = update.msg.id
          /\ Stored(update.msg.id) => rows[update.msg.id].path = update.path
    /\ update.at = "delete" =>
          (Stored(update.msg.id) => rows[update.msg.id].path \notin DOMAIN files)

\* What the cleanup has read is still true when it acts on it: a row it is going to
\* delete has lost its file, and one that is gone already does not come back.
CleanupOK ==
    /\ \A p \in cleanup.paths : p[2] < now
    /\ cleanup.at # "unlink" => cleanup.paths = {}
    /\ \A id \in cleanup.ids :
          /\ Stored(id) => \/ rows[id].path \in cleanup.paths
                           \/ rows[id].path \notin DOMAIN files
          /\ ~Stored(id) =>
                /\ server[id] = 0 /\ id \in sent
                /\ NoneQueued(id)
                /\ update.at \in {"exists", "write", "insert"} => update.msg.id # id

FilesWhole == diskFaults = 0 => \A p \in DOMAIN files : files[p] = "whole"

\* A file without a row is one the update thread is about to insert.
FilesOwned ==
    dbFaults = 0 /\ up =>
        \A p \in DOMAIN files :
            \/ \E id \in Ids : rows[id].path = p
            \/ update.at = "insert" /\ update.path = p

RowsHaveFiles ==
    \A id \in Ids :
        Stored(id) /\ server[id] # 0 /\ ~Expired(id) => rows[id].path \in DOMAIN files

IInv ==
    /\ TypeOK /\ ParkedOne /\ RowsOK /\ QueueOK /\ UpdateOK /\ CleanupOK
    /\ FilesWhole /\ FilesOwned /\ RowsHaveFiles

-----------------------------------------------------------------------------
(* Lemmas about the operators the model is built from.                      *)

\* A path is a triple of receipt, expiry and id, and is not the path of NoRow.
LEMMA PathShape ==
    /\ \A t \in 0..MaxNow, x \in Expiries, id \in Ids : <<t, x, id>> \in Paths
    /\ \A p \in Paths : p # <<>> /\ p[2] \in Expiries /\ p[3] \in Ids
BY DEF Paths

\* A row that is stored is a record with a path of the save path.
LEMMA StoredShape ==
    ASSUME TypeOK, NEW id \in Ids
    PROVE  /\ Stored(id) => /\ rows[id] \in Rows
                            /\ rows[id].path \in Paths
                            /\ rows[id].expiresAt \in Expiries
           /\ rows[id].path \in Paths => Stored(id)
BY PathShape DEF TypeOK, Stored, Rows, NoRow

\* What the server answers: images it wants on the frame, each a PICTURE.
Wanted == {Picture(id, server[id]) : id \in {i \in Ids : server[i] # 0}}

\* SetToSeq of a finite set is a sequence over it.
LEMMA SetToSeqType ==
    ASSUME NEW S, IsFiniteSet(S)
    PROVE  SetToSeq(S) \in Seq(S)
<1>1. PICK f \in [1..Cardinality(S) -> S] : IsInjective(f)
  <2>1. ExistsBijection(1..Cardinality(S), S)
    BY FS_NatBijection, FS_CountingElements
  <2>2. PICK f : f \in Bijection(1..Cardinality(S), S)
    BY <2>1 DEF ExistsBijection
  <2>3. f \in [1..Cardinality(S) -> S] /\ IsInjective(f)
    BY <2>2 DEF Bijection, Injection, IsInjective
  <2> QED
    BY <2>3
<1>2. SetToSeq(S) \in [1..Cardinality(S) -> S]
  BY <1>1 DEF SetToSeq
<1>3. Cardinality(S) \in Nat
  BY FS_CardinalityType
<1> QED
  BY <1>2, <1>3

\* An answer is a sequence of them.
LEMMA AnswerType ==
    ASSUME TypeOK, NEW listed
    PROVE  Answer(listed) \in Seq(Wanted)
<1> DEFINE I == {i \in Ids \ listed : server[i] # 0}
           S == {Picture(id, server[id]) : id \in I}
<1>1. IsFiniteSet(I)
  BY FS_Subset, StoreAssumption
<1>2. IsFiniteSet(S)
  <2> DEFINE f == [id \in I |-> Picture(id, server[id])]
  <2>1. f \in Surjection(I, S)
    BY DEF Surjection
  <2> HIDE DEF f, I, S
  <2> QED
    BY <1>1, <2>1, FS_Surjection
<1>3. SetToSeq(S) \in Seq(S)
  BY <1>2, SetToSeqType
<1>4. S \subseteq Wanted
  BY DEF Wanted
<1>5. Answer(listed) = SetToSeq(S)
  BY DEF Answer
<1> HIDE DEF S
<1> QED
  BY <1>3, <1>4, <1>5

\* Flattening a sequence of one sequence.
LEMMA FlattenOne ==
    ASSUME NEW S, NEW q \in Seq(Seq(S)), Len(q) = 0 \/ Len(q) = 1
    PROVE  FlattenSeq(q) \in Seq(S)
<1>1. CASE Len(q) = 0
  BY <1>1 DEF FlattenSeq
<1>2. CASE Len(q) = 1
  <2> DEFINE flatten == CHOOSE g : g = [i \in 1..Len(q) |-> IF i = 1 THEN q[i] ELSE g[i-1] \o q[i]]
  <2>1. \E g : g = [i \in 1..Len(q) |-> IF i = 1 THEN q[i] ELSE g[i-1] \o q[i]]
    <3> DEFINE g == [i \in 1..1 |-> q[i]]
    <3>1. g = [i \in 1..Len(q) |-> IF i = 1 THEN q[i] ELSE g[i-1] \o q[i]]
      BY <1>2
    <3> QED
      BY <3>1
  <2>2. flatten = [i \in 1..Len(q) |-> IF i = 1 THEN q[i] ELSE flatten[i-1] \o q[i]]
    BY <2>1
  <2>3. flatten[1] = q[1]
    <3> HIDE DEF flatten
    <3> QED
      BY <2>2, <1>2
  <2>4. FlattenSeq(q) = flatten[Len(q)]
    BY <1>2 DEF FlattenSeq
  <2> HIDE DEF flatten
  <2>5. FlattenSeq(q) = q[1]
    BY <2>3, <2>4, <1>2
  <2> QED
    BY <2>5, <1>2
<1> QED
  BY <1>1, <1>2

\* Where ImageUpdate is decides which locals it has.
LEMMA UpdateShape ==
    ASSUME TypeOK
    PROVE  /\ update.at \in {"idle", "exists", "write", "insert", "lookup", "unlink", "delete"}
           /\ update.at = "idle" => update = UpdateIdle
           /\ update.at \in {"exists", "write", "insert"} =>
                 /\ update.msg \in Pictures
                 /\ update.msg.id \in Ids /\ update.msg.expiresAt \in Expiries
           /\ update.at \in {"lookup", "unlink", "delete"} =>
                 update.msg \in Clears /\ update.msg.id \in Ids
           /\ update.at \in {"insert", "unlink"} => update.path \in Paths
BY DEF TypeOK, UpdateStates, UpdateIdle, Pictures, Clears

\* The records the actions build.
LEMMA UpdateRecords ==
    /\ UpdateIdle \in UpdateStates /\ CleanupIdle \in CleanupStates
    /\ \A m \in Pictures : [at |-> "exists", msg |-> m] \in UpdateStates
    /\ \A m \in Pictures, q \in Paths :
          [at |-> "insert", msg |-> m, path |-> q] \in UpdateStates
    /\ \A m \in Clears : /\ [at |-> "lookup", msg |-> m] \in UpdateStates
                         /\ [at |-> "delete", msg |-> m] \in UpdateStates
    /\ \A m \in Clears, q \in Paths :
          [at |-> "unlink", msg |-> m, path |-> q] \in UpdateStates
BY DEF UpdateStates, CleanupStates, UpdateIdle, CleanupIdle

\* One fault more stays within the bound.
LEMMA FaultCount ==
    ASSUME TypeOK, MayFail
    PROVE  /\ crashes + 1 \in 0..MaxFaults /\ drops + 1 \in 0..MaxFaults
           /\ diskFaults + 1 \in 0..MaxFaults /\ dbFaults + 1 \in 0..MaxFaults
           /\ diskFaults + 1 # 0 /\ dbFaults + 1 # 0
<1>1. /\ crashes \in 0..MaxFaults /\ drops \in 0..MaxFaults
      /\ diskFaults \in 0..MaxFaults /\ dbFaults \in 0..MaxFaults
  BY DEF TypeOK
<1> QED
  BY <1>1, StoreAssumption DEF MayFail

\* The counters, one by one.
LEMMA Counters ==
    ASSUME TypeOK
    PROVE  /\ crashes \in 0..MaxFaults /\ drops \in 0..MaxFaults
           /\ diskFaults \in 0..MaxFaults /\ dbFaults \in 0..MaxFaults
BY DEF TypeOK

\* Writing a file.
LEMMA WithShape ==
    ASSUME NEW f, NEW p, NEW v
    PROVE  /\ DOMAIN With(f, p, v) = DOMAIN f \cup {p}
           /\ With(f, p, v)[p] = v
           /\ \A q \in DOMAIN f \ {p} : With(f, p, v)[q] = f[q]
BY DEF With
-----------------------------------------------------------------------------
(* Steps.                                                                   *)

\* Times are natural numbers.
LEMMA Times ==
    ASSUME TypeOK
    PROVE  now \in Nat /\ Expiries \subseteq Nat
BY StoreAssumption DEF TypeOK

\* Taking the first message off ImageUpdate::queue_.
LEMMA HeadTail ==
    ASSUME NEW S, NEW q \in Seq(S), q # <<>>
    PROVE  /\ Head(q) = q[1] /\ Head(q) \in S
           /\ Tail(q) \in Seq(S)
           /\ 1 \in 1..Len(q)
           /\ \A i \in 1..Len(Tail(q)) : i + 1 \in 1..Len(q) /\ Tail(q)[i] = q[i + 1]
OBVIOUS

\* The message taken off the queue is in flight; behind a CLEAR waits no PICTURE of its image.
LEMMA UpdateTakeStep ==
    ASSUME IInv, UpdateTake
    PROVE  IInv'
<1> USE DEF IInv, UpdateTake, store, links, world, bounds
<1>a. queue \in Seq(Messages) /\ queue # <<>>
  BY DEF TypeOK
<1>b. /\ Head(queue) = queue[1] /\ Head(queue) \in Messages /\ queue' \in Seq(Messages)
      /\ 1 \in 1..Len(queue)
      /\ \A i \in 1..Len(queue') : i + 1 \in 1..Len(queue) /\ queue'[i] = queue[i + 1]
  BY <1>a, HeadTail
<1>c. Head(queue) \in Pictures \/ Head(queue) \in Clears
  BY <1>b DEF Messages
<1>d. /\ update'.msg = queue[1]
      /\ Head(queue) \in Pictures => /\ queue[1].type = "PICTURE"
                                     /\ update' = [at |-> "exists", msg |-> Head(queue)]
      /\ Head(queue) \in Clears => /\ queue[1].type = "CLEAR"
                                   /\ update' = [at |-> "lookup", msg |-> Head(queue)]
  BY <1>b DEF Pictures, Clears
<1>e. update'.at \in {"exists", "lookup"} /\ (update'.at = "lookup" => queue[1].type = "CLEAR")
  BY <1>c, <1>d
<1>f. FlightOK(queue[1]) /\ \A i \in 1..Len(queue') : FlightOK(queue'[i])
  BY <1>b DEF QueueOK
<1>1. TypeOK'
  BY <1>b, <1>c, <1>d, UpdateRecords DEF TypeOK
<1>2. QueueOK'
  BY <1>b, <1>f DEF QueueOK, FlightOK
<1>3. UpdateOK'
  <2>1. queue[1].type = "CLEAR" =>
          \A i \in 1..Len(queue') : queue'[i].type = "PICTURE" => queue'[i].id # queue[1].id
    BY <1>b DEF QueueOK
  <2> QED
    BY <1>d, <1>e, <1>f, <2>1 DEF UpdateOK, FlightOK, NoneQueued
<1>4. CleanupOK'
  BY <1>b, <1>c, <1>d, <1>e DEF CleanupOK, Stored, NoneQueued
<1>5. FilesOwned'
  BY <1>e DEF FilesOwned
<1>6. ParkedOne' /\ RowsOK' /\ FilesWhole' /\ RowsHaveFiles'
  BY DEF ParkedOne, RowsOK, Stored, FilesWhole, RowsHaveFiles, Expired
<1> QED
  BY <1>1, <1>2, <1>3, <1>4, <1>5, <1>6

\* _onPicture goes on only with an image that has no row.
LEMMA UpdateExistsStep ==
    ASSUME IInv, UpdateExists
    PROVE  IInv'
<1> USE DEF IInv, UpdateExists, store, links, world, bounds
<1>1. TypeOK'
  <2>1. update' \in UpdateStates
    <3>1. update.msg \in Pictures
      BY UpdateShape
    <3>2. [update EXCEPT !.at = "write"] \in UpdateStates
      BY <3>1 DEF TypeOK, UpdateStates, UpdateIdle
    <3> QED
      BY <3>2, UpdateRecords
  <2> QED
    BY <2>1 DEF TypeOK
<1>2. UpdateOK'
  <2>1. CASE Stored(update.msg.id)
    BY <2>1 DEF UpdateOK, UpdateIdle
  <2>2. CASE ~Stored(update.msg.id)
    <3>1. update'.at = "write" /\ update'.msg = update.msg
      BY <2>2 DEF TypeOK, UpdateStates, UpdateIdle
    <3> QED
      BY <2>2, <3>1 DEF UpdateOK, Stored, FlightOK
  <2> QED
    BY <2>1, <2>2
<1>3. CleanupOK'
  <2>1. update' = UpdateIdle \/ update'.msg = update.msg
    BY DEF TypeOK, UpdateStates, UpdateIdle
  <2> QED
    BY <2>1 DEF CleanupOK, Stored, NoneQueued, UpdateIdle
<1>4. ParkedOne' /\ RowsOK' /\ QueueOK' /\ FilesWhole' /\ FilesOwned' /\ RowsHaveFiles'
  BY DEF ParkedOne, RowsOK, Stored, QueueOK, FlightOK, FilesWhole, FilesOwned, UpdateIdle,
     RowsHaveFiles, Expired
<1> QED
  BY <1>1, <1>2, <1>3, <1>4

\* The new file is no stored row's: its name carries an id that has no row.
LEMMA UpdateWriteStep ==
    ASSUME IInv, UpdateWrite
    PROVE  IInv'
<1> USE DEF IInv, UpdateWrite, store, links, world, bounds
<1> DEFINE p == <<now, update.msg.expiresAt, update.msg.id>>
<1>a. p \in Paths /\ p[2] = update.msg.expiresAt /\ p[3] = update.msg.id
  BY UpdateShape, PathShape DEF TypeOK
<1>b. /\ update' = [at |-> "insert", msg |-> update.msg, path |-> p]
      /\ \/ files' = With(files, p, "whole") /\ UNCHANGED diskFaults
         \/ files' = With(files, p, "short") /\ MayFail /\ diskFaults' = diskFaults + 1
  OBVIOUS
<1> HIDE DEF p
<1>c. /\ DOMAIN files' = DOMAIN files \cup {p}
      /\ \A q \in DOMAIN files \ {p} : files'[q] = files[q]
      /\ files'[p] \in {"whole", "short"}
      /\ diskFaults' = 0 => diskFaults = 0 /\ files'[p] = "whole"
      /\ diskFaults' \in 0..MaxFaults
  <2>1. CASE files' = With(files, p, "whole") /\ UNCHANGED diskFaults
    <3>1. diskFaults \in 0..MaxFaults
      BY Counters
    <3> QED
      BY <2>1, <3>1, WithShape DEF With
  <2>2. CASE files' = With(files, p, "short") /\ MayFail /\ diskFaults' = diskFaults + 1
    <3>1. diskFaults + 1 \in 0..MaxFaults /\ diskFaults + 1 # 0
      BY <2>2, FaultCount
    <3> QED
      BY <2>2, <3>1, WithShape DEF With
  <2> QED
    BY <1>b, <2>1, <2>2
<1>d. update.msg \in Pictures /\ update.msg.id \in Ids
  BY UpdateShape
<1>1. TypeOK'
  <2>1. update' \in UpdateStates
    BY <1>a, <1>b, <1>d, UpdateRecords
  <2> QED
    BY <1>a, <1>c, <2>1 DEF TypeOK
<1>2. UpdateOK'
  BY <1>a, <1>b, <1>c DEF UpdateOK, Stored, FlightOK
<1>3. CleanupOK'
  <2>1. \A id \in Ids : Stored(id) => rows[id].path # p
    BY <1>a DEF RowsOK, UpdateOK
  <2>2. cleanup.ids \subseteq Ids
    BY DEF TypeOK, CleanupStates
  <2> QED
    BY <1>b, <1>c, <2>1, <2>2 DEF CleanupOK, Stored, NoneQueued
<1>4. FilesWhole'
  BY <1>c DEF FilesWhole
<1>5. FilesOwned'
  BY <1>b, <1>c DEF FilesOwned
<1>6. RowsHaveFiles'
  BY <1>c DEF RowsHaveFiles, Stored, Expired
<1>7. ParkedOne' /\ RowsOK' /\ QueueOK'
  BY DEF ParkedOne, RowsOK, Stored, QueueOK, FlightOK
<1> QED
  BY <1>1, <1>2, <1>3, <1>4, <1>5, <1>6, <1>7

\* The row is new to the cleanup, and its file is there or has expired meanwhile.
LEMMA UpdateInsertStep ==
    ASSUME IInv, UpdateInsert
    PROVE  IInv'
<1> USE DEF IInv, UpdateInsert, store, links, world, bounds
<1> DEFINE a == update.msg.id
           r == RowOf(update)
<1>a. /\ a \in Ids /\ update.path \in Paths
      /\ update.msg \in Pictures /\ update.msg.expiresAt \in Expiries
  BY UpdateShape
<1>b. /\ r \in Rows /\ r # NoRow
      /\ r.path = update.path /\ r.expiresAt = update.msg.expiresAt
  BY <1>a, PathShape DEF RowOf, Rows, NoRow
<1>c. /\ rows' \in [Ids -> Rows \cup {NoRow}]
      /\ rows'[a] = r /\ \A id \in Ids \ {a} : rows'[id] = rows[id]
  BY <1>a, <1>b DEF TypeOK
<1>d. /\ ~Stored(a) /\ a \in sent
      /\ update.path[2] = update.msg.expiresAt /\ update.path[3] = a
      /\ update.msg.expiresAt >= now => update.path \in DOMAIN files
  BY DEF UpdateOK, FlightOK
<1>e. update'.at = "idle"
  BY DEF UpdateIdle
<1> HIDE DEF a, r
<1>1. TypeOK'
  BY <1>c, UpdateRecords DEF TypeOK
<1>2. RowsOK'
  BY <1>b, <1>c, <1>d DEF RowsOK, Stored
<1>3. UpdateOK'
  BY <1>e DEF UpdateOK
<1>4. CleanupOK'
  <2>1. a \notin cleanup.ids
    BY <1>d DEF CleanupOK, a
  <2>2. cleanup.ids \subseteq Ids
    BY DEF TypeOK, CleanupStates
  <2> QED
    BY <1>c, <1>e, <2>1, <2>2 DEF CleanupOK, Stored, NoneQueued
<1>5. FilesOwned'
  <2> SUFFICES ASSUME dbFaults = 0, up, NEW q \in DOMAIN files
               PROVE  \E id \in Ids : rows'[id].path = q
    BY DEF FilesOwned
  <2>1. CASE q = update.path
    BY <1>a, <1>b, <1>c, <2>1 DEF a
  <2>2. ASSUME NEW id \in Ids, rows[id].path = q PROVE rows'[id].path = q
    <3>1. Stored(id)
      BY <2>2, StoredShape DEF TypeOK
    <3> QED
      BY <1>c, <1>d, <2>2, <3>1
  <2> QED
    BY <2>1, <2>2 DEF FilesOwned
<1>6. RowsHaveFiles'
  <2>1. /\ update.msg.expiresAt \in Nat /\ now \in Nat
    BY <1>a, Times
  <2> QED
    BY <1>b, <1>c, <1>d, <2>1 DEF RowsHaveFiles, Stored, Expired
<1>7. ParkedOne' /\ QueueOK' /\ FilesWhole'
  BY DEF ParkedOne, QueueOK, FlightOK, FilesWhole
<1> QED
  BY <1>1, <1>2, <1>3, <1>4, <1>5, <1>6, <1>7

\* removeImages reads the row's own path.
LEMMA UpdateLookupStep ==
    ASSUME IInv, UpdateLookup
    PROVE  IInv'
<1> USE DEF IInv, UpdateLookup, store, links, world, bounds
<1>a. update.msg \in Clears /\ update.msg.id \in Ids
  BY UpdateShape
<1>b. \/ /\ Stored(update.msg.id)
         /\ update' = [at |-> "unlink", msg |-> update.msg, path |-> rows[update.msg.id].path]
      \/ /\ ~Stored(update.msg.id)
         /\ update' = [at |-> "delete", msg |-> update.msg]
  BY DEF TypeOK, UpdateStates, UpdateIdle
<1>c. update'.at \in {"unlink", "delete"} /\ update'.msg = update.msg
  BY <1>b
<1>1. TypeOK'
  <2>1. Stored(update.msg.id) => rows[update.msg.id].path \in Paths
    BY <1>a, StoredShape
  <2>2. update' \in UpdateStates
    BY <1>a, <1>b, <2>1, UpdateRecords
  <2> QED
    BY <2>2 DEF TypeOK
<1>2. UpdateOK'
  <2>1. CASE Stored(update.msg.id)
    BY <1>a, <1>b, <1>c, <2>1 DEF UpdateOK, RowsOK, Stored, FlightOK, NoneQueued
  <2>2. CASE ~Stored(update.msg.id)
    BY <1>a, <1>b, <1>c, <2>2 DEF UpdateOK, Stored, FlightOK, NoneQueued
  <2> QED
    BY <2>1, <2>2
<1>3. CleanupOK'
  BY <1>c DEF CleanupOK, Stored, NoneQueued
<1>4. FilesOwned'
  BY <1>c DEF FilesOwned
<1>5. ParkedOne' /\ RowsOK' /\ QueueOK' /\ FilesWhole' /\ RowsHaveFiles'
  BY DEF ParkedOne, RowsOK, Stored, QueueOK, FlightOK, FilesWhole, RowsHaveFiles, Expired
<1> QED
  BY <1>1, <1>2, <1>3, <1>4, <1>5

\* The file of a cleared image goes: the server does not want it.
LEMMA UpdateUnlinkStep ==
    ASSUME IInv, UpdateUnlink
    PROVE  IInv'
<1> USE DEF IInv, UpdateUnlink, store, links, world, bounds
<1>a. update.msg \in Clears /\ update.msg.id \in Ids /\ update.path \in Paths
  BY UpdateShape
<1>b. update' = [at |-> "delete", msg |-> update.msg]
  OBVIOUS
<1>c. /\ DOMAIN files' = DOMAIN files \ {update.path}
      /\ \A q \in DOMAIN files' : files'[q] = files[q]
  BY DEF Without
<1>1. TypeOK'
  BY <1>a, <1>b, <1>c, UpdateRecords DEF TypeOK
<1>2. UpdateOK'
  BY <1>a, <1>b, <1>c DEF UpdateOK, Stored, FlightOK, NoneQueued
<1>3. CleanupOK'
  BY <1>b, <1>c DEF CleanupOK, Stored, NoneQueued
<1>4. FilesWhole'
  BY <1>c DEF FilesWhole
<1>5. FilesOwned'
  BY <1>c DEF FilesOwned
<1>6. RowsHaveFiles'
  <2>1. server[update.msg.id] = 0 /\ update.path[3] = update.msg.id
    BY <1>a DEF UpdateOK, FlightOK, Clears
  <2>2. \A id \in Ids : Stored(id) /\ server[id] # 0 => rows[id].path # update.path
    BY <2>1 DEF RowsOK
  <2> QED
    BY <1>c, <2>2 DEF RowsHaveFiles, Stored, Expired
<1>7. ParkedOne' /\ RowsOK' /\ QueueOK'
  BY DEF ParkedOne, RowsOK, Stored, QueueOK, FlightOK
<1> QED
  BY <1>1, <1>2, <1>3, <1>4, <1>5, <1>6, <1>7

\* The row goes after its file, and no PICTURE is left to bring it back.
LEMMA UpdateDeleteStep ==
    ASSUME IInv, UpdateDelete
    PROVE  IInv'
<1> USE DEF IInv, UpdateDelete, store, links, world, bounds
<1>a. update.msg \in Clears /\ update.msg.id \in Ids
  BY UpdateShape
<1>b. update'.at = "idle"
  BY DEF UpdateIdle
<1>c. /\ rows' \in [Ids -> Rows \cup {NoRow}]
      /\ rows'[update.msg.id] = NoRow
      /\ \A id \in Ids \ {update.msg.id} : rows'[id] = rows[id]
  BY <1>a DEF TypeOK
<1>1. TypeOK'
  BY <1>c, UpdateRecords DEF TypeOK
<1>2. RowsOK'
  BY <1>c DEF RowsOK, Stored
<1>3. UpdateOK'
  BY <1>b DEF UpdateOK
<1>4. CleanupOK'
  <2>1. /\ server[update.msg.id] = 0 /\ update.msg.id \in sent
        /\ NoneQueued(update.msg.id)
    BY <1>a DEF UpdateOK, FlightOK, Clears
  <2>2. cleanup.ids \subseteq Ids
    BY DEF TypeOK, CleanupStates
  <2>3. \A id \in cleanup.ids : ~Stored(id)' => server[id] = 0 /\ id \in sent /\ NoneQueued(id)
    BY <1>c, <2>1, <2>2 DEF CleanupOK, Stored
  <2> QED
    BY <1>b, <1>c, <2>2, <2>3 DEF CleanupOK, Stored, NoneQueued
<1>5. FilesOwned'
  <2> SUFFICES ASSUME dbFaults = 0, up, NEW q \in DOMAIN files
               PROVE  \E id \in Ids : rows'[id].path = q
    BY DEF FilesOwned
  <2>1. PICK id \in Ids : rows[id].path = q
    BY DEF FilesOwned
  <2>2. Stored(id)
    BY <2>1, StoredShape DEF TypeOK
  <2>3. id # update.msg.id
    BY <2>1, <2>2 DEF UpdateOK
  <2> QED
    BY <1>c, <2>1, <2>3
<1>6. RowsHaveFiles'
  BY <1>c DEF RowsHaveFiles, Stored, Expired
<1>7. ParkedOne' /\ QueueOK' /\ FilesWhole'
  BY DEF ParkedOne, QueueOK, FlightOK, FilesWhole
<1> QED
  BY <1>1, <1>2, <1>3, <1>4, <1>5, <1>6, <1>7

\* A statement that throws ends the message; its file may stay.
LEMMA UpdateDbFailsStep ==
    ASSUME IInv, UpdateDbFails
    PROVE  IInv'
<1> USE DEF IInv, UpdateDbFails, store, links, world, bounds
<1>a. update' = UpdateIdle /\ update'.at = "idle"
  BY DEF UpdateIdle
<1>b. dbFaults' \in 0..MaxFaults /\ dbFaults' # 0
  BY FaultCount DEF DbFault
<1>1. TypeOK'
  BY <1>a, <1>b, UpdateRecords DEF TypeOK
<1>2. UpdateOK'
  BY <1>a DEF UpdateOK
<1>3. CleanupOK'
  BY <1>a DEF CleanupOK, Stored, NoneQueued
<1>4. FilesOwned'
  BY <1>b DEF FilesOwned
<1>5. ParkedOne' /\ RowsOK' /\ QueueOK' /\ FilesWhole' /\ RowsHaveFiles'
  BY DEF ParkedOne, RowsOK, Stored, QueueOK, FlightOK, FilesWhole, RowsHaveFiles, Expired
<1> QED
  BY <1>1, <1>2, <1>3, <1>4, <1>5

\* removeExpired reads rows that are stored and expired.
LEMMA CleanupScanStep ==
    ASSUME IInv, CleanupScan
    PROVE  IInv'
<1> USE DEF IInv, CleanupScan, store, links, world, bounds
<1>a. /\ cleanup'.at = "unlink" /\ cleanup'.ids = Old
      /\ cleanup'.paths = {rows[id].path : id \in Old}
      /\ cleanup' = [at |-> "unlink", ids |-> Old, paths |-> {rows[id].path : id \in Old}]
  OBVIOUS
<1>b. Old \subseteq Ids /\ \A id \in Old : Stored(id) /\ rows[id].expiresAt < now
  BY DEF Old, Expired
<1>c. \A id \in Old : rows[id].path \in Paths
  BY <1>b, StoredShape
<1>1. TypeOK'
  <2>1. cleanup' \in CleanupStates
    BY <1>a, <1>b, <1>c DEF CleanupStates
  <2> QED
    BY <2>1 DEF TypeOK
<1>2. UpdateOK'
  BY DEF UpdateOK, Stored, FlightOK, NoneQueued
<1>3. CleanupOK'
  <2>1. \A q \in cleanup'.paths : q[2] < now
    BY <1>a, <1>b DEF RowsOK
  <2>2. \A id \in cleanup'.ids : Stored(id)' /\ rows'[id].path \in cleanup'.paths
    BY <1>a, <1>b DEF Stored
  <2> QED
    BY <1>a, <2>1, <2>2 DEF CleanupOK
<1>4. ParkedOne' /\ RowsOK' /\ QueueOK' /\ FilesWhole' /\ FilesOwned' /\ RowsHaveFiles'
  BY DEF ParkedOne, RowsOK, Stored, QueueOK, FlightOK, FilesWhole, FilesOwned, UpdateIdle,
     RowsHaveFiles, Expired
<1> QED
  BY <1>1, <1>2, <1>3, <1>4

\* A file the cleanup takes carries an expiry that has passed.
LEMMA CleanupUnlinkStep ==
    ASSUME IInv, CleanupUnlink
    PROVE  IInv'
<1> USE DEF IInv, CleanupUnlink, store, links, world, bounds
<1>0. PICK q \in cleanup.paths :
         /\ files' = Without(files, {q})
         /\ cleanup' = [cleanup EXCEPT !.paths = @ \ {q},
                                       !.at = IF cleanup.paths = {q} THEN "delete" ELSE @]
  OBVIOUS
<1>a. /\ DOMAIN files' = DOMAIN files \ {q}
      /\ \A f \in DOMAIN files' : files'[f] = files[f]
  BY <1>0 DEF Without
<1>b. cleanup \in CleanupStates
  BY DEF TypeOK
<1>c. /\ cleanup'.ids = cleanup.ids /\ cleanup'.paths = cleanup.paths \ {q}
      /\ cleanup'.at = IF cleanup.paths = {q} THEN "delete" ELSE "unlink"
      /\ cleanup' \in CleanupStates
  BY <1>0, <1>b DEF CleanupStates
<1>d. q[2] < now /\ q[2] \in Nat /\ now \in Nat
  BY <1>b, PathShape, Times DEF CleanupOK, CleanupStates
<1>1. TypeOK'
  BY <1>a, <1>c DEF TypeOK
<1>2. UpdateOK'
  <2>1. update.at = "insert" /\ update.msg.expiresAt >= now => update.path # q
    <3>1. update.at = "insert" => update.msg.expiresAt \in Nat
      BY UpdateShape, Times
    <3> QED
      BY <1>d, <3>1 DEF UpdateOK
  <2> QED
    BY <1>a, <2>1 DEF UpdateOK, Stored, FlightOK, NoneQueued
<1>3. CleanupOK'
  BY <1>a, <1>c DEF CleanupOK, Stored, NoneQueued
<1>4. FilesWhole'
  BY <1>a DEF FilesWhole
<1>5. FilesOwned'
  BY <1>a DEF FilesOwned
<1>6. RowsHaveFiles'
  <2>1. \A id \in Ids : Stored(id) /\ ~Expired(id) => rows[id].path # q
    BY <1>d DEF RowsOK, Expired
  <2> QED
    BY <1>a, <2>1 DEF RowsHaveFiles, Stored, Expired
<1>7. ParkedOne' /\ RowsOK' /\ QueueOK'
  BY DEF ParkedOne, RowsOK, Stored, QueueOK, FlightOK
<1> QED
  BY <1>1, <1>2, <1>3, <1>4, <1>5, <1>6, <1>7

\* The rows removeByIds takes have lost their files.
LEMMA CleanupDeleteStep ==
    ASSUME IInv, CleanupDelete
    PROVE  IInv'
<1> USE DEF IInv, CleanupDelete, store, links, world, bounds
<1>a. cleanup \in CleanupStates /\ cleanup.ids \subseteq Ids
  BY DEF TypeOK, CleanupStates
<1>b. /\ rows' \in [Ids -> Rows \cup {NoRow}]
      /\ \A id \in Ids : rows'[id] = IF id \in cleanup.ids THEN NoRow ELSE rows[id]
  BY DEF TypeOK
<1>c. cleanup' = CleanupIdle /\ cleanup'.ids = {} /\ cleanup'.paths = {} /\ cleanup'.at = "idle"
  BY DEF CleanupIdle
<1>1. TypeOK'
  BY <1>b, UpdateRecords DEF TypeOK
<1>2. RowsOK'
  BY <1>b DEF RowsOK, Stored
<1>3. UpdateOK'
  BY <1>b, UpdateShape DEF UpdateOK, Stored, FlightOK, NoneQueued, UpdateIdle
<1>4. CleanupOK'
  BY <1>c DEF CleanupOK
<1>5. FilesOwned'
  <2> SUFFICES ASSUME dbFaults = 0, up, NEW q \in DOMAIN files
               PROVE  \/ \E id \in Ids : rows'[id].path = q
                      \/ update.at = "insert" /\ update.path = q
    BY DEF FilesOwned
  <2>1. ASSUME NEW id \in Ids, rows[id].path = q PROVE rows'[id].path = q
    <3>1. Stored(id)
      BY <2>1, StoredShape DEF TypeOK
    <3>2. id \notin cleanup.ids
      BY <2>1, <3>1 DEF CleanupOK
    <3> QED
      BY <1>b, <2>1, <3>2
  <2> QED
    BY <2>1 DEF FilesOwned
<1>6. RowsHaveFiles'
  BY <1>b DEF RowsHaveFiles, Stored, Expired
<1>7. ParkedOne' /\ QueueOK' /\ FilesWhole'
  BY DEF ParkedOne, QueueOK, FlightOK, FilesWhole
<1> QED
  BY <1>1, <1>2, <1>3, <1>4, <1>5, <1>6, <1>7

\* A cleanup that throws forgets what it read.
LEMMA CleanupDbFailsStep ==
    ASSUME IInv, CleanupDbFails
    PROVE  IInv'
<1> USE DEF IInv, CleanupDbFails, store, links, world, bounds
<1>a. cleanup' = CleanupIdle /\ cleanup'.ids = {} /\ cleanup'.paths = {} /\ cleanup'.at = "idle"
  BY DEF CleanupIdle
<1>b. dbFaults' \in 0..MaxFaults /\ dbFaults' # 0
  BY FaultCount DEF DbFault
<1>1. TypeOK'
  BY <1>a, <1>b, UpdateRecords DEF TypeOK
<1>2. CleanupOK'
  BY <1>a DEF CleanupOK
<1>3. FilesOwned'
  BY <1>b DEF FilesOwned
<1>4. ParkedOne' /\ RowsOK' /\ QueueOK' /\ UpdateOK' /\ FilesWhole' /\ RowsHaveFiles'
  BY UpdateShape DEF ParkedOne, RowsOK, Stored, QueueOK, FlightOK, UpdateOK, NoneQueued,
     UpdateIdle, FilesWhole, RowsHaveFiles, Expired
<1> QED
  BY <1>1, <1>2, <1>3, <1>4

\* A check that throws is spent.
LEMMA CheckDbFailsStep ==
    ASSUME IInv, CheckDbFails
    PROVE  IInv'
<1> USE DEF IInv, CheckDbFails, store, links, world, bounds
<1>b. dbFaults' \in 0..MaxFaults /\ dbFaults' # 0
  BY FaultCount DEF DbFault
<1>1. TypeOK'
  BY <1>b DEF TypeOK
<1>2. FilesOwned'
  BY <1>b DEF FilesOwned
<1>3. /\ ParkedOne' /\ RowsOK' /\ QueueOK' /\ UpdateOK'
      /\ CleanupOK' /\ FilesWhole' /\ RowsHaveFiles'
  BY UpdateShape DEF ParkedOne, RowsOK, Stored, QueueOK, FlightOK, UpdateOK, NoneQueued,
     UpdateIdle, CleanupOK, FilesWhole, RowsHaveFiles, Expired
<1> QED
  BY <1>1, <1>2, <1>3

\* A lost connection changes no row, file or message.
LEMMA DropStep ==
    ASSUME IInv, Drop
    PROVE  IInv'
<1> USE DEF IInv, Drop, store, links, world, bounds
<1>a. drops' \in 0..MaxFaults
  BY FaultCount
<1>1. TypeOK'
  BY <1>a DEF TypeOK
<1>2. /\ ParkedOne' /\ RowsOK' /\ QueueOK' /\ UpdateOK'
      /\ CleanupOK' /\ FilesWhole' /\ FilesOwned' /\ RowsHaveFiles'
  BY UpdateShape DEF ParkedOne, RowsOK, Stored, QueueOK, FlightOK, UpdateOK, NoneQueued,
     UpdateIdle, CleanupOK, FilesWhole, FilesOwned, RowsHaveFiles, Expired
<1> QED
  BY <1>1, <1>2

\* A crash empties the queues and both threads.
LEMMA CrashStep ==
    ASSUME IInv, Crash
    PROVE  IInv'
<1> USE DEF IInv, Crash, store, links, world, bounds
<1>a. crashes' \in 0..MaxFaults
  BY FaultCount
<1>b. update' = UpdateIdle /\ update'.at = "idle"
  BY DEF UpdateIdle
<1>c. cleanup' = CleanupIdle /\ cleanup'.ids = {} /\ cleanup'.paths = {} /\ cleanup'.at = "idle"
  BY DEF CleanupIdle
<1>1. TypeOK'
  <2>1. parked' \in Seq(SUBSET Ids) /\ queue' \in Seq(Messages)
    OBVIOUS
  <2>2. update' \in UpdateStates /\ cleanup' \in CleanupStates
    BY <1>b, <1>c, UpdateRecords
  <2>3. /\ crashes' \in 0..MaxFaults /\ drops' \in 0..MaxFaults
        /\ diskFaults' \in 0..MaxFaults /\ dbFaults' \in 0..MaxFaults
    BY <1>a, Counters
  <2> QED
    BY <2>1, <2>2, <2>3 DEF TypeOK
<1>2. QueueOK'
  BY DEF QueueOK
<1>3. UpdateOK'
  BY <1>b DEF UpdateOK
<1>4. CleanupOK'
  BY <1>c DEF CleanupOK
<1>5. ParkedOne' /\ RowsOK' /\ FilesWhole' /\ FilesOwned' /\ RowsHaveFiles'
  BY DEF ParkedOne, RowsOK, Stored, FilesWhole, FilesOwned, UpdateIdle, RowsHaveFiles,
     Expired
<1> QED
  BY <1>1, <1>2, <1>3, <1>4, <1>5

\* removeOrphaned takes the files without a row, and only those.
LEMMA RestartStep ==
    ASSUME IInv, Restart
    PROVE  IInv'
<1> USE DEF IInv, Restart, store, links, world, bounds
<1>a. /\ DOMAIN files' = DOMAIN files \ Orphans
      /\ \A f \in DOMAIN files' : files'[f] = files[f]
  BY DEF Without
<1>b. update = UpdateIdle /\ update.at = "idle"
  BY DEF UpdateOK, UpdateIdle
<1>c. \A id \in Ids : rows[id].path \notin Orphans
  BY DEF Orphans
<1>1. TypeOK'
  BY <1>a DEF TypeOK
<1>2. UpdateOK'
  BY <1>b DEF UpdateOK
<1>3. CleanupOK'
  BY <1>a DEF CleanupOK, Stored, NoneQueued
<1>4. FilesWhole'
  BY <1>a DEF FilesWhole
<1>5. FilesOwned'
  BY <1>a DEF FilesOwned, Orphans
<1>6. RowsHaveFiles'
  BY <1>a, <1>c DEF RowsHaveFiles, Stored, Expired
<1>7. ParkedOne' /\ RowsOK' /\ QueueOK'
  BY DEF ParkedOne, RowsOK, Stored, QueueOK, FlightOK
<1> QED
  BY <1>1, <1>2, <1>3, <1>4, <1>5, <1>6, <1>7

\* What has expired stays expired.
LEMMA TickStep ==
    ASSUME IInv, Tick
    PROVE  IInv'
<1> USE DEF IInv, Tick, store, links, world, bounds
<1>a. now' \in 0..MaxNow /\ now \in Nat /\ now' \in Nat /\ Expiries \subseteq Nat
  BY StoreAssumption, Times DEF TypeOK
<1>1. TypeOK'
  BY <1>a DEF TypeOK
<1>2. UpdateOK'
  <2>1. update.at = "insert" => update.msg.expiresAt \in Nat
    BY <1>a, UpdateShape
  <2> QED
    BY <1>a, <2>1 DEF UpdateOK, Stored, FlightOK, NoneQueued
<1>3. CleanupOK'
  <2>1. \A q \in cleanup.paths : q[2] \in Nat
    BY <1>a, PathShape DEF TypeOK, CleanupStates
  <2> QED
    BY <1>a, <2>1 DEF CleanupOK, Stored, NoneQueued
<1>4. RowsHaveFiles'
  <2>1. \A id \in Ids : Stored(id) => rows[id].expiresAt \in Nat
    BY <1>a, StoredShape
  <2> QED
    BY <1>a, <2>1 DEF RowsHaveFiles, Stored, Expired
<1>5. ParkedOne' /\ RowsOK' /\ QueueOK' /\ FilesWhole' /\ FilesOwned'
  BY DEF ParkedOne, RowsOK, Stored, QueueOK, FlightOK, FilesWhole, FilesOwned, UpdateIdle
<1> QED
  BY <1>1, <1>2, <1>3, <1>4, <1>5

\* The messages of a longer queue are the old ones and the new ones.
LEMMA Concatenated ==
    ASSUME NEW S, NEW q \in Seq(S), NEW w \in Seq(S)
    PROVE  /\ q \o w \in Seq(S)
           /\ Len(q) \in Nat /\ Len(q \o w) = Len(q) + Len(w)
           /\ \A i \in 1..Len(q) : (q \o w)[i] = q[i]
           /\ \A i \in 1..Len(q \o w) : i \notin 1..Len(q) =>
                 \E k \in 1..Len(w) : (q \o w)[i] = w[k]
<1>1. Len(q) \in Nat /\ Len(w) \in Nat /\ Len(q \o w) = Len(q) + Len(w)
  OBVIOUS
<1>2. ASSUME NEW i \in 1..Len(q \o w), i \notin 1..Len(q)
      PROVE  \E k \in 1..Len(w) : (q \o w)[i] = w[k]
  <2>1. i - Len(q) \in 1..Len(w) /\ (q \o w)[i] = w[i - Len(q)]
    BY <1>1, <1>2
  <2> QED
    BY <2>1
<1> QED
  BY <1>1, <1>2

\* What the server answers to a list of ids joins the queue behind what is there: only
\* images it wants, so none of them is being cleared.
LEMMA Enqueue ==
    ASSUME IInv, NEW w \in Seq(Wanted), queue' = queue \o w,
           UNCHANGED <<now, rows, files, up, update, cleanup, server, sent>>
    PROVE  queue' \in Seq(Messages) /\ QueueOK' /\ UpdateOK' /\ CleanupOK'
<1> USE DEF IInv
<1>1. \A m \in Wanted : /\ m \in Messages /\ m.type = "PICTURE"
                        /\ m.id \in Ids /\ server[m.id] # 0 /\ m.id \in sent
  BY DEF Wanted, Picture, Messages, Pictures, TypeOK, RowsOK
<1>2. queue \in Seq(Messages) /\ w \in Seq(Messages)
  BY <1>1 DEF TypeOK
<1>3. /\ queue' \in Seq(Messages)
      /\ Len(queue) \in Nat /\ Len(queue') \in Nat
      /\ \A i \in 1..Len(queue') :
            \/ i \in 1..Len(queue) /\ queue'[i] = queue[i]
            \/ i \notin 1..Len(queue) /\ queue'[i] \in Wanted
  BY <1>2, Concatenated
<1>4. QueueOK'
  <2>1. ASSUME NEW i \in 1..Len(queue') PROVE FlightOK(queue[i])'
    BY <1>1, <1>3 DEF QueueOK, FlightOK
  <2>2. ASSUME NEW i \in 1..Len(queue'), NEW j \in 1..Len(queue'), i < j,
               queue'[i].type = "CLEAR", queue'[j].type = "PICTURE"
        PROVE  queue'[i].id # queue'[j].id
    <3>1. i \in 1..Len(queue) /\ queue'[i] = queue[i] /\ server[queue[i].id] = 0
      BY <1>1, <1>3, <2>2 DEF QueueOK, FlightOK
    <3>2. CASE j \in 1..Len(queue) /\ queue'[j] = queue[j]
      BY <2>2, <3>1, <3>2 DEF QueueOK
    <3>3. CASE queue'[j] \in Wanted
      BY <1>1, <3>1, <3>3
    <3> QED
      BY <1>3, <3>2, <3>3
  <2> QED
    BY <2>1, <2>2 DEF QueueOK
<1>5. \A id \in Ids : server[id] = 0 /\ NoneQueued(id) => NoneQueued(id)'
  BY <1>1, <1>3 DEF NoneQueued
<1>6. UpdateOK'
  <2>1. update.at \in {"lookup", "unlink", "delete"} =>
           update.msg.id \in Ids /\ server[update.msg.id] = 0
    BY UpdateShape DEF UpdateOK, FlightOK, Clears
  <2>2. update.at \in {"lookup", "unlink", "delete"} => NoneQueued(update.msg.id)'
    BY <1>5, <2>1 DEF UpdateOK, NoneQueued
  <2> QED
    BY <2>2 DEF UpdateOK, Stored, FlightOK, NoneQueued
<1>7. CleanupOK'
  <2>1. cleanup.ids \subseteq Ids
    BY DEF TypeOK, CleanupStates
  <2> QED
    BY <1>5, <2>1 DEF CleanupOK, Stored
<1> QED
  BY <1>3, <1>4, <1>6, <1>7

\* The answer to a check joins the queue, or the list is parked.
LEMMA CheckMissingStep ==
    ASSUME IInv, CheckMissing
    PROVE  IInv'
<1> DEFINE listed == {id \in Ids : Stored(id)}
<1> USE DEF IInv, CheckMissing, store, links, world, bounds
<1>1. /\ queue' \in Seq(Messages) /\ parked' \in Seq(SUBSET Ids)
      /\ ParkedOne' /\ QueueOK' /\ UpdateOK' /\ CleanupOK'
  <2>1. CASE online
    <3>1. Answer(listed) \in Seq(Wanted) /\ queue' = queue \o Answer(listed) /\ parked' = parked
      BY <2>1, AnswerType
    <3> HIDE DEF listed
    <3> QED
      BY <3>1, Enqueue DEF ParkedOne, TypeOK
  <2>2. CASE ~online
    <3>1. /\ parked' = Append(parked, listed) /\ queue' = queue /\ parked = <<>>
      BY <2>2 DEF ParkedOne
    <3>2. parked' \in Seq(SUBSET Ids) /\ Len(parked') = 1
      BY <3>1
    <3> QED
      BY <3>1, <3>2 DEF TypeOK, ParkedOne, QueueOK, UpdateOK, CleanupOK, Stored, FlightOK, NoneQueued
  <2> QED
    BY <2>1, <2>2 DEF TypeOK
<1>2. TypeOK'
  BY <1>1 DEF TypeOK
<1>3. RowsOK' /\ FilesWhole' /\ FilesOwned' /\ RowsHaveFiles'
  BY DEF RowsOK, FilesWhole, FilesOwned, RowsHaveFiles, Stored, Expired
<1> QED
  BY <1>1, <1>2, <1>3

\* A connection that opens sends the parked list and asks for a check.
LEMMA ConnectStep ==
    ASSUME IInv, Connect
    PROVE  IInv'
<1> DEFINE answers == [i \in DOMAIN parked |-> Answer(parked[i])]
<1> USE DEF IInv, Connect, store, links, world, bounds
<1>1. FlattenSeq(answers) \in Seq(Wanted)
  <2>1. parked \in Seq(SUBSET Ids)
    BY DEF TypeOK
  <2>2. \A i \in DOMAIN parked : Answer(parked[i]) \in Seq(Wanted)
    BY AnswerType
  <2>3. answers \in Seq(Seq(Wanted)) /\ Len(answers) = Len(parked)
    BY <2>1, <2>2
  <2>4. Len(answers) = 0 \/ Len(answers) = 1
    BY <2>3 DEF ParkedOne
  <2> HIDE DEF answers
  <2> QED
    BY <2>3, <2>4, FlattenOne
<1>2. queue' = queue \o FlattenSeq(answers) /\ parked' = <<>>
  BY DEF Flush
<1> HIDE DEF answers
<1>3. queue' \in Seq(Messages) /\ QueueOK' /\ UpdateOK' /\ CleanupOK'
  BY <1>1, <1>2, Enqueue
<1>4. TypeOK' /\ ParkedOne'
  BY <1>2, <1>3 DEF TypeOK, ParkedOne
<1>5. RowsOK' /\ FilesWhole' /\ FilesOwned' /\ RowsHaveFiles'
  BY DEF RowsOK, FilesWhole, FilesOwned, RowsHaveFiles, Stored, Expired
<1> QED
  BY <1>3, <1>4, <1>5

\* One message joins the queue, or is lost.
LEMMA DeliveredShape ==
    ASSUME NEW m \in Messages, queue \in Seq(Messages), queue' = Delivered(m)
    PROVE  /\ queue' \in Seq(Messages)
           /\ \A i \in 1..Len(queue') :
                 \/ i \in 1..Len(queue) /\ queue'[i] = queue[i]
                 \/ i \notin 1..Len(queue) /\ i = Len(queue') /\ queue'[i] = m
BY DEF Delivered

\* A new image: nothing on the frame is about its id yet.
LEMMA ServerSendsStep ==
    ASSUME IInv, NEW a \in Ids, NEW x \in Expiries, ServerSends(a, x)
    PROVE  IInv'
<1> DEFINE m == Picture(a, x)
<1> USE DEF IInv, ServerSends, store, links, world, bounds
<1>1. m \in Messages /\ m.type = "PICTURE" /\ m.id = a
  BY DEF Picture, Messages, Pictures
<1>2. /\ queue' \in Seq(Messages)
      /\ \A i \in 1..Len(queue') :
            \/ i \in 1..Len(queue) /\ queue'[i] = queue[i]
            \/ i \notin 1..Len(queue) /\ i = Len(queue') /\ queue'[i] = m
  BY <1>1, DeliveredShape DEF TypeOK
<1> HIDE DEF m
<1>3. /\ sent' = sent \cup {a} /\ a \notin sent
      /\ server' \in [Ids -> Expiries \cup {0}]
      /\ \A id \in Ids \ {a} : server'[id] = server[id]
  BY DEF TypeOK
<1>4. TypeOK'
  BY <1>2, <1>3 DEF TypeOK
<1>5. RowsOK' /\ RowsHaveFiles'
  BY <1>3 DEF RowsOK, RowsHaveFiles, Stored, Expired
<1>6. QueueOK'
  <2>1. \A i \in 1..Len(queue) : queue[i].id \in Ids /\ queue[i].id # a
    BY <1>3 DEF QueueOK, FlightOK, TypeOK, Messages, Pictures, Clears
  <2>2. Len(queue) \in Nat /\ Len(queue') \in Nat
    BY <1>2 DEF TypeOK
  <2> QED
    BY <1>1, <1>2, <1>3, <2>1, <2>2 DEF QueueOK, FlightOK
<1>7. \A id \in sent : NoneQueued(id) => NoneQueued(id)'
  BY <1>1, <1>2, <1>3 DEF NoneQueued
<1>8. UpdateOK'
  <2>1. update.at # "idle" => update.msg.id \in Ids /\ update.msg.id \in sent /\ update.msg.id # a
    BY <1>3, UpdateShape DEF UpdateOK, FlightOK
  <2>2. update.at \in {"lookup", "unlink", "delete"} => NoneQueued(update.msg.id)'
    BY <1>7, <2>1 DEF UpdateOK, NoneQueued
  <2> QED
    BY <1>3, <2>1, <2>2 DEF UpdateOK, Stored, FlightOK, NoneQueued
<1>9. CleanupOK'
  <2>1. \A id \in cleanup.ids : id \in Ids /\ id \in sent /\ id # a
    BY <1>3 DEF TypeOK, CleanupStates, CleanupOK, RowsOK
  <2> QED
    BY <1>3, <1>7, <2>1 DEF CleanupOK, Stored
<1>10. ParkedOne' /\ FilesWhole' /\ FilesOwned'
  BY DEF ParkedOne, FilesWhole, FilesOwned
<1> QED
  BY <1>4, <1>5, <1>6, <1>8, <1>9, <1>10

\* A cleared image: its CLEAR is behind every PICTURE of it.
LEMMA ServerClearsStep ==
    ASSUME IInv, NEW a \in Ids, ServerClears(a)
    PROVE  IInv'
<1> DEFINE m == [type |-> "CLEAR", id |-> a]
<1> USE DEF IInv, ServerClears, store, links, world, bounds
<1>1. m \in Messages /\ m.type = "CLEAR" /\ m.id = a
  BY DEF Messages, Clears
<1>2. /\ queue' \in Seq(Messages)
      /\ \A i \in 1..Len(queue') :
            \/ i \in 1..Len(queue) /\ queue'[i] = queue[i]
            \/ i \notin 1..Len(queue) /\ i = Len(queue') /\ queue'[i] = m
  BY <1>1, DeliveredShape DEF TypeOK
<1> HIDE DEF m
<1>3. /\ a \in sent /\ server' \in [Ids -> Expiries \cup {0}] /\ server'[a] = 0
      /\ \A id \in Ids \ {a} : server'[id] = server[id]
  BY DEF TypeOK, RowsOK
<1>4. TypeOK'
  BY <1>2, <1>3 DEF TypeOK
<1>5. RowsOK' /\ RowsHaveFiles'
  BY <1>3 DEF RowsOK, RowsHaveFiles, Stored, Expired
<1>6. QueueOK'
  <2>1. \A i \in 1..Len(queue) : queue[i].id \in Ids
    BY DEF TypeOK, Messages, Pictures, Clears
  <2>2. Len(queue) \in Nat /\ Len(queue') \in Nat
    BY <1>2 DEF TypeOK
  <2> QED
    BY <1>1, <1>2, <1>3, <2>1, <2>2 DEF QueueOK, FlightOK
<1>7. \A id \in Ids : NoneQueued(id) => NoneQueued(id)'
  BY <1>1, <1>2 DEF NoneQueued
<1>8. UpdateOK'
  <2>1. update.at # "idle" => update.msg.id \in Ids
    BY UpdateShape
  <2>2. update.at \in {"lookup", "unlink", "delete"} => NoneQueued(update.msg.id)'
    BY <1>7, <2>1 DEF UpdateOK, NoneQueued
  <2> QED
    BY <1>3, <2>1, <2>2 DEF UpdateOK, Stored, FlightOK, NoneQueued
<1>9. CleanupOK'
  <2>1. cleanup.ids \subseteq Ids
    BY DEF TypeOK, CleanupStates
  <2> QED
    BY <1>3, <1>7, <2>1 DEF CleanupOK, Stored
<1>10. ParkedOne' /\ FilesWhole' /\ FilesOwned'
  BY DEF ParkedOne, FilesWhole, FilesOwned
<1> QED
  BY <1>4, <1>5, <1>6, <1>8, <1>9, <1>10

-----------------------------------------------------------------------------
(* The theorems.                                                            *)

\* The first start of the service.
LEMMA InitInv == Init => IInv
<1> SUFFICES ASSUME Init PROVE IInv
  OBVIOUS
<1> USE DEF Init, UpdateIdle, CleanupIdle
<1>1. TypeOK
  <2>1. 0 \in 0..MaxNow /\ 0 \in 0..MaxFaults
    BY StoreAssumption
  <2>2. DOMAIN files = {}
    OBVIOUS
  <2>3. update \in UpdateStates /\ cleanup \in CleanupStates
    BY UpdateRecords
  <2> QED
    BY <2>1, <2>2, <2>3 DEF TypeOK
<1>2. ParkedOne /\ RowsOK /\ QueueOK /\ UpdateOK /\ CleanupOK
  BY DEF ParkedOne, RowsOK, QueueOK, UpdateOK, CleanupOK, Stored
<1>3. FilesWhole /\ FilesOwned /\ RowsHaveFiles
  BY DEF FilesWhole, FilesOwned, RowsHaveFiles, Stored
<1> QED
  BY <1>1, <1>2, <1>3 DEF IInv

\* Every step of either thread, the server, the network and the clock, and every crash.
LEMMA NextInv == IInv /\ [Next]_vars => IInv'
<1> SUFFICES ASSUME IInv, [Next]_vars PROVE IInv'
  OBVIOUS
<1>1. CASE Update
  BY <1>1, UpdateTakeStep, UpdateExistsStep, UpdateWriteStep, UpdateInsertStep,
     UpdateLookupStep, UpdateUnlinkStep, UpdateDeleteStep, UpdateDbFailsStep DEF Update
<1>2. CASE Cleanup
  BY <1>2, CleanupScanStep, CleanupUnlinkStep, CleanupDeleteStep, CleanupDbFailsStep
     DEF Cleanup
<1>3. CASE CheckMissing \/ CheckDbFails
  BY <1>3, CheckMissingStep, CheckDbFailsStep
<1>4. ASSUME NEW id \in Ids, ServerClears(id) \/ \E x \in Expiries : ServerSends(id, x)
      PROVE  IInv'
  BY <1>4, ServerClearsStep, ServerSendsStep
<1>5. CASE Drop \/ Connect
  BY <1>5, DropStep, ConnectStep
<1>6. CASE Crash \/ Restart \/ Tick
  BY <1>6, CrashStep, RestartStep, TickStep
<1>7. CASE UNCHANGED vars
  <2> USE <1>7 DEF vars, store, links, world, bounds, IInv
  <2>1. TypeOK'
    BY DEF TypeOK
  <2>2. ParkedOne' /\ RowsOK' /\ QueueOK'
    BY DEF ParkedOne, RowsOK, QueueOK, Stored, FlightOK
  <2>3. UpdateOK' /\ CleanupOK'
    BY DEF UpdateOK, CleanupOK, Stored, FlightOK, NoneQueued
  <2>4. FilesWhole' /\ FilesOwned' /\ RowsHaveFiles'
    BY DEF FilesWhole, FilesOwned, RowsHaveFiles, Stored, Expired
  <2> QED
    BY <2>1, <2>2, <2>3, <2>4
<1> QED
  BY <1>1, <1>2, <1>3, <1>4, <1>5, <1>6, <1>7 DEF Next

\* The inductive invariant holds throughout.
LEMMA Inductive == Spec => []IInv
  BY InitInv, NextInv, PTL DEF Spec

\* The store, the queues and the locals of both threads stay well typed.
THEOREM TypeCorrect == Spec => []TypeOK
<1>1. IInv => TypeOK
  BY DEF IInv
<1> QED
  BY <1>1, Inductive, PTL

\* An image the server wants and that has not expired keeps its file, whole unless the
\* disk was full, as long as saveImage's row is there: neither removeImages, removeExpired
\* nor removeOrphaned, between any two steps of each other and across any number of
\* crashes, takes a file that is still needed.
THEOREM WantedKept == Spec => []WantedKeepsFile
<1>1. IInv => WantedKeepsFile
  BY DEF IInv, WantedKeepsFile, RowsHaveFiles, FilesWhole
<1> QED
  BY <1>1, Inductive, PTL

\* Every file in the save path belongs to a row whenever both threads are at rest, after
\* any number of crashes, as long as no statement has failed.
THEOREM NothingForgotten == Spec => []NoOrphans
<1>1. IInv => NoOrphans
  BY DEF IInv, NoOrphans, FilesOwned, UpdateIdle
<1> QED
  BY <1>1, Inductive, PTL
=============================================================================

----------------------------- MODULE ImageStore -----------------------------
(***************************************************************************)
(* The image store of the websocket service: ImageManager (files in the    *)
(* save path), ImageRepository (rows in SQLite), the two threads that      *)
(* change them (ImageUpdate, ExpiredImageCleanup), MissingImageCheck, and  *)
(* crashes of the process between any two of their steps.                  *)
(*                                                                         *)
(* A file name carries the second of receipt, the expiry and the id, so it *)
(* is that triple.  A file is whole or cut short.  The server is external: *)
(* it knows which images the frame should have, sends and clears them, and *)
(* answers check_missing_images with the images the frame does not list.   *)
(***************************************************************************)
EXTENDS Naturals, Sequences, FiniteSets, SequencesExt

CONSTANTS
    Ids,          \* sent_image_id values
    MaxNow,       \* bound on the clock
    Expiries,     \* expiry times the server uses
    MaxFaults     \* bound on crashes, lost connections, full disks and statements
                  \* that throw, taken together

ASSUME StoreAssumption ==
    /\ IsFiniteSet(Ids)
    /\ MaxNow \in Nat /\ MaxFaults \in Nat
    /\ Expiries \subseteq Nat /\ Expiries # {}

NoRow == [path |-> <<>>, expiresAt |-> 0]
Paths == {<<t, x, id>> : t \in 0..MaxNow, x \in Expiries, id \in Ids}
Rows == [path : Paths, expiresAt : Expiries]
Pictures == [type : {"PICTURE"}, id : Ids, expiresAt : Expiries]
Clears == [type : {"CLEAR"}, id : Ids]
Messages == Pictures \cup Clears

VARIABLES
    now,        \* the wall clock, in seconds
    rows,       \* table images: id -> row or NoRow
    files,      \* the files in the save path: path -> "whole" or "short"
    up,         \* the process runs
    online,     \* the websocket is connected
    check,      \* MissingImageCheck::checkRequested_
    parked,     \* WebsocketClient::sendQueue_: the id lists of checks made offline
    queue,      \* ImageUpdate::queue_ and its batch, in order
    update,     \* ImageUpdate: where it is, with its locals
    cleanup,    \* ExpiredImageCleanup: where it is, with its locals
    server,     \* external: id -> expiry of the images the frame should have, 0 if none
    sent,       \* external: ids the server has ever sent; it does not use one again
    crashes, drops, diskFaults, dbFaults

store == <<rows, files>>
links == <<up, online, check, parked>>
world == <<server, sent>>
bounds == <<crashes, drops, diskFaults, dbFaults>>
vars == <<now, store, links, queue, update, cleanup, world, bounds>>

MayFail == crashes + drops + diskFaults + dbFaults < MaxFaults

Stored(id) == rows[id] # NoRow
Expired(id) == rows[id].expiresAt < now

UpdateIdle == [at |-> "idle"]
CleanupIdle == [at |-> "idle", ids |-> {}, paths |-> {}]

UpdateStates ==
    {UpdateIdle}
    \cup [at : {"exists", "write"}, msg : Pictures]
    \cup [at : {"insert"}, msg : Pictures, path : Paths]
    \cup [at : {"lookup", "delete"}, msg : Clears]
    \cup [at : {"unlink"}, msg : Clears, path : Paths]
CleanupStates == [at : {"idle", "unlink", "delete"}, ids : SUBSET Ids, paths : SUBSET Paths]

TypeOK ==
    /\ now \in 0..MaxNow
    /\ rows \in [Ids -> Rows \cup {NoRow}]
    /\ DOMAIN files \subseteq Paths /\ \A p \in DOMAIN files : files[p] \in {"whole", "short"}
    /\ up \in BOOLEAN /\ online \in BOOLEAN /\ check \in BOOLEAN
    /\ parked \in Seq(SUBSET Ids)
    /\ queue \in Seq(Messages)
    /\ update \in UpdateStates
    /\ cleanup \in CleanupStates
    /\ server \in [Ids -> Expiries \cup {0}]
    /\ sent \subseteq Ids
    /\ \A n \in {crashes, drops, diskFaults, dbFaults} : n \in 0..MaxFaults

Init ==
    /\ now = 0
    /\ rows = [id \in Ids |-> NoRow]
    /\ files = << >>
    /\ up = TRUE /\ online = TRUE /\ check = TRUE /\ parked = <<>>
    /\ queue = <<>>
    /\ update = UpdateIdle
    /\ cleanup = CleanupIdle
    /\ server = [id \in Ids |-> 0] /\ sent = {}
    /\ crashes = 0 /\ drops = 0 /\ diskFaults = 0 /\ dbFaults = 0

Without(f, S) == [p \in DOMAIN f \ S |-> f[p]]
With(f, q, v) == [p \in DOMAIN f \cup {q} |-> IF p = q THEN v ELSE f[p]]

-----------------------------------------------------------------------------
(* ImageUpdate.                                                             *)

UpdateTake ==
    /\ up /\ update.at = "idle" /\ queue # <<>>
    /\ LET m == Head(queue)
       IN update' = [at |-> IF m.type = "PICTURE" THEN "exists" ELSE "lookup", msg |-> m]
    /\ queue' = Tail(queue)
    /\ UNCHANGED <<now, store, links, cleanup, world, bounds>>

\* _onPicture: an id that has a row is skipped, whatever its file is like.
UpdateExists ==
    /\ up /\ update.at = "exists"
    /\ update' = IF Stored(update.msg.id) THEN UpdateIdle ELSE [update EXCEPT !.at = "write"]
    /\ UNCHANGED <<now, store, links, queue, cleanup, world, bounds>>

\* saveImage: write the file.  A failed file.write() is not looked at.
UpdateWrite ==
    /\ up /\ update.at = "write"
    /\ LET p == <<now, update.msg.expiresAt, update.msg.id>>
       IN /\ \/ /\ files' = With(files, p, "whole")
                /\ UNCHANGED diskFaults
             \/ /\ MayFail
                /\ diskFaults' = diskFaults + 1
                /\ files' = With(files, p, "short")
          /\ update' = [at |-> "insert", msg |-> update.msg, path |-> p]
    /\ UNCHANGED <<now, rows, links, queue, cleanup, world, crashes, drops, dbFaults>>

\* Mutant of RowOf: the row loses the path of its file.
RowWithoutPath(u) == [path |-> <<>>, expiresAt |-> u.msg.expiresAt]
RowOf(u) == [path |-> u.path, expiresAt |-> u.msg.expiresAt]

\* saveImage: INSERT OR REPLACE, then IMAGE_NEW is published.
UpdateInsert ==
    /\ up /\ update.at = "insert"
    /\ rows' = [rows EXCEPT ![update.msg.id] = RowOf(update)]
    /\ update' = UpdateIdle
    /\ UNCHANGED <<now, files, links, queue, cleanup, world, bounds>>

\* removeImages: look the row up, delete the file, then the row.
UpdateLookup ==
    /\ up /\ update.at = "lookup"
    /\ update' = IF Stored(update.msg.id)
                 THEN [at |-> "unlink", msg |-> update.msg, path |-> rows[update.msg.id].path]
                 ELSE [update EXCEPT !.at = "delete"]
    /\ UNCHANGED <<now, store, links, queue, cleanup, world, bounds>>

UpdateUnlink ==
    /\ up /\ update.at = "unlink"
    /\ files' = Without(files, {update.path})
    /\ update' = [at |-> "delete", msg |-> update.msg]
    /\ UNCHANGED <<now, rows, links, queue, cleanup, world, bounds>>

UpdateDelete ==
    /\ up /\ update.at = "delete"
    /\ rows' = [rows EXCEPT ![update.msg.id] = NoRow]
    /\ update' = UpdateIdle
    /\ UNCHANGED <<now, files, links, queue, cleanup, world, bounds>>

DbFault ==
    /\ MayFail
    /\ dbFaults' = dbFaults + 1

\* A statement throws (database locked or full) or the file cannot be opened:
\* _onPicture, saveImage or _onClearImages logs it and goes on with the next message.
UpdateDbFails ==
    /\ up /\ update.at \in {"exists", "write", "insert", "lookup", "delete"}
    /\ DbFault
    /\ update' = UpdateIdle
    /\ UNCHANGED <<now, store, links, queue, cleanup, world, crashes, drops, diskFaults>>

Update ==
    \/ UpdateTake \/ UpdateExists \/ UpdateWrite \/ UpdateInsert
    \/ UpdateLookup \/ UpdateUnlink \/ UpdateDelete \/ UpdateDbFails

-----------------------------------------------------------------------------
(* ExpiredImageCleanup: removeExpired works on the rows as it read them.    *)

\* Mutants of Old: an image is removed in its last second, or only with its file.
OldTooSoon == {id \in Ids : Stored(id) /\ rows[id].expiresAt =< now}
OldOnDisk == {id \in Ids : Stored(id) /\ Expired(id) /\ rows[id].path \in DOMAIN files}
Old == {id \in Ids : Stored(id) /\ Expired(id)}

CleanupScan ==
    /\ up /\ cleanup.at = "idle"
    /\ Old # {}
    /\ cleanup' = [at |-> "unlink", ids |-> Old, paths |-> {rows[id].path : id \in Old}]
    /\ UNCHANGED <<now, store, links, queue, update, world, bounds>>

\* One file at a time, in table order (any order here).
CleanupUnlink ==
    /\ up /\ cleanup.at = "unlink"
    /\ \E p \in cleanup.paths :
          /\ files' = Without(files, {p})
          /\ cleanup' = [cleanup EXCEPT !.paths = @ \ {p},
                                        !.at = IF cleanup.paths = {p} THEN "delete" ELSE @]
    /\ UNCHANGED <<now, rows, links, queue, update, world, bounds>>

\* removeByIds for all of them at once, then IMAGE_REMOVED is published.
CleanupDelete ==
    /\ up /\ cleanup.at = "delete"
    /\ rows' = [id \in Ids |-> IF id \in cleanup.ids THEN NoRow ELSE rows[id]]
    /\ cleanup' = CleanupIdle
    /\ UNCHANGED <<now, files, links, queue, update, world, bounds>>

\* The delete throws out of execute(): PeriodicTask logs it and tries again later.
CleanupDbFails ==
    /\ up /\ cleanup.at = "delete"
    /\ DbFault
    /\ cleanup' = CleanupIdle
    /\ UNCHANGED <<now, store, links, queue, update, world, crashes, drops, diskFaults>>

Cleanup == CleanupScan \/ CleanupUnlink \/ CleanupDelete \/ CleanupDbFails

-----------------------------------------------------------------------------
(* MissingImageCheck and the server.                                        *)

Picture(id, x) == [type |-> "PICTURE", id |-> id, expiresAt |-> x]

\* external: the server answers a list of ids with every image of its own that is
\* not on it.
Answer(listed) ==
    SetToSeq({Picture(id, server[id]) : id \in {i \in Ids \ listed : server[i] # 0}})

\* _checkMissing lists the ids in the table.  What is still in queue_ or half way into
\* the table is not listed, so it is sent twice.  Without a connection the list waits
\* in sendQueue_.
CheckMissing ==
    /\ up /\ check
    /\ check' = FALSE
    /\ LET listed == {id \in Ids : Stored(id)}
       IN IF online
          THEN queue' = queue \o Answer(listed) /\ UNCHANGED parked
          ELSE parked' = Append(parked, listed) /\ UNCHANGED queue
    /\ UNCHANGED <<now, store, up, online, update, cleanup, world, bounds>>

\* getAllIds throws: the wrapper starts _run() again, but the request is spent.
CheckDbFails ==
    /\ up /\ check
    /\ DbFault
    /\ check' = FALSE
    /\ UNCHANGED <<now, store, up, online, parked, queue, update, cleanup, world, crashes,
                   drops, diskFaults>>

Delivered(m) == IF up /\ online THEN Append(queue, m) ELSE queue

\* external: the server has a new image for the frame ...
ServerSends(id, x) ==
    /\ id \notin sent
    /\ sent' = sent \cup {id}
    /\ server' = [server EXCEPT ![id] = x]
    /\ queue' = Delivered(Picture(id, x))
    /\ UNCHANGED <<now, store, links, update, cleanup, bounds>>

\* external: ... and takes one back.
ServerClears(id) ==
    /\ server[id] # 0
    /\ server' = [server EXCEPT ![id] = 0]
    /\ queue' = Delivered([type |-> "CLEAR", id |-> id])
    /\ UNCHANGED <<now, store, links, update, cleanup, sent, bounds>>

\* The connection is lost, and with it the messages sent until the next one.
Drop ==
    /\ up /\ online /\ MayFail
    /\ drops' = drops + 1
    /\ online' = FALSE
    /\ UNCHANGED <<now, store, up, check, parked, queue, update, cleanup, world, crashes,
                   diskFaults, dbFaults>>

\* _flushSendQueue: the parked lists go out as they were made.
Flush ==
    /\ queue' = queue \o FlattenSeq([i \in DOMAIN parked |-> Answer(parked[i])])
    /\ parked' = <<>>

\* Mutant of Connect: nobody asks for what was missed.
ConnectQuietly ==
    /\ up /\ ~online
    /\ online' = TRUE
    /\ Flush
    /\ UNCHANGED <<now, store, up, check, update, cleanup, world, bounds>>

\* The connection opens: flush, and WS_CONNECTED asks for a new check.
Connect ==
    /\ up /\ ~online
    /\ online' = TRUE
    /\ Flush
    /\ check' = TRUE
    /\ UNCHANGED <<now, store, up, update, cleanup, world, bounds>>

-----------------------------------------------------------------------------
(* Crash and restart.                                                       *)

\* The process dies (a kill, a crash, SIGTERM delivered to a worker thread): every
\* thread stops where it is, the queues are gone.  What the process has written stays,
\* in the file system's cache if need be.  The board losing its power is another matter:
\* saveImage syncs nothing, so a file could then be short or empty under a committed row.
Crash ==
    /\ up /\ MayFail
    /\ crashes' = crashes + 1
    /\ up' = FALSE /\ online' = FALSE /\ check' = FALSE /\ parked' = <<>>
    /\ queue' = <<>>
    /\ update' = UpdateIdle
    /\ cleanup' = CleanupIdle
    /\ UNCHANGED <<now, store, world, drops, diskFaults, dbFaults>>

\* Mutant of Orphans: removeOrphaned finds nothing.
NoFiles == {}
Orphans == DOMAIN files \ {rows[id].path : id \in Ids}

\* The constructor of ImageManager runs removeOrphaned before anything else does.
Restart ==
    /\ ~up
    /\ up' = TRUE
    /\ files' = Without(files, Orphans)
    /\ UNCHANGED <<now, rows, online, check, parked, queue, update, cleanup, world, bounds>>

Tick ==
    /\ now < MaxNow
    /\ now' = now + 1
    /\ UNCHANGED <<store, links, queue, update, cleanup, world, bounds>>

Next ==
    \/ Update \/ Cleanup
    \/ CheckMissing \/ CheckDbFails
    \/ \E id \in Ids : ServerClears(id) \/ \E x \in Expiries : ServerSends(id, x)
    \/ Drop \/ Connect \/ Crash \/ Restart \/ Tick

Spec == Init /\ [][Next]_vars

\* The threads run, the process is restarted (s6), the websocket reconnects
\* and time passes.  Crashes and drops are never forced.
Fairness ==
    /\ WF_vars(Update) /\ WF_vars(Cleanup) /\ WF_vars(CheckMissing)
    /\ WF_vars(Connect) /\ WF_vars(Restart) /\ WF_vars(Tick)

FairSpec == Spec /\ Fairness

-----------------------------------------------------------------------------
(* Properties.                                                              *)

\* saveImage "saves to disk, persists in DB": whatever crashes and whichever thread
\* is removing something, an image the server still wants on the frame and that has
\* not expired keeps its file as long as it has a row: neither thread, nor the orphan
\* removal at start-up, ever takes a file that is still needed.  The file is whole
\* unless the disk was full, which saveImage does not notice.
WantedKeepsFile ==
    \A id \in Ids :
        Stored(id) /\ server[id] # 0 /\ ~Expired(id) =>
            /\ rows[id].path \in DOMAIN files
            /\ diskFaults = 0 => files[rows[id].path] = "whole"

\* No file is forgotten on disk: while the process is up and neither thread is in
\* the middle of something, every file belongs to a row, after any crash (a failed
\* INSERT leaves its file until the next start, so none has failed).
NoOrphans ==
    dbFaults = 0 /\ up /\ update = UpdateIdle /\ cleanup = CleanupIdle =>
        DOMAIN files \subseteq {rows[id].path : id \in Ids}

\* MissingImageCheck "catching up on images missed while disconnected": once the
\* server is quiet, every image it wants on the frame is stored or has expired,
\* whatever a lost connection or a crash took (unless a statement failed).
CatchesUp ==
    <>[](dbFaults = 0 =>
            \A id \in Ids : server[id] # 0 /\ server[id] >= now => Stored(id))

\* removeExpired: an image that has expired goes, also one whose file was already
\* gone when a crash kept its row: the slideshow does not meet a row without a file
\* for ever.
ExpiredRowsGo == \A id \in Ids : Stored(id) /\ Expired(id) ~> ~Stored(id)

=============================================================================

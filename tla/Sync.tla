------------------------------- MODULE Sync -------------------------------
(***************************************************************************)
(* One node with its disk, its watcher, its catalog and the coordinator    *)
(* that keeps them together (tusher-sync/src/coordinator.rs), pulling from *)
(* one peer.  Replication has all nodes and no disk; here is what happens  *)
(* to the files of one.                                                    *)
(*                                                                         *)
(* Running side by side: the debouncer of Watcher, the worker that records *)
(* its changes, a session per folder that applies the peer's events, the   *)
(* peer's tasks that send the files asked for, each at its own pace, the   *)
(* worker for finished transfers, and the initial scan of a starting node. *)
(* A transfer places the content it announced or fails (module Transfer).  *)
(*                                                                         *)
(* The peer is driven by its own users; its files are as its catalog says. *)
(* A manifest holds all events after the cursor and is not lost: pages and *)
(* timeouts are in Replication.                                            *)
(***************************************************************************)
EXTENDS Reconciler, Watcher, SequencesExt

Ext == INSTANCE BagsExt

CONSTANTS
  Self, Peer,   \* the node and its peer
  Edited,       \* names that users of this node change
  PeerEdited,   \* names that users of the peer change
  UserHash, PeerHash,  \* the contents each side's users write
  FirstHash, LaterHash,  \* bounds: contents at the start, and written later
  WritePhases,  \* when this node's users write: "down", "scanning", "running"
  RemovePhases, \* when they remove files
  SyncPhases,   \* when a session may start: not when the node is down
  NoticeLimit,  \* capacity of the channel of finished transfers (128)
  MaxEdits,     \* bound: changes of this node's users
  MaxPeerEdits, \* bound: changes of the peer's users
  MaxFaults     \* bound: ends of the process and failed pulls and transfers

ASSUME SyncAssumption ==
  /\ Node = {Self, Peer} /\ Self # Peer
  /\ Edited \cup PeerEdited \subseteq Name
  /\ Hash = UserHash \cup PeerHash /\ UserHash \cap PeerHash = {}
  /\ Gone \notin Hash
  /\ WritePhases \cup RemovePhases \subseteq {"down", "scanning", "running"}
  /\ SyncPhases \subseteq {"scanning", "running"}
  /\ ChangeLimit \in Nat \ {0} /\ NoticeLimit \in Nat \ {0}
  /\ FirstHash \cup LaterHash \subseteq Hash
  /\ {MaxEdits, MaxPeerEdits, MaxFaults} \subseteq Nat
  /\ 1 \in Time   \* when the files were made that are there at the start

VARIABLES
  phase,      \* "down", "scanning" or "running"
  to_scan,    \* files the initial scan has not looked at
  db,         \* the node's catalog
  peer_db,    \* the peer's
  last_seen,  \* cursor in the peer's log, per folder
  session,    \* the running do_reconcile, per folder
  pulls,      \* FilePullReqs the peer has not begun to serve, a bag
  sends,      \* files the peer has hashed and not announced, a bag
  transfers,  \* transfers the node has accepted, a bag
  staged,     \* destination in the state file of each staged content
  spoiled,    \* staged contents that may have chunks of other content
  notices,    \* finished transfers the coordinator has not handled
  lost,       \* history: destinations to which the last transfers failed
  overtaken,  \* history: destinations where older content came last
  unrecorded, \* history: pulled files whose rows were not written
  spent       \* history: how much of each bound is used

node_vars == <<phase, to_scan, last_seen, session>>

traffic == <<pulls, sends, transfers, staged, spoiled>>

history == <<lost, overtaken, unrecorded>>

sync_vars == <<node_vars, db, peer_db, traffic, notices, history, spent>>

vars == <<watcher_vars, sync_vars>>

Idle == [phase |-> "idle", todo |-> <<>>, latest |-> 0]

KeysOf(names) == {<<f, [name |-> x, marks |-> <<>>]>> : f \in Folder, x \in names}

\* Of the files that go by one of the names, conflict files included.
Named(k, names) == k[2].name \in names

PullReq == [source : Key, dest : Key]

Send == [source : Key, dest : Key, content : Hash]

Spend(what) == spent' = [spent EXCEPT ![what] = @ + 1]

---------------------------------------------------------------------------
(* Where a node may be when it starts.                                     *)

\* What the two catalogs know of a name, and the disk has, when the node
\* starts: nothing; a file that is not in the catalog; a file this node
\* recorded; one pulled from the peer; or one made on both sides.
Histories(x) ==
  (IF x \in Edited THEN {"absent", "unknown", "recorded"} ELSE {})
    \cup (IF x \in PeerEdited THEN {"absent", "pulled", "diverged"} ELSE {})

Row(h, n) == [file_id |-> [content |-> h, conflicts |-> 0], content_hash |-> h,
              version |-> 1, origin_node_id |-> n, modified_at |-> 1,
              is_deleted |-> FALSE]

EventOf(k, row) ==
  [folder_id |-> k[1], relative_path |-> k[2], event_type |-> "UPSERT",
   file_id |-> row.file_id, version |-> row.version,
   content_hash |-> row.content_hash, origin_node_id |-> row.origin_node_id,
   modified_at |-> row.modified_at]

\* The database that has the rows of files and logged each once.
DbOf(files) ==
  [folders |-> Folder, files |-> files,
   log |-> [i \in DOMAIN SetToSeq(DOMAIN files) |->
              EventOf(SetToSeq(DOMAIN files)[i], files[SetToSeq(DOMAIN files)[i]])]]

Init ==
  \E past \in [KeysOf(Name) -> {"absent", "unknown", "recorded", "pulled", "diverged"}],
     u \in UserHash \cap FirstHash, p \in PeerHash \cap FirstHash :
    LET In(S) == {k \in KeysOf(Name) : past[k] \in S} IN
    /\ \A k \in KeysOf(Name) : past[k] \in Histories(k[2].name)
    /\ \A j, k \in In({"unknown", "recorded", "diverged"}) : j = k
    /\ \A j, k \in In({"pulled", "diverged"}) : j = k
    /\ db = DbOf([k \in In({"recorded", "pulled", "diverged"}) |->
                    IF past[k] = "pulled" THEN Row(p, Peer) ELSE Row(u, Self)])
    /\ peer_db = DbOf([k \in In({"pulled", "diverged"}) |-> Row(p, Peer)])
    /\ disk = [k \in In({"unknown", "recorded", "pulled", "diverged"}) |->
                 IF past[k] = "pulled" THEN p ELSE u]
    /\ phase = "down" /\ to_scan = {}
    /\ last_seen = [f \in Folder |-> 0]
    /\ session = [f \in Folder |-> Idle]
    /\ pulls = EmptyBag /\ sends = EmptyBag /\ transfers = EmptyBag
    /\ staged = <<>> /\ spoiled = {} /\ notices = <<>>
    /\ lost = {} /\ overtaken = {} /\ unrecorded = {}
    /\ spent = [edits |-> 0, peer_edits |-> 0, stops |-> 0, lost |-> 0]
    /\ WatcherInit
---------------------------------------------------------------------------
(* Users, here and at the peer. *)

\* Nobody makes a copy of a file: the catalog does not take it (Replication).
UserWrite(k, h) ==
  /\ phase \in WritePhases
  /\ ~FileIdTaken(db.files, k, [content |-> h, conflicts |-> 0])
  /\ spent.edits < MaxEdits
  /\ Content(k) # h
  /\ WriteFile(k, h)
  /\ Spend("edits")
  /\ UNCHANGED <<watching, debouncer, node_vars, db, peer_db, traffic, notices,
                 history>>

UserRemove(k) ==
  /\ phase \in RemovePhases
  /\ spent.edits < MaxEdits
  /\ k \in DOMAIN disk
  /\ RemoveFile(k)
  /\ Spend("edits")
  /\ UNCHANGED <<watching, debouncer, node_vars, db, peer_db, traffic, notices,
                 history>>

\* The peer records a change of its users.  Transfers of the file may read
\* the new content from now on.
PeerChange(k, now) ==
  /\ spent.peer_edits < MaxPeerEdits
  /\ \/ \E h \in PeerHash \cap LaterHash :
          /\ ~(Live(peer_db, k) /\ peer_db.files[k].content_hash = h)
          /\ peer_db' = record_local_upsert(peer_db, Peer, k, h, now)
     \/ /\ Live(peer_db, k)
        /\ peer_db' = record_local_delete(peer_db, Peer, k, now)
  /\ spoiled' = spoiled \cup {t.content : t \in {t \in DOMAIN transfers : t.source = k}}
  /\ Spend("peer_edits")
  /\ UNCHANGED <<watcher_vars, node_vars, db, pulls, sends, transfers, staged,
                 notices, history>>

---------------------------------------------------------------------------
(* Starting and stopping. *)

StartScan ==
  /\ phase = "down"
  /\ phase' = "scanning"
  /\ to_scan' = DOMAIN disk
  /\ UNCHANGED <<watcher_vars, last_seen, session, db, peer_db, traffic, notices,
                 history, spent>>

\* Defect: only files without a row are indexed.
NeedsIndexingIfUnknown(k) == k \in DOMAIN disk /\ ~Known(db, k)

NeedsIndexing(k) ==
  k \in DOMAIN disk /\ ~(Live(db, k) /\ db.files[k].content_hash = disk[k])

\* initial_scan looks at one file.  An error of the database ends the scan of
\* the folder.
ScanFile(k, now) ==
  /\ phase = "scanning"
  /\ k \in to_scan
  /\ IF NeedsIndexing(k)
       THEN /\ db' = record_local_upsert(db, Self, k, disk[k], now)
            /\ to_scan' = IF db' = db THEN {j \in to_scan : j[1] # k[1]}
                                      ELSE to_scan \ {k}
       ELSE /\ to_scan' = to_scan \ {k}
            /\ UNCHANGED db
  /\ UNCHANGED <<watcher_vars, phase, last_seen, session, peer_db, traffic,
                 notices, history, spent>>

\* The watcher starts after the scans.
StartWatcher ==
  /\ phase = "scanning"
  /\ to_scan = {}
  /\ phase' = "running"
  /\ StartWatching
  /\ UNCHANGED <<to_scan, last_seen, session, db, peer_db, traffic, notices,
                 history, spent>>

\* The decision whose row session f is about to write.
Pending(f) ==
  IF session[f].phase \in {"suppressing", "recording"}
    THEN {i \in DOMAIN session[f].todo : IsFirst(session[f].todo, i)}
    ELSE {}

PendingKeys(f) == {KeyOf(session[f].todo[i].event) : i \in Pending(f)}

\* What is asked for, announced or being sent to the node.
Outstanding ==
  {q.dest : q \in DOMAIN pulls} \cup {s.dest : s \in DOMAIN sends}
    \cup {t.dest : t \in DOMAIN transfers}

\* The process ends: catalog, disk and staging directory remain, and the peer's
\* sends fail with the connection.
Stop ==
  /\ spent.stops + spent.lost < MaxFaults
  /\ phase # "down"
  /\ phase' = "down"
  /\ to_scan' = {}
  /\ last_seen' = [f \in Folder |-> 0]
  /\ session' = [f \in Folder |-> Idle]
  /\ pulls' = EmptyBag /\ sends' = EmptyBag /\ transfers' = EmptyBag
  /\ notices' = <<>>
  /\ lost' = lost \cup Outstanding
  /\ unrecorded' = unrecorded \cup
       UNION {PendingKeys(f) : f \in {f \in Folder : session[f].phase = "suppressing"}}
  /\ Spend("stops")
  /\ StopWatching
  /\ UNCHANGED <<disk, db, peer_db, staged, spoiled, overtaken>>

---------------------------------------------------------------------------
(* The worker that records what the watcher reports. *)

\* Defect: what is already in the catalog is recorded again.
RecordedUnchecked(e, now) ==
  IF e.content = Gone THEN record_local_delete(db, Self, e.key, now)
                      ELSE record_local_upsert(db, Self, e.key, e.content, now)

\* The catalog after the change e, unless it has that already.
Recorded(e, now) ==
  IF e.content = Gone
    THEN record_local_delete(db, Self, e.key, now)
    ELSE IF Live(db, e.key) /\ db.files[e.key].content_hash = e.content
           THEN db
           ELSE record_local_upsert(db, Self, e.key, e.content, now)

RecordChange(now) ==
  /\ changes # <<>>
  /\ changes' = Tail(changes)
  /\ db' = Recorded(Head(changes), now)
  /\ UNCHANGED <<disk, watching, raw, pending_paths, suppressed_paths, node_vars,
                 peer_db, traffic, notices, history, spent>>

---------------------------------------------------------------------------
(* A session: the peer's new events, decided on together and applied one   *)
(* after the other.                                                        *)

\* The folder's events after the cursor, at their event_seqs.
NewEvents(f) ==
  [i \in {j \in FolderSeqs(peer_db, f) : j > last_seen[f]} |-> peer_db.log[i]]

\* A SyncNotify arrives and the manifest is fetched.
StartSync(f) ==
  /\ phase \in SyncPhases
  /\ session[f] = Idle
  /\ last_seen[f] < get_latest_event_seq(peer_db, f)
  /\ session' = [session EXCEPT ![f] =
                   [phase |-> "applying",
                    todo |-> Decisions(db, NewEvents(f)),
                    latest |-> get_latest_event_seq(peer_db, f)]]
  /\ UNCHANGED <<watcher_vars, phase, to_scan, last_seen, db, peer_db, traffic,
                 notices, history, spent>>

\* The session's loop is at the decision on event i, which is of this kind.
Turn(f, i, kind) ==
  /\ session[f].phase = "applying"
  /\ IsFirst(session[f].todo, i)
  /\ session[f].todo[i].kind = kind

\* The session goes on to write the row of the decision.
GoOn(f, p) == session' = [session EXCEPT ![f].phase = p]

\* The watcher is told to look away and the peer is asked for the file.  What
\* became of earlier transfers to the path no longer matters.
Pull(f, source, dest) ==
  /\ suppress_path(dest)
  /\ pulls' = Ext!BagAdd(pulls, [source |-> source, dest |-> dest])
  /\ lost' = lost \ {dest}
  /\ overtaken' = overtaken \ {dest}
  /\ GoOn(f, "suppressing")

\* Defect: any file at the path counts as the content wanted.
DownloadIfMissing(f, i) ==
  LET k == KeyOf(session[f].todo[i].event) IN
  /\ Turn(f, i, "DownloadNeeded")
  /\ IF k \in DOMAIN disk
       THEN GoOn(f, "recording") /\ UNCHANGED <<suppressed_paths, pulls, lost, overtaken>>
       ELSE Pull(f, k, k)
  /\ UNCHANGED <<disk, watching, raw, pending_paths, changes, phase, to_scan,
                 last_seen, db, peer_db, sends, transfers, staged, spoiled,
                 notices, unrecorded, spent>>

\* DownloadNeeded: a file that is already there is not pulled.
Download(f, i) ==
  LET e == session[f].todo[i].event k == KeyOf(e) IN
  /\ Turn(f, i, "DownloadNeeded")
  /\ IF Content(k) = e.content_hash
       THEN GoOn(f, "recording") /\ UNCHANGED <<suppressed_paths, pulls, lost, overtaken>>
       ELSE Pull(f, k, k)
  /\ UNCHANGED <<disk, watching, raw, pending_paths, changes, phase, to_scan,
                 last_seen, db, peer_db, sends, transfers, staged, spoiled,
                 notices, unrecorded, spent>>

DeleteLocal(f, i) ==
  LET k == KeyOf(session[f].todo[i].event) IN
  /\ Turn(f, i, "DeleteLocal")
  /\ IF k \in DOMAIN disk
       THEN RemoveFile(k) /\ suppress_path(k) /\ GoOn(f, "suppressing")
       ELSE GoOn(f, "recording") /\ UNCHANGED <<disk, raw, suppressed_paths>>
  /\ UNCHANGED <<watching, pending_paths, changes, phase, to_scan, last_seen, db,
                 peer_db, traffic, notices, history, spent>>

\* The path a conflict path was made from.
OriginalPath(p) == [p EXCEPT !.marks = Front(@)]

\* Defect: the file is asked for under the name it shall get.
BranchUnderNewName(f, i) ==
  LET e == session[f].todo[i].event IN
  /\ Turn(f, i, "Conflict")
  /\ Pull(f, KeyOf(e), KeyOf(e))
  /\ UNCHANGED <<disk, watching, raw, pending_paths, changes, phase, to_scan,
                 last_seen, db, peer_db, sends, transfers, staged, spoiled,
                 notices, unrecorded, spent>>

\* Conflict: the peer's file is pulled to the conflict path.
Branch(f, i) ==
  LET e == session[f].todo[i].event IN
  /\ Turn(f, i, "Conflict")
  /\ Pull(f, <<e.folder_id, OriginalPath(e.relative_path)>>, KeyOf(e))
  /\ UNCHANGED <<disk, watching, raw, pending_paths, changes, phase, to_scan,
                 last_seen, db, peer_db, sends, transfers, staged, spoiled,
                 notices, unrecorded, spent>>

\* The connection does not take the request: the session ends with the path
\* suppressed and nothing asked for.
AbortOnSend(f, i) ==
  LET e == session[f].todo[i].event k == KeyOf(e) IN
  /\ spent.stops + spent.lost < MaxFaults
  /\ \/ Turn(f, i, "DownloadNeeded") /\ Content(k) # e.content_hash
     \/ Turn(f, i, "Conflict")
  /\ suppress_path(k)
  /\ session' = [session EXCEPT ![f] = Idle]
  /\ Spend("lost")
  /\ UNCHANGED <<disk, watching, raw, pending_paths, changes, phase, to_scan,
                 last_seen, db, peer_db, traffic, notices, history>>

\* The decision is written to the catalog; when that fails the session ends
\* and its cursor stays.
ApplyAction(f, i, now) ==
  LET a == session[f].todo[i] k == KeyOf(a.event) IN
  /\ i \in Pending(f)
  /\ db' = apply_reconciliation_action(db, a, now)
  /\ IF ApplyFails(db, a, now)
       THEN /\ session' = [session EXCEPT ![f] = Idle]
            /\ unrecorded' = IF session[f].phase = "suppressing"
                               THEN unrecorded \cup {k} ELSE unrecorded
       ELSE /\ session' = [session EXCEPT ![f] =
                            [phase |-> "applying", todo |-> Rest(@.todo, i),
                             latest |-> @.latest]]
            /\ unrecorded' = unrecorded \ {k}
  /\ UNCHANGED <<watcher_vars, phase, to_scan, last_seen, peer_db, traffic,
                 notices, lost, overtaken, spent>>

FinishSync(f) ==
  /\ session[f].phase = "applying"
  /\ DOMAIN session[f].todo = {}
  /\ last_seen' = [last_seen EXCEPT ![f] = session[f].latest]
  /\ session' = [session EXCEPT ![f] = Idle]
  /\ UNCHANGED <<watcher_vars, phase, to_scan, db, peer_db, traffic, notices,
                 history, spent>>
---------------------------------------------------------------------------
(* Files on their way.  Each request is served by a task of its own, and   *)
(* nothing orders these tasks.                                             *)

\* The peer's task hashes the file as it is now; or there is no file, and
\* nothing is sent.
ServePull(q) ==
  /\ q \in DOMAIN pulls
  /\ pulls' = Ext!BagRemove(pulls, q)
  /\ sends' = IF Live(peer_db, q.source)
                THEN Ext!BagAdd(sends, [source |-> q.source, dest |-> q.dest,
                                   content |-> peer_db.files[q.source].content_hash])
                ELSE sends
  /\ UNCHANGED <<watcher_vars, node_vars, db, peer_db, transfers, staged,
                 spoiled, notices, history, spent>>

\* The peer's file is still what was hashed.
Current(s) == Live(peer_db, s.source) /\ peer_db.files[s.source].content_hash = s.content

\* handle_init, and the peer opens the file to stream it.  Content that was
\* staged before keeps the destination it had then.  The peer's file may be gone,
\* and the transfer fails; or changed, and its chunks do not fit what was
\* announced: they damage what is staged, and the transfer fails unless every
\* chunk was there.
OpenTransfer(s) ==
  /\ s \in DOMAIN sends
  /\ sends' = Ext!BagRemove(sends, s)
  /\ staged' = [c \in DOMAIN staged \cup {s.content} |->
                  IF c \in DOMAIN staged THEN staged[c] ELSE s.dest]
  /\ IF Current(s) \/ (Live(peer_db, s.source) /\ s.content \in DOMAIN staged)
       THEN transfers' = Ext!BagAdd(transfers, s) /\ UNCHANGED lost
       ELSE lost' = lost \cup {s.dest} /\ UNCHANGED transfers
  /\ spoiled' = IF Live(peer_db, s.source) /\ ~Current(s)
                  THEN spoiled \cup {s.content} ELSE spoiled
  /\ UNCHANGED <<watcher_vars, node_vars, db, peer_db, pulls, notices, overtaken,
                 unrecorded, spent>>

SameFile(j, k) == j[1] = k[1] /\ j[2].name = k[2].name

\* Where in its log the peer gave the file at k this content.
Writes(k, h) ==
  {i \in DOMAIN peer_db.log : /\ SameFile(KeyOf(peer_db.log[i]), k)
                              /\ IsUpsert(peer_db.log[i])
                              /\ peer_db.log[i].content_hash = h}

\* The peer gave the file at k the content on disk after it last gave it h.
Overtakes(k, h) ==
  k \in DOMAIN disk /\ \E i \in Writes(k, disk[k]) : \A j \in Writes(k, h) : j < i

Others(c) == {t \in DOMAIN transfers : t.content # c}

\* Defect: the notice does not look whether its channel is full.
PlaceAlwaysNotice(c) ==
  /\ \E t \in DOMAIN transfers : t.content = c
  /\ WriteFile(staged[c], c)
  /\ notices' = Append(notices, staged[c])
  /\ transfers' = [t \in Others(c) |-> transfers[t]]
  /\ staged' = [h \in DOMAIN staged \ {c} |-> staged[h]]
  /\ spoiled' = spoiled \ {c}
  /\ lost' = lost \cup ({t.dest : t \in DOMAIN transfers \ Others(c)} \ {staged[c]})
  /\ overtaken' = IF Overtakes(staged[c], c) THEN overtaken \cup {staged[c]} ELSE overtaken
  /\ UNCHANGED <<watching, debouncer, node_vars, db, peer_db, pulls, sends,
                 unrecorded, spent>>

\* handle_complete: content c is verified and renamed to the destination in its
\* state file.  Transfers of the same content share what is staged: they all
\* end with the first.  The notice is dropped when its channel is full.
PlaceFile(c) ==
  /\ \E t \in DOMAIN transfers : t.content = c
  /\ WriteFile(staged[c], c)
  /\ notices' = IF Len(notices) < NoticeLimit THEN Append(notices, staged[c]) ELSE notices
  /\ transfers' = [t \in Others(c) |-> transfers[t]]
  /\ staged' = [h \in DOMAIN staged \ {c} |-> staged[h]]
  /\ spoiled' = spoiled \ {c}
  /\ lost' = lost \cup ({t.dest : t \in DOMAIN transfers \ Others(c)} \ {staged[c]})
  /\ overtaken' = IF Overtakes(staged[c], c) THEN overtaken \cup {staged[c]} ELSE overtaken
  /\ UNCHANGED <<watching, debouncer, node_vars, db, peer_db, pulls, sends,
                 unrecorded, spent>>

\* The completion worker.  It then tells the peers of the folder.
HandleNotice ==
  /\ notices # <<>>
  /\ notices' = Tail(notices)
  /\ suppress_path(Head(notices))
  /\ UNCHANGED <<disk, watching, raw, pending_paths, changes, node_vars, db,
                 peer_db, traffic, history, spent>>

\* A send fails before its last chunk or when it is verified; what is staged
\* stays.  Nobody repeats it.
FailPull ==
  \E q \in DOMAIN pulls : /\ pulls' = Ext!BagRemove(pulls, q)
                          /\ lost' = lost \cup {q.dest}
                          /\ UNCHANGED <<sends, transfers>>

FailSend ==
  \/ \E s \in DOMAIN sends : /\ sends' = Ext!BagRemove(sends, s)
                             /\ lost' = lost \cup {s.dest}
                             /\ UNCHANGED <<pulls, transfers>>
  \/ \E t \in DOMAIN transfers : /\ transfers' = Ext!BagRemove(transfers, t)
                                 /\ lost' = lost \cup {t.dest}
                                 /\ UNCHANGED <<pulls, sends>>

\* A fault of the disk or the connection.
Lose ==
  /\ spent.stops + spent.lost < MaxFaults
  /\ FailPull \/ FailSend
  /\ Spend("lost")
  /\ UNCHANGED <<watcher_vars, node_vars, db, peer_db, staged, spoiled, notices,
                 overtaken, unrecorded>>

\* No fault: two sends take each other's acknowledgements, or what is staged
\* does not have the content announced.
Garble ==
  /\ \/ BagCardinality(sends (+) transfers) > 1 /\ FailSend
     \/ \E t \in DOMAIN transfers : /\ t.content \in spoiled
                                    /\ transfers' = Ext!BagRemove(transfers, t)
                                    /\ lost' = lost \cup {t.dest}
                                    /\ UNCHANGED <<pulls, sends>>
  /\ UNCHANGED <<watcher_vars, node_vars, db, peer_db, staged, spoiled, notices,
                 overtaken, unrecorded, spent>>

---------------------------------------------------------------------------
\* The watcher's own steps leave the rest alone.
\* A suppression outlasts the writing of the row.
Unsuppress(x) ==
  /\ \E k \in suppressed_paths :
       /\ Named(k, {x})
       /\ \A f \in Folder : session[f].phase = "suppressing" => k \notin PendingKeys(f)
       /\ EndSuppression(k)
  /\ UNCHANGED sync_vars

Notify(x) == (\E k \in raw : Named(k, {x}) /\ TakeReport(k)) /\ UNCHANGED sync_vars

Emit(x) == (\E k \in pending_paths : Named(k, {x}) /\ EmitChange(k)) /\ UNCHANGED sync_vars

SessionStep(f) ==
  \/ StartSync(f) \/ FinishSync(f)
  \/ \E i \in DOMAIN session[f].todo :
       \/ Download(f, i) \/ DeleteLocal(f, i) \/ Branch(f, i)
       \/ \E now \in Time : ApplyAction(f, i, now)

Abort == \E f \in Folder : \E i \in DOMAIN session[f].todo : AbortOnSend(f, i)

Transfers ==
  \/ \E q \in DOMAIN pulls : ServePull(q)
  \/ \E s \in DOMAIN sends : OpenTransfer(s)
  \/ \E c \in DOMAIN staged : PlaceFile(c)

Record == \E now \in Time : RecordChange(now)

Scan == \E k \in to_scan, now \in Time : ScanFile(k, now)

User ==
  \/ \E k \in KeysOf(Edited) :
       UserRemove(k) \/ \E h \in UserHash \cap LaterHash : UserWrite(k, h)
  \/ \E k \in KeysOf(PeerEdited), now \in Time : PeerChange(k, now)

\* What the tasks of the runtime do, and whoever starts a node that is down.
Tasks ==
  \/ StartScan \/ Scan \/ StartWatcher
  \/ \E x \in Name : Unsuppress(x) \/ Notify(x) \/ Emit(x)
  \/ Record
  \/ \E f \in Folder : SessionStep(f)
  \/ Transfers \/ HandleNotice

Next == Tasks \/ User \/ Stop \/ Abort \/ Lose \/ Garble

Spec == Init /\ [][Next]_vars

\* While a task can run, some task does.  Users, failures and the end of the
\* process are free.
FairSpec == Spec /\ WF_vars(Tasks)
---------------------------------------------------------------------------
(* Properties. *)

\* Everything keeps its type, and both channels their capacity.
TypeOK ==
  /\ DOMAIN disk \subseteq Key /\ \A k \in DOMAIN disk : disk[k] \in Hash
  /\ watching = (phase = "running")
  /\ raw \cup pending_paths \cup suppressed_paths \cup to_scan \subseteq Key
  /\ lost \cup overtaken \cup unrecorded \subseteq Key
  /\ changes \in Seq(FsChangeEvent) /\ Len(changes) <= ChangeLimit
  /\ notices \in Seq(Key) /\ Len(notices) <= NoticeLimit
  /\ DOMAIN pulls \subseteq PullReq
  /\ DOMAIN sends \cup DOMAIN transfers \subseteq Send
  /\ DOMAIN staged \cup spoiled \subseteq Hash
  /\ \A c \in DOMAIN staged : staged[c] \in Key
  /\ \A t \in DOMAIN transfers : t.content \in DOMAIN staged
  /\ last_seen \in [Folder -> 0..Len(peer_db.log)]
  /\ \A f \in Folder : \A i \in DOMAIN session[f].todo : DecisionOK(session[f].todo[i])

OwnNames == Edited \ PeerEdited

PeerNames == PeerEdited \ Edited

\* What the peer made of the file at k after the version the catalog has.
Newer(k) ==
  {peer_db.log[i].content_hash : i \in
     {i \in DOMAIN peer_db.log : /\ SameFile(KeyOf(peer_db.log[i]), k)
                                 /\ peer_db.log[i].version > db.files[k].version}}

\* What this node logged as its own change of k.
Authored(d, k) ==
  {i \in DOMAIN d.log : KeyOf(d.log[i]) = k /\ d.log[i].origin_node_id = Self}

\* A file that the peer's users made, and nobody changed since, is not logged
\* as a change of this node.
PeerFileNotAuthored(k) ==
  Cardinality({i \in DOMAIN peer_db.log : SameFile(KeyOf(peer_db.log[i]), k)}) = 1
    => Authored(db', k) = Authored(db, k)

\* No echo, however the download of such a file, its row, the watcher's
\* reports, the end of the suppression, a dropped notice, failed transfers and a
\* restart with its scan follow each other (coordinator.rs:601-610 and 175-181,
\* receiver.rs:237) - unless the file was placed and its row was not written.
DownloadsNotRecorded ==
  [][\A k \in DOMAIN db'.files :
       Named(k, PeerNames) /\ k \notin unrecorded => PeerFileNotAuthored(k)]_vars

\* The same of every such file.
NoDownloadRecorded ==
  [][\A k \in DOMAIN db'.files : Named(k, PeerNames) => PeerFileNotAuthored(k)]_vars

\* No change this node logs gives a file of the peer's users content that the
\* peer had replaced when the catalog's row was written.
NoEcho ==
  [][\A k \in DOMAIN db.files :
       Named(k, PeerNames) /\ k \notin lost \cup unrecorded =>
         \A i \in Authored(db', k) \ Authored(db, k) :
           IsUpsert(db'.log[i]) /\ db'.log[i].content_hash \in Newer(k)]_vars

\* A file of the peer that the catalog shows as the peer made it.
ShownAsPulled(k) ==
  Named(k, PeerNames) /\ Live(db, k) /\ db.files[k].origin_node_id = Peer

\* The peer removed the file at k after the version the catalog has.
RemovedSince(k) ==
  \E i \in DOMAIN peer_db.log :
    /\ SameFile(KeyOf(peer_db.log[i]), k) /\ ~IsUpsert(peer_db.log[i])
    /\ peer_db.log[i].version > db.files[k].version

\* The content that the catalog has for k, or newer content of the peer.
Wanted(k) == {db.files[k].content_hash} \cup Newer(k)

\* Wanted content is on disk, or on its way, or will be read when the peer
\* serves the request; or a transfer failed, or the peer has removed the file
\* since.
AccountedFor(k) ==
  \/ k \in DOMAIN disk /\ disk[k] \in Wanted(k)
  \/ \E q \in DOMAIN pulls : q.dest = k
  \/ \E s \in DOMAIN sends \cup DOMAIN transfers : s.dest = k /\ s.content \in Wanted(k)
  \/ k \in lost
  \/ RemovedSince(k)

\* The catalog calls a pulled file live whether or not it has come
\* (coordinator.rs:451-459), and a file that is there already is not asked for
\* (429-438).  Its content is accounted for all the same - unless transfers to
\* the path crossed, so that older content was placed over newer.
DownloadAccountedFor ==
  \A k \in DOMAIN db.files : ShownAsPulled(k) /\ k \notin overtaken => AccountedFor(k)

\* The same of every pulled file.
AlwaysAccountedFor == \A k \in DOMAIN db.files : ShownAsPulled(k) => AccountedFor(k)

\* What this node's users write to a file of their own, while it runs or is
\* down, is in the catalog at last, through debouncing, restarts and scans;
\* so is a removal, when no process ended since.
EditsAreRecorded ==
  \A k \in KeysOf(OwnNames) :
    <>[](IF k \in DOMAIN disk
           THEN Live(db, k) /\ db.files[k].content_hash = disk[k]
           ELSE spent.stops = 0 => ~Live(db, k))

\* The peer's content of k is on disk, at its path or at a conflict path, and
\* what the peer removed is not.
Arrived(k) ==
  IF Live(peer_db, k)
    THEN \E j \in DOMAIN disk : SameFile(j, k) /\ disk[j] = peer_db.files[k].content_hash
    ELSE Known(peer_db, k) => k \notin DOMAIN disk

\* What the peer's users change arrives at last, when no transfer of it failed
\* or came after a later one.
PeerChangesArrive ==
  \A k \in KeysOf(PeerNames) :
    <>[]((\A j \in lost \cup overtaken : ~SameFile(j, k)) => Arrived(k))

\* What the peer's users change arrives at last.
AllPeerChangesArrive == \A k \in KeysOf(PeerNames) : <>[]Arrived(k)

\* Nothing a user wrote is overwritten or removed by a download or a remote
\* deletion before it was recorded.
OverwrittenWasRecorded ==
  [][\A k \in DOMAIN disk :
       /\ spent'.edits = spent.edits
       /\ k \notin DOMAIN disk' \/ disk'[k] # disk[k]
       => \E i \in 1..Len(db.log) : KeyOf(db.log[i]) = k /\ db.log[i].content_hash = disk[k]]_vars
===========================================================================

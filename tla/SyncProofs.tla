----------------------------- MODULE SyncProofs -----------------------------
(***************************************************************************)
(* Proofs about Sync, for any folders, names, contents, clock readings,    *)
(* channel capacities and numbers of changes and faults.                   *)
(***************************************************************************)
EXTENDS Sync, ReconcilerProofs, FiniteSetTheorems

---------------------------------------------------------------------------
(* The inductive invariant.                                                *)
(*                                                                         *)
(* A file of the peer goes by its own key in the peer's log, and by that   *)
(* key or the key of a conflict file on this node.                         *)

FileOf(k) == <<k[1], [name |-> k[2].name, marks |-> <<>>]>>

\* The peer logs what its users do: one version after the other, the row being
\* the last of them.
PeerLogOK(d) ==
  /\ \A i \in 1..Len(d.log) :
       LET e == d.log[i] IN
       /\ KeyOf(e) = FileOf(KeyOf(e))
       /\ Known(d, KeyOf(e)) /\ e.version <= d.files[KeyOf(e)].version
  /\ \A i, j \in 1..Len(d.log) :
       i < j /\ KeyOf(d.log[i]) = KeyOf(d.log[j]) => d.log[i].version < d.log[j].version

DbsInv == DbInv(db) /\ DbInv(peer_db) /\ PeerLogOK(peer_db)

WatchInv ==
  /\ DOMAIN disk \subseteq Key /\ \A k \in DOMAIN disk : disk[k] \in Hash
  /\ watching = (phase = "running")
  /\ raw \cup pending_paths \cup suppressed_paths \subseteq Key
  /\ changes \in Seq(FsChangeEvent) /\ Len(changes) <= ChangeLimit

QueuesInv ==
  /\ lost \cup overtaken \cup unrecorded \cup to_scan \subseteq Key
  /\ notices \in Seq(Key) /\ Len(notices) <= NoticeLimit

TrafficInv ==
  /\ DOMAIN pulls \subseteq PullReq
  /\ DOMAIN sends \cup DOMAIN transfers \subseteq Send
  /\ DOMAIN staged \cup spoiled \subseteq Hash
  /\ \A c \in DOMAIN staged : staged[c] \in Key
  /\ \A t \in DOMAIN transfers : t.content \in DOMAIN staged

\* A session handles decisions on events of its folder in the peer's log.
SessionOK(f, x, log) ==
  /\ x = [phase |-> x.phase, todo |-> x.todo, latest |-> x.latest]
  /\ x.latest \in 0..Len(log)
  /\ DOMAIN x.todo \subseteq 1..Len(log)
  /\ \A i \in DOMAIN x.todo :
       DecisionOK(x.todo[i]) /\ Carries(x.todo[i], log[i]) /\ log[i].folder_id = f

SessionsInv ==
  /\ last_seen \in [Folder -> Nat]
  /\ \A f \in Folder : last_seen[f] <= Len(peer_db.log)
  /\ DOMAIN session = Folder
  /\ \A f \in Folder : SessionOK(f, session[f], peer_db.log)

\* The peer's users gave the file at k this content as this version.
Written(k, v, h) ==
  \E i \in 1..Len(peer_db.log) :
    LET e == peer_db.log[i] IN
    KeyOf(e) = FileOf(k) /\ IsUpsert(e) /\ e.version = v /\ e.content_hash = h

\* Of the file at k: g is the content h of its version v, or newer.
Fresh(k, v, h, g) ==
  \/ g = h
  \/ \E i \in 1..Len(peer_db.log) :
       LET e == peer_db.log[i] IN
       KeyOf(e) = FileOf(k) /\ e.version > v /\ e.content_hash = g

\* The peer removed the file after its version v.
Removed(k, v) ==
  \E i \in 1..Len(peer_db.log) :
    LET e == peer_db.log[i] IN
    KeyOf(e) = FileOf(k) /\ ~IsUpsert(e) /\ e.version > v

\* The content h of version v of the file at k is accounted for.
Settled(k, v, h) ==
  \/ k \in DOMAIN disk /\ Fresh(k, v, h, disk[k])
  \/ \E q \in DOMAIN pulls : q.dest = k
  \/ \E s \in DOMAIN sends \cup DOMAIN transfers : s.dest = k /\ Fresh(k, v, h, s.content)
  \/ k \in lost \cup overtaken
  \/ Removed(k, v)

\* The catalog shows the peer's file at k in this version and with this content,
\* or a session has asked for that and is about to write the row.
Claimed(k, v, h) ==
  /\ Named(k, PeerNames)
  /\ \/ /\ ShownAsPulled(k)
        /\ db.files[k].version = v /\ db.files[k].content_hash = h
     \/ \E f \in Folder : \E i \in Pending(f) :
          LET a == session[f].todo[i] IN
          /\ a.kind # "DeleteLocal" /\ KeyOf(a.event) = k
          /\ a.event.version = v /\ a.event.content_hash = h

\* A pull asks for the file of its destination.
PullsInv == \A q \in DOMAIN pulls : q.source = FileOf(q.dest)

\* What is claimed the peer's users wrote, and it is accounted for.
ClaimsInv ==
  \A k \in Key, v \in Nat, h \in Hash :
    Claimed(k, v, h) => Written(k, v, h) /\ Settled(k, v, h)

\* A session that is to remove a file has a later version than the catalog.
DeletesInv ==
  \A f \in Folder : \A i \in DOMAIN session[f].todo, k \in DOMAIN db.files :
    LET a == session[f].todo[i] IN
    a.kind = "DeleteLocal" /\ KeyOf(a.event) = k /\ ShownAsPulled(k) =>
      db.files[k].version < a.event.version

ContentInv == PullsInv /\ ClaimsInv /\ DeletesInv

IInv == DbsInv /\ WatchInv /\ QueuesInv /\ TrafficInv /\ SessionsInv /\ ContentInv

---------------------------------------------------------------------------
(* The peer's log.                                                         *)

\* The events of the file at k are those logged under the file's own key.
LEMMA SameFileKey ==
  ASSUME NEW d, PeerLogOK(d), NEW i \in 1..Len(d.log), NEW k
  PROVE  SameFile(KeyOf(d.log[i]), k) <=> KeyOf(d.log[i]) = FileOf(k)
<1>1. KeyOf(d.log[i]) = FileOf(KeyOf(d.log[i]))
  BY DEF PeerLogOK
<1> QED BY <1>1 DEF SameFile, FileOf

\* The positions of the log are numbers.
LEMMA LogDomain ==
  ASSUME NEW d, DbInv(d)
  PROVE  /\ Len(d.log) \in Nat /\ DOMAIN d.log = 1..Len(d.log)
         /\ \A i \in 1..Len(d.log) : EventOK(d.log[i]) /\ d.log[i].version \in Nat
  BY DEF DbInv, DbOK, EventOK, SyncEvent

\* What Sync says of the peer's log, by the file's own key.
LEMMA PeerFacts ==
  ASSUME DbsInv, NEW k
  PROVE  /\ RemovedSince(k) <=> Removed(k, db.files[k].version)
         /\ \A h : h \in Wanted(k) <=>
                     Fresh(k, db.files[k].version, db.files[k].content_hash, h)
         /\ \A h, i : i \in Writes(k, h) <=>
              /\ i \in 1..Len(peer_db.log) /\ KeyOf(peer_db.log[i]) = FileOf(k)
              /\ IsUpsert(peer_db.log[i]) /\ peer_db.log[i].content_hash = h
<1>1. DOMAIN peer_db.log = 1..Len(peer_db.log)
  BY LogDomain DEF DbsInv
<1>2. \A i \in 1..Len(peer_db.log) :
        SameFile(KeyOf(peer_db.log[i]), k) <=> KeyOf(peer_db.log[i]) = FileOf(k)
  BY SameFileKey DEF DbsInv
<1>3. RemovedSince(k) <=> Removed(k, db.files[k].version)
  BY <1>1, <1>2 DEF RemovedSince, Removed
<1>4. \A h : h \in Wanted(k) <=>
               Fresh(k, db.files[k].version, db.files[k].content_hash, h)
  BY <1>1, <1>2 DEF Wanted, Newer, Fresh
<1>5. \A h, i : i \in Writes(k, h) <=>
        /\ i \in 1..Len(peer_db.log) /\ KeyOf(peer_db.log[i]) = FileOf(k)
        /\ IsUpsert(peer_db.log[i]) /\ peer_db.log[i].content_hash = h
  BY <1>1, <1>2 DEF Writes
<1> QED BY <1>3, <1>4, <1>5

\* Rows have versions and contents.
LEMMA RowFields ==
  ASSUME NEW d, DbInv(d), NEW k \in DOMAIN d.files
  PROVE  k \in Key /\ d.files[k].version \in Nat /\ d.files[k].content_hash \in Hash
  BY DEF DbInv, DbOK, RowsOK, FileRecord

\* The invariant gives the properties it was made for.
LEMMA IInvImplies ==
  ASSUME IInv
  PROVE  TypeOK /\ DownloadAccountedFor
<1>1. TypeOK
  <2>1. last_seen \in [Folder -> 0..Len(peer_db.log)]
    <3>1. Len(peer_db.log) \in Nat
      BY LogDomain DEF IInv, DbsInv
    <3> QED BY <3>1 DEF IInv, SessionsInv
  <2>2. \A f \in Folder : \A i \in DOMAIN session[f].todo : DecisionOK(session[f].todo[i])
    BY DEF IInv, SessionsInv, SessionOK
  <2> QED BY <2>1, <2>2 DEF IInv, WatchInv, QueuesInv, TrafficInv, TypeOK
<1>2. ASSUME NEW k \in DOMAIN db.files, ShownAsPulled(k), k \notin overtaken
      PROVE  AccountedFor(k)
  <2> DEFINE v == db.files[k].version
             h == db.files[k].content_hash
  <2>1. k \in Key /\ v \in Nat /\ h \in Hash
    BY RowFields DEF IInv, DbsInv
  <2>2. Claimed(k, v, h)
    BY <1>2 DEF Claimed, ShownAsPulled
  <2>3. Settled(k, v, h)
    <3> HIDE DEF v, h
    <3> QED BY <2>1, <2>2 DEF IInv, ContentInv, ClaimsInv
  <2>4. /\ RemovedSince(k) <=> Removed(k, v)
        /\ \A g : g \in Wanted(k) <=> Fresh(k, v, h, g)
    BY PeerFacts DEF IInv
  <2> HIDE DEF v, h
  <2> QED BY <1>2, <2>3, <2>4 DEF Settled, AccountedFor
<1> QED BY <1>1, <1>2 DEF DownloadAccountedFor

\* The last event of a file backs the peer's row of it.
LEMMA PeerLast ==
  ASSUME DbsInv, NEW k, NEW i \in 1..Len(peer_db.log), KeyOf(peer_db.log[i]) = FileOf(k)
  PROVE  /\ Known(peer_db, FileOf(k))
         /\ \E j \in 1..Len(peer_db.log) :
              /\ i <= j /\ Backs(peer_db.log, j, FileOf(k), peer_db.files[FileOf(k)])
              /\ i # j => peer_db.log[i].version < peer_db.log[j].version
<1> DEFINE log == peer_db.log
           row == peer_db.files[FileOf(k)]
<1>1. Known(peer_db, FileOf(k)) /\ log[i].version <= row.version
  BY DEF DbsInv, PeerLogOK
<1>2. PICK j \in 1..Len(log) : Backs(log, j, FileOf(k), row)
  BY <1>1 DEF DbsInv, DbInv, LogCovers, Known
<1>3. KeyOf(log[j]) = FileOf(k) /\ log[j].version = row.version
  BY <1>2 DEF Backs
<1>4. Len(log) \in Nat /\ log[i].version \in Nat /\ log[j].version \in Nat
  BY LogDomain DEF DbsInv
<1>5. j < i => log[j].version < log[i].version
  BY <1>3 DEF DbsInv, PeerLogOK
<1>6. i < j => log[i].version < log[j].version
  BY <1>3 DEF DbsInv, PeerLogOK
<1>7. i <= j
  BY <1>1, <1>3, <1>4, <1>5
<1> QED BY <1>1, <1>2, <1>4, <1>6, <1>7
---------------------------------------------------------------------------
(* The peer's log grows.                                                   *)

\* An event of the next version, logged with its row, keeps the peer's log.
LEMMA NextVersionOK ==
  ASSUME NEW d, DbInv(d), PeerLogOK(d), NEW k, k = FileOf(k),
         NEW e, EventOK(e), KeyOf(e) = k,
         e.version = IF Known(d, k) THEN d.files[k].version + 1 ELSE 1,
         NEW row, row.version = e.version
  PROVE  PeerLogOK(Commit(d, PutRow(d.files, k, row), Append(d.log, e)))
<1> DEFINE log == Append(d.log, e)
           files == PutRow(d.files, k, row)
           d2 == Commit(d, files, log)
<1>1. d2.files = files /\ d2.log = log
  BY DEF Commit
<1>2. /\ Len(d.log) \in Nat /\ Len(log) = Len(d.log) + 1 /\ log[Len(d.log) + 1] = e
      /\ \A i \in 1..Len(d.log) : log[i] = d.log[i]
  BY DEF DbInv, DbOK, EventOK
<1>3. files[k] = row /\ k \in DOMAIN files
      /\ \A j \in DOMAIN d.files : j # k => j \in DOMAIN files /\ files[j] = d.files[j]
  BY DEF PutRow
<1>4. Known(d, k) => d.files[k].version \in Nat
  BY DEF DbInv, DbOK, RowsOK, Known, FileRecord
<1>5. \A i \in 1..Len(d.log) : d.log[i].version \in Nat
  BY LogDomain
<1>6. \A i \in 1..Len(d.log) : KeyOf(d.log[i]) = k => d.log[i].version < e.version
  <2> SUFFICES ASSUME NEW i \in 1..Len(d.log), KeyOf(d.log[i]) = k
               PROVE  d.log[i].version < e.version
    OBVIOUS
  <2>1. Known(d, k) /\ d.log[i].version <= d.files[k].version
    BY DEF PeerLogOK
  <2> QED BY <2>1, <1>4, <1>5
<1> HIDE DEF log, files
<1>7. ASSUME NEW i \in 1..Len(log)
      PROVE  /\ KeyOf(log[i]) = FileOf(KeyOf(log[i]))
             /\ KeyOf(log[i]) \in DOMAIN files
             /\ log[i].version <= files[KeyOf(log[i])].version
  <2>1. CASE i = Len(d.log) + 1
    <3>1. e.version \in Nat
      BY DEF EventOK, SyncEvent
    <3> QED BY <1>2, <1>3, <2>1, <3>1
  <2>2. CASE i \in 1..Len(d.log)
    <3>1. /\ KeyOf(d.log[i]) = FileOf(KeyOf(d.log[i]))
          /\ KeyOf(d.log[i]) \in DOMAIN d.files
          /\ d.log[i].version <= d.files[KeyOf(d.log[i])].version
      BY <2>2 DEF PeerLogOK, Known
    <3>2. CASE KeyOf(d.log[i]) = k
      <4>1. d.log[i].version < e.version /\ e.version \in Nat /\ d.log[i].version \in Nat
        BY <1>5, <1>6, <2>2, <3>2 DEF EventOK, SyncEvent
      <4> QED BY <1>2, <1>3, <2>2, <3>1, <3>2, <4>1
    <3>3. CASE KeyOf(d.log[i]) # k
      BY <1>2, <1>3, <2>2, <3>1, <3>3
    <3> QED BY <3>2, <3>3
  <2> QED BY <1>2, <2>1, <2>2
<1>8. ASSUME NEW i \in 1..Len(log), NEW j \in 1..Len(log), i < j, KeyOf(log[i]) = KeyOf(log[j])
      PROVE  log[i].version < log[j].version
  <2>1. i \in 1..Len(d.log)
    BY <1>2, <1>8
  <2>2. CASE j = Len(d.log) + 1
    BY <1>2, <1>6, <1>8, <2>1, <2>2
  <2>3. CASE j \in 1..Len(d.log)
    BY <1>2, <1>8, <2>1, <2>3 DEF PeerLogOK
  <2> QED BY <1>2, <2>2, <2>3
<1>9. PeerLogOK(d2)
  BY <1>1, <1>7, <1>8 DEF PeerLogOK, Known
<1> QED BY <1>9 DEF log, files

\* The peer's users change a file of theirs.
LEMMA PeerRecords ==
  ASSUME NEW d, DbInv(d), PeerLogOK(d), NEW k \in Key, k = FileOf(k), NEW now \in Time
  PROVE  /\ \A h \in PeerHash :
              /\ DbInv(record_local_upsert(d, Peer, k, h, now))
              /\ PeerLogOK(record_local_upsert(d, Peer, k, h, now))
              /\ LogGrows(d, record_local_upsert(d, Peer, k, h, now),
                          local_upsert_event(d, Peer, k, h, now))
              /\ EventOK(local_upsert_event(d, Peer, k, h, now))
         /\ Live(d, k) =>
              /\ DbInv(record_local_delete(d, Peer, k, now))
              /\ PeerLogOK(record_local_delete(d, Peer, k, now))
              /\ LogGrows(d, record_local_delete(d, Peer, k, now),
                          local_delete_event(d, Peer, k, now))
              /\ EventOK(local_delete_event(d, Peer, k, now))
<1>0. Peer \in Node /\ PeerHash \subseteq Hash
  BY SyncAssumption DEF SyncAssumption
<1>1. ASSUME NEW h \in PeerHash
      PROVE  /\ DbInv(record_local_upsert(d, Peer, k, h, now))
             /\ PeerLogOK(record_local_upsert(d, Peer, k, h, now))
             /\ LogGrows(d, record_local_upsert(d, Peer, k, h, now),
                         local_upsert_event(d, Peer, k, h, now))
             /\ EventOK(local_upsert_event(d, Peer, k, h, now))
  <2> DEFINE e == local_upsert_event(d, Peer, k, h, now)
             d2 == record_local_upsert(d, Peer, k, h, now)
  <2>1. DbInv(d2) /\ LogGrows(d, d2, e)
    BY <1>0, RecordUpsertInv
  <2>2. EventOK(e) /\ KeyOf(e) = k
    BY <1>0, LocalUpsertEventOK DEF DbInv
  <2>3. e.version = (IF Known(d, k) THEN d.files[k].version + 1 ELSE 1)
    BY DEF local_upsert_event
  <2>4. d2 = IF UpsertRejected(d, e) THEN d
             ELSE Commit(d, PutRow(d.files, k, RowOf(e)), Append(d.log, e))
    BY DEF record_local_upsert
  <2> HIDE DEF e, d2
  <2>5. RowOf(e).version = e.version
    BY DEF RowOf
  <2>6. PeerLogOK(d2)
    BY <2>2, <2>3, <2>4, <2>5, NextVersionOK
  <2> QED BY <2>1, <2>2, <2>6 DEF e, d2
<1>2. ASSUME Live(d, k)
      PROVE  /\ DbInv(record_local_delete(d, Peer, k, now))
             /\ PeerLogOK(record_local_delete(d, Peer, k, now))
             /\ LogGrows(d, record_local_delete(d, Peer, k, now),
                         local_delete_event(d, Peer, k, now))
             /\ EventOK(local_delete_event(d, Peer, k, now))
  <2> DEFINE e == local_delete_event(d, Peer, k, now)
             d2 == record_local_delete(d, Peer, k, now)
  <2>1. DbInv(d2) /\ LogGrows(d, d2, e)
    BY <1>0, <1>2, RecordDeleteInv
  <2>2. EventOK(e) /\ KeyOf(e) = k /\ ~IsUpsert(e)
    BY <1>0, <1>2, LocalDeleteEventOK DEF DbInv
  <2>3. e.version = (IF Known(d, k) THEN d.files[k].version + 1 ELSE 1)
    BY <1>2 DEF local_delete_event, Live
  <2>4. d2 = Commit(d, PutRow(d.files, k, TombstoneRow(d.files[k], e)), Append(d.log, e))
    BY <1>2 DEF record_local_delete
  <2>5. d.files[k] \in FileRecord
    BY <1>2 DEF DbInv, DbOK, RowsOK, Live, Known
  <2> HIDE DEF e, d2
  <2>6. TombstoneRow(d.files[k], e).version = e.version
    BY <2>5 DEF TombstoneRow, FileRecord
  <2>7. PeerLogOK(d2)
    BY <2>2, <2>3, <2>4, <2>6, NextVersionOK
  <2> QED BY <2>1, <2>2, <2>7 DEF e, d2
<1> QED BY <1>1, <1>2

\* log2 is log, or log and more.
Longer(log, log2) ==
  /\ Len(log) \in Nat /\ Len(log2) \in Nat /\ Len(log) <= Len(log2)
  /\ \A i \in 1..Len(log) : log2[i] = log[i]

LEMMA GrowsLonger ==
  ASSUME NEW d, DbInv(d), NEW d2, NEW e, EventOK(e), LogGrows(d, d2, e)
  PROVE  Longer(d.log, d2.log)
<1>1. d.log \in Seq(SyncEvent) /\ e \in SyncEvent
  BY DEF DbInv, DbOK, EventOK
<1>2. CASE d2.log = d.log
  BY <1>1, <1>2 DEF Longer
<1>3. CASE d2.log = Append(d.log, e)
  BY <1>1, <1>3 DEF Longer
<1> QED BY <1>2, <1>3 DEF LogGrows

\* What was written stays written, fresh content fresh, and what was removed
\* removed.
LEMMA LogStays ==
  ASSUME Longer(peer_db.log, peer_db'.log), NEW k, NEW v, NEW h
  PROVE  /\ Written(k, v, h) => Written(k, v, h)'
         /\ \A g : Fresh(k, v, h, g) => Fresh(k, v, h, g)'
         /\ Removed(k, v) => Removed(k, v)'
<1>1. \A i \in 1..Len(peer_db.log) : i \in 1..Len(peer_db'.log)
                                     /\ peer_db'.log[i] = peer_db.log[i]
  BY DEF Longer
<1> QED BY <1>1 DEF Written, Fresh, Removed

LEMMA SessionsLonger ==
  ASSUME NEW log, NEW log2, Longer(log, log2), NEW f, NEW x, SessionOK(f, x, log)
  PROVE  SessionOK(f, x, log2)
<1>1. \A i \in 1..Len(log) : i \in 1..Len(log2) /\ log2[i] = log[i]
  BY DEF Longer
<1>2. x.latest \in 0..Len(log2)
  BY DEF SessionOK, Longer
<1> QED BY <1>1, <1>2 DEF SessionOK

---------------------------------------------------------------------------
(* What a step keeps.                                                      *)

\* The catalog shows nothing of the peer that it did not show before.
RowsKept ==
  \A k : ShownAsPulled(k)' => ShownAsPulled(k) /\ db'.files[k] = db.files[k]

\* No session has a new decision ...
TodosKept ==
  \A f \in Folder : \A i \in DOMAIN session'[f].todo :
    i \in DOMAIN session[f].todo /\ session'[f].todo[i] = session[f].todo[i]

\* ... or one more of which the row is to be written.
PendingKept ==
  \A f \in Folder : \A i \in Pending(f)' :
    i \in Pending(f) /\ session'[f].todo[i] = session[f].todo[i]

\* The content of k: its file, what was asked for and what is sent to it, or it
\* has failed now.
Kept(k) ==
  /\ k \in DOMAIN disk => k \in DOMAIN disk' /\ disk'[k] = disk[k]
  /\ k \in lost \cup overtaken => k \in lost' \cup overtaken'
  /\ \/ k \in lost'
     \/ /\ \A q \in DOMAIN pulls : q.dest = k => q \in DOMAIN pulls'
        /\ \A s \in DOMAIN sends \cup DOMAIN transfers :
             s.dest = k => s \in DOMAIN sends' \cup DOMAIN transfers'

LEMMA SettledKept ==
  ASSUME NEW k, NEW v, NEW h, Settled(k, v, h), Kept(k), Longer(peer_db.log, peer_db'.log)
  PROVE  Settled(k, v, h)'
<1>1. (\A g : Fresh(k, v, h, g) => Fresh(k, v, h, g)') /\ (Removed(k, v) => Removed(k, v)')
  BY LogStays
<1>2. CASE k \in DOMAIN disk /\ Fresh(k, v, h, disk[k])
  <2>1. Fresh(k, v, h, disk[k])' /\ k \in DOMAIN disk' /\ disk'[k] = disk[k]
    BY <1>1, <1>2 DEF Kept, Fresh
  <2> QED BY <2>1 DEF Settled
<1>3. CASE \E q \in DOMAIN pulls : q.dest = k
  BY <1>3 DEF Settled, Kept
<1>4. CASE \E s \in DOMAIN sends \cup DOMAIN transfers : s.dest = k /\ Fresh(k, v, h, s.content)
  <2>1. PICK s \in DOMAIN sends \cup DOMAIN transfers : s.dest = k /\ Fresh(k, v, h, s.content)
    BY <1>4
  <2>2. k \in lost' \/ s \in DOMAIN sends' \cup DOMAIN transfers'
    BY <2>1 DEF Kept
  <2> QED BY <1>1, <2>1, <2>2 DEF Settled
<1>5. CASE k \in lost \cup overtaken
  BY <1>5 DEF Settled, Kept
<1>6. CASE Removed(k, v)
  BY <1>1, <1>6 DEF Settled
<1> QED BY <1>2, <1>3, <1>4, <1>5, <1>6 DEF Settled

\* Nothing new is claimed.
LEMMA ClaimsFewer ==
  ASSUME RowsKept, PendingKept, NEW k, NEW v, NEW h, Claimed(k, v, h)'
  PROVE  Claimed(k, v, h)
<1>1. CASE /\ ShownAsPulled(k)'
           /\ db'.files[k].version = v /\ db'.files[k].content_hash = h
  BY <1>1 DEF Claimed, RowsKept
<1>2. ASSUME NEW f \in Folder, NEW i \in Pending(f)',
             session'[f].todo[i].kind # "DeleteLocal",
             KeyOf(session'[f].todo[i].event) = k,
             session'[f].todo[i].event.version = v,
             session'[f].todo[i].event.content_hash = h
      PROVE  Claimed(k, v, h)
  <2>1. i \in Pending(f) /\ session'[f].todo[i] = session[f].todo[i]
    BY DEF PendingKept
  <2> QED BY <1>2, <2>1 DEF Claimed
<1> QED BY <1>1, <1>2 DEF Claimed

LEMMA DeletesKept ==
  ASSUME DeletesInv, RowsKept, TodosKept
  PROVE  DeletesInv'
<1> SUFFICES ASSUME NEW f \in Folder, NEW i \in DOMAIN session'[f].todo,
                    NEW k \in DOMAIN db'.files,
                    session'[f].todo[i].kind = "DeleteLocal",
                    KeyOf(session'[f].todo[i].event) = k, ShownAsPulled(k)'
             PROVE  db'.files[k].version < session'[f].todo[i].event.version
  BY DEF DeletesInv
<1>1. ShownAsPulled(k) /\ db'.files[k] = db.files[k] /\ k \in DOMAIN db.files
  BY DEF RowsKept, ShownAsPulled, Live, Known
<1>2. i \in DOMAIN session[f].todo /\ session'[f].todo[i] = session[f].todo[i]
  BY DEF TodosKept
<1> QED BY <1>1, <1>2 DEF DeletesInv

\* What is claimed was written, and stays so.
LEMMA ClaimsKept ==
  ASSUME ClaimsInv, Longer(peer_db.log, peer_db'.log),
         \A k \in Key, v \in Nat, h \in Hash : Claimed(k, v, h)' =>
           Claimed(k, v, h) /\ (Kept(k) \/ Settled(k, v, h)')
  PROVE  ClaimsInv'
<1> SUFFICES ASSUME NEW k \in Key, NEW v \in Nat, NEW h \in Hash, Claimed(k, v, h)'
             PROVE  Written(k, v, h)' /\ Settled(k, v, h)'
  BY DEF ClaimsInv
<1>1. Claimed(k, v, h) /\ (Kept(k) \/ Settled(k, v, h)')
  OBVIOUS
<1>2. Written(k, v, h) /\ Settled(k, v, h)
  BY <1>1 DEF ClaimsInv
<1> QED BY <1>1, <1>2, LogStays, SettledKept

\* Most steps claim nothing new and keep all there is.
LEMMA ContentKept ==
  ASSUME ContentInv, Longer(peer_db.log, peer_db'.log), RowsKept, PendingKept, TodosKept \/ DeletesInv',
         DOMAIN pulls' \subseteq DOMAIN pulls, \A k : Named(k, PeerNames) => Kept(k)
  PROVE  ContentInv'
<1>1. PullsInv' /\ DeletesInv'
  BY DeletesKept DEF ContentInv, PullsInv
<1>2. \A k \in Key, v \in Nat, h \in Hash : Claimed(k, v, h)' => Claimed(k, v, h) /\ Kept(k)
  BY ClaimsFewer DEF Claimed
<1>3. ClaimsInv'
  BY <1>2, ClaimsKept DEF ContentInv
<1> QED BY <1>1, <1>3 DEF ContentInv

\* A log is as long as itself.
LEMMA SameLog ==
  ASSUME DbInv(peer_db), peer_db' = peer_db
  PROVE  Longer(peer_db.log, peer_db'.log)
BY LogDomain DEF Longer

---------------------------------------------------------------------------
(* Files on their way.                                                     *)

LEMMA BagDomains ==
  ASSUME NEW B, NEW x
  PROVE  /\ DOMAIN Ext!BagAdd(B, x) = DOMAIN B \cup {x}
         /\ DOMAIN Ext!BagRemove(B, x) \subseteq DOMAIN B
         /\ DOMAIN B \subseteq DOMAIN Ext!BagRemove(B, x) \cup {x}
BY DEF Ext!BagAdd, Ext!BagRemove

\* What the peer has of a file when it serves a pull is what is claimed of it, or
\* newer; and when it has the file no more, it was removed.
LEMMA PeerLatest ==
  ASSUME DbsInv, NEW k, NEW v \in Nat, NEW h, Written(k, v, h)
  PROVE  IF Live(peer_db, FileOf(k))
           THEN Fresh(k, v, h, peer_db.files[FileOf(k)].content_hash)
           ELSE Removed(k, v)
<1> DEFINE log == peer_db.log
           row == peer_db.files[FileOf(k)]
<1>1. PICK n \in 1..Len(log) :
        /\ KeyOf(log[n]) = FileOf(k) /\ IsUpsert(log[n])
        /\ log[n].version = v /\ log[n].content_hash = h
  BY DEF Written
<1>2. PICK j \in 1..Len(log) : /\ n <= j /\ Backs(log, j, FileOf(k), row)
                               /\ n # j => log[n].version < log[j].version
  BY <1>1, PeerLast
<1>3. KeyOf(log[j]) = FileOf(k) /\ log[j].version \in Nat
  BY <1>2, LogDomain DEF DbsInv, Backs
<1>4. CASE Live(peer_db, FileOf(k))
  <2>1. log[j].content_hash = row.content_hash
    BY <1>2, <1>4 DEF Backs, Live
  <2>2. CASE n = j
    BY <1>1, <1>4, <2>1, <2>2 DEF Fresh
  <2>3. CASE n # j
    BY <1>1, <1>2, <1>3, <1>4, <2>1, <2>3 DEF Fresh
  <2> QED BY <2>2, <2>3
<1>5. CASE ~Live(peer_db, FileOf(k))
  <2>1. Known(peer_db, FileOf(k))
    BY <1>1, PeerLast
  <2>2. ~IsUpsert(log[j])
    BY <1>2, <1>5, <2>1 DEF Backs, Live, DbsInv, DbInv, DbOK, RowsOK, FileRecord, Known
  <2>3. n # j
    BY <1>1, <2>2
  <2> QED BY <1>1, <1>2, <1>3, <1>5, <2>2, <2>3 DEF Removed
<1> QED BY <1>4, <1>5

\* Content on disk that is not older than what is claimed was written by the peer
\* after older content, or the file was removed.
LEMMA PlacedOver ==
  ASSUME DbsInv, NEW k \in DOMAIN disk, NEW v \in Nat, NEW h, NEW c, Written(k, v, h),
         Fresh(k, v, h, disk[k]), ~Fresh(k, v, h, c)
  PROVE  Overtakes(k, c) \/ Removed(k, v)
<1> DEFINE log == peer_db.log
           g == disk[k]
<1>1. PICK n \in 1..Len(log) :
        /\ KeyOf(log[n]) = FileOf(k) /\ IsUpsert(log[n])
        /\ log[n].version = v /\ log[n].content_hash = h
  BY DEF Written
<1>2. /\ Len(log) \in Nat
      /\ \A i \in 1..Len(log) : log[i].version \in Nat
      /\ \A i, j \in 1..Len(log) :
           i < j /\ KeyOf(log[i]) = KeyOf(log[j]) => log[i].version < log[j].version
  BY LogDomain DEF DbsInv, PeerLogOK
<1>3. \A x, i : i \in Writes(k, x) <=>
        /\ i \in 1..Len(log) /\ KeyOf(log[i]) = FileOf(k)
        /\ IsUpsert(log[i]) /\ log[i].content_hash = x
  BY PeerFacts
<1>4. ASSUME NEW j \in Writes(k, c) PROVE j < n
  <2>1. /\ j \in 1..Len(log) /\ KeyOf(log[j]) = FileOf(k) /\ log[j].content_hash = c
    BY <1>3
  <2>2. ~(log[j].version > v) /\ c # h
    BY <2>1 DEF Fresh
  <2> QED BY <1>1, <1>2, <2>1, <2>2
<1>5. CASE g = h
  <2>1. n \in Writes(k, g)
    BY <1>1, <1>3, <1>5
  <2> QED BY <1>4, <2>1 DEF Overtakes
<1>6. CASE g # h
  <2>1. PICK i \in 1..Len(log) :
          KeyOf(log[i]) = FileOf(k) /\ log[i].version > v /\ log[i].content_hash = g
    BY <1>6 DEF Fresh
  <2>2. n < i
    BY <1>1, <1>2, <2>1
  <2>3. CASE ~IsUpsert(log[i])
    BY <2>1, <2>3 DEF Removed
  <2>4. CASE IsUpsert(log[i])
    <3>1. i \in Writes(k, g)
      BY <1>3, <2>1, <2>4
    <3>2. \A j \in Writes(k, c) : j < i
      BY <1>2, <1>3, <1>4, <2>2
    <3> QED BY <3>1, <3>2 DEF Overtakes
  <2> QED BY <2>3, <2>4
<1> QED BY <1>5, <1>6

---------------------------------------------------------------------------
(* The rows that the steps of this node write.                             *)

LEMMA Constants ==
  /\ Self \in Node /\ Peer \in Node /\ Self # Peer
  /\ UserHash \subseteq Hash /\ PeerHash \subseteq Hash /\ Gone \notin Hash
  /\ ChangeLimit \in Nat /\ NoticeLimit \in Nat
  BY SyncAssumption DEF SyncAssumption

\* What d2 has of the peer, d has.
PeerRowsKept(d, d2) ==
  \A k \in DOMAIN d2.files :
    Live(d2, k) /\ d2.files[k].origin_node_id = Peer =>
      k \in DOMAIN d.files /\ d2.files[k] = d.files[k]

\* A change that this node records has this node's name, or is a removal.
LEMMA LocalRows ==
  ASSUME NEW d, DbInv(d), NEW k \in Key, NEW now \in Time
  PROVE  /\ \A h \in Hash : PeerRowsKept(d, record_local_upsert(d, Self, k, h, now))
         /\ PeerRowsKept(d, record_local_delete(d, Self, k, now))
<1>1. ASSUME NEW h \in Hash
      PROVE  PeerRowsKept(d, record_local_upsert(d, Self, k, h, now))
  <2> DEFINE e == local_upsert_event(d, Self, k, h, now)
             d2 == record_local_upsert(d, Self, k, h, now)
  <2>1. e.origin_node_id = Self
    BY DEF local_upsert_event
  <2>2. d2 = IF UpsertRejected(d, e) THEN d
             ELSE Commit(d, PutRow(d.files, k, RowOf(e)), Append(d.log, e))
    BY DEF record_local_upsert
  <2> HIDE DEF e, d2
  <2>3. RowOf(e).origin_node_id # Peer
    BY <2>1, Constants DEF RowOf
  <2>4. PeerRowsKept(d, d2)
    BY <2>2, <2>3 DEF PeerRowsKept, Commit, PutRow
  <2> QED BY <2>4 DEF d2
<1>2. PeerRowsKept(d, record_local_delete(d, Self, k, now))
  <2> DEFINE e == local_delete_event(d, Self, k, now)
             d2 == record_local_delete(d, Self, k, now)
             row == TombstoneRow(d.files[k], e)
  <2>1. CASE ~Live(d, k)
    BY <2>1 DEF record_local_delete, PeerRowsKept
  <2>2. CASE Live(d, k)
    <3>1. d2 = Commit(d, PutRow(d.files, k, row), Append(d.log, e))
      BY <2>2 DEF record_local_delete
    <3>2. d.files[k] \in FileRecord
      BY <2>2 DEF DbInv, DbOK, RowsOK, Live, Known
    <3>3. row.is_deleted = TRUE
      BY <3>2 DEF TombstoneRow, FileRecord
    <3> HIDE DEF row, e, d2
    <3>4. PeerRowsKept(d, d2)
      BY <3>1, <3>3 DEF PeerRowsKept, Commit, PutRow, Live
    <3> QED BY <3>4 DEF d2
  <2> QED BY <2>1, <2>2
<1> QED BY <1>1, <1>2

\* The row of an event that is applied takes the place of its key's row.
LEMMA UpsertRows ==
  ASSUME NEW d, NEW e, NEW j \in DOMAIN apply_remote_upsert(d, e).files
  PROVE  \/ j = KeyOf(e) /\ apply_remote_upsert(d, e).files[j] = RowOf(e)
         \/ j \in DOMAIN d.files /\ apply_remote_upsert(d, e).files[j] = d.files[j]
  BY DEF apply_remote_upsert, Commit, PutRow

LEMMA DeleteRows ==
  ASSUME NEW d, DbInv(d), NEW e
  PROVE  LET d2 == apply_remote_delete(d, e) IN
         /\ ~Live(d2, KeyOf(e))
         /\ \A j \in DOMAIN d2.files : j # KeyOf(e) =>
              j \in DOMAIN d.files /\ d2.files[j] = d.files[j]
<1> DEFINE k == KeyOf(e)
           row == TombstoneRow(d.files[k], e)
           d2 == apply_remote_delete(d, e)
<1>1. d2.files = IF Known(d, k) THEN PutRow(d.files, k, row) ELSE d.files
  BY DEF apply_remote_delete, Commit
<1>2. CASE Known(d, k)
  <2>1. d.files[k] \in FileRecord
    BY <1>2 DEF DbInv, DbOK, RowsOK, Known
  <2>2. row.is_deleted = TRUE
    BY <2>1 DEF TombstoneRow, FileRecord
  <2> HIDE DEF k, row, d2
  <2>3. /\ ~Live(d2, k)
        /\ \A j \in DOMAIN d2.files : j # k => j \in DOMAIN d.files /\ d2.files[j] = d.files[j]
    BY <1>1, <1>2, <2>2 DEF PutRow, Live
  <2> QED BY <2>3 DEF k, d2
<1>3. CASE ~Known(d, k)
  BY <1>1, <1>3 DEF Live, Known
<1> QED BY <1>2, <1>3

\* With the same sessions, only rows matter.
LEMMA RowsOnly ==
  ASSUME PeerRowsKept(db, db'), session' = session
  PROVE  RowsKept /\ PendingKept /\ TodosKept
BY DEF RowsKept, PendingKept, TodosKept, Pending, PeerRowsKept, ShownAsPulled, Live, Known

\* A step on a file that is not the peer's keeps the peer's files.
LEMMA OwnFile ==
  ASSUME NEW k \in KeysOf(Edited), (\E h : WriteFile(k, h)) \/ RemoveFile(k),
         UNCHANGED <<pulls, sends, transfers, lost, overtaken>>
  PROVE  \A j : Named(j, PeerNames) => Kept(j)
<1>1. ~Named(k, PeerNames)
  BY DEF KeysOf, Named, PeerNames
<1>2. \A j : j # k => (j \in DOMAIN disk' <=> j \in DOMAIN disk)
                      /\ (j \in DOMAIN disk => disk'[j] = disk[j])
  BY DEF WriteFile, RemoveFile
<1> QED BY <1>1, <1>2 DEF Kept

---------------------------------------------------------------------------
(* Every action keeps the invariant: the users.                            *)

\* Files that are written or removed keep the types of the disk and the watcher.
LEMMA FilesTyped ==
  ASSUME WatchInv, NEW k \in Key, (\E h \in Hash : WriteFile(k, h)) \/ RemoveFile(k)
  PROVE  /\ DOMAIN disk' \subseteq Key /\ \A j \in DOMAIN disk' : disk'[j] \in Hash
         /\ raw' \subseteq Key
<1>1. CASE RemoveFile(k)
  BY <1>1 DEF WatchInv, RemoveFile, Reported
<1>2. ASSUME NEW h \in Hash, WriteFile(k, h)
      PROVE  /\ DOMAIN disk' \subseteq Key /\ \A j \in DOMAIN disk' : disk'[j] \in Hash
             /\ raw' \subseteq Key
  BY <1>2 DEF WatchInv, WriteFile, Reported
<1> QED BY <1>1, <1>2

\* The users' files have keys.
LEMMA KeysOfKey ==
  ASSUME NEW names, names \subseteq Name, NEW k \in KeysOf(names)
  PROVE  k \in Key /\ k = FileOf(k)
<1>1. PICK f \in Folder, x \in names : k = <<f, [name |-> x, marks |-> <<>>]>>
  BY DEF KeysOf
<1>2. <<>> \in Seq(Origin \X Time)
  OBVIOUS
<1>3. [name |-> x, marks |-> <<>>] \in Path
  BY <1>2 DEF Path
<1> QED BY <1>1, <1>3 DEF Key, FileOf

\* Steps that leave the sessions and the transfers alone.
Elsewhere ==
  UNCHANGED <<last_seen, session, pulls, sends, transfers, staged, spoiled, lost, overtaken>>

LEMMA UserStep ==
  ASSUME IInv, NEW k \in KeysOf(Edited),
         UserRemove(k) \/ \E h \in UserHash \cap LaterHash : UserWrite(k, h)
  PROVE  IInv'
<1>1. /\ k \in Key
      /\ (\E h \in Hash : WriteFile(k, h)) \/ RemoveFile(k)
      /\ UNCHANGED <<watching, debouncer, phase, to_scan, db, peer_db, notices, unrecorded>>
      /\ Elsewhere
  BY KeysOfKey, Constants, SyncAssumption
  DEF UserRemove, UserWrite, SyncAssumption, Elsewhere, node_vars, traffic, history
<1>2. DbsInv' /\ QueuesInv' /\ TrafficInv' /\ SessionsInv'
  BY <1>1 DEF IInv, DbsInv, QueuesInv, TrafficInv, SessionsInv, Elsewhere
<1>3. WatchInv'
  <2>1. DOMAIN disk' \subseteq Key /\ (\A j \in DOMAIN disk' : disk'[j] \in Hash)
        /\ raw' \subseteq Key
    BY <1>1, FilesTyped DEF IInv
  <2> QED BY <1>1, <2>1 DEF IInv, WatchInv, debouncer
<1>4. RowsKept /\ PendingKept /\ TodosKept
  BY <1>1, RowsOnly DEF PeerRowsKept, Elsewhere
<1>5. \A j : Named(j, PeerNames) => Kept(j)
  BY <1>1, OwnFile DEF Elsewhere
<1>6. Longer(peer_db.log, peer_db'.log)
  BY <1>1, SameLog DEF IInv, DbsInv
<1>7. ContentInv'
  BY <1>1, <1>4, <1>5, <1>6, ContentKept DEF IInv, Elsewhere
<1> QED BY <1>2, <1>3, <1>7 DEF IInv

LEMMA PeerStep ==
  ASSUME IInv, NEW k \in KeysOf(PeerEdited), NEW now \in Time, PeerChange(k, now)
  PROVE  IInv'
<1>1. k \in Key /\ k = FileOf(k)
  BY KeysOfKey, SyncAssumption DEF SyncAssumption
<1>2. UNCHANGED <<disk, watching, raw, pending_paths, suppressed_paths, changes, phase,
                  to_scan, db, last_seen, session, pulls, sends, transfers, staged,
                  notices, lost, overtaken, unrecorded>>
      /\ spoiled' = spoiled \cup {t.content : t \in {t \in DOMAIN transfers : t.source = k}}
  BY DEF PeerChange, watcher_vars, node_vars, history
<1>3. /\ DbInv(peer_db') /\ PeerLogOK(peer_db') /\ Longer(peer_db.log, peer_db'.log)
  <2>1. CASE \E h \in PeerHash : peer_db' = record_local_upsert(peer_db, Peer, k, h, now)
    <3>1. PICK h \in PeerHash : peer_db' = record_local_upsert(peer_db, Peer, k, h, now)
      BY <2>1
    <3>2. /\ DbInv(peer_db') /\ PeerLogOK(peer_db')
          /\ LogGrows(peer_db, peer_db', local_upsert_event(peer_db, Peer, k, h, now))
          /\ EventOK(local_upsert_event(peer_db, Peer, k, h, now))
      BY <1>1, <3>1, PeerRecords DEF IInv, DbsInv
    <3> QED BY <3>2, GrowsLonger DEF IInv, DbsInv
  <2>2. CASE Live(peer_db, k) /\ peer_db' = record_local_delete(peer_db, Peer, k, now)
    <3>1. /\ DbInv(peer_db') /\ PeerLogOK(peer_db')
          /\ LogGrows(peer_db, peer_db', local_delete_event(peer_db, Peer, k, now))
          /\ EventOK(local_delete_event(peer_db, Peer, k, now))
      BY <1>1, <2>2, PeerRecords DEF IInv, DbsInv
    <3> QED BY <3>1, GrowsLonger DEF IInv, DbsInv
  <2> QED BY <2>1, <2>2 DEF PeerChange
<1>4. DbsInv'
  BY <1>2, <1>3 DEF IInv, DbsInv
<1>5. WatchInv' /\ QueuesInv'
  BY <1>2 DEF IInv, WatchInv, QueuesInv
<1>6. TrafficInv'
  <2>1. \A t \in DOMAIN transfers : t.content \in Hash
    BY DEF IInv, TrafficInv, Send
  <2>2. spoiled' \subseteq Hash
    BY <1>2, <2>1 DEF IInv, TrafficInv
  <2> QED BY <1>2, <2>2 DEF IInv, TrafficInv
<1>7. SessionsInv'
  <2>1. \A f \in Folder : SessionOK(f, session[f], peer_db'.log)
    BY <1>3, SessionsLonger DEF IInv, SessionsInv
  <2>2. \A f \in Folder : last_seen'[f] <= Len(peer_db'.log)
    BY <1>2, <1>3 DEF IInv, SessionsInv, Longer
  <2> QED BY <1>2, <2>1, <2>2 DEF IInv, SessionsInv
<1>8. RowsKept /\ PendingKept /\ TodosKept /\ \A j : Kept(j)
  BY <1>2, RowsOnly DEF PeerRowsKept, Kept
<1>9. ContentInv'
  BY <1>2, <1>3, <1>8, ContentKept DEF IInv
<1> QED BY <1>4, <1>5, <1>6, <1>7, <1>9 DEF IInv

---------------------------------------------------------------------------
(* The watcher, the scan and the worker that records changes.              *)

\* A step that changes at most what the catalog has of this node's changes.
LEMMA OwnRowStep ==
  ASSUME IInv, DbInv(db'), PeerRowsKept(db, db'), WatchInv', QueuesInv', Elsewhere,
         UNCHANGED <<disk, peer_db>>
  PROVE  IInv'
<1>1. DbsInv' /\ SessionsInv' /\ TrafficInv'
  BY DEF IInv, DbsInv, SessionsInv, TrafficInv, Elsewhere
<1>2. RowsKept /\ PendingKept /\ TodosKept /\ \A j : Kept(j)
  BY RowsOnly DEF Elsewhere, Kept
<1>3. Longer(peer_db.log, peer_db'.log)
  BY SameLog DEF IInv, DbsInv
<1>4. ContentInv'
  BY <1>2, <1>3, ContentKept DEF IInv, Elsewhere
<1> QED BY <1>1, <1>4 DEF IInv

LEMMA ElsewhereKeeps ==
  ASSUME IInv, Elsewhere, UNCHANGED <<disk, db, peer_db>>, WatchInv', QueuesInv'
  PROVE  IInv'
<1>1. DbInv(db') /\ PeerRowsKept(db, db')
  BY DEF IInv, DbsInv, PeerRowsKept
<1> QED BY <1>1, OwnRowStep

\* What the watcher sees of a file.
LEMMA ContentTyped ==
  ASSUME WatchInv, NEW k
  PROVE  Content(k) \in Hash \cup {Gone}
  BY DEF WatchInv, Content

LEMMA WatcherStep ==
  ASSUME IInv, NEW x \in Name, Unsuppress(x) \/ Notify(x) \/ Emit(x)
  PROVE  IInv'
<1>1. UNCHANGED sync_vars /\ UNCHANGED <<disk, watching>>
  BY DEF Unsuppress, Notify, Emit, EndSuppression, TakeReport, EmitChange
<1>2. QueuesInv' /\ Elsewhere /\ UNCHANGED <<db, peer_db, phase>>
  BY <1>1 DEF IInv, QueuesInv, Elsewhere, sync_vars, node_vars, traffic, history
<1>3. WatchInv'
  <2>1. CASE Unsuppress(x)
    BY <1>1, <1>2, <2>1 DEF IInv, WatchInv, Unsuppress, EndSuppression
  <2>2. CASE Notify(x)
    BY <1>1, <1>2, <2>2 DEF IInv, WatchInv, Notify, TakeReport
  <2>3. CASE Emit(x)
    <3>1. PICK k \in pending_paths : EmitChange(k)
      BY <2>3 DEF Emit
    <3> DEFINE e == [key |-> k, content |-> Content(k)]
    <3>2. k \in Key /\ Content(k) \in Hash \cup {Gone}
      BY ContentTyped DEF IInv, WatchInv
    <3>3. e \in FsChangeEvent
      BY <3>2 DEF FsChangeEvent
    <3>4. changes' = IF k \in suppressed_paths THEN changes ELSE Append(changes, e)
      BY <3>1 DEF EmitChange
    <3> HIDE DEF e
    <3>5. changes' \in Seq(FsChangeEvent) /\ Len(changes') <= ChangeLimit
      BY <3>1, <3>3, <3>4, Constants DEF IInv, WatchInv, EmitChange
    <3> QED BY <1>1, <1>2, <3>1, <3>5 DEF IInv, WatchInv, EmitChange
  <2> QED BY <2>1, <2>2, <2>3
<1> QED BY <1>1, <1>2, <1>3, ElsewhereKeeps

LEMMA StartStep ==
  ASSUME IInv, StartScan \/ StartWatcher
  PROVE  IInv'
<1>1. Elsewhere /\ UNCHANGED <<disk, db, peer_db>>
  BY DEF StartScan, StartWatcher, StartWatching, Elsewhere, watcher_vars, traffic, history
<1>2. QueuesInv'
  BY DEF IInv, WatchInv, QueuesInv, StartScan, StartWatcher, history
<1>3. WatchInv'
  BY DEF IInv, WatchInv, StartScan, StartWatcher, StartWatching, debouncer, watcher_vars
<1> QED BY <1>1, <1>2, <1>3, ElsewhereKeeps

\* The tail of a sequence is one shorter.
LEMMA TailTyped ==
  ASSUME NEW S, NEW s \in Seq(S), s # <<>>
  PROVE  /\ Head(s) \in S /\ Tail(s) \in Seq(S)
         /\ \A n \in Nat : Len(s) <= n => Len(Tail(s)) <= n
<1>1. Len(s) \in Nat /\ Len(s) # 0
  OBVIOUS
<1> QED BY <1>1

LEMMA NoticeStep ==
  ASSUME IInv, HandleNotice
  PROVE  IInv'
<1>1. Elsewhere /\ UNCHANGED <<disk, db, peer_db>>
  BY DEF HandleNotice, Elsewhere, node_vars, traffic, history
<1>2. /\ Head(notices) \in Key /\ Tail(notices) \in Seq(Key)
      /\ Len(Tail(notices)) <= NoticeLimit
  BY TailTyped, Constants DEF IInv, QueuesInv, HandleNotice
<1>3. QueuesInv' /\ WatchInv'
  BY <1>2 DEF IInv, WatchInv, QueuesInv, HandleNotice, suppress_path,
                 node_vars, history
<1> QED BY <1>1, <1>3, ElsewhereKeeps

LEMMA ScanStep ==
  ASSUME IInv, NEW k \in to_scan, NEW now \in Time, ScanFile(k, now)
  PROVE  IInv'
<1>1. /\ UNCHANGED <<watcher_vars, phase, peer_db, notices, unrecorded>>
      /\ Elsewhere /\ to_scan' \subseteq to_scan
  BY DEF ScanFile, Elsewhere, traffic, history
<1>2. DbInv(db') /\ PeerRowsKept(db, db')
  <2>1. CASE NeedsIndexing(k)
    <3>1. k \in Key /\ disk[k] \in Hash
      BY <2>1 DEF IInv, QueuesInv, WatchInv, NeedsIndexing
    <3>2. db' = record_local_upsert(db, Self, k, disk[k], now)
      BY <2>1 DEF ScanFile
    <3> QED BY <3>1, <3>2, RecordUpsertInv, LocalRows, Constants DEF IInv, DbsInv
  <2>2. CASE ~NeedsIndexing(k)
    BY <2>2 DEF ScanFile, PeerRowsKept, IInv, DbsInv
  <2> QED BY <2>1, <2>2
<1>3. WatchInv' /\ QueuesInv'
  BY <1>1 DEF IInv, WatchInv, QueuesInv, Elsewhere, watcher_vars
<1> QED BY <1>1, <1>2, <1>3, OwnRowStep DEF watcher_vars

LEMMA RecordStep ==
  ASSUME IInv, NEW now \in Time, RecordChange(now)
  PROVE  IInv'
<1> DEFINE e == Head(changes)
           k == e.key
           h == e.content
<1>1. /\ UNCHANGED <<disk, watching, raw, pending_paths, suppressed_paths, phase,
                     to_scan, peer_db, notices, unrecorded>>
      /\ Elsewhere /\ changes' = Tail(changes) /\ db' = Recorded(e, now)
  BY DEF RecordChange, Elsewhere, node_vars, traffic, history
<1>2. /\ e \in FsChangeEvent /\ Tail(changes) \in Seq(FsChangeEvent)
      /\ Len(Tail(changes)) <= ChangeLimit
  BY TailTyped, Constants DEF IInv, WatchInv, RecordChange
<1>3. k \in Key /\ (h # Gone => h \in Hash)
  BY <1>2 DEF FsChangeEvent
<1>4. \/ db' = db
      \/ h # Gone /\ db' = record_local_upsert(db, Self, k, h, now)
      \/ db' = record_local_delete(db, Self, k, now)
  BY <1>1 DEF Recorded
<1> HIDE DEF e, k, h
<1>5. DbInv(db') /\ PeerRowsKept(db, db')
  <2>1. CASE db' = db
    BY <2>1 DEF PeerRowsKept, IInv, DbsInv
  <2>2. CASE h # Gone /\ db' = record_local_upsert(db, Self, k, h, now)
    BY <1>3, <2>2, RecordUpsertInv, LocalRows, Constants DEF IInv, DbsInv
  <2>3. CASE db' = record_local_delete(db, Self, k, now) /\ Live(db, k)
    BY <1>3, <2>3, RecordDeleteInv, LocalRows, Constants DEF IInv, DbsInv
  <2>4. CASE db' = record_local_delete(db, Self, k, now) /\ ~Live(db, k)
    BY <2>4 DEF record_local_delete, PeerRowsKept, IInv, DbsInv
  <2> QED BY <1>4, <2>1, <2>2, <2>3, <2>4
<1>6. WatchInv' /\ QueuesInv'
  BY <1>1, <1>2 DEF IInv, WatchInv, QueuesInv, Elsewhere
<1> QED BY <1>1, <1>5, <1>6, OwnRowStep

---------------------------------------------------------------------------
(* Sessions.                                                               *)

\* A decision is on a file of the peer, under the path that the peer has it at,
\* and brings what the peer's users wrote.
LEMMA Decided ==
  ASSUME DbsInv, SessionsInv, NEW f \in Folder, NEW i \in DOMAIN session[f].todo
  PROVE  LET a == session[f].todo[i] k == KeyOf(a.event) e == peer_db.log[i] IN
         /\ DecisionOK(a) /\ k \in Key /\ k[1] = f /\ FileOf(k) \in Key
         /\ i \in 1..Len(peer_db.log) /\ KeyOf(e) = FileOf(k)
         /\ IsUpsert(e) <=> a.kind # "DeleteLocal"
         /\ e.version = a.event.version /\ a.event.version \in Nat
         /\ a.kind # "Conflict" => k = FileOf(k)
         /\ a.kind = "Conflict" =>
              <<a.event.folder_id, OriginalPath(a.event.relative_path)>> = FileOf(k)
         /\ a.kind # "DeleteLocal" => /\ a.event.content_hash \in Hash
                                      /\ Written(k, a.event.version, a.event.content_hash)
<1> DEFINE a == session[f].todo[i]
           e == peer_db.log[i]
<1>1. /\ i \in 1..Len(peer_db.log) /\ DecisionOK(a) /\ Carries(a, e) /\ e.folder_id = f
      /\ KeyOf(e) = FileOf(KeyOf(e)) /\ e \in SyncEvent
  <2>1. SessionOK(f, session[f], peer_db.log)
    BY DEF SessionsInv
  <2>2. i \in 1..Len(peer_db.log) /\ DecisionOK(a) /\ Carries(a, e) /\ e.folder_id = f
    BY <2>1 DEF SessionOK
  <2>3. EventOK(e)
    BY <2>2, LogDomain DEF DbsInv
  <2> QED BY <2>2, <2>3 DEF DbsInv, PeerLogOK, EventOK
<1> HIDE DEF a, e
<1>2. a.event \in SyncEvent /\ (IsUpsert(a.event) => a.event.content_hash \in Hash)
      /\ (IsUpsert(a.event) <=> a.kind # "DeleteLocal")
  BY <1>1 DEF DecisionOK, EventOK
<1>3. KeyOf(a.event) \in Key /\ KeyOf(a.event)[1] = f /\ a.event.version \in Nat
  BY <1>1, <1>2 DEF SyncEvent, KeyOf, Key, Carries
<1>4. e.relative_path = [name |-> e.relative_path.name, marks |-> <<>>]
  BY <1>1 DEF KeyOf, FileOf
<1>5. a.kind # "Conflict" => KeyOf(a.event) = KeyOf(e)
  BY <1>1 DEF Carries, KeyOf
<1>6. ASSUME a.kind = "Conflict"
      PROVE  /\ OriginalPath(a.event.relative_path) = e.relative_path
             /\ FileOf(KeyOf(a.event)) = KeyOf(e)
             /\ a.event.folder_id = e.folder_id
  <2> DEFINE x == <<e.origin_node_id, e.modified_at>>
             p == a.event.relative_path
  <2>1. p = [name |-> e.relative_path.name, marks |-> Append(<<>>, x)]
    BY <1>1, <1>4, <1>6 DEF Carries, generate_conflict_path
  <2> HIDE DEF x
  <2>2. Front(Append(<<>>, x)) = <<>>
    BY DEF Front
  <2>3. OriginalPath(p) = [name |-> e.relative_path.name, marks |-> <<>>]
    BY <2>1, <2>2 DEF OriginalPath
  <2>4. FileOf(KeyOf(a.event)) = KeyOf(e)
    BY <1>1, <1>4, <2>1 DEF FileOf, KeyOf, Carries
  <2> QED BY <1>1, <1>4, <2>3, <2>4 DEF Carries
<1>7. FileOf(KeyOf(a.event)) = KeyOf(e)
  BY <1>1, <1>5, <1>6
<1>8. FileOf(KeyOf(a.event)) \in Key
  BY <1>1, <1>7 DEF SyncEvent, KeyOf, Key
<1>9. /\ IsUpsert(e) <=> a.kind # "DeleteLocal"
      /\ e.version = a.event.version /\ e.content_hash = a.event.content_hash
  BY <1>1, <1>2 DEF Carries, IsUpsert
<1>10. a.kind # "DeleteLocal" => Written(KeyOf(a.event), a.event.version, a.event.content_hash)
  BY <1>1, <1>7, <1>9 DEF Written, e
<1>11. a.kind = "Conflict" =>
         <<a.event.folder_id, OriginalPath(a.event.relative_path)>> = FileOf(KeyOf(a.event))
  BY <1>6 DEF KeyOf
<1> QED BY <1>1, <1>2, <1>3, <1>5, <1>7, <1>8, <1>9, <1>10, <1>11 DEF a, e

\* A session that ended has no decisions; one that goes on has the same or fewer.
LEMMA SessionsStay ==
  ASSUME NEW log, Len(log) \in Nat, NEW f
  PROVE  /\ SessionOK(f, Idle, log)
         /\ \A x : SessionOK(f, x, log) => \A i, p :
              /\ SessionOK(f, [phase |-> p, todo |-> x.todo, latest |-> x.latest], log)
              /\ SessionOK(f, [phase |-> p, todo |-> Rest(x.todo, i), latest |-> x.latest], log)
<1>1. SessionOK(f, Idle, log)
  BY DEF SessionOK, Idle
<1>2. ASSUME NEW x, SessionOK(f, x, log), NEW i, NEW p,
             NEW todo, DOMAIN todo \subseteq DOMAIN x.todo,
             \A j \in DOMAIN todo : todo[j] = x.todo[j]
      PROVE  SessionOK(f, [phase |-> p, todo |-> todo, latest |-> x.latest], log)
  BY <1>2 DEF SessionOK
<1>3. \A todo, i : /\ DOMAIN Rest(todo, i) \subseteq DOMAIN todo
                   /\ \A j \in DOMAIN Rest(todo, i) : Rest(todo, i)[j] = todo[j]
  BY DEF Rest
<1> QED BY <1>1, <1>2, <1>3

\* Session f becomes x.
LEMMA SessionSet ==
  ASSUME SessionsInv, NEW f \in Folder, NEW x, session' = [session EXCEPT ![f] = x]
  PROVE  /\ session'[f] = x /\ DOMAIN session' = Folder
         /\ \A g \in Folder : g # f => session'[g] = session[g] /\ Pending(g)' = Pending(g)
<1>1. session'[f] = x /\ DOMAIN session' = Folder
      /\ \A g \in Folder : g # f => session'[g] = session[g]
  BY DEF SessionsInv
<1>2. \A g \in Folder : g # f => Pending(g)' = Pending(g)
  BY <1>1 DEF Pending
<1> QED BY <1>1, <1>2

LEMMA SessionsSet ==
  ASSUME SessionsInv, NEW f \in Folder, NEW x, session' = [session EXCEPT ![f] = x],
         SessionOK(f, x, peer_db.log), UNCHANGED <<peer_db, last_seen>>
  PROVE  SessionsInv'
<1>1. /\ session'[f] = x /\ DOMAIN session' = Folder
      /\ \A g \in Folder : g # f => session'[g] = session[g]
  BY SessionSet
<1> QED BY <1>1 DEF SessionsInv

\* Everything of IInv but what it says of sessions and content.
LEMMA SessionStepKeeps ==
  ASSUME IInv, SessionsInv', ContentInv', DbInv(db'), WatchInv', TrafficInv',
         lost' \cup overtaken' \cup unrecorded' \subseteq Key,
         UNCHANGED <<peer_db, to_scan, notices>>
  PROVE  IInv'
BY DEF IInv, DbsInv, QueuesInv

\* A session that is to remove a file by the peer's later removal.
LEMMA DeleteIsLater ==
  ASSUME DbsInv, ClaimsInv, NEW i \in 1..Len(peer_db.log),
         NEW a, a = reconcile_event(db, peer_db.log[i]), a.kind = "DeleteLocal",
         DecisionOK(a), Carries(a, peer_db.log[i]), ShownAsPulled(KeyOf(a.event))
  PROVE  db.files[KeyOf(a.event)].version < a.event.version
<1> DEFINE e == peer_db.log[i]
           k == KeyOf(e)
           row == db.files[k]
<1>1. /\ KeyOf(a.event) = k /\ a.event.version = e.version
      /\ ~IsUpsert(e) /\ k = FileOf(k) /\ e.version \in Nat
  <2>1. /\ KeyOf(a.event) = k /\ a.event.version = e.version
        /\ IsUpsert(a.event) <=> IsUpsert(e)
    BY DEF Carries, KeyOf, IsUpsert
  <2>2. ~IsUpsert(a.event)
    BY DEF DecisionOK
  <2> QED BY <2>1, <2>2, LogDomain DEF DbsInv, PeerLogOK
<1>2. k \in DOMAIN db.files /\ Named(k, PeerNames)
  BY <1>1 DEF ShownAsPulled, Live, Known
<1>3. e.version >= row.version
  <2>1. Decide(db, e) = "DeleteLocal"
    BY DEF reconcile_event
  <2>2. DecideDelete(row, e) = "DeleteLocal"
    BY <1>1, <1>2, <2>1 DEF Decide, Known
  <2> QED BY <2>2 DEF DecideDelete
<1>4. k \in Key /\ row.version \in Nat /\ row.content_hash \in Hash
  BY <1>2, RowFields DEF DbsInv
<1>5. Claimed(k, row.version, row.content_hash)
  BY <1>1, <1>2 DEF Claimed
<1>6. Written(k, row.version, row.content_hash)
  <2> HIDE DEF k, row
  <2> QED BY <1>4, <1>5 DEF ClaimsInv
<1>7. PICK n \in 1..Len(peer_db.log) :
        KeyOf(peer_db.log[n]) = k /\ IsUpsert(peer_db.log[n]) /\ peer_db.log[n].version = row.version
  BY <1>1, <1>6 DEF Written
<1>8. n # i
  BY <1>1, <1>7
<1>9. peer_db.log[n].version # e.version
  <2>1. Len(peer_db.log) \in Nat
    BY LogDomain DEF DbsInv
  <2>2. /\ n < i => peer_db.log[n].version < e.version
        /\ i < n => e.version < peer_db.log[n].version
    BY <1>7 DEF DbsInv, PeerLogOK
  <2> QED BY <1>1, <1>4, <1>7, <1>8, <2>1, <2>2
<1> QED BY <1>1, <1>3, <1>4, <1>7, <1>9

LEMMA StartSyncStep ==
  ASSUME IInv, NEW f \in Folder, StartSync(f)
  PROVE  IInv'
<1> DEFINE log == peer_db.log
           events == NewEvents(f)
           x == [phase |-> "applying", todo |-> Decisions(db, events),
                 latest |-> get_latest_event_seq(peer_db, f)]
<1>1. /\ session' = [session EXCEPT ![f] = x]
      /\ UNCHANGED <<watcher_vars, phase, to_scan, last_seen, db, peer_db, pulls, sends,
                     transfers, staged, spoiled, notices, lost, overtaken, unrecorded>>
  BY DEF StartSync, traffic, history
<1>2. x.latest \in 0..Len(log)
  BY LatestInLog DEF IInv, DbsInv, DbInv
<1>3. ASSUME NEW i \in DOMAIN x.todo
      PROVE  /\ i \in 1..Len(log) /\ DecisionOK(x.todo[i]) /\ Carries(x.todo[i], log[i])
             /\ log[i].folder_id = f /\ x.todo[i] = reconcile_event(db, log[i])
  <2>1. /\ i \in DOMAIN events /\ Effective(reconcile_event(db, events[i]))
        /\ x.todo[i] = reconcile_event(db, events[i])
    BY <1>3 DEF Decisions
  <2>2. i \in 1..Len(log) /\ events[i] = log[i] /\ log[i].folder_id = f
    BY <2>1 DEF NewEvents, FolderSeqs
  <2>3. EventOK(log[i])
    BY <2>2, LogDomain DEF IInv, DbsInv
  <2> HIDE DEF x, events
  <2> QED BY <2>1, <2>2, <2>3, DecisionCarries DEF IInv, DbsInv, DbInv
<1>4. x = [phase |-> x.phase, todo |-> x.todo, latest |-> x.latest] /\ x.phase = "applying"
  OBVIOUS
<1> HIDE DEF x
<1>5. SessionOK(f, x, log)
  BY <1>2, <1>3, <1>4 DEF SessionOK
<1>6. /\ session'[f] = x
      /\ \A g \in Folder : g # f => session'[g] = session[g] /\ Pending(g)' = Pending(g)
  BY <1>1, SessionSet DEF IInv
<1>7. DeletesInv'
  <2> SUFFICES ASSUME NEW g \in Folder, NEW i \in DOMAIN session'[g].todo,
                      NEW k \in DOMAIN db.files,
                      session'[g].todo[i].kind = "DeleteLocal",
                      KeyOf(session'[g].todo[i].event) = k, ShownAsPulled(k)'
               PROVE  db.files[k].version < session'[g].todo[i].event.version
    BY <1>1 DEF DeletesInv
  <2>1. ShownAsPulled(k)
    BY <1>1 DEF ShownAsPulled
  <2>2. CASE g = f
    BY <1>3, <1>6, <2>1, <2>2, DeleteIsLater DEF IInv, ContentInv
  <2>3. CASE g # f
    BY <1>6, <2>1, <2>3 DEF IInv, ContentInv, DeletesInv
  <2> QED BY <2>2, <2>3
<1>8. PendingKept
  <2>1. Pending(f)' = {}
    BY <1>4, <1>6 DEF Pending
  <2> QED BY <1>6, <2>1 DEF PendingKept
<1>9. ContentInv'
  BY <1>1, <1>7, <1>8, ContentKept, SameLog
  DEF IInv, DbsInv, RowsKept, ShownAsPulled, Kept, watcher_vars
<1>10. SessionsInv' /\ WatchInv' /\ TrafficInv'
  BY <1>1, <1>5, SessionsSet DEF IInv, WatchInv, TrafficInv, watcher_vars
<1> QED BY <1>1, <1>9, <1>10, SessionStepKeeps DEF IInv, DbsInv, QueuesInv

LEMMA IdleRests == Idle.phase = "idle" /\ DOMAIN Idle.todo = {}
BY DEF Idle

LEMMA FinishSyncStep ==
  ASSUME IInv, NEW f \in Folder, FinishSync(f)
  PROVE  IInv'
<1>1. /\ session' = [session EXCEPT ![f] = Idle]
      /\ last_seen' = [last_seen EXCEPT ![f] = session[f].latest]
      /\ UNCHANGED <<watcher_vars, phase, to_scan, db, peer_db, pulls, sends,
                     transfers, staged, spoiled, notices, lost, overtaken, unrecorded>>
  BY DEF FinishSync, traffic, history
<1>2. /\ session'[f] = Idle
      /\ \A g \in Folder : g # f => session'[g] = session[g] /\ Pending(g)' = Pending(g)
  BY <1>1, SessionSet DEF IInv
<1>3. SessionsInv'
  <2>1. Len(peer_db.log) \in Nat
    BY LogDomain DEF IInv, DbsInv
  <2>2. SessionOK(f, Idle, peer_db.log)
    BY <2>1, SessionsStay
  <2>3. session[f].latest \in 0..Len(peer_db.log)
    BY DEF IInv, SessionsInv, SessionOK
  <2> QED BY <1>1, <1>2, <2>1, <2>2, <2>3 DEF IInv, SessionsInv
<1>4. TodosKept /\ PendingKept
  BY <1>2, IdleRests DEF TodosKept, PendingKept, Pending
<1>5. ContentInv'
  BY <1>1, <1>4, ContentKept, SameLog
  DEF IInv, DbsInv, RowsKept, ShownAsPulled, Kept, watcher_vars
<1>6. WatchInv' /\ TrafficInv'
  BY <1>1 DEF IInv, WatchInv, TrafficInv, watcher_vars
<1> QED BY <1>1, <1>3, <1>5, <1>6, SessionStepKeeps DEF IInv, DbsInv, QueuesInv

LEMMA AbortStep ==
  ASSUME IInv, NEW f \in Folder, NEW i \in DOMAIN session[f].todo, AbortOnSend(f, i)
  PROVE  IInv'
<1>1. /\ session' = [session EXCEPT ![f] = Idle]
      /\ suppressed_paths' = suppressed_paths \cup {KeyOf(session[f].todo[i].event)}
      /\ UNCHANGED <<disk, watching, raw, pending_paths, changes, phase, to_scan, last_seen,
                     db, peer_db, pulls, sends, transfers, staged, spoiled, notices,
                     lost, overtaken, unrecorded>>
  BY DEF AbortOnSend, suppress_path, traffic, history
<1>2. /\ session'[f] = Idle
      /\ \A g \in Folder : g # f => session'[g] = session[g] /\ Pending(g)' = Pending(g)
  BY <1>1, SessionSet DEF IInv
<1>3. SessionsInv'
  <2>1. Len(peer_db.log) \in Nat
    BY LogDomain DEF IInv, DbsInv
  <2> QED BY <1>1, <2>1, SessionsStay, SessionsSet DEF IInv
<1>4. TodosKept /\ PendingKept
  BY <1>2, IdleRests DEF TodosKept, PendingKept, Pending
<1>5. ContentInv'
  BY <1>1, <1>4, ContentKept, SameLog DEF IInv, DbsInv, RowsKept, ShownAsPulled, Kept
<1>6. KeyOf(session[f].todo[i].event) \in Key
  BY Decided DEF IInv
<1>7. WatchInv' /\ TrafficInv'
  BY <1>1, <1>6 DEF IInv, WatchInv, TrafficInv
<1> QED BY <1>1, <1>3, <1>5, <1>7, SessionStepKeeps DEF IInv, DbsInv, QueuesInv

\* A session goes on to write the row of its first decision.
LEMMA GoneOn ==
  ASSUME IInv, NEW f \in Folder, NEW i \in DOMAIN session[f].todo, NEW p,
         IsFirst(session[f].todo, i), session[f].phase = "applying", GoOn(f, p),
         UNCHANGED <<peer_db, last_seen>>
  PROVE  /\ SessionsInv' /\ TodosKept
         /\ \A g \in Folder : \A j \in Pending(g)' :
              /\ session'[g].todo[j] = session[g].todo[j]
              /\ (g = f /\ j = i) \/ (g # f /\ j \in Pending(g))
<1> DEFINE x == [phase |-> p, todo |-> session[f].todo, latest |-> session[f].latest]
<1>1. SessionOK(f, session[f], peer_db.log) /\ f \in DOMAIN session
  BY DEF IInv, SessionsInv
<1>2. session' = [session EXCEPT ![f] = x]
  <2>1. session[f] = [phase |-> session[f].phase, todo |-> session[f].todo,
                      latest |-> session[f].latest]
    BY <1>1 DEF SessionOK
  <2>2. [session[f] EXCEPT !.phase = p] = x
    BY <2>1
  <2>3. [session EXCEPT ![f].phase = p] = [session EXCEPT ![f] = [session[f] EXCEPT !.phase = p]]
    BY <1>1
  <2> QED BY <2>2, <2>3 DEF GoOn
<1>3. x.todo = session[f].todo
  OBVIOUS
<1>4. SessionOK(f, x, peer_db.log)
  <2>1. Len(peer_db.log) \in Nat
    BY LogDomain DEF IInv, DbsInv
  <2> QED BY <1>1, <2>1, SessionsStay
<1> HIDE DEF x
<1>5. /\ session'[f] = x
      /\ \A g \in Folder : g # f => session'[g] = session[g] /\ Pending(g)' = Pending(g)
  BY <1>2, SessionSet DEF IInv
<1>6. \A j \in Pending(f)' : j = i
  <2> SUFFICES ASSUME NEW j \in Pending(f)' PROVE j = i
    OBVIOUS
  <2>1. IsFirst(session[f].todo, j)
    BY <1>3, <1>5 DEF Pending
  <2>2. i \in Nat /\ j \in Nat /\ i <= j /\ j <= i
    BY <1>1, <2>1 DEF IsFirst, SessionOK
  <2> QED BY <2>2
<1>7. TodosKept
  BY <1>3, <1>5 DEF TodosKept
<1>8. SessionsInv'
  BY <1>2, <1>4, SessionsSet DEF IInv
<1> QED BY <1>3, <1>5, <1>6, <1>7, <1>8

\* The file of a decision is asked for, or its content is there.
LEMMA AskedStep ==
  ASSUME IInv, NEW f \in Folder, NEW i \in DOMAIN session[f].todo,
         IsFirst(session[f].todo, i), session[f].phase = "applying",
         session[f].todo[i].kind # "DeleteLocal",
         NEW k, k = KeyOf(session[f].todo[i].event),
         \/ /\ GoOn(f, "suppressing")
            /\ pulls' = Ext!BagAdd(pulls, [source |-> FileOf(k), dest |-> k])
            /\ suppressed_paths' = suppressed_paths \cup {k}
            /\ lost' = lost \ {k} /\ overtaken' = overtaken \ {k}
         \/ /\ GoOn(f, "recording")
            /\ UNCHANGED <<pulls, suppressed_paths, lost, overtaken>>
            /\ k \in DOMAIN disk /\ disk[k] = session[f].todo[i].event.content_hash,
         UNCHANGED <<disk, watching, raw, pending_paths, changes, phase, to_scan, last_seen,
                     db, peer_db, sends, transfers, staged, spoiled, notices, unrecorded>>
  PROVE  IInv'
<1> DEFINE a == session[f].todo[i]
           pull == [source |-> FileOf(k), dest |-> k]
<1>1. /\ k \in Key /\ FileOf(k) \in Key /\ a.event.version \in Nat
      /\ Written(k, a.event.version, a.event.content_hash)
  BY Decided DEF IInv
<1>2. /\ SessionsInv' /\ TodosKept
      /\ \A g \in Folder : \A j \in Pending(g)' :
           /\ session'[g].todo[j] = session[g].todo[j]
           /\ (g = f /\ j = i) \/ (g # f /\ j \in Pending(g))
  BY GoneOn
<1>3. \/ /\ DOMAIN pulls' = DOMAIN pulls \cup {pull}
         /\ lost' = lost \ {k} /\ overtaken' = overtaken \ {k}
      \/ /\ UNCHANGED <<pulls, lost, overtaken>>
         /\ k \in DOMAIN disk /\ disk[k] = a.event.content_hash
  <2>1. DOMAIN Ext!BagAdd(pulls, pull) = DOMAIN pulls \cup {pull}
    <3> HIDE DEF pull
    <3> QED BY BagDomains
  <2> QED BY <2>1
<1>4. pull.source = FileOf(k) /\ pull.dest = k /\ pull \in PullReq
  BY <1>1 DEF PullReq
<1> HIDE DEF a, pull
<1>5. PullsInv' /\ DeletesInv'
  <2>1. RowsKept
    BY DEF RowsKept, ShownAsPulled
  <2>2. DeletesInv'
    BY <1>2, <2>1, DeletesKept DEF IInv, ContentInv
  <2>3. PullsInv'
    BY <1>3, <1>4 DEF IInv, ContentInv, PullsInv
  <2> QED BY <2>2, <2>3
<1>6. ASSUME NEW j, NEW v, NEW h, Claimed(j, v, h)'
      PROVE  \/ Claimed(j, v, h)
             \/ j = k /\ v = a.event.version /\ h = a.event.content_hash
  <2>1. CASE /\ ShownAsPulled(j)'
             /\ db'.files[j].version = v /\ db'.files[j].content_hash = h
    BY <1>6, <2>1 DEF Claimed, ShownAsPulled
  <2>2. ASSUME NEW g \in Folder, NEW n \in Pending(g)',
               session'[g].todo[n].kind # "DeleteLocal",
               KeyOf(session'[g].todo[n].event) = j,
               session'[g].todo[n].event.version = v,
               session'[g].todo[n].event.content_hash = h
        PROVE  \/ Claimed(j, v, h)
               \/ j = k /\ v = a.event.version /\ h = a.event.content_hash
    <3>1. CASE g = f /\ n = i
      BY <1>2, <2>2, <3>1 DEF a
    <3>2. CASE g # f /\ n \in Pending(g)
      <4>1. session'[g].todo[n] = session[g].todo[n]
        BY <1>2, <2>2
      <4> QED BY <1>6, <2>2, <3>2, <4>1 DEF Claimed
    <3> QED BY <1>2, <2>2, <3>1, <3>2
  <2> QED BY <1>6, <2>1, <2>2 DEF Claimed
<1>7. Longer(peer_db.log, peer_db'.log)
  BY SameLog DEF IInv, DbsInv
<1>8. ASSUME NEW j \in Key, NEW v \in Nat, NEW h \in Hash, Claimed(j, v, h)'
      PROVE  Written(j, v, h)' /\ Settled(j, v, h)'
  <2>1. Written(j, v, h)
    BY <1>1, <1>6, <1>8 DEF IInv, ContentInv, ClaimsInv
  <2>2. Written(j, v, h)'
    BY <1>7, <2>1, LogStays
  <2>3. CASE j = k /\ pull \in DOMAIN pulls'
    BY <1>4, <2>2, <2>3 DEF Settled
  <2>4. CASE j = k /\ pull \notin DOMAIN pulls' /\ h = a.event.content_hash
    <3>1. k \in DOMAIN disk' /\ disk'[k] = h
      BY <1>3, <2>4
    <3> QED BY <2>2, <2>4, <3>1 DEF Settled, Fresh
  <2>5. CASE Claimed(j, v, h) /\ ~(j = k /\ pull \in DOMAIN pulls')
    <3>1. Kept(j)
      BY <1>3, <2>5 DEF Kept
    <3>2. Settled(j, v, h)
      BY <2>5 DEF IInv, ContentInv, ClaimsInv
    <3> QED BY <1>7, <2>2, <3>1, <3>2, SettledKept
  <2> QED BY <1>6, <1>8, <2>2, <2>3, <2>4, <2>5
<1>9. ContentInv'
  BY <1>5, <1>8 DEF ContentInv, ClaimsInv
<1>10. WatchInv' /\ TrafficInv'
  BY <1>1, <1>3, <1>4 DEF IInv, WatchInv, TrafficInv
<1>11. lost' \cup overtaken' \cup unrecorded' \subseteq Key
  BY <1>3 DEF IInv, QueuesInv
<1> QED BY <1>2, <1>9, <1>10, <1>11, SessionStepKeeps DEF IInv, DbsInv

LEMMA DownloadStep ==
  ASSUME IInv, NEW f \in Folder, NEW i \in DOMAIN session[f].todo, Download(f, i)
  PROVE  IInv'
<1> DEFINE a == session[f].todo[i]
           k == KeyOf(a.event)
<1>1. /\ a.kind = "DownloadNeeded" /\ IsFirst(session[f].todo, i)
      /\ session[f].phase = "applying"
      /\ UNCHANGED <<disk, watching, raw, pending_paths, changes, phase, to_scan, last_seen,
                     db, peer_db, sends, transfers, staged, spoiled, notices, unrecorded>>
  BY DEF Download, Turn
<1>2. k = FileOf(k) /\ a.event.content_hash \in Hash
  BY <1>1, Decided DEF IInv
<1>3. CASE Content(k) = a.event.content_hash
  <2>1. k \in DOMAIN disk /\ disk[k] = a.event.content_hash
    BY <1>2, <1>3, Constants DEF Content
  <2>2. GoOn(f, "recording") /\ UNCHANGED <<suppressed_paths, pulls, lost, overtaken>>
    BY <1>3 DEF Download
  <2> HIDE DEF k
  <2> QED BY <1>1, <2>1, <2>2, AskedStep DEF k
<1>4. CASE Content(k) # a.event.content_hash
  <2>1. /\ GoOn(f, "suppressing")
        /\ pulls' = Ext!BagAdd(pulls, [source |-> FileOf(k), dest |-> k])
        /\ suppressed_paths' = suppressed_paths \cup {k}
        /\ lost' = lost \ {k} /\ overtaken' = overtaken \ {k}
    BY <1>2, <1>4 DEF Download, Pull, suppress_path
  <2> HIDE DEF k
  <2> QED BY <1>1, <2>1, AskedStep DEF k
<1> QED BY <1>3, <1>4

LEMMA BranchStep ==
  ASSUME IInv, NEW f \in Folder, NEW i \in DOMAIN session[f].todo, Branch(f, i)
  PROVE  IInv'
<1> DEFINE a == session[f].todo[i]
           k == KeyOf(a.event)
<1>1. /\ a.kind = "Conflict" /\ IsFirst(session[f].todo, i)
      /\ session[f].phase = "applying"
      /\ UNCHANGED <<disk, watching, raw, pending_paths, changes, phase, to_scan, last_seen,
                     db, peer_db, sends, transfers, staged, spoiled, notices, unrecorded>>
  BY DEF Branch, Turn
<1>2. <<a.event.folder_id, OriginalPath(a.event.relative_path)>> = FileOf(k)
  BY <1>1, Decided DEF IInv
<1>3. /\ GoOn(f, "suppressing")
      /\ pulls' = Ext!BagAdd(pulls, [source |-> FileOf(k), dest |-> k])
      /\ suppressed_paths' = suppressed_paths \cup {k}
      /\ lost' = lost \ {k} /\ overtaken' = overtaken \ {k}
  BY <1>2 DEF Branch, Pull, suppress_path
<1> HIDE DEF k
<1> QED BY <1>1, <1>3, AskedStep DEF k

LEMMA DeleteStep ==
  ASSUME IInv, NEW f \in Folder, NEW i \in DOMAIN session[f].todo, DeleteLocal(f, i)
  PROVE  IInv'
<1> DEFINE a == session[f].todo[i]
           k == KeyOf(a.event)
<1>1. /\ a.kind = "DeleteLocal" /\ IsFirst(session[f].todo, i)
      /\ session[f].phase = "applying"
      /\ GoOn(f, "suppressing") \/ GoOn(f, "recording")
      /\ UNCHANGED <<watching, pending_paths, changes, phase, to_scan, last_seen, db,
                     peer_db, pulls, sends, transfers, staged, spoiled, notices,
                     lost, overtaken, unrecorded>>
      /\ \/ RemoveFile(k) /\ suppress_path(k)
         \/ UNCHANGED <<disk, raw, suppressed_paths>>
  BY DEF DeleteLocal, Turn, traffic, history
<1>2. /\ k \in Key /\ k[1] = f /\ k = FileOf(k) /\ a.event.version \in Nat
      /\ i \in 1..Len(peer_db.log) /\ KeyOf(peer_db.log[i]) = k
      /\ ~IsUpsert(peer_db.log[i]) /\ peer_db.log[i].version = a.event.version
  BY <1>1, Decided DEF IInv
<1>3. /\ SessionsInv' /\ TodosKept
      /\ \A g \in Folder : \A j \in Pending(g)' :
           /\ session'[g].todo[j] = session[g].todo[j]
           /\ (g = f /\ j = i) \/ (g # f /\ j \in Pending(g))
  BY <1>1, GoneOn
<1>4. RowsKept
  BY <1>1 DEF RowsKept, ShownAsPulled
<1>5. Longer(peer_db.log, peer_db'.log)
  BY <1>1, SameLog DEF IInv, DbsInv
<1>6. \A j : j # k => Kept(j)
  BY <1>1 DEF Kept, RemoveFile
<1>7. ASSUME NEW v \in Nat, ShownAsPulled(k), db.files[k].version = v
      PROVE  Removed(k, v)
  <2>1. v < a.event.version
    BY <1>1, <1>7 DEF IInv, ContentInv, DeletesInv, ShownAsPulled, Live, Known
  <2> QED BY <1>2, <2>1 DEF Removed
<1>8. \A g \in Folder : \A j : g # f /\ j \in Pending(g) => KeyOf(session[g].todo[j].event) # k
  <2> SUFFICES ASSUME NEW g \in Folder, NEW j \in Pending(g), g # f
               PROVE  KeyOf(session[g].todo[j].event) # k
    OBVIOUS
  <2>1. j \in DOMAIN session[g].todo
    BY DEF Pending
  <2>2. KeyOf(session[g].todo[j].event)[1] = g
    BY <2>1, Decided DEF IInv
  <2> QED BY <1>2, <2>2
<1> HIDE DEF k
<1>9. ASSUME NEW j \in Key, NEW v \in Nat, NEW h \in Hash, Claimed(j, v, h)'
      PROVE  Claimed(j, v, h) /\ (Kept(j) \/ Settled(j, v, h)')
  <2>1. CASE /\ ShownAsPulled(j)'
             /\ db'.files[j].version = v /\ db'.files[j].content_hash = h
    <3>1. Claimed(j, v, h) /\ ShownAsPulled(j) /\ db.files[j].version = v
      BY <1>4, <1>9, <2>1 DEF Claimed, RowsKept
    <3>2. CASE j = k
      <4>1. Removed(j, v)
        BY <1>7, <3>1, <3>2
      <4>2. Removed(j, v)'
        BY <1>5, <4>1, LogStays
      <4> QED BY <3>1, <4>2 DEF Settled
    <3> QED BY <1>6, <3>1, <3>2
  <2>2. ASSUME NEW g \in Folder, NEW n \in Pending(g)',
               session'[g].todo[n].kind # "DeleteLocal",
               KeyOf(session'[g].todo[n].event) = j,
               session'[g].todo[n].event.version = v,
               session'[g].todo[n].event.content_hash = h
        PROVE  Claimed(j, v, h) /\ j # k
    <3>1. session'[g].todo[n] = session[g].todo[n] /\ g # f /\ n \in Pending(g)
      BY <1>1, <1>3, <2>2
    <3>2. j # k
      BY <1>8, <2>2, <3>1
    <3> QED BY <1>9, <2>2, <3>1, <3>2 DEF Claimed
  <2> QED BY <1>6, <1>9, <2>1, <2>2 DEF Claimed
<1>10. ClaimsInv'
  BY <1>5, <1>9, ClaimsKept DEF IInv, ContentInv
<1>11. ContentInv'
  BY <1>1, <1>3, <1>4, <1>10, DeletesKept DEF IInv, ContentInv, PullsInv
<1>12. WatchInv' /\ TrafficInv'
  BY <1>1, <1>2 DEF IInv, WatchInv, TrafficInv, RemoveFile, Reported, suppress_path
<1> QED BY <1>1, <1>3, <1>11, <1>12, SessionStepKeeps DEF IInv, DbsInv, QueuesInv

\* The row of a decision is written, or the session ends.
LEMMA ApplyStep ==
  ASSUME IInv, NEW f \in Folder, NEW i \in DOMAIN session[f].todo, NEW now \in Time,
         ApplyAction(f, i, now)
  PROVE  IInv'
<1> DEFINE a == session[f].todo[i]
           k == KeyOf(a.event)
           e == AppliedEvent(a, now)
           x == [phase |-> "applying", todo |-> Rest(session[f].todo, i),
                 latest |-> session[f].latest]
<1>1. /\ i \in Pending(f) /\ db' = apply_reconciliation_action(db, a, now)
      /\ unrecorded' \subseteq unrecorded \cup {k}
      /\ UNCHANGED <<watcher_vars, phase, to_scan, last_seen, peer_db, pulls, sends,
                     transfers, staged, spoiled, notices, lost, overtaken>>
  BY DEF ApplyAction, traffic
<1>2. /\ DecisionOK(a) /\ k \in Key /\ k[1] = f
      /\ i \in 1..Len(peer_db.log) /\ KeyOf(peer_db.log[i]) = FileOf(k)
      /\ peer_db.log[i].version = a.event.version
  BY Decided DEF IInv
<1>3. KeyOf(e) = k
  BY DEF AppliedEvent, KeyOf
<1>4. IsFirst(session[f].todo, i)
  BY <1>1 DEF Pending
<1>5. PICK y \in {Idle, x} : session' = [session EXCEPT ![f] = y]
  <2>1. [session EXCEPT ![f] = [phase |-> "applying", todo |-> Rest(@.todo, i),
                                latest |-> @.latest]]
          = [session EXCEPT ![f] = x]
    OBVIOUS
  <2> QED BY <2>1 DEF ApplyAction
<1>6. /\ SessionOK(f, y, peer_db.log) /\ y.phase \in {"applying", "idle"}
      /\ \A j \in DOMAIN y.todo :
           j \in DOMAIN session[f].todo /\ j # i /\ y.todo[j] = session[f].todo[j]
  <2>1. Len(peer_db.log) \in Nat /\ SessionOK(f, session[f], peer_db.log)
    BY LogDomain DEF IInv, DbsInv, SessionsInv
  <2>2. CASE y = Idle
    BY <2>1, <2>2, SessionsStay, IdleRests
  <2>3. CASE y = x
    BY <2>1, <2>3, SessionsStay DEF Rest
  <2> QED BY <2>2, <2>3
<1> HIDE DEF x
<1>7. /\ session'[f] = y
      /\ \A g \in Folder : g # f => session'[g] = session[g] /\ Pending(g)' = Pending(g)
  BY <1>5, SessionSet DEF IInv
<1>8. TodosKept /\ PendingKept
  <2>1. Pending(f)' = {}
    BY <1>6, <1>7 DEF Pending
  <2> QED BY <1>6, <1>7, <2>1 DEF TodosKept, PendingKept
<1>9. Longer(peer_db.log, peer_db'.log)
  BY <1>1, SameLog DEF IInv, DbsInv
<1>10. ASSUME NEW j \in DOMAIN db'.files, ShownAsPulled(j)'
       PROVE  \/ j \in DOMAIN db.files /\ ShownAsPulled(j) /\ db'.files[j] = db.files[j]
              \/ /\ j = k /\ a.kind # "DeleteLocal"
                 /\ db'.files[j].version = a.event.version
                 /\ db'.files[j].content_hash = a.event.content_hash
  <2>1. CASE a.kind = "DeleteLocal"
    <3>1. db' = apply_remote_delete(db, e)
      BY <1>1, <2>1 DEF apply_reconciliation_action
    <3>2. /\ ~Live(db', k)
          /\ \A n \in DOMAIN db'.files : n # k => n \in DOMAIN db.files /\ db'.files[n] = db.files[n]
      <4> HIDE DEF e, k
      <4> QED BY <1>3, <3>1, DeleteRows DEF IInv, DbsInv
    <3>3. j # k
      BY <1>10, <3>2 DEF ShownAsPulled
    <3> QED BY <1>10, <3>2, <3>3 DEF ShownAsPulled, Live, Known
  <2>2. CASE a.kind # "DeleteLocal"
    <3>1. db' = apply_remote_upsert(db, e)
      BY <1>1, <1>2, <2>2 DEF apply_reconciliation_action, DecisionOK, Effective
    <3>2. RowOf(e).version = a.event.version /\ RowOf(e).content_hash = a.event.content_hash
      BY <2>2 DEF RowOf, AppliedEvent
    <3>3. \/ j = k /\ db'.files[j] = RowOf(e)
          \/ j \in DOMAIN db.files /\ db'.files[j] = db.files[j]
      <4> HIDE DEF e, k
      <4> QED BY <1>3, <1>10, <3>1, UpsertRows
    <3> QED BY <1>10, <2>2, <3>2, <3>3 DEF ShownAsPulled, Live, Known
  <2> QED BY <2>1, <2>2
<1> HIDE DEF k, e, a
<1>11. ASSUME NEW j, NEW v, NEW h, Claimed(j, v, h)'
       PROVE  Claimed(j, v, h)
  <2>1. CASE /\ ShownAsPulled(j)'
             /\ db'.files[j].version = v /\ db'.files[j].content_hash = h
    <3>1. j \in DOMAIN db'.files /\ Named(j, PeerNames)
      BY <2>1 DEF ShownAsPulled, Live, Known
    <3>2. CASE ShownAsPulled(j) /\ db'.files[j] = db.files[j]
      BY <2>1, <3>1, <3>2 DEF Claimed
    <3>3. CASE j = k /\ a.kind # "DeleteLocal" /\ a.event.version = v /\ a.event.content_hash = h
      BY <1>1, <3>1, <3>3 DEF Claimed, a, k
    <3> QED BY <1>10, <2>1, <3>1, <3>2, <3>3
  <2>2. ASSUME NEW g \in Folder, NEW n \in Pending(g)',
               session'[g].todo[n].kind # "DeleteLocal",
               KeyOf(session'[g].todo[n].event) = j,
               session'[g].todo[n].event.version = v,
               session'[g].todo[n].event.content_hash = h
        PROVE  Claimed(j, v, h)
    <3>1. n \in Pending(g) /\ session'[g].todo[n] = session[g].todo[n]
      BY <1>8 DEF PendingKept
    <3> QED BY <1>11, <2>2, <3>1 DEF Claimed
  <2> QED BY <1>11, <2>1, <2>2 DEF Claimed
<1>12. ClaimsInv'
  <2>1. \A j : Kept(j)
    BY <1>1 DEF Kept, watcher_vars
  <2> QED BY <1>9, <1>11, <2>1, ClaimsKept DEF IInv, ContentInv
<1>13. DeletesInv'
  <2> SUFFICES ASSUME NEW g \in Folder, NEW n \in DOMAIN session'[g].todo,
                      NEW j \in DOMAIN db'.files,
                      session'[g].todo[n].kind = "DeleteLocal",
                      KeyOf(session'[g].todo[n].event) = j, ShownAsPulled(j)'
               PROVE  db'.files[j].version < session'[g].todo[n].event.version
    BY DEF DeletesInv
  <2> DEFINE b == session[g].todo[n]
  <2>1. n \in DOMAIN session[g].todo /\ session'[g].todo[n] = b
    BY <1>8 DEF TodosKept
  <2>2. CASE j \in DOMAIN db.files /\ ShownAsPulled(j) /\ db'.files[j] = db.files[j]
    BY <2>1, <2>2 DEF IInv, ContentInv, DeletesInv
  <2>3. CASE j = k /\ db'.files[j].version = a.event.version
    <3>1. /\ KeyOf(b.event)[1] = g /\ n \in 1..Len(peer_db.log)
          /\ KeyOf(peer_db.log[n]) = FileOf(k) /\ peer_db.log[n].version = b.event.version
      BY <2>1, <2>3, Decided DEF IInv
    <3>2. g = f
      BY <1>2, <2>1, <2>3, <3>1
    <3>3. i \in Nat /\ n \in Nat /\ n # i /\ i <= n
      BY <1>2, <1>4, <1>6, <1>7, <2>1, <3>1, <3>2 DEF IsFirst
    <3>4. peer_db.log[i].version < peer_db.log[n].version
      <4>1. i < n
        BY <3>3
      <4> QED BY <1>2, <3>1, <4>1 DEF IInv, DbsInv, PeerLogOK
    <3> QED BY <1>2, <2>1, <2>3, <3>1, <3>4
  <2> QED BY <1>10, <2>2, <2>3
<1>14. ContentInv'
  BY <1>1, <1>12, <1>13 DEF IInv, ContentInv, PullsInv
<1>15. DbInv(db')
  BY <1>1, <1>2, ApplyActionInv DEF IInv, DbsInv
<1>16. SessionsInv'
  BY <1>1, <1>5, <1>6, SessionsSet DEF IInv
<1>17. WatchInv' /\ TrafficInv' /\ lost' \cup overtaken' \cup unrecorded' \subseteq Key
  BY <1>1, <1>2 DEF IInv, WatchInv, TrafficInv, QueuesInv, watcher_vars
<1> QED BY <1>1, <1>14, <1>15, <1>16, <1>17, SessionStepKeeps

---------------------------------------------------------------------------
(* Transfers, failures and the end of the process.                         *)

\* Steps that leave the databases, the sessions and most of the watcher alone.
LEMMA TransferStep ==
  ASSUME IInv, TrafficInv', DOMAIN pulls' \subseteq DOMAIN pulls,
         lost' \cup overtaken' \subseteq Key,
         notices' \in Seq(Key), Len(notices') <= NoticeLimit,
         DOMAIN disk' \subseteq Key, \A k \in DOMAIN disk' : disk'[k] \in Hash,
         raw' \subseteq Key,
         \A k \in Key, v \in Nat, h \in Hash :
           Written(k, v, h) /\ Settled(k, v, h) => Kept(k) \/ Settled(k, v, h)',
         UNCHANGED <<watching, pending_paths, suppressed_paths, changes, phase, to_scan,
                     last_seen, session, db, peer_db, unrecorded>>
  PROVE  IInv'
<1>1. DbsInv' /\ SessionsInv' /\ WatchInv' /\ QueuesInv'
  BY DEF IInv, DbsInv, SessionsInv, WatchInv, QueuesInv
<1>2. RowsKept /\ PendingKept /\ TodosKept
  BY RowsOnly DEF PeerRowsKept
<1>3. PullsInv' /\ DeletesInv'
  BY <1>2, DeletesKept DEF IInv, ContentInv, PullsInv
<1>4. ASSUME NEW k \in Key, NEW v \in Nat, NEW h \in Hash, Claimed(k, v, h)'
      PROVE  Claimed(k, v, h) /\ (Kept(k) \/ Settled(k, v, h)')
  <2>1. Claimed(k, v, h)
    BY <1>2, <1>4, ClaimsFewer
  <2>2. Written(k, v, h) /\ Settled(k, v, h)
    BY <2>1 DEF IInv, ContentInv, ClaimsInv
  <2> QED BY <2>1, <2>2
<1>5. Longer(peer_db.log, peer_db'.log)
  BY SameLog DEF IInv, DbsInv
<1>6. ClaimsInv'
  BY <1>4, <1>5, ClaimsKept DEF IInv, ContentInv
<1> QED BY <1>1, <1>3, <1>6 DEF IInv, ContentInv

\* Of these, the ones that leave the disk alone.
LEMMA TrafficStep ==
  ASSUME IInv, TrafficInv', DOMAIN pulls' \subseteq DOMAIN pulls, lost' \subseteq Key,
         \A k \in Key, v \in Nat, h \in Hash :
           Written(k, v, h) /\ Settled(k, v, h) => Kept(k) \/ Settled(k, v, h)',
         UNCHANGED <<disk, watching, raw, pending_paths, suppressed_paths, changes, phase,
                     to_scan, last_seen, session, db, peer_db, notices, overtaken,
                     unrecorded>>
  PROVE  IInv'
<1>1. /\ lost' \cup overtaken' \subseteq Key
      /\ notices' \in Seq(Key) /\ Len(notices') <= NoticeLimit
      /\ DOMAIN disk' \subseteq Key /\ (\A k \in DOMAIN disk' : disk'[k] \in Hash)
      /\ raw' \subseteq Key
  BY DEF IInv, QueuesInv, WatchInv
<1> QED BY <1>1, TransferStep

LEMMA ServeStep ==
  ASSUME IInv, NEW q \in DOMAIN pulls, ServePull(q)
  PROVE  IInv'
<1> DEFINE k == q.dest
           g == peer_db.files[FileOf(k)].content_hash
           s == [source |-> q.source, dest |-> k, content |-> g]
<1>1. /\ pulls' = Ext!BagRemove(pulls, q)
      /\ UNCHANGED <<disk, watching, raw, pending_paths, suppressed_paths, changes, phase,
                     to_scan, last_seen, session, db, peer_db, transfers, staged, spoiled,
                     notices, lost, overtaken, unrecorded>>
  BY DEF ServePull, watcher_vars, node_vars, history
<1>2. q.source = FileOf(k) /\ q.source \in Key /\ k \in Key
  BY DEF IInv, ContentInv, PullsInv, TrafficInv, PullReq
<1>3. sends' = IF Live(peer_db, FileOf(k)) THEN Ext!BagAdd(sends, s) ELSE sends
  BY <1>2 DEF ServePull
<1>4. Live(peer_db, FileOf(k)) => s \in Send
  <2>1. Live(peer_db, FileOf(k)) => g \in Hash
    BY RowFields DEF IInv, DbsInv, Live, Known
  <2> QED BY <1>2, <2>1 DEF Send
<1>5. s.dest = k /\ s.content = g
  OBVIOUS
<1> HIDE DEF s, g, k
<1>6. /\ DOMAIN pulls' \subseteq DOMAIN pulls /\ DOMAIN pulls \subseteq DOMAIN pulls' \cup {q}
      /\ DOMAIN sends' = IF Live(peer_db, FileOf(k)) THEN DOMAIN sends \cup {s} ELSE DOMAIN sends
  BY <1>1, <1>3, BagDomains
<1>7. TrafficInv'
  BY <1>1, <1>4, <1>6 DEF IInv, TrafficInv
<1>8. Longer(peer_db.log, peer_db'.log)
  BY <1>1, SameLog DEF IInv, DbsInv
<1>9. ASSUME NEW j \in Key, NEW v \in Nat, NEW h \in Hash, Written(j, v, h), Settled(j, v, h)
      PROVE  Kept(j) \/ Settled(j, v, h)'
  <2>1. CASE j # k
    BY <1>1, <1>6, <2>1 DEF Kept, k
  <2>2. CASE j = k
    <3>1. IF Live(peer_db, FileOf(k)) THEN Fresh(j, v, h, g) ELSE Removed(j, v)
      BY <1>9, <2>2, PeerLatest DEF IInv, g
    <3>2. CASE Live(peer_db, FileOf(k))
      <4>1. s \in DOMAIN sends' /\ s.dest = j /\ Fresh(j, v, h, s.content)
        BY <1>5, <1>6, <2>2, <3>1, <3>2
      <4>2. PICK z \in DOMAIN sends' : z.dest = j /\ Fresh(j, v, h, z.content)
        BY <4>1
      <4>3. Fresh(j, v, h, z.content)'
        BY <1>8, <4>2, LogStays
      <4> QED BY <4>2, <4>3 DEF Settled
    <3>3. CASE ~Live(peer_db, FileOf(k))
      BY <1>8, <3>1, <3>3, LogStays DEF Settled
    <3> QED BY <3>2, <3>3
  <2> QED BY <2>1, <2>2
<1>10. lost' \subseteq Key
  BY <1>1 DEF IInv, QueuesInv
<1> QED BY <1>1, <1>6, <1>7, <1>9, <1>10, TrafficStep

LEMMA OpenStep ==
  ASSUME IInv, NEW s \in DOMAIN sends, OpenTransfer(s)
  PROVE  IInv'
<1>1. /\ sends' = Ext!BagRemove(sends, s)
      /\ staged' = [c \in DOMAIN staged \cup {s.content} |->
                      IF c \in DOMAIN staged THEN staged[c] ELSE s.dest]
      /\ \/ transfers' = Ext!BagAdd(transfers, s) /\ lost' = lost
         \/ lost' = lost \cup {s.dest} /\ transfers' = transfers
      /\ spoiled' \subseteq spoiled \cup {s.content}
      /\ UNCHANGED <<disk, watching, raw, pending_paths, suppressed_paths, changes, phase,
                     to_scan, last_seen, session, db, peer_db, pulls, notices, overtaken,
                     unrecorded>>
  BY DEF OpenTransfer, watcher_vars, node_vars
<1>2. s \in Send /\ s.dest \in Key /\ s.content \in Hash
  BY DEF IInv, TrafficInv, Send
<1>3. /\ DOMAIN sends' \subseteq DOMAIN sends /\ DOMAIN sends \subseteq DOMAIN sends' \cup {s}
      /\ \/ DOMAIN transfers' = DOMAIN transfers \cup {s} /\ lost' = lost
         \/ lost' = lost \cup {s.dest} /\ transfers' = transfers
  BY <1>1, BagDomains
<1>4. TrafficInv'
  BY <1>1, <1>2, <1>3 DEF IInv, TrafficInv
<1>5. \A k : Kept(k)
  BY <1>1, <1>3 DEF Kept
<1>6. lost' \subseteq Key
  BY <1>1, <1>2 DEF IInv, QueuesInv
<1> QED BY <1>1, <1>4, <1>5, <1>6, TrafficStep

LEMMA PlaceStep ==
  ASSUME IInv, NEW c \in DOMAIN staged, PlaceFile(c)
  PROVE  IInv'
<1> DEFINE k == staged[c]
<1>1. /\ WriteFile(k, c)
      /\ notices' = IF Len(notices) < NoticeLimit THEN Append(notices, k) ELSE notices
      /\ transfers' = [t \in Others(c) |-> transfers[t]]
      /\ staged' = [h \in DOMAIN staged \ {c} |-> staged[h]]
      /\ spoiled' = spoiled \ {c}
      /\ lost' = lost \cup ({t.dest : t \in DOMAIN transfers \ Others(c)} \ {k})
      /\ overtaken' = IF Overtakes(k, c) THEN overtaken \cup {k} ELSE overtaken
      /\ UNCHANGED <<watching, pending_paths, suppressed_paths, changes, phase, to_scan,
                     last_seen, session, db, peer_db, pulls, sends, unrecorded>>
  BY DEF PlaceFile, debouncer, node_vars
<1>2. k \in Key /\ c \in Hash
  BY DEF IInv, TrafficInv
<1>3. DOMAIN transfers' = {t \in DOMAIN transfers : t.content # c}
  BY <1>1 DEF Others
<1>4. TrafficInv'
  BY <1>1, <1>3 DEF IInv, TrafficInv
<1>5. \A t \in DOMAIN transfers : t.content = c /\ t.dest # k => t.dest \in lost'
  BY <1>1 DEF Others
<1>6. lost' \cup overtaken' \subseteq Key
  <2>1. \A t \in DOMAIN transfers : t.dest \in Key
    BY DEF IInv, TrafficInv, Send
  <2> QED BY <1>1, <1>2, <2>1 DEF IInv, QueuesInv
<1> HIDE DEF k
<1>7. notices' \in Seq(Key) /\ Len(notices') <= NoticeLimit
  BY <1>1, <1>2, Constants DEF IInv, QueuesInv
<1>8. /\ DOMAIN disk' \subseteq Key /\ (\A j \in DOMAIN disk' : disk'[j] \in Hash)
      /\ raw' \subseteq Key
  BY <1>1, <1>2, FilesTyped DEF IInv
<1>9. Longer(peer_db.log, peer_db'.log)
  BY <1>1, SameLog DEF IInv, DbsInv
<1>10. ASSUME NEW j \in Key, NEW v \in Nat, NEW h \in Hash, Written(j, v, h), Settled(j, v, h)
      PROVE  Kept(j) \/ Settled(j, v, h)'
  <2>1. CASE j # k
    BY <1>1, <1>3, <1>5, <2>1 DEF Kept, WriteFile
  <2>2. CASE j = k
    <3>1. j \in DOMAIN disk' /\ disk'[j] = c
      BY <1>1, <2>2 DEF WriteFile
    <3>2. /\ \A g : Fresh(j, v, h, g) => Fresh(j, v, h, g)'
          /\ Removed(j, v) => Removed(j, v)'
      BY <1>9, LogStays
    <3>3. CASE Fresh(j, v, h, c)
      <4>1. Fresh(j, v, h, disk[j])'
        BY <3>1, <3>2, <3>3 DEF Fresh
      <4> QED BY <3>1, <4>1 DEF Settled
    <3>4. CASE j \in DOMAIN disk /\ Fresh(j, v, h, disk[j]) /\ ~Fresh(j, v, h, c)
      <4>1. Overtakes(j, c) \/ Removed(j, v)
        BY <1>10, <3>4, PlacedOver DEF IInv
      <4> QED BY <1>1, <2>2, <3>2, <4>1 DEF Settled
    <3>5. CASE \E q \in DOMAIN pulls : q.dest = j
      BY <1>1, <3>5 DEF Settled
    <3>6. ASSUME NEW s \in DOMAIN sends \cup DOMAIN transfers, s.dest = j,
                 Fresh(j, v, h, s.content), ~Fresh(j, v, h, c)
          PROVE  Settled(j, v, h)'
      <4>1. s \in DOMAIN sends' \cup DOMAIN transfers'
        BY <1>1, <1>3, <3>6
      <4>2. PICK z \in DOMAIN sends' \cup DOMAIN transfers' :
              z.dest = j /\ Fresh(j, v, h, z.content)
        BY <3>6, <4>1
      <4>3. Fresh(j, v, h, z.content)'
        BY <3>2, <4>2
      <4> QED BY <4>2, <4>3 DEF Settled
    <3>7. CASE j \in lost \cup overtaken
      <4>1. j \in lost' \cup overtaken'
        BY <1>1, <3>7
      <4> QED BY <4>1 DEF Settled
    <3>8. CASE Removed(j, v)
      BY <3>2, <3>8 DEF Settled
    <3> QED BY <1>10, <3>3, <3>4, <3>5, <3>6, <3>7, <3>8 DEF Settled
  <2> QED BY <2>1, <2>2
<1> QED BY <1>1, <1>4, <1>6, <1>7, <1>8, <1>10, TransferStep

\* A pull or a send fails.
LEMMA FailStep ==
  ASSUME IInv, FailPull \/ FailSend,
         UNCHANGED <<watcher_vars, node_vars, db, peer_db, staged, spoiled, notices,
                     overtaken, unrecorded>>
  PROVE  IInv'
<1>1. UNCHANGED <<disk, watching, raw, pending_paths, suppressed_paths, changes, phase,
                  to_scan, last_seen, session, db, peer_db, staged, spoiled, notices,
                  overtaken, unrecorded>>
  BY DEF watcher_vars, node_vars
<1>2. \/ \E q \in DOMAIN pulls : /\ pulls' = Ext!BagRemove(pulls, q)
                                 /\ lost' = lost \cup {q.dest}
                                 /\ UNCHANGED <<sends, transfers>>
      \/ \E s \in DOMAIN sends : /\ sends' = Ext!BagRemove(sends, s)
                                 /\ lost' = lost \cup {s.dest}
                                 /\ UNCHANGED <<pulls, transfers>>
      \/ \E t \in DOMAIN transfers : /\ transfers' = Ext!BagRemove(transfers, t)
                                     /\ lost' = lost \cup {t.dest}
                                     /\ UNCHANGED <<pulls, sends>>
  BY DEF FailPull, FailSend
<1> DEFINE Fewer ==
             /\ DOMAIN pulls' \subseteq DOMAIN pulls
             /\ DOMAIN sends' \subseteq DOMAIN sends
             /\ DOMAIN transfers' \subseteq DOMAIN transfers
             /\ lost' \subseteq Key
             /\ \A k : Kept(k)
<1>3. Fewer
  <2>0. /\ \A q \in DOMAIN pulls : q.dest \in Key
        /\ \A s \in DOMAIN sends \cup DOMAIN transfers : s.dest \in Key
        /\ lost \subseteq Key
    BY DEF IInv, TrafficInv, QueuesInv, PullReq, Send
  <2>1. ASSUME NEW q \in DOMAIN pulls, pulls' = Ext!BagRemove(pulls, q),
               lost' = lost \cup {q.dest}, UNCHANGED <<sends, transfers>>
        PROVE  Fewer
    <3>1. DOMAIN pulls' \subseteq DOMAIN pulls /\ DOMAIN pulls \subseteq DOMAIN pulls' \cup {q}
      BY <2>1, BagDomains
    <3> QED BY <1>1, <2>0, <2>1, <3>1 DEF Kept
  <2>2. ASSUME NEW s \in DOMAIN sends, sends' = Ext!BagRemove(sends, s),
               lost' = lost \cup {s.dest}, UNCHANGED <<pulls, transfers>>
        PROVE  Fewer
    <3>1. DOMAIN sends' \subseteq DOMAIN sends /\ DOMAIN sends \subseteq DOMAIN sends' \cup {s}
      BY <2>2, BagDomains
    <3> QED BY <1>1, <2>0, <2>2, <3>1 DEF Kept
  <2>3. ASSUME NEW t \in DOMAIN transfers, transfers' = Ext!BagRemove(transfers, t),
               lost' = lost \cup {t.dest}, UNCHANGED <<pulls, sends>>
        PROVE  Fewer
    <3>1. DOMAIN transfers' \subseteq DOMAIN transfers /\ DOMAIN transfers \subseteq DOMAIN transfers' \cup {t}
      BY <2>3, BagDomains
    <3> QED BY <1>1, <2>0, <2>3, <3>1 DEF Kept
  <2> HIDE DEF Fewer
  <2> QED BY <1>2, <2>1, <2>2, <2>3
<1>4. TrafficInv'
  BY <1>1, <1>3 DEF IInv, TrafficInv
<1> QED BY <1>1, <1>3, <1>4, TrafficStep

LEMMA LoseStep ==
  ASSUME IInv, Lose \/ Garble
  PROVE  IInv'
<1>1. FailPull \/ FailSend
  BY DEF Lose, Garble, FailSend
<1>2. UNCHANGED <<watcher_vars, node_vars, db, peer_db, staged, spoiled, notices,
                  overtaken, unrecorded>>
  BY DEF Lose, Garble
<1> QED BY <1>1, <1>2, FailStep

LEMMA StopStep ==
  ASSUME IInv, Stop
  PROVE  IInv'
<1>1. /\ phase' = "down" /\ to_scan' = {} /\ last_seen' = [f \in Folder |-> 0]
      /\ session' = [f \in Folder |-> Idle] /\ notices' = <<>>
      /\ pulls' = EmptyBag /\ sends' = EmptyBag /\ transfers' = EmptyBag
      /\ lost' = lost \cup Outstanding
      /\ watching' = FALSE /\ raw' = {} /\ pending_paths' = {} /\ suppressed_paths' = {}
      /\ changes' = <<>>
      /\ UNCHANGED <<disk, db, peer_db, staged, spoiled, overtaken>>
  BY DEF Stop, StopWatching
<1>2. DOMAIN pulls' = {} /\ DOMAIN sends' = {} /\ DOMAIN transfers' = {}
  BY <1>1 DEF EmptyBag, SetToBag
<1>3. /\ \A q \in DOMAIN pulls : q.dest \in Key
      /\ \A s \in DOMAIN sends \cup DOMAIN transfers : s.dest \in Key
  BY DEF IInv, TrafficInv, PullReq, Send
<1>4. /\ \A q \in DOMAIN pulls : q.dest \in lost'
      /\ \A s \in DOMAIN sends \cup DOMAIN transfers : s.dest \in lost'
      /\ lost' \subseteq Key
  BY <1>1, <1>3 DEF Outstanding, IInv, QueuesInv
<1>5. unrecorded' \subseteq Key
  <2>1. \A f \in Folder : \A i \in Pending(f) : KeyOf(session[f].todo[i].event) \in Key
    BY Decided DEF IInv, Pending
  <2>2. \A f \in Folder : PendingKeys(f) \subseteq Key
    BY <2>1 DEF PendingKeys
  <2> QED BY <2>2 DEF Stop, IInv, QueuesInv
<1>6. DbsInv' /\ TrafficInv'
  BY <1>1, <1>2 DEF IInv, DbsInv, TrafficInv
<1>7. WatchInv' /\ QueuesInv'
  <2>1. /\ changes' \in Seq(FsChangeEvent) /\ Len(changes') <= ChangeLimit
        /\ notices' \in Seq(Key) /\ Len(notices') <= NoticeLimit
    BY <1>1, Constants
  <2>2. watching' = (phase' = "running")
    BY <1>1
  <2>3. WatchInv'
    BY <1>1, <2>1, <2>2 DEF IInv, WatchInv
  <2>4. to_scan' \subseteq Key /\ overtaken' \subseteq Key
    BY <1>1 DEF IInv, QueuesInv
  <2> QED BY <1>4, <1>5, <2>1, <2>3, <2>4 DEF QueuesInv
<1>8. SessionsInv'
  <2>1. Len(peer_db.log) \in Nat
    BY LogDomain DEF IInv, DbsInv
  <2>2. \A f \in Folder : SessionOK(f, Idle, peer_db.log)
    BY <2>1, SessionsStay
  <2> QED BY <1>1, <2>1, <2>2 DEF SessionsInv
<1>9. TodosKept /\ PendingKept
  BY <1>1, IdleRests DEF TodosKept, PendingKept, Pending
<1>10. RowsKept /\ \A k : Kept(k)
  BY <1>1, <1>4 DEF RowsKept, ShownAsPulled, Kept
<1>11. Longer(peer_db.log, peer_db'.log)
  BY <1>1, SameLog DEF IInv, DbsInv
<1>12. ContentInv'
  BY <1>2, <1>9, <1>10, <1>11, ContentKept DEF IInv
<1> QED BY <1>6, <1>7, <1>8, <1>12 DEF IInv

LEMMA IInvStep ==
  ASSUME IInv, [Next]_vars
  PROVE  IInv'
<1>1. CASE User
  BY <1>1, UserStep, PeerStep DEF User
<1>2. CASE StartScan \/ StartWatcher
  BY <1>2, StartStep
<1>3. CASE Scan
  BY <1>3, ScanStep DEF Scan
<1>4. CASE Stop
  BY <1>4, StopStep
<1>5. ASSUME NEW x \in Name, Unsuppress(x) \/ Notify(x) \/ Emit(x)
      PROVE  IInv'
  BY <1>5, WatcherStep
<1>6. CASE Record
  BY <1>6, RecordStep DEF Record
<1>7. ASSUME NEW f \in Folder, SessionStep(f)
      PROVE  IInv'
  BY <1>7, StartSyncStep, FinishSyncStep, DownloadStep, DeleteStep, BranchStep, ApplyStep
  DEF SessionStep
<1>8. CASE Abort
  BY <1>8, AbortStep DEF Abort
<1>9. CASE Transfers
  BY <1>9, ServeStep, OpenStep, PlaceStep DEF Transfers
<1>10. CASE HandleNotice
  BY <1>10, NoticeStep
<1>11. CASE Lose \/ Garble
  BY <1>11, LoseStep
<1>12. CASE UNCHANGED vars
  <2>1. UNCHANGED <<watcher_vars, sync_vars>>
    BY <1>12 DEF vars
  <2>2. /\ Elsewhere /\ UNCHANGED <<disk, db, peer_db>>
        /\ WatchInv' /\ QueuesInv'
    BY <2>1 DEF IInv, Elsewhere, WatchInv, QueuesInv, watcher_vars, sync_vars,
                node_vars, traffic, history
  <2> QED BY <2>2, ElsewhereKeeps
<1> QED BY <1>1, <1>2, <1>3, <1>4, <1>5, <1>6, <1>7, <1>8, <1>9, <1>10, <1>11, <1>12
  DEF Next, Tasks

---------------------------------------------------------------------------
(* Where a node may be when it starts.                                     *)

\* A set with few elements, as a sequence.
LEMMA FewElements ==
  ASSUME NEW A, NEW B, \A j, k \in A : j = k, \A j, k \in B : j = k,
         NEW S, S \subseteq A \cup B
  PROVE  IsFiniteSet(S) /\ Cardinality(S) \in 0..2
<1>1. PICK x : A \subseteq {x}
  OBVIOUS
<1>2. PICK y : B \subseteq {y}
  OBVIOUS
<1>3. IsFiniteSet({x}) /\ Cardinality({x}) = 1
  BY FS_Singleton
<1>4. /\ IsFiniteSet({x} \cup {y})
      /\ Cardinality({x} \cup {y}) = IF y \in {x} THEN Cardinality({x}) ELSE Cardinality({x}) + 1
  BY <1>3, FS_AddElement
<1>5. S \in SUBSET ({x} \cup {y})
  BY <1>1, <1>2
<1>6. IsFiniteSet(S) /\ Cardinality(S) <= Cardinality({x} \cup {y})
  BY <1>4, <1>5, FS_Subset
<1>7. Cardinality(S) \in Nat
  BY <1>6, FS_CardinalityType
<1> QED BY <1>3, <1>4, <1>6, <1>7

LEMMA SeqOfSet ==
  ASSUME NEW S, IsFiniteSet(S)
  PROVE  /\ SetToSeq(S) \in [1..Cardinality(S) -> S]
         /\ \A i, j \in 1..Cardinality(S) : SetToSeq(S)[i] = SetToSeq(S)[j] => i = j
         /\ \A x \in S : \E i \in 1..Cardinality(S) : SetToSeq(S)[i] = x
<1> DEFINE n == Cardinality(S)
           s == SetToSeq(S)
<1>1. n \in Nat /\ ExistsBijection(1..n, S)
  BY FS_CardinalityType
<1>2. \E f \in [1..n -> S] : IsInjective(f)
  BY <1>1 DEF ExistsBijection, Bijection, Injection
<1>3. s \in [1..n -> S] /\ IsInjective(s)
  BY <1>2 DEF SetToSeq
<1>4. s \in Injection(1..n, S)
  BY <1>3 DEF Injection
<1>5. Cardinality(1..n) = n
  BY <1>1, FS_Interval
<1> HIDE DEF s
<1>6. s \in Surjection(1..n, S)
  BY <1>4, <1>5, FS_Injection
<1>7. \A x \in S : \E i \in 1..n : s[i] = x
  BY <1>6 DEF Surjection
<1>8. \A i, j \in 1..n : s[i] = s[j] => i = j
  BY <1>3 DEF IsInjective
<1> QED BY <1>3, <1>7, <1>8 DEF s

\* The event of a row.
LEMMA EventOfOK ==
  ASSUME NEW k \in Key, NEW row \in FileRecord, ~row.is_deleted, row.origin_node_id \in Node
  PROVE  LET e == EventOf(k, row) IN
         /\ EventOK(e) /\ KeyOf(e) = k /\ IsUpsert(e)
         /\ e.version = row.version /\ e.content_hash = row.content_hash
<1>1. k[1] \in Folder /\ k[2] \in Path /\ k = <<k[1], k[2]>>
  BY DEF Key
<1>2. EventOf(k, row) \in SyncEvent
  BY <1>1 DEF EventOf, SyncEvent, FileRecord
<1> QED BY <1>1, <1>2 DEF EventOf, EventOK, KeyOf, IsUpsert, FileRecord

\* The database of few files.
LEMMA DbOfInv ==
  ASSUME NEW files, RowsOK(files),
         IsFiniteSet(DOMAIN files), Cardinality(DOMAIN files) \in 0..2,
         \A k \in DOMAIN files : ~files[k].is_deleted /\ files[k].origin_node_id \in Node
  PROVE  LET d == DbOf(files) IN
         /\ DbInv(d) /\ d.files = files
         /\ \A i \in 1..Len(d.log) : /\ KeyOf(d.log[i]) \in DOMAIN files
                                     /\ d.log[i].version = files[KeyOf(d.log[i])].version
                                     /\ d.log[i].content_hash = files[KeyOf(d.log[i])].content_hash
         /\ \A i, j \in 1..Len(d.log) : KeyOf(d.log[i]) = KeyOf(d.log[j]) => i = j
<1> DEFINE d == DbOf(files)
           s == SetToSeq(DOMAIN files)
           n == Cardinality(DOMAIN files)
           log == d.log
<1>1. /\ s \in [1..n -> DOMAIN files]
      /\ \A i, j \in 1..n : s[i] = s[j] => i = j
      /\ \A k \in DOMAIN files : \E i \in 1..n : s[i] = k
  BY SeqOfSet
<1> HIDE DEF s, n
<1>2. /\ d.folders = Folder /\ d.files = files
      /\ d = [folders |-> d.folders, files |-> d.files, log |-> d.log]
      /\ log = [i \in 1..n |-> EventOf(s[i], files[s[i]])]
  BY <1>1 DEF DbOf, s
<1>3. n \in 0..2
  BY DEF n
<1> HIDE DEF d
<1>4. ASSUME NEW i \in 1..n
      PROVE  /\ EventOK(log[i]) /\ KeyOf(log[i]) = s[i] /\ IsUpsert(log[i])
             /\ s[i] \in DOMAIN files
             /\ log[i].version = files[s[i]].version
             /\ log[i].content_hash = files[s[i]].content_hash
  <2>1. s[i] \in DOMAIN files /\ s[i] \in Key /\ files[s[i]] \in FileRecord
    BY <1>1 DEF RowsOK
  <2>2. log[i] = EventOf(s[i], files[s[i]])
    BY <1>2
  <2> QED BY <2>1, <2>2, EventOfOK
<1>5. log \in Seq(SyncEvent) /\ Len(log) = n
  <2>1. \A i \in 1..n : log[i] \in SyncEvent
    BY <1>4 DEF EventOK
  <2>2. log \in [1..n -> SyncEvent]
    BY <1>2, <2>1
  <2> QED BY <1>3, <2>2
<1>6. HasLatest(log)
  <2> SUFFICES ASSUME NEW f \in Folder
               PROVE  \E i \in 0..n : /\ i = 0 \/ log[i].folder_id = f
                                      /\ \A j \in 1..n : log[j].folder_id = f => j <= i
    BY <1>5 DEF HasLatest
  <2>1. CASE n = 2 /\ log[2].folder_id = f
    BY <2>1
  <2>2. CASE n >= 1 /\ log[1].folder_id = f /\ ~(n = 2 /\ log[2].folder_id = f)
    BY <1>3, <2>2
  <2>3. CASE \A j \in 1..n : log[j].folder_id # f
    BY <1>3, <2>3
  <2> QED BY <1>3, <2>1, <2>2, <2>3
<1>7. LogCovers(d)
  <2>1. ASSUME NEW k \in DOMAIN files
        PROVE  \E i \in 1..n : Backs(log, i, k, files[k])
    <3>1. PICK i \in 1..n : s[i] = k
      BY <1>1
    <3>2. Backs(log, i, k, files[k])
      BY <1>4, <3>1 DEF Backs
    <3> QED BY <3>2
  <2> QED BY <1>2, <1>5, <2>1 DEF LogCovers
<1>8. DbOK(d)
  BY <1>2, <1>4, <1>5 DEF DbOK
<1>9. DbInv(d) /\ d.files = files
  BY <1>2, <1>6, <1>7, <1>8 DEF DbInv
<1>10. \A i, j \in 1..n : KeyOf(log[i]) = KeyOf(log[j]) => i = j
  BY <1>1, <1>4
<1> QED BY <1>4, <1>5, <1>9, <1>10 DEF d

\* The row of a file made before the start.
LEMMA RowTyped ==
  ASSUME NEW h \in Hash, NEW n \in Node
  PROVE  /\ Row(h, n) \in FileRecord /\ Row(h, n).is_deleted = FALSE
         /\ Row(h, n).origin_node_id = n /\ Row(h, n).content_hash = h
         /\ Row(h, n).version = 1
<1>1. 1 \in Time
  BY SyncAssumption DEF SyncAssumption
<1> QED BY <1>1 DEF Row, FileRecord, FileId, Origin

LEMMA IInvInit ==
  ASSUME Init
  PROVE  IInv
<1>1. PICK past \in [KeysOf(Name) -> {"absent", "unknown", "recorded", "pulled", "diverged"}],
           u \in UserHash \cap FirstHash, p \in PeerHash \cap FirstHash :
        LET In(S) == {k \in KeysOf(Name) : past[k] \in S} IN
        /\ \A j, k \in In({"unknown", "recorded", "diverged"}) : j = k
        /\ \A j, k \in In({"pulled", "diverged"}) : j = k
        /\ db = DbOf([k \in In({"recorded", "pulled", "diverged"}) |->
                        IF past[k] = "pulled" THEN Row(p, Peer) ELSE Row(u, Self)])
        /\ peer_db = DbOf([k \in In({"pulled", "diverged"}) |-> Row(p, Peer)])
        /\ disk = [k \in In({"unknown", "recorded", "pulled", "diverged"}) |->
                     IF past[k] = "pulled" THEN p ELSE u]
  BY DEF Init
<1> DEFINE In(S) == {k \in KeysOf(Name) : past[k] \in S}
           mine == In({"recorded", "pulled", "diverged"})
           theirs == In({"pulled", "diverged"})
           files == [k \in mine |-> IF past[k] = "pulled" THEN Row(p, Peer) ELSE Row(u, Self)]
           peer_files == [k \in theirs |-> Row(p, Peer)]
<1>2. /\ phase = "down" /\ to_scan = {} /\ last_seen = [f \in Folder |-> 0]
      /\ session = [f \in Folder |-> Idle]
      /\ pulls = EmptyBag /\ sends = EmptyBag /\ transfers = EmptyBag
      /\ staged = <<>> /\ spoiled = {} /\ notices = <<>>
      /\ lost = {} /\ overtaken = {} /\ unrecorded = {}
      /\ watching = FALSE /\ raw = {} /\ pending_paths = {} /\ suppressed_paths = {}
      /\ changes = <<>>
  BY DEF Init, WatcherInit
<1>3. /\ Row(p, Peer) \in FileRecord /\ ~Row(p, Peer).is_deleted
      /\ Row(p, Peer).origin_node_id = Peer /\ Row(p, Peer).content_hash = p
      /\ Row(p, Peer).version = 1
      /\ Row(u, Self) \in FileRecord /\ ~Row(u, Self).is_deleted
      /\ Row(u, Self).origin_node_id = Self
  BY RowTyped, Constants
<1>4. \A k \in KeysOf(Name) : k \in Key /\ k = FileOf(k)
  BY KeysOfKey
<1>5. DbInv(db) /\ db.files = files
  <2>1. RowsOK(files)
    BY <1>3, <1>4 DEF RowsOK
  <2>2. mine \subseteq In({"unknown", "recorded", "diverged"}) \cup theirs
    OBVIOUS
  <2>3. IsFiniteSet(mine) /\ Cardinality(mine) \in 0..2
    BY <1>1, <2>2, FewElements
  <2>4. DOMAIN files = mine
        /\ \A k \in mine : ~files[k].is_deleted /\ files[k].origin_node_id \in Node
    BY <1>3, Constants
  <2>5. db = DbOf(files)
    BY <1>1
  <2> HIDE DEF files, mine
  <2> QED BY <2>1, <2>3, <2>4, <2>5, DbOfInv
<1>6. /\ DbInv(peer_db) /\ peer_db.files = peer_files
      /\ \A i \in 1..Len(peer_db.log) :
           /\ KeyOf(peer_db.log[i]) \in theirs
           /\ peer_db.log[i].version = 1 /\ peer_db.log[i].content_hash = p
      /\ \A i, j \in 1..Len(peer_db.log) : KeyOf(peer_db.log[i]) = KeyOf(peer_db.log[j]) => i = j
  <2>1. RowsOK(peer_files)
    BY <1>3, <1>4 DEF RowsOK
  <2>2. IsFiniteSet(theirs) /\ Cardinality(theirs) \in 0..2
    BY <1>1, FewElements
  <2>3. /\ DOMAIN peer_files = theirs
        /\ \A k \in theirs : /\ ~peer_files[k].is_deleted /\ peer_files[k].origin_node_id \in Node
                             /\ peer_files[k].version = 1 /\ peer_files[k].content_hash = p
    BY <1>3, Constants
  <2>4. peer_db = DbOf(peer_files)
    BY <1>1
  <2> HIDE DEF peer_files, theirs
  <2> QED BY <2>1, <2>2, <2>3, <2>4, DbOfInv
<1>7. DbsInv
  <2>1. \A k \in theirs : Known(peer_db, k) /\ peer_db.files[k].version = 1
    BY <1>3, <1>6 DEF Known
  <2>2. PeerLogOK(peer_db)
    <3>1. Len(peer_db.log) \in Nat
      BY <1>6, LogDomain
    <3>2. ASSUME NEW i \in 1..Len(peer_db.log)
          PROVE  /\ KeyOf(peer_db.log[i]) = FileOf(KeyOf(peer_db.log[i]))
                 /\ Known(peer_db, KeyOf(peer_db.log[i]))
                 /\ peer_db.log[i].version <= peer_db.files[KeyOf(peer_db.log[i])].version
      <4>1. KeyOf(peer_db.log[i]) \in theirs /\ KeyOf(peer_db.log[i]) \in KeysOf(Name)
        BY <1>6
      <4>2. KeyOf(peer_db.log[i]) = FileOf(KeyOf(peer_db.log[i]))
        BY <1>4, <4>1
      <4>3. peer_db.log[i].version = 1 /\ peer_db.log[i].content_hash = p
        BY <1>6
      <4> HIDE DEF theirs
      <4> QED BY <2>1, <4>1, <4>2, <4>3
    <3>3. \A i, j \in 1..Len(peer_db.log) :
            ~(i < j /\ KeyOf(peer_db.log[i]) = KeyOf(peer_db.log[j]))
      BY <1>6, <3>1
    <3> QED BY <3>2, <3>3 DEF PeerLogOK
  <2> QED BY <1>5, <1>6, <2>2 DEF DbsInv
<1>8. \A k \in theirs : Written(k, peer_db.files[k].version, peer_db.files[k].content_hash)
  <2> SUFFICES ASSUME NEW k \in theirs
               PROVE  Written(k, peer_db.files[k].version, peer_db.files[k].content_hash)
    OBVIOUS
  <2>1. k \in DOMAIN peer_db.files /\ peer_db.files[k] = Row(p, Peer) /\ k = FileOf(k)
    BY <1>4, <1>6
  <2>2. PICK i \in 1..Len(peer_db.log) : Backs(peer_db.log, i, k, peer_db.files[k])
    BY <1>6, <2>1 DEF DbInv, LogCovers
  <2> QED BY <1>3, <2>1, <2>2 DEF Written, Backs
<1>9. \A k \in DOMAIN disk : k \in Key /\ disk[k] = IF past[k] = "pulled" THEN p ELSE u
  BY <1>1, <1>4
<1>10. WatchInv
  <2>1. DOMAIN disk \subseteq Key /\ \A k \in DOMAIN disk : disk[k] \in Hash
    BY <1>9, Constants
  <2>2. watching = (phase = "running")
    BY <1>2
  <2>3. changes \in Seq(FsChangeEvent) /\ Len(changes) <= ChangeLimit
    BY <1>2, Constants
  <2> QED BY <1>2, <2>1, <2>2, <2>3 DEF WatchInv
<1>11. QueuesInv /\ TrafficInv
  <2>1. DOMAIN pulls = {} /\ DOMAIN sends = {} /\ DOMAIN transfers = {} /\ DOMAIN staged = {}
    BY <1>2 DEF EmptyBag, SetToBag
  <2>2. TrafficInv
    BY <1>2, <2>1 DEF TrafficInv
  <2>3. notices \in Seq(Key) /\ Len(notices) <= NoticeLimit
    BY <1>2, Constants
  <2> QED BY <1>2, <2>2, <2>3 DEF QueuesInv
<1>12. SessionsInv
  <2>1. Len(peer_db.log) \in Nat
    BY <1>6, LogDomain
  <2>2. \A f \in Folder : SessionOK(f, Idle, peer_db.log)
    BY <2>1, SessionsStay
  <2> QED BY <1>2, <2>1, <2>2 DEF SessionsInv
<1>13. \A k \in DOMAIN db.files : ShownAsPulled(k) =>
         k \in theirs /\ db.files[k] = peer_db.files[k] /\ k \in DOMAIN disk
         /\ disk[k] = db.files[k].content_hash
  <2> SUFFICES ASSUME NEW k \in DOMAIN db.files, ShownAsPulled(k)
               PROVE  k \in theirs /\ db.files[k] = peer_db.files[k] /\ k \in DOMAIN disk
                      /\ disk[k] = db.files[k].content_hash
    OBVIOUS
  <2>1. k \in mine /\ db.files[k] = files[k]
    BY <1>5
  <2>2. past[k] = "pulled"
    BY <1>3, <2>1, Constants DEF ShownAsPulled
  <2> QED BY <1>1, <1>3, <1>6, <2>1, <2>2
<1>14. ContentInv
  <2>1. \A f \in Folder : DOMAIN session[f].todo = {} /\ Pending(f) = {}
    BY <1>2, IdleRests DEF Pending
  <2>2. DOMAIN pulls = {}
    BY <1>2 DEF EmptyBag, SetToBag
  <2>3. PullsInv /\ DeletesInv
    BY <2>1, <2>2 DEF PullsInv, DeletesInv
  <2>4. ASSUME NEW k \in Key, NEW v \in Nat, NEW h \in Hash, Claimed(k, v, h)
        PROVE  Written(k, v, h) /\ Settled(k, v, h)
    <3>1. /\ k \in DOMAIN db.files /\ ShownAsPulled(k)
          /\ db.files[k].version = v /\ db.files[k].content_hash = h
      BY <2>1, <2>4 DEF Claimed, ShownAsPulled, Live, Known
    <3>2. /\ k \in theirs /\ db.files[k] = peer_db.files[k]
          /\ k \in DOMAIN disk /\ disk[k] = h
      BY <1>13, <3>1
    <3> QED BY <1>8, <3>1, <3>2 DEF Settled, Fresh
  <2> QED BY <2>3, <2>4 DEF ContentInv, ClaimsInv
<1> QED BY <1>7, <1>10, <1>11, <1>12, <1>14 DEF IInv
---------------------------------------------------------------------------
(* The theorems.                                                           *)

LEMMA Inductive == Spec => []IInv
<1>1. Init => IInv
  BY IInvInit
<1>2. IInv /\ [Next]_vars => IInv'
  BY IInvStep
<1> QED BY <1>1, <1>2, PTL DEF Spec

\* Files, cursors, decisions and both bounded channels keep their types: the
\* debouncer waits for room and the notice of a finished transfer is dropped
\* when its channel is full (watcher.rs, receiver.rs:237), and a session's
\* decisions are ones that can be carried out.
THEOREM TypeCorrect == Spec => []TypeOK
<1>1. IInv => TypeOK
  BY IInvImplies
<1> QED BY <1>1, Inductive, PTL

\* The catalog shows a pulled file before its content has come, or because it
\* was there already (coordinator.rs:429-459).  For any number of files, changes,
\* sessions, overlapping transfers, failures and restarts: content that it shows
\* for a file of the peer's users is on disk, asked for or on its way, or newer
\* content is - unless a transfer to the path failed, an older transfer to the
\* path was placed after a newer one, or the peer has removed the file.
THEOREM DownloadsAccountedFor == Spec => []DownloadAccountedFor
<1>1. IInv => DownloadAccountedFor
  BY IInvImplies
<1> QED BY <1>1, Inductive, PTL
===========================================================================

-------------------------- MODULE ReconcilerProofs --------------------------
(***************************************************************************)
(* What the operations of the database and the decisions of the engine     *)
(* preserve.  The proofs about Replication and Sync rest on these lemmas.  *)
(***************************************************************************)
EXTENDS Reconciler, TLAPS

---------------------------------------------------------------------------
(* The database operations keep a database well formed. *)

\* Writing a row of the right type at a key keeps the catalog well formed.
LEMMA PutRowOK ==
  ASSUME NEW files, NEW k \in Key, NEW row \in FileRecord, RowsOK(files)
  PROVE  RowsOK(PutRow(files, k, row))
  BY DEF RowsOK, PutRow

\* The row written for an upsert event has the type of a row.
LEMMA RowOfOK ==
  ASSUME NEW e, EventOK(e), IsUpsert(e)
  PROVE  RowOf(e) \in FileRecord /\ KeyOf(e) \in Key
  BY DEF EventOK, RowOf, FileRecord, SyncEvent, Origin, KeyOf, Key

\* So does the tombstone written for a deletion.
LEMMA TombstoneOK ==
  ASSUME NEW e, EventOK(e), NEW row \in FileRecord
  PROVE  TombstoneRow(row, e) \in FileRecord /\ KeyOf(e) \in Key
  BY DEF EventOK, TombstoneRow, FileRecord, SyncEvent, KeyOf, Key

\* Appending a well-formed event keeps a log well formed.
LEMMA AppendOK ==
  ASSUME NEW log \in Seq(SyncEvent), \A i \in 1..Len(log) : EventOK(log[i]),
         NEW e, EventOK(e)
  PROVE  /\ Append(log, e) \in Seq(SyncEvent)
         /\ \A i \in 1..Len(Append(log, e)) : EventOK(Append(log, e)[i])
  BY DEF EventOK

\* Some sequence number is the folder's newest: the CHOOSE of
\* get_latest_event_seq has a witness.
HasLatest(log) ==
  \A f \in Folder : \E i \in 0..Len(log) :
    /\ i = 0 \/ log[i].folder_id = f
    /\ \A j \in 1..Len(log) : log[j].folder_id = f => j <= i

\* What every database satisfies.
DbInv(d) == DbOK(d) /\ HasLatest(d.log) /\ LogCovers(d)

\* Then the newest sequence number is a position of the log.
LEMMA LatestInLog ==
  ASSUME NEW d, DbOK(d), HasLatest(d.log), NEW f \in Folder
  PROVE  get_latest_event_seq(d, f) \in 0..Len(d.log)
<1> DEFINE P(i) == i \in FolderSeqs(d, f) \cup {0} /\ \A j \in FolderSeqs(d, f) : j <= i
<1>1. PICK i \in 0..Len(d.log) :
        /\ i = 0 \/ d.log[i].folder_id = f
        /\ \A j \in 1..Len(d.log) : d.log[j].folder_id = f => j <= i
  BY DEF HasLatest
<1>2. Len(d.log) \in Nat
  BY DEF DbOK
<1>3. P(i)
  BY <1>1, <1>2 DEF FolderSeqs
<1>4. get_latest_event_seq(d, f) \in FolderSeqs(d, f) \cup {0}
  BY <1>3 DEF get_latest_event_seq
<1> QED BY <1>4, <1>2 DEF FolderSeqs

\* Appending an event keeps a newest sequence number.
LEMMA AppendHasLatest ==
  ASSUME NEW log \in Seq(SyncEvent), HasLatest(log), NEW e, EventOK(e)
  PROVE  HasLatest(Append(log, e))
<1> SUFFICES ASSUME NEW f \in Folder
             PROVE  \E i \in 0..Len(Append(log, e)) :
                      /\ i = 0 \/ Append(log, e)[i].folder_id = f
                      /\ \A j \in 1..Len(Append(log, e)) :
                           Append(log, e)[j].folder_id = f => j <= i
  BY DEF HasLatest
<1>1. PICK i \in 0..Len(log) :
        /\ i = 0 \/ log[i].folder_id = f
        /\ \A j \in 1..Len(log) : log[j].folder_id = f => j <= i
  BY DEF HasLatest
<1>2. /\ Len(log) \in Nat /\ Len(Append(log, e)) = Len(log) + 1
      /\ Append(log, e)[Len(log) + 1] = e
      /\ \A j \in 1..Len(log) : Append(log, e)[j] = log[j]
  BY DEF EventOK
<1>3. CASE e.folder_id = f
  <2> WITNESS Len(log) + 1 \in 0..Len(Append(log, e))
  <2> QED BY <1>2, <1>3
<1>4. CASE e.folder_id # f
  <2> WITNESS i \in 0..Len(Append(log, e))
  <2> QED BY <1>1, <1>2, <1>4
<1> QED BY <1>3, <1>4

\* A log that covers its catalog still does after the row of k is written
\* together with the event that backs it.
LEMMA AppendCovers ==
  ASSUME NEW d, DbOK(d), LogCovers(d), NEW k \in Key, NEW row \in FileRecord,
         NEW e, EventOK(e), KeyOf(e) = k, e.version = row.version,
         IsUpsert(e) <=> ~row.is_deleted,
         IsUpsert(e) => e.content_hash = row.content_hash
  PROVE  LogCovers(Commit(d, PutRow(d.files, k, row), Append(d.log, e)))
<1> DEFINE log == Append(d.log, e)
           files == PutRow(d.files, k, row)
           d2 == Commit(d, files, log)
<1>1. d2.files = files /\ d2.log = log
  BY DEF Commit
<1>2. /\ Len(d.log) \in Nat /\ Len(log) = Len(d.log) + 1
      /\ log[Len(d.log) + 1] = e
      /\ \A j \in 1..Len(d.log) : log[j] = d.log[j]
  BY DEF DbOK, EventOK
<1>3. ASSUME NEW j \in DOMAIN files PROVE \E i \in 1..Len(log) : Backs(log, i, j, files[j])
  <2>1. CASE j = k
    <3>1. files[j] = row BY <2>1 DEF PutRow
    <3>2. Backs(log, Len(d.log) + 1, j, files[j])
      BY <1>2, <2>1, <3>1 DEF Backs
    <3> QED BY <3>2, <1>2
  <2>2. CASE j # k
    <3>1. j \in DOMAIN d.files /\ files[j] = d.files[j]
      BY <2>2 DEF PutRow
    <3>2. PICK i \in 1..Len(d.log) : Backs(d.log, i, j, d.files[j])
      BY <3>1 DEF LogCovers
    <3>3. Backs(log, i, j, files[j])
      BY <3>1, <3>2, <1>2 DEF Backs
    <3> QED BY <3>3, <1>2
  <2> QED BY <2>1, <2>2
<1> HIDE DEF log, files
<1>4. LogCovers(d2)
  BY <1>1, <1>3 DEF LogCovers
<1> QED BY <1>4 DEF log, files

\* A row may also be written without an event, if an event of the log backs
\* it already.
LEMMA LoggedCovers ==
  ASSUME NEW d, DbOK(d), LogCovers(d), NEW k \in Key, NEW row \in FileRecord,
         NEW i \in 1..Len(d.log), Backs(d.log, i, k, row)
  PROVE  LogCovers(Commit(d, PutRow(d.files, k, row), d.log))
<1> DEFINE files == PutRow(d.files, k, row)
           d2 == Commit(d, files, d.log)
<1>1. d2.files = files /\ d2.log = d.log
  BY DEF Commit
<1>2. ASSUME NEW j \in DOMAIN files
      PROVE  \E q \in 1..Len(d.log) : Backs(d.log, q, j, files[j])
  BY DEF PutRow, LogCovers
<1> HIDE DEF files
<1>3. LogCovers(d2)
  BY <1>1, <1>2 DEF LogCovers
<1> QED BY <1>3 DEF files

\* d2 is d after at most one event was appended to its log.
LogGrows(d, d2, e) == d2.log = d.log \/ d2.log = Append(d.log, e)

\* Writing a row together with the event that backs it keeps DbInv.
LEMMA WriteLogged ==
  ASSUME NEW d, DbInv(d), NEW k \in Key, NEW row \in FileRecord,
         NEW e, EventOK(e), KeyOf(e) = k, e.version = row.version,
         IsUpsert(e) <=> ~row.is_deleted,
         IsUpsert(e) => e.content_hash = row.content_hash
  PROVE  LET d2 == Commit(d, PutRow(d.files, k, row), Append(d.log, e))
         IN DbInv(d2) /\ d2.log = Append(d.log, e) /\ d2.folders = d.folders
<1> DEFINE log == Append(d.log, e)
           files == PutRow(d.files, k, row)
           d2 == Commit(d, files, log)
<1>1. d2 = [folders |-> d.folders, files |-> files, log |-> log]
  BY DEF Commit
<1>2. RowsOK(files)
  BY PutRowOK DEF DbInv, DbOK
<1>3. log \in Seq(SyncEvent) /\ \A i \in 1..Len(log) : EventOK(log[i])
  BY AppendOK DEF DbInv, DbOK
<1>4. HasLatest(log)
  BY AppendHasLatest DEF DbInv, DbOK
<1>5. LogCovers(d2)
  BY AppendCovers DEF DbInv
<1>6. d.folders \subseteq Folder
  BY DEF DbInv, DbOK
<1> HIDE DEF log, files
<1>7. DbOK(d2)
  BY <1>1, <1>2, <1>3, <1>6 DEF DbOK
<1>8. DbInv(d2) /\ d2.log = log /\ d2.folders = d.folders
  BY <1>1, <1>4, <1>5, <1>7 DEF DbInv
<1> QED BY <1>8 DEF log, files

\* So does writing a row that is backed already.
LEMMA WriteBacked ==
  ASSUME NEW d, DbInv(d), NEW k \in Key, NEW row \in FileRecord,
         NEW i \in 1..Len(d.log), Backs(d.log, i, k, row)
  PROVE  LET d2 == Commit(d, PutRow(d.files, k, row), d.log)
         IN DbInv(d2) /\ d2.log = d.log /\ d2.folders = d.folders
<1> DEFINE files == PutRow(d.files, k, row)
           d2 == Commit(d, files, d.log)
<1>1. d2 = [folders |-> d.folders, files |-> files, log |-> d.log]
  BY DEF Commit
<1>2. RowsOK(files)
  BY PutRowOK DEF DbInv, DbOK
<1>3. LogCovers(d2)
  BY LoggedCovers DEF DbInv
<1> HIDE DEF files
<1>4. DbOK(d2)
  BY <1>1, <1>2 DEF DbInv, DbOK
<1>5. DbInv(d2) /\ d2.log = d.log /\ d2.folders = d.folders
  BY <1>1, <1>3, <1>4 DEF DbInv
<1> QED BY <1>5 DEF files

\* Registering a folder changes nothing else.
LEMMA AddFolderInv ==
  ASSUME NEW d, DbInv(d), NEW f \in Folder
  PROVE  DbInv(add_folder(d, f)) /\ add_folder(d, f).log = d.log
<1> DEFINE d2 == add_folder(d, f)
<1>1. d2 = [folders |-> d.folders \cup {f}, files |-> d.files, log |-> d.log]
  <2>1. d = [folders |-> d.folders, files |-> d.files, log |-> d.log]
    BY DEF DbInv, DbOK
  <2> QED BY <2>1 DEF add_folder
<1>2. DbOK(d2)
  BY <1>1 DEF DbInv, DbOK
<1>3. LogCovers(d2)
  BY <1>1 DEF DbInv, LogCovers
<1> QED BY <1>1, <1>2, <1>3 DEF DbInv

\* The event of a local change is well formed.
LEMMA LocalUpsertEventOK ==
  ASSUME NEW d, DbOK(d), NEW n \in Node, NEW k \in Key, NEW h \in Hash,
         NEW now \in Time
  PROVE  LET e == local_upsert_event(d, n, k, h, now)
         IN EventOK(e) /\ IsUpsert(e) /\ KeyOf(e) = k /\ e.origin_node_id = n
<1> DEFINE e == local_upsert_event(d, n, k, h, now)
<1>1. Known(d, k) => d.files[k] \in FileRecord
  BY DEF DbOK, RowsOK, Known
<1>2. e.file_id \in FileId /\ e.version \in Nat
  BY <1>1 DEF local_upsert_event, FileRecord, FileId
<1>3. e = [folder_id |-> k[1], relative_path |-> k[2], event_type |-> "UPSERT",
           file_id |-> e.file_id, version |-> e.version,
           content_hash |-> h, origin_node_id |-> n, modified_at |-> now]
  BY DEF local_upsert_event
<1>4. k[1] \in Folder /\ k[2] \in Path /\ k = <<k[1], k[2]>>
  BY DEF Key
<1> HIDE DEF e
<1>5. EventOK(e) /\ IsUpsert(e) /\ KeyOf(e) = k /\ e.origin_node_id = n
  BY <1>2, <1>3, <1>4 DEF EventOK, SyncEvent, IsUpsert, KeyOf, Origin
<1> QED BY <1>5 DEF e

\* Likewise for a deletion.
LEMMA LocalDeleteEventOK ==
  ASSUME NEW d, DbOK(d), NEW n \in Node, NEW k \in Key, Live(d, k),
         NEW now \in Time
  PROVE  LET e == local_delete_event(d, n, k, now)
         IN EventOK(e) /\ ~IsUpsert(e) /\ KeyOf(e) = k /\ e.origin_node_id = n
<1> DEFINE e == local_delete_event(d, n, k, now)
<1>1. d.files[k] \in FileRecord
  BY DEF DbOK, RowsOK, Known, Live
<1>2. e.file_id \in FileId /\ e.version \in Nat /\ e.content_hash \in Hash
  BY <1>1 DEF local_delete_event, FileRecord, FileId
<1>3. e = [folder_id |-> k[1], relative_path |-> k[2], event_type |-> "DELETE",
           file_id |-> e.file_id, version |-> e.version,
           content_hash |-> e.content_hash, origin_node_id |-> n, modified_at |-> now]
  BY DEF local_delete_event
<1>4. k[1] \in Folder /\ k[2] \in Path /\ k = <<k[1], k[2]>>
  BY DEF Key
<1> HIDE DEF e
<1>5. EventOK(e) /\ ~IsUpsert(e) /\ KeyOf(e) = k /\ e.origin_node_id = n
  BY <1>2, <1>3, <1>4 DEF EventOK, SyncEvent, IsUpsert, KeyOf, Origin
<1> QED BY <1>5 DEF e

\* The log may grow without a change to the catalog.
LEMMA LogOnly ==
  ASSUME NEW d, DbInv(d), NEW e, EventOK(e)
  PROVE  DbInv(Commit(d, d.files, Append(d.log, e)))
<1> DEFINE log == Append(d.log, e)
           d2 == Commit(d, d.files, log)
<1>1. d2 = [folders |-> d.folders, files |-> d.files, log |-> log]
  BY DEF Commit
<1>2. log \in Seq(SyncEvent) /\ \A i \in 1..Len(log) : EventOK(log[i])
  BY AppendOK DEF DbInv, DbOK
<1>3. HasLatest(log)
  BY AppendHasLatest DEF DbInv, DbOK
<1>4. Len(log) = Len(d.log) + 1 /\ Len(d.log) \in Nat
      /\ \A j \in 1..Len(d.log) : log[j] = d.log[j]
  BY DEF DbInv, DbOK, EventOK
<1> HIDE DEF log
<1>5. ASSUME NEW k \in DOMAIN d.files
      PROVE  \E i \in 1..Len(log) : Backs(log, i, k, d.files[k])
  <2>1. PICK i \in 1..Len(d.log) : Backs(d.log, i, k, d.files[k])
    BY DEF DbInv, LogCovers
  <2>2. Backs(log, i, k, d.files[k])
    BY <1>4, <2>1 DEF Backs
  <2> QED BY <1>4, <2>2
<1>6. LogCovers(d2)
  BY <1>1, <1>5 DEF LogCovers
<1>7. DbOK(d2)
  BY <1>1, <1>2 DEF DbInv, DbOK
<1>8. DbInv(d2)
  BY <1>1, <1>3, <1>6, <1>7 DEF DbInv
<1> QED BY <1>8 DEF log

\* record_local_upsert keeps a database sound and logs at most its event.
LEMMA RecordUpsertInv ==
  ASSUME NEW d, DbInv(d), NEW n \in Node, NEW k \in Key, NEW h \in Hash,
         NEW now \in Time
  PROVE  LET d2 == record_local_upsert(d, n, k, h, now)
         IN DbInv(d2) /\ LogGrows(d, d2, local_upsert_event(d, n, k, h, now))
<1> DEFINE e == local_upsert_event(d, n, k, h, now)
           d2 == record_local_upsert(d, n, k, h, now)
<1>1. EventOK(e) /\ IsUpsert(e) /\ KeyOf(e) = k
  BY LocalUpsertEventOK DEF DbInv
<1>2. d2 = IF UpsertRejected(d, e) THEN d
           ELSE Commit(d, PutRow(d.files, k, RowOf(e)), Append(d.log, e))
  BY DEF record_local_upsert
<1> HIDE DEF e, d2
<1>3. RowOf(e) \in FileRecord
  BY <1>1, RowOfOK
<1>4. RowOf(e).version = e.version /\ RowOf(e).is_deleted = FALSE
      /\ RowOf(e).content_hash = e.content_hash
  BY DEF RowOf
<1>5. CASE UpsertRejected(d, e)
  BY <1>2, <1>5 DEF LogGrows, e, d2
<1>6. CASE ~UpsertRejected(d, e)
  <2>1. DbInv(d2) /\ d2.log = Append(d.log, e)
    BY <1>1, <1>2, <1>3, <1>4, <1>6, WriteLogged
  <2> QED BY <2>1 DEF LogGrows, e, d2
<1> QED BY <1>5, <1>6

\* record_local_delete likewise.
LEMMA RecordDeleteInv ==
  ASSUME NEW d, DbInv(d), NEW n \in Node, NEW k \in Key, Live(d, k),
         NEW now \in Time
  PROVE  LET d2 == record_local_delete(d, n, k, now)
         IN DbInv(d2) /\ LogGrows(d, d2, local_delete_event(d, n, k, now))
<1> DEFINE e == local_delete_event(d, n, k, now)
           d2 == record_local_delete(d, n, k, now)
<1>1. EventOK(e) /\ ~IsUpsert(e) /\ KeyOf(e) = k
  BY LocalDeleteEventOK DEF DbInv
<1>2. d2 = Commit(d, PutRow(d.files, k, TombstoneRow(d.files[k], e)), Append(d.log, e))
  BY DEF record_local_delete
<1> HIDE DEF e, d2
<1>3. d.files[k] \in FileRecord
  BY DEF DbInv, DbOK, RowsOK, Live, Known
<1>4. TombstoneRow(d.files[k], e) \in FileRecord
  BY <1>1, <1>3, TombstoneOK
<1>5. TombstoneRow(d.files[k], e).version = e.version
      /\ TombstoneRow(d.files[k], e).is_deleted = TRUE
  BY <1>3 DEF TombstoneRow, FileRecord
<1>6. DbInv(d2) /\ d2.log = Append(d.log, e)
  BY <1>1, <1>2, <1>4, <1>5, WriteLogged
<1> QED BY <1>6 DEF LogGrows, e, d2

\* apply_remote_upsert keeps a database sound: when it skips the append,
\* the event it found in the log backs the row it wrote.
LEMMA ApplyUpsertInv ==
  ASSUME NEW d, DbInv(d), NEW e, EventOK(e), IsUpsert(e)
  PROVE  LET d2 == apply_remote_upsert(d, e) IN DbInv(d2) /\ LogGrows(d, d2, e)
<1> DEFINE d2 == apply_remote_upsert(d, e)
           row == RowOf(e)
<1>1. row \in FileRecord /\ KeyOf(e) \in Key
  BY RowOfOK
<1>2. row.version = e.version /\ row.is_deleted = FALSE /\ row.content_hash = e.content_hash
  BY DEF RowOf
<1>3. CASE UpsertRejected(d, e)
  BY <1>3 DEF apply_remote_upsert, LogGrows
<1>4. CASE ~UpsertRejected(d, e) /\ UpsertLogged(d.log, e)
  <2>1. d2 = Commit(d, PutRow(d.files, KeyOf(e), row), d.log)
    BY <1>4 DEF apply_remote_upsert
  <2>2. PICK i \in 1..Len(d.log) : Backs(d.log, i, KeyOf(e), row)
    <3> HIDE DEF row
    <3> QED BY <1>2, <1>4 DEF UpsertLogged, Backs
  <2> HIDE DEF d2, row
  <2>3. DbInv(d2) /\ d2.log = d.log
    BY <1>1, <2>1, <2>2, WriteBacked
  <2> QED BY <2>3 DEF LogGrows, d2
<1>5. CASE ~UpsertRejected(d, e) /\ ~UpsertLogged(d.log, e)
  <2>1. d2 = Commit(d, PutRow(d.files, KeyOf(e), row), Append(d.log, e))
    BY <1>5 DEF apply_remote_upsert
  <2> HIDE DEF d2, row
  <2>2. DbInv(d2) /\ d2.log = Append(d.log, e)
    BY <1>1, <1>2, <2>1, WriteLogged
  <2> QED BY <2>2 DEF LogGrows, d2
<1> QED BY <1>3, <1>4, <1>5

\* apply_remote_delete likewise.
LEMMA ApplyDeleteInv ==
  ASSUME NEW d, DbInv(d), NEW e, EventOK(e), ~IsUpsert(e)
  PROVE  LET d2 == apply_remote_delete(d, e) IN DbInv(d2) /\ LogGrows(d, d2, e)
<1> DEFINE d2 == apply_remote_delete(d, e)
           k == KeyOf(e)
           row == TombstoneRow(d.files[k], e)
<1>1. k \in Key
  BY DEF EventOK, SyncEvent, KeyOf, Key
<1>2. CASE Known(d, k)
  <2>1. d.files[k] \in FileRecord
    BY <1>2 DEF DbInv, DbOK, RowsOK, Known
  <2>2. row \in FileRecord
    BY <2>1, TombstoneOK
  <2>3. row.version = e.version /\ row.is_deleted = TRUE
    BY <2>1 DEF TombstoneRow, FileRecord
  <2>4. CASE DeleteLogged(d.log, e)
    <3>1. d2 = Commit(d, PutRow(d.files, k, row), d.log)
      BY <1>2, <2>4 DEF apply_remote_delete
    <3>2. PICK i \in 1..Len(d.log) : Backs(d.log, i, k, row)
      <4> HIDE DEF row
      <4> QED BY <2>3, <2>4 DEF DeleteLogged, Backs
    <3> HIDE DEF d2, row, k
    <3>3. DbInv(d2) /\ d2.log = d.log
      BY <1>1, <2>2, <3>1, <3>2, WriteBacked
    <3> QED BY <3>3 DEF LogGrows, d2
  <2>5. CASE ~DeleteLogged(d.log, e)
    <3>1. d2 = Commit(d, PutRow(d.files, k, row), Append(d.log, e))
      BY <1>2, <2>5 DEF apply_remote_delete
    <3> HIDE DEF d2, row
    <3>2. DbInv(d2) /\ d2.log = Append(d.log, e)
      BY <1>1, <2>2, <2>3, <3>1, WriteLogged
    <3> QED BY <3>2 DEF LogGrows, d2
  <2> QED BY <2>4, <2>5
<1>3. CASE ~Known(d, k) /\ DeleteLogged(d.log, e)
  <2>1. d2 = [folders |-> d.folders, files |-> d.files, log |-> d.log]
    BY <1>3 DEF apply_remote_delete, Commit
  <2>2. d2 = d
    BY <2>1 DEF DbInv, DbOK
  <2> HIDE DEF d2
  <2>3. DbInv(d2) /\ d2.log = d.log
    BY <2>2
  <2> QED BY <2>3 DEF LogGrows, d2
<1>4. CASE ~Known(d, k) /\ ~DeleteLogged(d.log, e)
  <2>1. d2 = Commit(d, d.files, Append(d.log, e))
    BY <1>4 DEF apply_remote_delete
  <2>2. DbInv(d2) /\ d2.log = Append(d.log, e)
    BY <2>1, LogOnly DEF Commit
  <2> QED BY <2>2 DEF LogGrows
<1> QED BY <1>2, <1>3, <1>4

\* The event built for a decision is well formed and of the decision's kind.
LEMMA AppliedEventOK ==
  ASSUME NEW a, DecisionOK(a), NEW now \in Time
  PROVE  EventOK(AppliedEvent(a, now)) /\ (IsUpsert(AppliedEvent(a, now)) <=> IsUpsert(a.event))
<1>1. a.event \in SyncEvent
  BY DEF DecisionOK, EventOK
<1>2. BranchId(a.event.file_id) \in FileId
  BY <1>1 DEF SyncEvent, FileId, BranchId
<1> HIDE DEF BranchId
<1> QED BY <1>1, <1>2 DEF DecisionOK, EventOK, AppliedEvent, SyncEvent, IsUpsert, Origin

\* apply_reconciliation_action keeps a database sound and logs at most the
\* event it built.
LEMMA ApplyActionInv ==
  ASSUME NEW d, DbInv(d), NEW a, DecisionOK(a), NEW now \in Time
  PROVE  LET d2 == apply_reconciliation_action(d, a, now)
         IN DbInv(d2) /\ LogGrows(d, d2, AppliedEvent(a, now))
<1> DEFINE e == AppliedEvent(a, now)
<1>1. EventOK(e) /\ (IsUpsert(e) <=> a.kind # "DeleteLocal")
  BY AppliedEventOK DEF DecisionOK
<1> HIDE DEF e
<1>2. CASE a.kind = "DeleteLocal"
  <2>1. apply_reconciliation_action(d, a, now) = apply_remote_delete(d, e)
    BY <1>2 DEF apply_reconciliation_action, e
  <2>2. DbInv(apply_remote_delete(d, e)) /\ LogGrows(d, apply_remote_delete(d, e), e)
    BY <1>1, <1>2, ApplyDeleteInv
  <2> QED BY <2>1, <2>2 DEF e
<1>3. CASE a.kind \in {"DownloadNeeded", "Conflict"}
  <2>1. apply_reconciliation_action(d, a, now) = apply_remote_upsert(d, e)
    BY <1>3 DEF apply_reconciliation_action, e
  <2>2. DbInv(apply_remote_upsert(d, e)) /\ LogGrows(d, apply_remote_upsert(d, e), e)
    BY <1>1, <1>3, ApplyUpsertInv
  <2> QED BY <2>1, <2>2 DEF e
<1> QED BY <1>2, <1>3 DEF DecisionOK, Effective

---------------------------------------------------------------------------
(* Decisions. *)

\* What a decision keeps of the event it was made on.
Carries(a, e) ==
  /\ a.event.folder_id = e.folder_id /\ a.event.event_type = e.event_type
  /\ a.event.version = e.version /\ a.event.content_hash = e.content_hash
  /\ a.event.origin_node_id = e.origin_node_id
  /\ a.event.relative_path =
       IF a.kind = "Conflict"
         THEN generate_conflict_path(e.relative_path, e.origin_node_id, e.modified_at)
         ELSE e.relative_path

\* Branching off gives a path again.
LEMMA ConflictPathOK ==
  ASSUME NEW e \in SyncEvent
  PROVE  generate_conflict_path(e.relative_path, e.origin_node_id, e.modified_at) \in Path
<1>1. e.relative_path \in [name : Name, marks : Seq(Origin \X Time)]
  BY DEF SyncEvent, Path
<1>2. <<e.origin_node_id, e.modified_at>> \in Origin \X Time
  BY DEF SyncEvent
<1>3. Append(e.relative_path.marks, <<e.origin_node_id, e.modified_at>>)
        \in Seq(Origin \X Time)
  BY <1>1, <1>2
<1> QED BY <1>1, <1>3 DEF generate_conflict_path, Path

\* An effective decision on a well-formed event is well formed, and carries it.
LEMMA DecisionCarries ==
  ASSUME NEW d, DbOK(d), NEW e, EventOK(e), Effective(reconcile_event(d, e))
  PROVE  DecisionOK(reconcile_event(d, e)) /\ Carries(reconcile_event(d, e), e)
<1> DEFINE kind == Decide(d, e)
           a == reconcile_event(d, e)
<1>1. a.kind = kind /\ a.event = Carried(d, e, kind)
      /\ a = [kind |-> kind, event |-> Carried(d, e, kind)]
  BY DEF reconcile_event
<1>2. kind \in {"DownloadNeeded", "DeleteLocal", "Conflict"}
  BY <1>1 DEF Effective
<1>3. (kind = "DeleteLocal") <=> ~IsUpsert(e)
  BY <1>2 DEF Decide, DecideUpsert, DecideDelete
<1>4. kind = "DeleteLocal" => d.files[KeyOf(e)].file_id \in FileId
  BY <1>2 DEF Decide, DecideUpsert, Known, DbOK, RowsOK, FileRecord
<1>5. e \in SyncEvent
  BY DEF EventOK
<1> HIDE DEF kind, a
<1>6. CASE kind = "DownloadNeeded"
  <2>1. a.event = e
    BY <1>1, <1>6 DEF Carried
  <2>2. DecisionOK(a)
    BY <1>1, <1>3, <1>5, <1>6, <2>1
    DEF DecisionOK, ReconciliationAction, ActionKind, Effective
  <2>3. Carries(a, e)
    BY <1>1, <1>6, <2>1 DEF Carries
  <2> QED BY <2>2, <2>3 DEF a
<1>7. CASE kind = "DeleteLocal"
  <2>1. a.event = [e EXCEPT !.file_id = d.files[KeyOf(e)].file_id]
    BY <1>1, <1>7 DEF Carried
  <2>2. a.event \in SyncEvent
    BY <1>4, <1>5, <1>7, <2>1 DEF SyncEvent
  <2>3. Carries(a, e)
    BY <1>1, <1>5, <1>7, <2>1 DEF Carries, SyncEvent
  <2>4. ~IsUpsert(a.event)
    BY <1>3, <1>7, <2>3 DEF Carries, IsUpsert
  <2>5. DecisionOK(a)
    BY <1>1, <1>7, <2>2, <2>4
    DEF DecisionOK, ReconciliationAction, ActionKind, Effective, EventOK
  <2> QED BY <2>3, <2>5 DEF a
<1>8. CASE kind = "Conflict"
  <2> DEFINE p == generate_conflict_path(e.relative_path, e.origin_node_id, e.modified_at)
  <2>1. a.event = [e EXCEPT !.relative_path = p]
    BY <1>1, <1>8 DEF Carried
  <2>2. p \in Path
    BY <1>5, ConflictPathOK
  <2> HIDE DEF p
  <2>3. /\ a.event \in SyncEvent /\ a.event.event_type = e.event_type
        /\ a.event.relative_path = p /\ a.event.version = e.version
        /\ a.event.content_hash = e.content_hash /\ a.event.folder_id = e.folder_id
        /\ a.event.origin_node_id = e.origin_node_id
    BY <1>5, <2>1, <2>2 DEF SyncEvent
  <2>4. IsUpsert(a.event) /\ IsUpsert(e)
    BY <1>3, <1>8, <2>3 DEF IsUpsert
  <2>5. DecisionOK(a)
    BY <1>1, <1>8, <2>3, <2>4
    DEF DecisionOK, ReconciliationAction, ActionKind, Effective, EventOK
  <2>6. Carries(a, e)
    BY <1>1, <1>8, <2>3 DEF Carries, p
  <2> QED BY <2>5, <2>6 DEF a
<1> QED BY <1>2, <1>6, <1>7, <1>8
===========================================================================

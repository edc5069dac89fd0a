---------------------------- MODULE MetadataDb ----------------------------
(***************************************************************************)
(* The metadata database of one node (tusher-metadata/src/db.rs): the      *)
(* shared folders, the catalog of files and the append-only log of sync    *)
(* events.  A database is a value                                          *)
(*                                                                         *)
(*   [folders |-> registered folder ids,                                   *)
(*    files   |-> rows, a function whose domain is the set of known keys,  *)
(*    log     |-> the sync_events table; event_seq is the position]        *)
(*                                                                         *)
(* and each method of MetadataDb that writes is an operator from a         *)
(* database to the database its transaction commits.  A transaction that   *)
(* fails is rolled back and leaves the database as it was.                 *)
(*                                                                         *)
(* Abstractions.  Hash stands for content: equal hashes have equal sizes,  *)
(* so size_bytes is left out; so are filename and created_at, which        *)
(* nothing reads back, and tombstone_at, which is set exactly when         *)
(* is_deleted is.  Paths are already normalised.  event_seq has no gaps:   *)
(* a rolled-back insertion gives its AUTOINCREMENT value back.             *)
(***************************************************************************)
EXTENDS Naturals, Sequences, FiniteSets

CONSTANTS
  Node,       \* node ids
  Folder,     \* shared folder ids
  Name,       \* relative paths as users create them
  Hash,       \* content hashes
  Time,       \* clock readings, in seconds
  Remote,     \* the pseudo node id "remote" of an applied deletion
  EmptyHash   \* the empty content hash of an applied deletion

ASSUME DbAssumption ==
  /\ Remote \notin Node
  /\ EmptyHash \notin Hash
  /\ Time \subseteq Nat

Origin == Node \cup {Remote}

\* A path is a user's name followed by the marks that conflict resolution
\* put on it, innermost first.
Path == [name : Name, marks : Seq(Origin \X Time)]

\* "f_" and a prefix of the content hash the file was first seen with, then
\* one "_conflict" for each time the file was branched off as a conflict.
FileId == [content : Hash, conflicts : Nat]

Key == Folder \X Path

FileRecord ==
  [file_id : FileId, content_hash : Hash, version : Nat,
   origin_node_id : Origin, modified_at : Time, is_deleted : BOOLEAN]

SyncEvent ==
  [folder_id : Folder, file_id : FileId, relative_path : Path,
   event_type : {"UPSERT", "DELETE"}, version : Nat,
   content_hash : Hash \cup {EmptyHash}, origin_node_id : Origin,
   modified_at : Time]

KeyOf(e) == <<e.folder_id, e.relative_path>>

IsUpsert(e) == e.event_type = "UPSERT"

init_schema == [folders |-> {}, files |-> <<>>, log |-> <<>>]

add_folder(db, f) == [db EXCEPT !.folders = @ \cup {f}]

\* A transaction writes the catalog and the log together.
Commit(db, files, log) == [folders |-> db.folders, files |-> files, log |-> log]

Known(db, k) == k \in DOMAIN db.files

Live(db, k) == Known(db, k) /\ ~db.files[k].is_deleted

PutRow(files, k, row) ==
  [j \in DOMAIN files \cup {k} |-> IF j = k THEN row ELSE files[j]]

\* files.file_id is the table's primary key, over every folder and path,
\* while the upserts resolve only a clash on (folder_id, relative_path).
FileIdTaken(files, k, id) ==
  \E j \in DOMAIN files : j # k /\ files[j].file_id = id

UpsertRejected(db, e) == FileIdTaken(db.files, KeyOf(e), e.file_id)

RowOf(e) ==
  [file_id |-> e.file_id, content_hash |-> e.content_hash,
   version |-> e.version, origin_node_id |-> e.origin_node_id,
   modified_at |-> e.modified_at, is_deleted |-> FALSE]

TombstoneRow(row, e) ==
  [row EXCEPT !.is_deleted = TRUE, !.version = e.version,
              !.modified_at = e.modified_at,
              !.origin_node_id = e.origin_node_id]

---------------------------------------------------------------------------
(* Local changes. *)

local_upsert_event(db, n, k, h, now) ==
  [folder_id |-> k[1], relative_path |-> k[2], event_type |-> "UPSERT",
   file_id |-> IF Known(db, k) THEN db.files[k].file_id
                               ELSE [content |-> h, conflicts |-> 0],
   version |-> IF Known(db, k) THEN db.files[k].version + 1 ELSE 1,
   content_hash |-> h, origin_node_id |-> n, modified_at |-> now]

record_local_upsert(db, n, k, h, now) ==
  LET e == local_upsert_event(db, n, k, h, now) IN
  IF UpsertRejected(db, e)
    THEN db
    ELSE Commit(db, PutRow(db.files, k, RowOf(e)), Append(db.log, e))

local_delete_event(db, n, k, now) ==
  [folder_id |-> k[1], relative_path |-> k[2], event_type |-> "DELETE",
   file_id |-> db.files[k].file_id, version |-> db.files[k].version + 1,
   content_hash |-> db.files[k].content_hash, origin_node_id |-> n,
   modified_at |-> now]

record_local_delete(db, n, k, now) ==
  LET e == local_delete_event(db, n, k, now) IN
  IF ~Live(db, k)
    THEN db
    ELSE Commit(db, PutRow(db.files, k, TombstoneRow(db.files[k], e)),
                Append(db.log, e))

---------------------------------------------------------------------------
(* Changes learnt from a peer.  The event is logged again for peers of     *)
(* this node, unless the log already holds it.                             *)

\* Defect: the duplicate check forgets the content.
UpsertLoggedAnyContent(log, e) ==
  \E i \in 1..Len(log) :
    IsUpsert(log[i]) /\ KeyOf(log[i]) = KeyOf(e) /\ log[i].version = e.version

UpsertLogged(log, e) ==
  \E i \in 1..Len(log) :
    /\ IsUpsert(log[i])
    /\ KeyOf(log[i]) = KeyOf(e)
    /\ log[i].version = e.version
    /\ log[i].content_hash = e.content_hash

DeleteLogged(log, e) ==
  \E i \in 1..Len(log) :
    /\ ~IsUpsert(log[i])
    /\ KeyOf(log[i]) = KeyOf(e)
    /\ log[i].version = e.version

\* Defect: the log is compacted to the newest event of the key.
ApplyUpsertCompacting(db, e) ==
  IF UpsertRejected(db, e)
    THEN db
    ELSE Commit(db, PutRow(db.files, KeyOf(e), RowOf(e)),
                Append(SelectSeq(db.log, LAMBDA x : KeyOf(x) # KeyOf(e)), e))

apply_remote_upsert(db, e) ==
  IF UpsertRejected(db, e)
    THEN db
    ELSE Commit(db, PutRow(db.files, KeyOf(e), RowOf(e)),
                IF UpsertLogged(db.log, e) THEN db.log ELSE Append(db.log, e))

\* The UPDATE changes nothing when the key has no row.
apply_remote_delete(db, e) ==
  Commit(db,
         IF Known(db, KeyOf(e))
           THEN PutRow(db.files, KeyOf(e), TombstoneRow(db.files[KeyOf(e)], e))
           ELSE db.files,
         IF DeleteLogged(db.log, e) THEN db.log ELSE Append(db.log, e))

---------------------------------------------------------------------------
(* Manifests. *)

FolderSeqs(db, f) == {i \in 1..Len(db.log) : db.log[i].folder_id = f}

\* MAX(event_seq) over the folder's events, 0 without any.
get_latest_event_seq(db, f) ==
  CHOOSE i \in FolderSeqs(db, f) \cup {0} :
    \A j \in FolderSeqs(db, f) : j <= i

\* The oldest limit events after since, and the newest sequence number of
\* the folder, whether or not the page reaches it.
get_events_since(db, f, since, limit) ==
  LET newer == {i \in FolderSeqs(db, f) : i > since}
      page  == {i \in newer : Cardinality({j \in newer : j < i}) < limit}
  IN [events |-> [i \in page |-> db.log[i]],
      latest_event_seq |-> get_latest_event_seq(db, f)]
---------------------------------------------------------------------------
(* What a sound database is.                                               *)

RowsOK(files) ==
  /\ files = [k \in DOMAIN files |-> files[k]]
  /\ DOMAIN files \subseteq Key
  /\ \A k \in DOMAIN files : files[k] \in FileRecord

\* An upsert in a log or on its way carries content and a real origin.
EventOK(e) ==
  /\ e \in SyncEvent
  /\ IsUpsert(e) => e.content_hash \in Hash /\ e.origin_node_id \in Node

DbOK(d) ==
  /\ d = [folders |-> d.folders, files |-> d.files, log |-> d.log]
  /\ d.folders \subseteq Folder
  /\ RowsOK(d.files)
  /\ d.log \in Seq(SyncEvent)
  /\ \A i \in 1..Len(d.log) : EventOK(d.log[i])

\* The event at position i of the log says what the row of k says.
Backs(log, i, k, row) ==
  /\ KeyOf(log[i]) = k
  /\ log[i].version = row.version
  /\ IsUpsert(log[i]) <=> ~row.is_deleted
  /\ IsUpsert(log[i]) => log[i].content_hash = row.content_hash

LogCovers(d) ==
  \A k \in DOMAIN d.files : \E i \in 1..Len(d.log) : Backs(d.log, i, k, d.files[k])
===========================================================================

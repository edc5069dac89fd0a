---------------------------- MODULE Reconciler ----------------------------
(***************************************************************************)
(* The reconciliation engine (tusher-metadata/src/reconciler.rs) and the   *)
(* application of its decisions (tusher-metadata/src/service.rs).  A       *)
(* decision is [kind, event]: event carries the fields of the remote event *)
(* that the ReconciliationAction keeps.                                    *)
(***************************************************************************)
EXTENDS MetadataDb

ActionKind == {"DownloadNeeded", "DeleteLocal", "Conflict", "UpToDate", "Ignore"}

ReconciliationAction == [kind : ActionKind, event : SyncEvent]

\* "name (Conflict - <node> <timestamp>).ext": the event's origin and time
\* are added to the name.
generate_conflict_path(p, origin, modified_at) ==
  [p EXCEPT !.marks = Append(@, <<origin, modified_at>>)]

\* Defect: a tie of versions also supersedes.
FastForwardOnTie(local, e) ==
  /\ e.version >= local.version
  /\ \/ e.origin_node_id = local.origin_node_id
     \/ local.modified_at < e.modified_at

\* A higher version supersedes the local content when the same node wrote
\* both, or when its clock reading is later.
FastForward(local, e) ==
  /\ e.version > local.version
  /\ \/ e.origin_node_id = local.origin_node_id
     \/ local.modified_at < e.modified_at

\* Defect: a lower version is taken for an ancestor and ignored.
DecideUpsertByVersion(local, e) ==
  IF e.version < local.version THEN "Ignore"
  ELSE IF ~local.is_deleted /\ local.content_hash = e.content_hash THEN "UpToDate"
  ELSE IF local.is_deleted
    THEN IF e.version > local.version THEN "DownloadNeeded" ELSE "Ignore"
    ELSE IF FastForward(local, e) THEN "DownloadNeeded" ELSE "Conflict"

DecideUpsert(local, e) ==
  CASE local.is_deleted ->
         IF e.version > local.version THEN "DownloadNeeded" ELSE "Ignore"
    [] ~local.is_deleted /\ local.content_hash = e.content_hash -> "UpToDate"
    [] ~local.is_deleted /\ local.content_hash # e.content_hash ->
         IF FastForward(local, e) THEN "DownloadNeeded" ELSE "Conflict"

DecideDelete(local, e) ==
  IF ~local.is_deleted /\ e.version >= local.version THEN "DeleteLocal" ELSE "Ignore"

Decide(db, e) ==
  IF Known(db, KeyOf(e))
    THEN IF IsUpsert(e) THEN DecideUpsert(db.files[KeyOf(e)], e)
                        ELSE DecideDelete(db.files[KeyOf(e)], e)
    ELSE IF IsUpsert(e) THEN "DownloadNeeded" ELSE "Ignore"

\* The event a decision carries: a deletion names the local file's id, a
\* conflict the path the remote content is branched off to.
Carried(db, e, kind) ==
  CASE kind = "DeleteLocal" -> [e EXCEPT !.file_id = db.files[KeyOf(e)].file_id]
    [] kind = "Conflict" ->
         [e EXCEPT !.relative_path =
            generate_conflict_path(@, e.origin_node_id, e.modified_at)]
    [] OTHER -> e

reconcile_event(db, e) ==
  [kind |-> Decide(db, e), event |-> Carried(db, e, Decide(db, e))]

\* The file id of a conflict file.
BranchId(id) == [content |-> id.content, conflicts |-> id.conflicts + 1]

\* Defect: branching counts as a change and raises the version.
AppliedEventRaisingVersion(a, now) ==
  [folder_id |-> a.event.folder_id, relative_path |-> a.event.relative_path,
   event_type |-> a.event.event_type, version |-> a.event.version + (IF a.kind = "Conflict" THEN 1 ELSE 0),
   file_id |-> IF a.kind = "Conflict" THEN BranchId(a.event.file_id) ELSE a.event.file_id,
   content_hash |-> IF a.kind = "DeleteLocal" THEN EmptyHash ELSE a.event.content_hash,
   origin_node_id |-> IF a.kind = "DeleteLocal" THEN Remote ELSE a.event.origin_node_id,
   modified_at |-> now]

\* The event that apply_reconciliation_action builds and hands to the
\* database, stamped with this node's clock.
AppliedEvent(a, now) ==
  [folder_id |-> a.event.folder_id, relative_path |-> a.event.relative_path,
   event_type |-> a.event.event_type, version |-> a.event.version,
   file_id |-> IF a.kind = "Conflict" THEN BranchId(a.event.file_id) ELSE a.event.file_id,
   content_hash |-> IF a.kind = "DeleteLocal" THEN EmptyHash ELSE a.event.content_hash,
   origin_node_id |-> IF a.kind = "DeleteLocal" THEN Remote ELSE a.event.origin_node_id,
   modified_at |-> now]

\* UpToDate and Ignore leave the database alone: the version of a row whose
\* content is already there is not raised.
Effective(a) == a.kind \in {"DownloadNeeded", "DeleteLocal", "Conflict"}

\* Defect: every decision takes the upsert path.
ApplyAsUpsert(db, a, now) ==
  IF Effective(a) THEN apply_remote_upsert(db, AppliedEvent(a, now)) ELSE db

apply_reconciliation_action(db, a, now) ==
  CASE a.kind \in {"DownloadNeeded", "Conflict"} ->
         apply_remote_upsert(db, AppliedEvent(a, now))
    [] a.kind = "DeleteLocal" -> apply_remote_delete(db, AppliedEvent(a, now))
    [] OTHER -> db

ApplyFails(db, a, now) ==
  a.kind \in {"DownloadNeeded", "Conflict"} /\ UpsertRejected(db, AppliedEvent(a, now))

---------------------------------------------------------------------------
(* The decisions on a manifest: a function from the event_seqs of those    *)
(* that change something.                                                  *)

Decisions(d, events) ==
  [i \in {j \in DOMAIN events : Effective(reconcile_event(d, events[j]))} |->
     reconcile_event(d, events[i])]

IsFirst(todo, i) == i \in DOMAIN todo /\ \A j \in DOMAIN todo : i <= j

Rest(todo, i) == [j \in DOMAIN todo \ {i} |-> todo[j]]

\* A decision to be carried out: downloads and branches carry upserts.
DecisionOK(a) ==
  /\ a \in ReconciliationAction
  /\ Effective(a)
  /\ EventOK(a.event)
  /\ IsUpsert(a.event) <=> a.kind # "DeleteLocal"
===========================================================================

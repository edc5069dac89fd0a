----------------------------- MODULE Exchange -----------------------------
(***************************************************************************)
(* Two replicas reconcile one file with each other: each fetches the       *)
(* other's event for the file, decides with ReconciliationEngine and       *)
(* applies its decision, the two sides in either order.  Neither side sees *)
(* what the other did with its event; the module asks whether two such     *)
(* independent decisions always fit together.                              *)
(***************************************************************************)
EXTENDS Reconciler

CONSTANTS
  A, B,      \* the two replicas
  K,         \* the key of the file
  Version,   \* the versions that occur
  NoEvent    \* a replica that never heard of the file

ASSUME ExchangeAssumption ==
  /\ A \in Node /\ B \in Node /\ A # B
  /\ K \in Key
  /\ Version \subseteq Nat
  /\ NoEvent \notin SyncEvent

Side == {A, B}

Peer(n) == IF n = A THEN B ELSE A

\* The last event a replica has logged for the file.
Report ==
  [folder_id : {K[1]}, file_id : [content : Hash, conflicts : {0}],
   relative_path : {K[2]}, event_type : {"UPSERT", "DELETE"}, version : Version,
   content_hash : Hash, origin_node_id : Node, modified_at : Time]

VARIABLES
  db,        \* db[n]: the database of n
  manifest,  \* manifest[n]: what n fetched from its peer
  pulled     \* the replicas that have applied their decision

vars == <<db, manifest, pulled>>

\* The database of a replica whose catalog and log show e.
DbOf(e) ==
  IF e = NoEvent
    THEN init_schema
    ELSE [init_schema EXCEPT
            !.files = PutRow(@, K, [RowOf(e) EXCEPT !.is_deleted = ~IsUpsert(e)]),
            !.log = <<e>>]

Init ==
  \E report \in [Side -> Report \cup {NoEvent}] :
    /\ db = [n \in Side |-> DbOf(report[n])]
    /\ manifest = [n \in Side |-> report[Peer(n)]]
    /\ pulled = {}

Pull(n, now) ==
  /\ n \notin pulled
  /\ manifest[n] # NoEvent
  /\ db' = [db EXCEPT ![n] =
              apply_reconciliation_action(@, reconcile_event(@, manifest[n]), now)]
  /\ pulled' = pulled \cup {n}
  /\ UNCHANGED manifest

\* An empty manifest: nothing to decide.
PullNothing(n) ==
  /\ n \notin pulled
  /\ manifest[n] = NoEvent
  /\ pulled' = pulled \cup {n}
  /\ UNCHANGED <<db, manifest>>

Next == \E n \in Side : PullNothing(n) \/ \E now \in Time : Pull(n, now)

Spec == Init /\ [][Next]_vars

---------------------------------------------------------------------------
Content(n) == db[n].files[K].content_hash

\* Where n keeps the content of e as a conflict file.
Branched(n, e) ==
  LET c == <<K[1], generate_conflict_path(K[2], e.origin_node_id, e.modified_at)>> IN
  Live(db[n], c) /\ db[n].files[c].content_hash = e.content_hash

\* The two decisions fit together: afterwards the file is gone on both
\* sides, or both show the same content, or each kept its own content and
\* holds the other's in a conflict file.  In particular the replicas never
\* swap contents, and never does one delete what the other downloads.
DecisionsAgree ==
  pulled = Side =>
    \/ ~Live(db[A], K) /\ ~Live(db[B], K)
    \/ Live(db[A], K) /\ Live(db[B], K) /\ Content(A) = Content(B)
    \/ \A n \in Side :
         /\ Live(db[n], K) /\ Content(n) = manifest[Peer(n)].content_hash
         /\ Branched(n, manifest[n])

\* n showed content before the exchange, and no deletion of at least its
\* version was reported to n.
Kept(n) ==
  LET mine == manifest[Peer(n)] theirs == manifest[n] IN
  /\ mine # NoEvent /\ IsUpsert(mine)
  /\ theirs # NoEvent /\ ~IsUpsert(theirs) => theirs.version < mine.version

\* No data loss: content that a replica showed before the exchange, and
\* that no deletion of its version or a later one removes, is afterwards
\* in the catalog of one of the two, under its own path or as a conflict
\* file.  When one side is fast-forwarded, the other side's decision to
\* branch is all that keeps the replaced content.
NothingLost ==
  pulled = Side =>
    \A n \in Side : Kept(n) =>
      \E m \in Side : \E k \in DOMAIN db[m].files :
        Live(db[m], k) /\ db[m].files[k].content_hash = manifest[Peer(n)].content_hash
===========================================================================

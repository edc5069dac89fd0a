--------------------------- MODULE ExchangeProofs ---------------------------
(***************************************************************************)
(* The decisions that two replicas take on each other's event fit together *)
(* and lose nothing, for all contents, versions, authors and clocks.       *)
(***************************************************************************)
EXTENDS Exchange, TLAPS

\* The catalog d shows content h for the file.
Shows(d, h) == Live(d, K) /\ d.files[K].content_hash = h

\* Where the content of e is branched off to.
ConflictKey(e) == <<K[1], generate_conflict_path(K[2], e.origin_node_id, e.modified_at)>>

Forked(d, e) ==
  Live(d, ConflictKey(e)) /\ d.files[ConflictKey(e)].content_hash = e.content_hash

\* What the catalog d of a replica is that had logged mine and decided on theirs.
Outcome(d, mine, theirs) ==
  IF theirs = NoEvent THEN d = DbOf(mine)
  ELSE CASE Decide(DbOf(mine), theirs) = "DownloadNeeded" -> Shows(d, theirs.content_hash)
         [] Decide(DbOf(mine), theirs) = "DeleteLocal" -> ~Live(d, K)
         [] Decide(DbOf(mine), theirs) = "Conflict" ->
              Shows(d, mine.content_hash) /\ Forked(d, theirs)
         [] OTHER -> d = DbOf(mine)

Mine(n) == manifest[Peer(n)]

\* Every replica has what it started with, or the outcome of its decision.
IInv ==
  /\ DOMAIN db = Side
  /\ manifest \in [Side -> Report \cup {NoEvent}]
  /\ pulled \subseteq Side
  /\ \A n \in Side : IF n \in pulled THEN Outcome(db[n], Mine(n), manifest[n])
                                     ELSE db[n] = DbOf(Mine(n))
---------------------------------------------------------------------------
LEMMA PeerSide ==
  ASSUME NEW n \in Side
  PROVE  Peer(n) \in Side /\ Peer(n) # n /\ Peer(Peer(n)) = n
  BY ExchangeAssumption DEF ExchangeAssumption, Side, Peer

LEMMA ReportFields ==
  ASSUME NEW e \in Report
  PROVE  /\ KeyOf(e) = K /\ e # NoEvent
         /\ e.event_type \in {"UPSERT", "DELETE"}
         /\ e.version \in Nat /\ e.modified_at \in Nat
         /\ e.content_hash \in Hash
         /\ e.file_id.conflicts = 0
         /\ e.folder_id = K[1] /\ e.relative_path = K[2]
<1>1. K \in Folder \X Path
  BY ExchangeAssumption DEF ExchangeAssumption, Key
<1>2. e \in SyncEvent
  <2>1. e.file_id \in FileId
    BY DEF Report, FileId
  <2>2. e = [folder_id |-> e.folder_id, file_id |-> e.file_id,
             relative_path |-> e.relative_path, event_type |-> e.event_type,
             version |-> e.version, content_hash |-> e.content_hash,
             origin_node_id |-> e.origin_node_id, modified_at |-> e.modified_at]
    BY DEF Report
  <2>3. /\ e.folder_id \in Folder /\ e.relative_path \in Path
        /\ e.event_type \in {"UPSERT", "DELETE"} /\ e.modified_at \in Time
    BY <1>1 DEF Report
  <2>4. /\ e.version \in Nat /\ e.content_hash \in Hash \cup {EmptyHash}
        /\ e.origin_node_id \in Origin
    BY ExchangeAssumption DEF ExchangeAssumption, Report, Origin
  <2> QED BY <2>1, <2>2, <2>3, <2>4 DEF SyncEvent
<1>3. e # NoEvent
  BY <1>2, ExchangeAssumption DEF ExchangeAssumption
<1>4. e.version \in Nat /\ e.modified_at \in Nat
  BY ExchangeAssumption, DbAssumption DEF Report, ExchangeAssumption, DbAssumption
<1>5. KeyOf(e) = K
  BY <1>1 DEF Report, KeyOf
<1> QED BY <1>3, <1>4, <1>5 DEF Report

\* The catalog of a replica that logged e has one row.
LEMMA OneRow ==
  ASSUME NEW e \in Report
  PROVE  /\ DOMAIN DbOf(e).files = {K}
         /\ Known(DbOf(e), K)
         /\ DbOf(e).files[K].is_deleted = ~IsUpsert(e)
         /\ DbOf(e).files[K].version = e.version
         /\ DbOf(e).files[K].content_hash = e.content_hash
         /\ DbOf(e).files[K].origin_node_id = e.origin_node_id
         /\ DbOf(e).files[K].modified_at = e.modified_at
         /\ DbOf(e).files[K].file_id = e.file_id
<1> DEFINE row == [RowOf(e) EXCEPT !.is_deleted = ~IsUpsert(e)]
<1>1. DbOf(e).files = PutRow(<<>>, K, row)
  BY ReportFields DEF DbOf, init_schema
<1>2. DOMAIN <<>> = {}
  OBVIOUS
<1>3. PutRow(<<>>, K, row) = [j \in {K} |-> row]
  BY <1>2 DEF PutRow
<1>4. /\ row.is_deleted = ~IsUpsert(e) /\ row.version = e.version
      /\ row.content_hash = e.content_hash /\ row.origin_node_id = e.origin_node_id
      /\ row.modified_at = e.modified_at /\ row.file_id = e.file_id
  BY DEF RowOf
<1>5. DOMAIN DbOf(e).files = {K} /\ DbOf(e).files[K] = row
  <2> HIDE DEF row
  <2> QED BY <1>1, <1>3
<1>6. Known(DbOf(e), K)
  BY <1>5 DEF Known
<1> HIDE DEF row
<1> QED BY <1>4, <1>5, <1>6

LEMMA NoRow == DOMAIN DbOf(NoEvent).files = {} /\ ~Known(DbOf(NoEvent), K)
<1>1. DOMAIN <<>> = {}
  OBVIOUS
<1> QED BY <1>1 DEF DbOf, init_schema, Known
---------------------------------------------------------------------------
(* The decisions, in terms of the two events. *)

Supersedes(theirs, mine) ==
  /\ theirs.version > mine.version
  /\ \/ theirs.origin_node_id = mine.origin_node_id
     \/ mine.modified_at < theirs.modified_at

LEMMA DecideUnknown ==
  ASSUME NEW theirs \in Report
  PROVE  Decide(DbOf(NoEvent), theirs) = IF IsUpsert(theirs) THEN "DownloadNeeded" ELSE "Ignore"
  BY NoRow, ReportFields DEF Decide

LEMMA DecideKnown ==
  ASSUME NEW mine \in Report, NEW theirs \in Report
  PROVE  Decide(DbOf(mine), theirs) =
           IF IsUpsert(theirs)
             THEN IF ~IsUpsert(mine)
                    THEN IF theirs.version > mine.version THEN "DownloadNeeded" ELSE "Ignore"
                    ELSE IF mine.content_hash = theirs.content_hash THEN "UpToDate"
                    ELSE IF Supersedes(theirs, mine) THEN "DownloadNeeded" ELSE "Conflict"
             ELSE IF IsUpsert(mine) /\ theirs.version >= mine.version
                    THEN "DeleteLocal" ELSE "Ignore"
<1> DEFINE row == DbOf(mine).files[K]
<1>1. /\ row.is_deleted = ~IsUpsert(mine) /\ row.version = mine.version
      /\ row.content_hash = mine.content_hash /\ row.origin_node_id = mine.origin_node_id
      /\ row.modified_at = mine.modified_at
  BY OneRow
<1>2. Decide(DbOf(mine), theirs) =
        IF IsUpsert(theirs) THEN DecideUpsert(row, theirs) ELSE DecideDelete(row, theirs)
  BY OneRow, ReportFields DEF Decide
<1>3. FastForward(row, theirs) = Supersedes(theirs, mine)
  BY <1>1 DEF FastForward, Supersedes
<1> HIDE DEF row
<1>4. DecideDelete(row, theirs) =
        IF IsUpsert(mine) /\ theirs.version >= mine.version THEN "DeleteLocal" ELSE "Ignore"
  BY <1>1 DEF DecideDelete, IsUpsert
<1>5. CASE ~IsUpsert(mine)
  <2>1. DecideUpsert(row, theirs) =
          IF theirs.version > mine.version THEN "DownloadNeeded" ELSE "Ignore"
    BY <1>1, <1>5 DEF DecideUpsert
  <2> QED BY <1>2, <1>4, <1>5, <2>1
<1>6. CASE IsUpsert(mine)
  <2>1. DecideUpsert(row, theirs) =
          IF mine.content_hash = theirs.content_hash THEN "UpToDate"
          ELSE IF Supersedes(theirs, mine) THEN "DownloadNeeded" ELSE "Conflict"
    BY <1>1, <1>3, <1>6 DEF DecideUpsert
  <2> QED BY <1>2, <1>4, <1>6, <2>1
<1> QED BY <1>5, <1>6
---------------------------------------------------------------------------
(* What applying a decision makes of the catalog. *)

\* An upsert whose file id no other row has is applied.
LEMMA UpsertApplied ==
  ASSUME NEW d, NEW e, ~FileIdTaken(d.files, KeyOf(e), e.file_id)
  PROVE  apply_remote_upsert(d, e).files = PutRow(d.files, KeyOf(e), RowOf(e))
  BY DEF apply_remote_upsert, UpsertRejected, Commit

LEMMA DownloadOutcome ==
  ASSUME NEW mine \in Report \cup {NoEvent}, NEW theirs \in Report, NEW now,
         Decide(DbOf(mine), theirs) = "DownloadNeeded"
  PROVE  Shows(apply_reconciliation_action(DbOf(mine), reconcile_event(DbOf(mine), theirs), now),
               theirs.content_hash)
<1> DEFINE a == reconcile_event(DbOf(mine), theirs)
           e == AppliedEvent(a, now)
<1>1. a.kind = "DownloadNeeded" /\ a.event = theirs
  BY DEF reconcile_event, Carried
<1>2. KeyOf(e) = K /\ e.content_hash = theirs.content_hash
  BY <1>1, ReportFields DEF AppliedEvent, KeyOf
<1>3. apply_reconciliation_action(DbOf(mine), a, now) = apply_remote_upsert(DbOf(mine), e)
  BY <1>1 DEF apply_reconciliation_action
<1>4. DOMAIN DbOf(mine).files \subseteq {K}
  BY OneRow, NoRow
<1> HIDE DEF e, a
<1>5. ~FileIdTaken(DbOf(mine).files, KeyOf(e), e.file_id)
  BY <1>2, <1>4 DEF FileIdTaken
<1>6. apply_remote_upsert(DbOf(mine), e).files = PutRow(DbOf(mine).files, K, RowOf(e))
  BY <1>2, <1>5, UpsertApplied
<1>7. RowOf(e).content_hash = theirs.content_hash /\ RowOf(e).is_deleted = FALSE
  BY <1>2 DEF RowOf
<1>8. Shows(apply_remote_upsert(DbOf(mine), e), theirs.content_hash)
  BY <1>6, <1>7 DEF Shows, Live, Known, PutRow
<1> QED BY <1>3, <1>8 DEF a

LEMMA DeleteOutcome ==
  ASSUME NEW mine \in Report, NEW theirs \in Report, NEW now,
         Decide(DbOf(mine), theirs) = "DeleteLocal"
  PROVE  ~Live(apply_reconciliation_action(DbOf(mine), reconcile_event(DbOf(mine), theirs), now), K)
<1> DEFINE a == reconcile_event(DbOf(mine), theirs)
           e == AppliedEvent(a, now)
           row == DbOf(mine).files[K]
<1>1. a.kind = "DeleteLocal" /\ a.event.folder_id = K[1] /\ a.event.relative_path = K[2]
  <2>1. a.event = [theirs EXCEPT !.file_id = DbOf(mine).files[KeyOf(theirs)].file_id]
    BY DEF reconcile_event, Carried
  <2>2. theirs.folder_id = K[1] /\ theirs.relative_path = K[2]
    BY ReportFields
  <2>3. a.kind = "DeleteLocal"
    BY DEF reconcile_event
  <2> QED BY <2>1, <2>2, <2>3 DEF Report
<1>2. KeyOf(e) = K
  <2>1. KeyOf(e) = <<K[1], K[2]>>
    BY <1>1 DEF AppliedEvent, KeyOf
  <2> QED BY <2>1, ExchangeAssumption DEF ExchangeAssumption, Key
<1>3. apply_reconciliation_action(DbOf(mine), a, now) = apply_remote_delete(DbOf(mine), e)
  BY <1>1 DEF apply_reconciliation_action
<1>4. Known(DbOf(mine), K) /\ "is_deleted" \in DOMAIN row
  <2>1. row = [RowOf(mine) EXCEPT !.is_deleted = ~IsUpsert(mine)]
    <3>1. DOMAIN <<>> = {}
      OBVIOUS
    <3> QED BY <3>1, ReportFields DEF DbOf, init_schema, PutRow
  <2> QED BY <2>1, OneRow DEF RowOf
<1> HIDE DEF e, a
<1>5. apply_remote_delete(DbOf(mine), e).files = PutRow(DbOf(mine).files, K, TombstoneRow(row, e))
  BY <1>2, <1>4 DEF apply_remote_delete, Commit
<1> HIDE DEF row
<1>6. TombstoneRow(row, e).is_deleted = TRUE
  BY <1>4 DEF TombstoneRow
<1>7. ~Live(apply_remote_delete(DbOf(mine), e), K)
  BY <1>5, <1>6 DEF Live, Known, PutRow
<1> QED BY <1>3, <1>7 DEF a

\* A conflict path is another path.
LEMMA OtherPath ==
  ASSUME NEW theirs
  PROVE  ConflictKey(theirs) # K
<1> DEFINE s == K[2].marks
           m == <<theirs.origin_node_id, theirs.modified_at>>
<1>1. K[2] \in Path /\ s \in Seq(Origin \X Time)
  BY ExchangeAssumption DEF ExchangeAssumption, Key, Path
<1>2. Len(Append(s, m)) = Len(s) + 1 /\ Len(s) \in Nat
  BY <1>1
<1>3. Append(s, m) # s
  BY <1>2
<1>4. generate_conflict_path(K[2], theirs.origin_node_id, theirs.modified_at).marks = Append(s, m)
  BY <1>1 DEF generate_conflict_path, Path
<1>5. ConflictKey(theirs)[2].marks = Append(s, m)
  BY <1>4 DEF ConflictKey
<1> QED BY <1>3, <1>5

LEMMA ConflictOutcome ==
  ASSUME NEW mine \in Report, NEW theirs \in Report, NEW now, IsUpsert(mine),
         Decide(DbOf(mine), theirs) = "Conflict"
  PROVE  LET d == apply_reconciliation_action(
                    DbOf(mine), reconcile_event(DbOf(mine), theirs), now)
         IN Shows(d, mine.content_hash) /\ Forked(d, theirs)
<1> DEFINE a == reconcile_event(DbOf(mine), theirs)
           e == AppliedEvent(a, now)
           c == ConflictKey(theirs)
<1>1. /\ a.kind = "Conflict"
      /\ a.event = [theirs EXCEPT !.relative_path =
                      generate_conflict_path(@, theirs.origin_node_id, theirs.modified_at)]
  BY DEF reconcile_event, Carried
<1>2. /\ a.event.folder_id = K[1] /\ a.event.content_hash = theirs.content_hash
      /\ a.event.file_id = theirs.file_id
      /\ a.event.relative_path =
           generate_conflict_path(K[2], theirs.origin_node_id, theirs.modified_at)
  <2>1. theirs.folder_id = K[1] /\ theirs.relative_path = K[2]
    BY ReportFields
  <2>2. /\ a.event.folder_id = theirs.folder_id
        /\ a.event.content_hash = theirs.content_hash
        /\ a.event.file_id = theirs.file_id
        /\ a.event.relative_path =
             generate_conflict_path(theirs.relative_path, theirs.origin_node_id, theirs.modified_at)
    BY <1>1 DEF Report
  <2> QED BY <2>1, <2>2
<1>3. /\ KeyOf(e) = c /\ e.content_hash = theirs.content_hash
      /\ e.file_id.conflicts = theirs.file_id.conflicts + 1
  BY <1>1, <1>2 DEF AppliedEvent, KeyOf, ConflictKey, BranchId
<1>4. apply_reconciliation_action(DbOf(mine), a, now) = apply_remote_upsert(DbOf(mine), e)
  BY <1>1 DEF apply_reconciliation_action
<1> HIDE DEF e, a
<1>5. ~FileIdTaken(DbOf(mine).files, c, e.file_id)
  <2>1. DbOf(mine).files[K].file_id.conflicts = 0 /\ e.file_id.conflicts = 1
    BY <1>3, OneRow, ReportFields
  <2> QED BY <2>1, OneRow DEF FileIdTaken
<1>6. apply_remote_upsert(DbOf(mine), e).files = PutRow(DbOf(mine).files, c, RowOf(e))
  BY <1>3, <1>5, UpsertApplied
<1>7. RowOf(e).content_hash = theirs.content_hash /\ RowOf(e).is_deleted = FALSE
  BY <1>3 DEF RowOf
<1>8. c # K
  BY OtherPath
<1> HIDE DEF c
<1>9. Shows(apply_remote_upsert(DbOf(mine), e), mine.content_hash)
  BY <1>6, <1>8, OneRow DEF Shows, Live, Known, PutRow
<1>10. Forked(apply_remote_upsert(DbOf(mine), e), theirs)
  BY <1>6, <1>7 DEF Forked, Live, Known, PutRow, c
<1> QED BY <1>4, <1>9, <1>10 DEF a

\* Whatever the decision, applying it has the outcome.
LEMMA DecisionOutcome ==
  ASSUME NEW mine \in Report \cup {NoEvent}, NEW theirs \in Report, NEW now
  PROVE  Outcome(apply_reconciliation_action(DbOf(mine), reconcile_event(DbOf(mine), theirs), now),
                 mine, theirs)
<1> DEFINE kind == Decide(DbOf(mine), theirs)
<1>1. theirs # NoEvent
  BY ReportFields
<1>2. kind \in {"DownloadNeeded", "DeleteLocal", "Conflict", "UpToDate", "Ignore"}
  BY DecideKnown, DecideUnknown
<1>3. CASE kind = "DownloadNeeded"
  BY <1>1, <1>3, DownloadOutcome DEF Outcome
<1>4. CASE kind = "DeleteLocal"
  <2>1. mine \in Report
    BY <1>4, DecideUnknown
  <2> QED BY <1>1, <1>4, <2>1, DeleteOutcome DEF Outcome
<1>5. CASE kind = "Conflict"
  <2>1. mine \in Report
    BY <1>5, DecideUnknown
  <2>2. IsUpsert(mine)
    BY <1>5, <2>1, DecideKnown
  <2> QED BY <1>1, <1>5, <2>1, <2>2, ConflictOutcome DEF Outcome
<1>6. CASE kind \in {"UpToDate", "Ignore"}
  BY <1>1, <1>6 DEF Outcome, apply_reconciliation_action, reconcile_event
<1> QED BY <1>2, <1>3, <1>4, <1>5, <1>6
---------------------------------------------------------------------------
LEMMA InitInv == Init => IInv
<1> SUFFICES ASSUME NEW report \in [Side -> Report \cup {NoEvent}],
                    db = [n \in Side |-> DbOf(report[n])],
                    manifest = [n \in Side |-> report[Peer(n)]],
                    pulled = {}
             PROVE  IInv
  BY DEF Init
<1>1. \A n \in Side : Peer(n) \in Side /\ Peer(Peer(n)) = n
  BY PeerSide
<1>2. \A n \in Side : Mine(n) = report[n]
  BY <1>1 DEF Mine
<1> QED BY <1>1, <1>2 DEF IInv

LEMMA NextInv == IInv /\ [Next]_vars => IInv'
<1> SUFFICES ASSUME IInv, [Next]_vars PROVE IInv'
  OBVIOUS
<1>1. ASSUME NEW n \in Side, NEW now \in Time, Pull(n, now) PROVE IInv'
  <2>1. manifest[n] \in Report /\ Mine(n) \in Report \cup {NoEvent} /\ db[n] = DbOf(Mine(n))
    BY <1>1, PeerSide DEF Pull, IInv, Mine
  <2>2. Outcome(db'[n], Mine(n), manifest[n])
    BY <1>1, <2>1, DecisionOutcome DEF Pull, IInv
  <2>3. \A m \in Side : Mine(m)' = Mine(m)
    BY <1>1 DEF Pull, Mine
  <2>4. \A m \in Side \ {n} : db'[m] = db[m] /\ (m \in pulled' <=> m \in pulled)
    BY <1>1 DEF Pull, IInv
  <2>5. DOMAIN db' = Side /\ manifest' = manifest /\ pulled' = pulled \cup {n}
    BY <1>1 DEF Pull, IInv
  <2>6. ASSUME NEW m \in Side
        PROVE  IF m \in pulled' THEN Outcome(db'[m], Mine(m)', manifest'[m])
                                ELSE db'[m] = DbOf(Mine(m)')
    <3>1. CASE m = n
      BY <2>2, <2>3, <2>5, <3>1
    <3>2. CASE m # n
      BY <2>3, <2>4, <2>5, <3>2 DEF IInv
    <3> QED BY <3>1, <3>2
  <2>7. \A m \in Side : DbOf(Mine(m))' = DbOf(Mine(m)')
        /\ Outcome(db[m], Mine(m), manifest[m])' = Outcome(db'[m], Mine(m)', manifest'[m])
    BY DEF DbOf, Outcome
  <2> QED BY <2>5, <2>6, <2>7 DEF IInv
<1>2. ASSUME NEW n \in Side, PullNothing(n) PROVE IInv'
  <2>1. db' = db /\ manifest' = manifest /\ pulled' = pulled \cup {n} /\ manifest[n] = NoEvent
    BY <1>2 DEF PullNothing
  <2>2. \A m \in Side : Mine(m)' = Mine(m)
    BY <2>1 DEF Mine
  <2>3. Outcome(db[n], Mine(n), manifest[n])
    BY <1>2, <2>1 DEF PullNothing, IInv, Outcome
  <2> QED BY <2>1, <2>2, <2>3 DEF IInv
<1>3. CASE UNCHANGED vars
  BY <1>3 DEF vars, IInv, Mine
<1> QED BY <1>1, <1>2, <1>3 DEF Next

LEMMA AlwaysIInv == Spec => []IInv
  BY InitInv, NextInv, PTL DEF Spec
---------------------------------------------------------------------------
(* Two outcomes together. *)

\* What a replica has that heard nothing, or whose decision changed nothing.
LEMMA Untouched ==
  /\ \A r \in Report : IsUpsert(r) => Shows(DbOf(r), r.content_hash)
  /\ \A r \in Report : ~IsUpsert(r) => ~Live(DbOf(r), K)
  /\ ~Live(DbOf(NoEvent), K)
  BY OneRow, NoRow DEF Shows, Live, Known

\* The outcome of each decision, in terms of the two events.
LEMMA Outcomes ==
  ASSUME NEW mine \in Report \cup {NoEvent}, NEW theirs \in Report \cup {NoEvent}, NEW d,
         Outcome(d, mine, theirs)
  PROVE  /\ theirs = NoEvent => d = DbOf(mine)
         /\ theirs # NoEvent /\ mine = NoEvent =>
              IF IsUpsert(theirs) THEN Shows(d, theirs.content_hash) ELSE ~Live(d, K)
         /\ theirs # NoEvent /\ mine # NoEvent =>
              CASE IsUpsert(theirs) /\ IsUpsert(mine) ->
                     IF mine.content_hash = theirs.content_hash
                       THEN Shows(d, mine.content_hash)
                     ELSE IF Supersedes(theirs, mine) THEN Shows(d, theirs.content_hash)
                     ELSE Shows(d, mine.content_hash) /\ Forked(d, theirs)
                [] IsUpsert(theirs) /\ ~IsUpsert(mine) ->
                     IF theirs.version > mine.version THEN Shows(d, theirs.content_hash)
                                                      ELSE ~Live(d, K)
                [] ~IsUpsert(theirs) /\ IsUpsert(mine) ->
                     IF theirs.version >= mine.version THEN ~Live(d, K)
                                                       ELSE Shows(d, mine.content_hash)
                [] OTHER -> ~Live(d, K)
<1>1. CASE theirs = NoEvent
  BY <1>1 DEF Outcome
<1>2. CASE theirs # NoEvent /\ mine = NoEvent
  <2>1. theirs \in Report
    BY <1>2
  <2>2. CASE IsUpsert(theirs)
    BY <1>2, <2>1, <2>2, DecideUnknown DEF Outcome
  <2>3. CASE ~IsUpsert(theirs)
    <3>1. d = DbOf(NoEvent)
      BY <1>2, <2>1, <2>3, DecideUnknown DEF Outcome
    <3> QED BY <1>2, <2>3, <3>1, Untouched
  <2> QED BY <2>2, <2>3
<1>3. CASE theirs # NoEvent /\ mine # NoEvent
  <2>1. theirs \in Report /\ mine \in Report
    BY <1>3
  <2>2. CASE IsUpsert(theirs) /\ IsUpsert(mine)
    <3>1. CASE mine.content_hash = theirs.content_hash
      <4>1. d = DbOf(mine)
        BY <1>3, <2>1, <2>2, <3>1, DecideKnown DEF Outcome
      <4> QED BY <1>3, <2>1, <2>2, <3>1, <4>1, Untouched
    <3>2. CASE mine.content_hash # theirs.content_hash /\ Supersedes(theirs, mine)
      BY <1>3, <2>1, <2>2, <3>2, DecideKnown DEF Outcome
    <3>3. CASE mine.content_hash # theirs.content_hash /\ ~Supersedes(theirs, mine)
      BY <1>3, <2>1, <2>2, <3>3, DecideKnown DEF Outcome
    <3> QED BY <3>1, <3>2, <3>3
  <2>3. CASE IsUpsert(theirs) /\ ~IsUpsert(mine)
    <3>1. CASE theirs.version > mine.version
      BY <1>3, <2>1, <2>3, <3>1, DecideKnown DEF Outcome
    <3>2. CASE ~(theirs.version > mine.version)
      <4>1. d = DbOf(mine)
        BY <1>3, <2>1, <2>3, <3>2, DecideKnown DEF Outcome
      <4> QED BY <1>3, <2>1, <2>3, <3>2, <4>1, Untouched
    <3> QED BY <3>1, <3>2
  <2>4. CASE ~IsUpsert(theirs) /\ IsUpsert(mine)
    <3>1. CASE theirs.version >= mine.version
      BY <1>3, <2>1, <2>4, <3>1, DecideKnown DEF Outcome
    <3>2. CASE ~(theirs.version >= mine.version)
      <4>1. d = DbOf(mine)
        BY <1>3, <2>1, <2>4, <3>2, DecideKnown DEF Outcome
      <4> QED BY <1>3, <2>1, <2>4, <3>2, <4>1, Untouched
    <3> QED BY <3>1, <3>2
  <2>5. CASE ~IsUpsert(theirs) /\ ~IsUpsert(mine)
    <3>1. d = DbOf(mine)
      BY <1>3, <2>1, <2>5, DecideKnown DEF Outcome
    <3> QED BY <1>3, <2>1, <2>5, <3>1, Untouched
  <2> QED BY <2>2, <2>3, <2>4, <2>5
<1> QED BY <1>1, <1>2, <1>3

\* The two catalogs after the exchange.
Fit(d1, r1, d2, r2) ==
  \/ ~Live(d1, K) /\ ~Live(d2, K)
  \/ \E h : Shows(d1, h) /\ Shows(d2, h)
  \/ /\ Shows(d1, r1.content_hash) /\ Forked(d1, r2)
     /\ Shows(d2, r2.content_hash) /\ Forked(d2, r1)

LEMMA TwoOutcomesFit ==
  ASSUME NEW r1 \in Report \cup {NoEvent}, NEW r2 \in Report \cup {NoEvent},
         NEW d1, NEW d2, Outcome(d1, r1, r2), Outcome(d2, r2, r1)
  PROVE  Fit(d1, r1, d2, r2)
<1>1. CASE r1 = NoEvent /\ r2 = NoEvent
  <2>1. ~Live(d1, K) /\ ~Live(d2, K)
    BY <1>1, Outcomes, Untouched
  <2> QED BY <2>1 DEF Fit
<1>2. CASE r1 = NoEvent /\ r2 # NoEvent
  <2>1. d2 = DbOf(r2) /\ r2 \in Report
    BY <1>2, Outcomes
  <2>2. IF IsUpsert(r2) THEN Shows(d1, r2.content_hash) ELSE ~Live(d1, K)
    BY <1>2, Outcomes
  <2> QED BY <2>1, <2>2, Untouched DEF Fit
<1>3. CASE r1 # NoEvent /\ r2 = NoEvent
  <2>1. d1 = DbOf(r1) /\ r1 \in Report
    BY <1>3, Outcomes
  <2>2. IF IsUpsert(r1) THEN Shows(d2, r1.content_hash) ELSE ~Live(d2, K)
    BY <1>3, Outcomes
  <2> QED BY <2>1, <2>2, Untouched DEF Fit
<1>4. CASE r1 # NoEvent /\ r2 # NoEvent
  <2>1. r1.version \in Nat /\ r2.version \in Nat
    BY <1>4, ReportFields
  <2>2. CASE IsUpsert(r1) /\ IsUpsert(r2)
    <3>1. ~(Supersedes(r1, r2) /\ Supersedes(r2, r1))
      BY <2>1 DEF Supersedes
    <3>2. IF r1.content_hash = r2.content_hash THEN Shows(d1, r1.content_hash)
          ELSE IF Supersedes(r2, r1) THEN Shows(d1, r2.content_hash)
          ELSE Shows(d1, r1.content_hash) /\ Forked(d1, r2)
      BY <1>4, <2>2, Outcomes
    <3>3. IF r2.content_hash = r1.content_hash THEN Shows(d2, r2.content_hash)
          ELSE IF Supersedes(r1, r2) THEN Shows(d2, r1.content_hash)
          ELSE Shows(d2, r2.content_hash) /\ Forked(d2, r1)
      BY <1>4, <2>2, Outcomes
    <3> QED BY <3>1, <3>2, <3>3 DEF Fit
  <2>3. CASE IsUpsert(r1) /\ ~IsUpsert(r2)
    <3>1. IF r2.version >= r1.version THEN ~Live(d1, K) ELSE Shows(d1, r1.content_hash)
      BY <1>4, <2>3, Outcomes
    <3>2. IF r1.version > r2.version THEN Shows(d2, r1.content_hash) ELSE ~Live(d2, K)
      BY <1>4, <2>3, Outcomes
    <3>3. r1.version > r2.version <=> ~(r2.version >= r1.version)
      BY <2>1
    <3> QED BY <3>1, <3>2, <3>3 DEF Fit
  <2>4. CASE ~IsUpsert(r1) /\ IsUpsert(r2)
    <3>1. IF r2.version > r1.version THEN Shows(d1, r2.content_hash) ELSE ~Live(d1, K)
      BY <1>4, <2>4, Outcomes
    <3>2. IF r1.version >= r2.version THEN ~Live(d2, K) ELSE Shows(d2, r2.content_hash)
      BY <1>4, <2>4, Outcomes
    <3>3. r2.version > r1.version <=> ~(r1.version >= r2.version)
      BY <2>1
    <3> QED BY <3>1, <3>2, <3>3 DEF Fit
  <2>5. CASE ~IsUpsert(r1) /\ ~IsUpsert(r2)
    <3>1. ~Live(d1, K) /\ ~Live(d2, K)
      BY <1>4, <2>5, Outcomes
    <3> QED BY <3>1 DEF Fit
  <2> QED BY <2>2, <2>3, <2>4, <2>5
<1> QED BY <1>1, <1>2, <1>3, <1>4

\* DecisionsAgree: two independent decisions never swap contents, and never does
\* one side delete what the other downloads (reconciler.rs:9-130,
\* service.rs:110-187).
THEOREM DecisionsAlwaysAgree == Spec => []DecisionsAgree
<1>1. ASSUME IInv PROVE DecisionsAgree
  <2> SUFFICES ASSUME pulled = Side
               PROVE  \/ ~Live(db[A], K) /\ ~Live(db[B], K)
                      \/ Live(db[A], K) /\ Live(db[B], K) /\ Content(A) = Content(B)
                      \/ \A n \in Side :
                           /\ Live(db[n], K) /\ Content(n) = manifest[Peer(n)].content_hash
                           /\ Branched(n, manifest[n])
    BY DEF DecisionsAgree
  <2>1. A \in Side /\ B \in Side /\ Peer(A) = B /\ Peer(B) = A
    BY ExchangeAssumption DEF ExchangeAssumption, Side, Peer
  <2>2. Fit(db[A], manifest[B], db[B], manifest[A])
    BY <1>1, <2>1, TwoOutcomesFit DEF IInv, Mine
  <2>3. CASE ~Live(db[A], K) /\ ~Live(db[B], K)
    BY <2>3
  <2>4. CASE \E h : Shows(db[A], h) /\ Shows(db[B], h)
    BY <2>4 DEF Shows, Content
  <2>5. CASE /\ Shows(db[A], manifest[B].content_hash) /\ Forked(db[A], manifest[A])
             /\ Shows(db[B], manifest[A].content_hash) /\ Forked(db[B], manifest[B])
    <3>1. \A n \in Side : /\ Live(db[n], K) /\ Content(n) = manifest[Peer(n)].content_hash
                          /\ Forked(db[n], manifest[n])
      BY <2>1, <2>5 DEF Shows, Content, Side
    <3>2. \A n \in Side : Forked(db[n], manifest[n]) => Branched(n, manifest[n])
      BY DEF Forked, Branched, ConflictKey
    <3> QED BY <3>1, <3>2
  <2> QED BY <2>2, <2>3, <2>4, <2>5 DEF Fit
<1> QED BY <1>1, AlwaysIInv, PTL

\* Content that a replica showed and no deletion of at least its version removes
\* is in the catalog of one side afterwards.
LEMMA TwoOutcomesKeep ==
  ASSUME NEW r1 \in Report, NEW r2 \in Report \cup {NoEvent},
         NEW d1, NEW d2, Outcome(d1, r1, r2), Outcome(d2, r2, r1),
         IsUpsert(r1), r2 # NoEvent /\ ~IsUpsert(r2) => r2.version < r1.version
  PROVE  Shows(d1, r1.content_hash) \/ Forked(d2, r1)
<1>1. r1 # NoEvent /\ r1.version \in Nat
  BY ReportFields
<1>2. CASE r2 = NoEvent
  BY <1>2, Outcomes, Untouched
<1>3. CASE r2 # NoEvent /\ ~IsUpsert(r2)
  <2>1. r2.version \in Nat /\ ~(r2.version >= r1.version)
    BY <1>1, <1>3, ReportFields
  <2> QED BY <1>1, <1>3, <2>1, Outcomes
<1>4. CASE r2 # NoEvent /\ IsUpsert(r2)
  <2>1. r2.version \in Nat
    BY <1>4, ReportFields
  <2>2. ~(Supersedes(r1, r2) /\ Supersedes(r2, r1))
    BY <1>1, <2>1 DEF Supersedes
  <2>3. IF r1.content_hash = r2.content_hash THEN Shows(d1, r1.content_hash)
        ELSE IF Supersedes(r2, r1) THEN Shows(d1, r2.content_hash)
        ELSE Shows(d1, r1.content_hash) /\ Forked(d1, r2)
    BY <1>1, <1>4, Outcomes
  <2>4. IF r2.content_hash = r1.content_hash THEN Shows(d2, r2.content_hash)
        ELSE IF Supersedes(r1, r2) THEN Shows(d2, r1.content_hash)
        ELSE Shows(d2, r2.content_hash) /\ Forked(d2, r1)
    BY <1>1, <1>4, Outcomes
  <2> QED BY <2>2, <2>3, <2>4
<1> QED BY <1>2, <1>3, <1>4

\* NothingLost: no content disappears from both sides by their decisions; when
\* one side is fast-forwarded, the other branches (reconciler.rs:83-124).
THEOREM NothingIsLost == Spec => []NothingLost
<1>1. ASSUME IInv PROVE NothingLost
  <2> SUFFICES ASSUME pulled = Side, NEW n \in Side, Kept(n)
               PROVE  \E m \in Side : \E k \in DOMAIN db[m].files :
                        Live(db[m], k) /\ db[m].files[k].content_hash = manifest[Peer(n)].content_hash
    BY DEF NothingLost
  <2> DEFINE r == manifest[Peer(n)]
  <2>1. Peer(n) \in Side /\ Peer(Peer(n)) = n
    BY PeerSide
  <2>2. r \in Report /\ IsUpsert(r) /\ manifest[n] \in Report \cup {NoEvent}
    BY <1>1, <2>1 DEF IInv, Kept
  <2>3. manifest[n] # NoEvent /\ ~IsUpsert(manifest[n]) => manifest[n].version < r.version
    BY DEF Kept
  <2>4. Outcome(db[n], r, manifest[n]) /\ Outcome(db[Peer(n)], manifest[n], r)
    BY <1>1, <2>1 DEF IInv, Mine
  <2>5. Shows(db[n], r.content_hash) \/ Forked(db[Peer(n)], r)
    BY <2>2, <2>3, <2>4, TwoOutcomesKeep
  <2> QED BY <2>1, <2>5 DEF Shows, Forked, Live, Known
<1> QED BY <1>1, AlwaysIInv, PTL
=============================================================================

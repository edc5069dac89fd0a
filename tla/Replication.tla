---------------------------- MODULE Replication ----------------------------
(***************************************************************************)
(* Catalog replication in the mesh: every node's metadata database, the    *)
(* sync sessions of its coordinator (tusher-sync/src/coordinator.rs), and  *)
(* the manifest requests and responses between them.                       *)
(*                                                                         *)
(* A session <<n, m, f>> is node n pulling folder f from peer m.  The      *)
(* in-flight guard admits one session per peer and folder; sessions of one *)
(* node, and its watcher, run concurrently and take the database lock for  *)
(* one call at a time.  A decision is computed for every event of the      *)
(* manifest before any decision is applied, and each is applied under a    *)
(* lock of its own.                                                        *)
(*                                                                         *)
(* Cursors (last_seen_seqs), sessions and channels live in memory; the     *)
(* databases survive a restart.  File data is not in this module: what is  *)
(* replicated here is the catalog.                                         *)
(***************************************************************************)
EXTENDS Reconciler

CONSTANTS
  PageLimit,   \* events per manifest (500 in the code)
  Budget,      \* bound: pairs of the changes users make, over the whole mesh,
               \* and the timeouts, lost connections and restarts with them
  MaxRequests, \* bound: requests and responses of one node to one peer
  MaxMarks     \* bound: conflict marks on one path

ASSUME ReplicationAssumption ==
  /\ PageLimit \in Nat \ {0}
  /\ Budget \subseteq Nat \X Nat /\ <<0, 0>> \in Budget
  /\ MaxRequests \in Nat /\ MaxMarks \in Nat

VARIABLES
  db,         \* db[n]: the metadata database of n
  last_seen,  \* last_seen[<<n, m, f>>]: the cursor of n in m's log for f
  session,    \* session[<<n, m, f>>]: what n's pull of f from m is doing
  requests,   \* requests[<<n, m>>]: ManifestReqs of n on their way to m
  manifests,  \* manifests[<<n, m>>]: ManifestResps of m waiting at n
  edits,      \* changes users have made so far
  faults      \* faults that have happened so far

vars == <<db, last_seen, session, requests, manifests, edits, faults>>

Link == {l \in Node \X Node : l[1] # l[2]}

Session == {s \in Node \X Node \X Folder : s[1] # s[2]}

LinkOf(s) == <<s[1], s[2]>>

\* todo maps the event_seqs still to be handled to their decisions; linked
\* says that the connection the session started on is still up.
Idle == [phase |-> "idle", todo |-> <<>>, latest |-> 0, linked |-> FALSE]

Awaiting == [phase |-> "awaiting", todo |-> <<>>, latest |-> 0, linked |-> TRUE]

Applying(todo, latest) ==
  [phase |-> "applying", todo |-> todo, latest |-> latest, linked |-> TRUE]

Init ==
  /\ db = [n \in Node |-> init_schema]
  /\ last_seen = [s \in Session |-> 0]
  /\ session = [s \in Session |-> Idle]
  /\ requests = [l \in Link |-> <<>>]
  /\ manifests = [l \in Link |-> <<>>]
  /\ edits = 0
  /\ faults = 0

---------------------------------------------------------------------------
(* Folders and local changes. *)

RegisterFolder(n, f) ==
  /\ f \notin db[n].folders
  /\ db' = [db EXCEPT ![n] = add_folder(@, f)]
  /\ UNCHANGED <<last_seen, session, requests, manifests, edits, faults>>

\* Keys a user of n can write: the names, and every file the catalog has.
UserKeys(n) ==
  {<<f, [name |-> x, marks |-> <<>>]>> : f \in db[n].folders, x \in Name}
    \cup DOMAIN db[n].files

\* The watcher worker, or a scan, finds content h at key k.
LocalUpsert(n, k, h, now) ==
  /\ <<edits + 1, faults>> \in Budget
  /\ ~(Live(db[n], k) /\ db[n].files[k].content_hash = h)
  /\ db' = [db EXCEPT ![n] = record_local_upsert(@, n, k, h, now)]
  /\ edits' = edits + 1
  /\ UNCHANGED <<last_seen, session, requests, manifests, faults>>

LocalDelete(n, k, now) ==
  /\ <<edits + 1, faults>> \in Budget
  /\ Live(db[n], k)
  /\ db' = [db EXCEPT ![n] = record_local_delete(@, n, k, now)]
  /\ edits' = edits + 1
  /\ UNCHANGED <<last_seen, session, requests, manifests, faults>>

---------------------------------------------------------------------------
(* A sync session. *)

\* A SyncNotify of s's peer arrives.  It carries the peer's newest
\* event_seq of some earlier moment; the peer repeats it every 5 seconds
\* for every folder it has registered.
StartSync(s) ==
  LET n == s[1] m == s[2] f == s[3] IN
  /\ session[s] = Idle
  /\ f \in db[n].folders /\ f \in db[m].folders
  /\ last_seen[s] < get_latest_event_seq(db[m], f)
  /\ Len(requests[LinkOf(s)]) + Len(manifests[LinkOf(s)]) < MaxRequests
  /\ session' = [session EXCEPT ![s] = Awaiting]
  /\ requests' = [requests EXCEPT ![LinkOf(s)] =
                    Append(@, [folder |-> f, since |-> last_seen[s]])]
  /\ UNCHANGED <<db, last_seen, manifests, edits, faults>>

\* The peer answers the oldest request of the link.
ServeManifest(l) ==
  /\ requests[l] # <<>>
  /\ requests' = [requests EXCEPT ![l] = Tail(@)]
  /\ manifests' = [manifests EXCEPT ![l] =
                     Append(@, get_events_since(db[l[2]], Head(requests[l]).folder,
                                                Head(requests[l]).since, PageLimit))]
  /\ UNCHANGED <<db, last_seen, session, edits, faults>>

\* A waiting session takes the oldest manifest of its link, whichever
\* request it answers, and decides on all its events at once.
ReceiveManifest(s) ==
  LET resp == Head(manifests[LinkOf(s)]) IN
  /\ session[s].phase = "awaiting"
  /\ manifests[LinkOf(s)] # <<>>
  /\ manifests' = [manifests EXCEPT ![LinkOf(s)] = Tail(@)]
  /\ session' = [session EXCEPT ![s] =
                   Applying(Decisions(db[s[1]], resp.events), resp.latest_event_seq)]
  /\ UNCHANGED <<db, last_seen, requests, edits, faults>>

\* i is the next event_seq of the session's loop.
IsNext(s, i) ==
  /\ session[s].phase = "applying"
  /\ IsFirst(session[s].todo, i)

ApplyAction(s, i, now) ==
  /\ IsNext(s, i)
  /\ Len(session[s].todo[i].event.relative_path.marks) <= MaxMarks
  /\ ~ApplyFails(db[s[1]], session[s].todo[i], now)
  /\ db' = [db EXCEPT ![s[1]] = apply_reconciliation_action(@, session[s].todo[i], now)]
  /\ session' = [session EXCEPT ![s].todo = Rest(@, i)]
  /\ UNCHANGED <<last_seen, requests, manifests, edits, faults>>

\* Defect: the error is logged and the cursor advanced.
AbortSkipping(s, i, now) ==
  /\ IsNext(s, i)
  /\ ApplyFails(db[s[1]], session[s].todo[i], now)
  /\ session' = [session EXCEPT ![s] = Idle]
  /\ last_seen' = [last_seen EXCEPT ![s] = session[s].latest]
  /\ UNCHANGED <<db, requests, manifests, edits, faults>>

\* The transaction fails: the session ends with an error, its cursor stays.
AbortOnDbError(s, i, now) ==
  /\ IsNext(s, i)
  /\ ApplyFails(db[s[1]], session[s].todo[i], now)
  /\ session' = [session EXCEPT ![s] = Idle]
  /\ UNCHANGED <<db, last_seen, requests, manifests, edits, faults>>

\* The FilePullReq before a download cannot be sent on a lost connection.
AbortOnSendError(s, i) ==
  /\ IsNext(s, i)
  /\ ~session[s].linked
  /\ session[s].todo[i].kind \in {"DownloadNeeded", "Conflict"}
  /\ session' = [session EXCEPT ![s] = Idle]
  /\ UNCHANGED <<db, last_seen, requests, manifests, edits, faults>>

\* Defect: the cursor is the next expected event_seq.
FinishSyncPastEnd(s) ==
  /\ session[s].phase = "applying"
  /\ DOMAIN session[s].todo = {}
  /\ last_seen' = [last_seen EXCEPT ![s] = session[s].latest + 1]
  /\ session' = [session EXCEPT ![s] = Idle]
  /\ UNCHANGED <<db, requests, manifests, edits, faults>>

\* Defect: the in-flight guard is not released.
FinishSyncInFlight(s) ==
  /\ session[s].phase = "applying"
  /\ DOMAIN session[s].todo = {}
  /\ last_seen' = [last_seen EXCEPT ![s] = session[s].latest]
  /\ UNCHANGED <<db, session, requests, manifests, edits, faults>>

FinishSync(s) ==
  /\ session[s].phase = "applying"
  /\ DOMAIN session[s].todo = {}
  /\ last_seen' = [last_seen EXCEPT ![s] = session[s].latest]
  /\ session' = [session EXCEPT ![s] = Idle]
  /\ UNCHANGED <<db, requests, manifests, edits, faults>>

---------------------------------------------------------------------------
(* Faults. *)

\* Six seconds pass without a manifest.  The request, or its answer, is
\* still on its way.
Timeout(s) ==
  /\ <<edits, faults + 1>> \in Budget
  /\ session[s].phase = "awaiting"
  /\ manifests[LinkOf(s)] = <<>>
  /\ session' = [session EXCEPT ![s] = Idle]
  /\ faults' = faults + 1
  /\ UNCHANGED <<db, last_seen, requests, manifests, edits>>

\* Defect: a session that waits on a lost connection keeps waiting.
SeveredWaiting(ss, lost) ==
  [s \in Session |->
     IF s \in lost /\ ss[s].phase = "applying"
       THEN [ss[s] EXCEPT !.linked = FALSE] ELSE ss[s]]

\* Sessions that wait on a lost connection end; the others keep what they
\* already received.
Severed(ss, lost) ==
  [s \in Session |->
     IF s \notin lost THEN ss[s]
     ELSE IF ss[s].phase = "awaiting" THEN Idle
     ELSE IF ss[s].phase = "applying" THEN [ss[s] EXCEPT !.linked = FALSE]
     ELSE ss[s]]

Drained(channel, lost) == [l \in Link |-> IF l \in lost THEN <<>> ELSE channel[l]]

\* The connection between n and m breaks and is replaced: both ends of the
\* new one start with empty channels.
Disconnect(n, m) ==
  LET ends == {<<n, m>>, <<m, n>>} IN
  /\ <<edits, faults + 1>> \in Budget
  /\ n # m
  /\ session' = Severed(session, {s \in Session : LinkOf(s) \in ends})
  /\ requests' = Drained(requests, ends)
  /\ manifests' = Drained(manifests, ends)
  /\ faults' = faults + 1
  /\ UNCHANGED <<db, last_seen, edits>>

\* The process of n is restarted; folders are registered again from its
\* database.
Restart(n) ==
  LET ends == {l \in Link : n \in {l[1], l[2]}} IN
  /\ <<edits, faults + 1>> \in Budget
  /\ last_seen' = [s \in Session |-> IF s[1] = n THEN 0 ELSE last_seen[s]]
  /\ session' = [s \in Session |->
                   IF s[1] = n THEN Idle
                   ELSE Severed(session, {t \in Session : LinkOf(t) \in ends})[s]]
  /\ requests' = Drained(requests, ends)
  /\ manifests' = Drained(manifests, ends)
  /\ faults' = faults + 1
  /\ UNCHANGED <<db, edits>>

---------------------------------------------------------------------------
SyncStep(s) ==
  \/ StartSync(s)
  \/ ReceiveManifest(s)
  \/ \E i \in DOMAIN session[s].todo :
       \/ \E now \in Time : ApplyAction(s, i, now) \/ AbortOnDbError(s, i, now)
       \/ AbortOnSendError(s, i)
  \/ FinishSync(s)

Next ==
  \/ \E n \in Node, f \in Folder : RegisterFolder(n, f)
  \/ \E n \in Node, now \in Time : \E k \in UserKeys(n) :
       \/ \E h \in Hash : LocalUpsert(n, k, h, now)
       \/ LocalDelete(n, k, now)
  \/ \E s \in Session : SyncStep(s) \/ Timeout(s)
  \/ \E l \in Link : ServeManifest(l)
  \/ \E n, m \in Node : Disconnect(n, m)
  \/ \E n \in Node : Restart(n)

Spec == Init /\ [][Next]_vars

\* The peers repeat their SyncNotify every 5 seconds, so a session that can
\* start does, and the runtime runs every task that is not blocked.
Fairness ==
  /\ \A s \in Session : WF_vars(SyncStep(s))
  /\ \A l \in Link : WF_vars(ServeManifest(l))

FairSpec == Spec /\ Fairness
---------------------------------------------------------------------------
(* Types. *)

EventsOK(events) ==
  DOMAIN events \subseteq Nat /\ \A i \in DOMAIN events : EventOK(events[i])

ManifestOK(resp) == EventsOK(resp.events) /\ resp.latest_event_seq \in Nat

SessionOK(x) ==
  /\ x = [phase |-> x.phase, todo |-> x.todo, latest |-> x.latest, linked |-> x.linked]
  /\ x.phase \in {"idle", "awaiting", "applying"}
  /\ x.latest \in Nat /\ x.linked \in BOOLEAN
  /\ DOMAIN x.todo \subseteq Nat
  /\ \A i \in DOMAIN x.todo : DecisionOK(x.todo[i])

\* The shapes of all state.  In particular a decision to download or to
\* branch always carries an upsert with content and a real origin node, so
\* the placeholders "remote" and "" of an applied deletion
\* (service.rs apply_reconciliation_action) never reach a row as content.
TypeOK ==
  /\ DOMAIN db = Node /\ \A n \in Node : DbOK(db[n])
  /\ last_seen \in [Session -> Nat]
  /\ DOMAIN session = Session /\ \A s \in Session : SessionOK(session[s])
  /\ requests \in [Link -> Seq([folder : Folder, since : Nat])]
  /\ DOMAIN manifests = Link
  /\ \A l \in Link : \A i \in 1..Len(manifests[l]) : ManifestOK(manifests[l][i])
  /\ <<edits, faults>> \in Budget

---------------------------------------------------------------------------
(* What the catalogs promise. *)

\* Every row of a catalog is backed by the node's own log: a live row by
\* the upsert of its version and content, a tombstone by the deletion of
\* its version.  Peers learn of a row only through the log, and
\* apply_remote_upsert / apply_remote_delete skip the append when they
\* believe the event is there already, so this is what lets a relay pass
\* on everything its catalog shows.
LogCoversCatalog == \A n \in Node : LogCovers(db[n])

\* The logs as the abstract specification sees them.
Logs == [n \in Node |-> db[n].log]

ES == INSTANCE EventSourcing WITH logs <- Logs

\* Every step appends at most one event to one log, and that event is a
\* change a user of the node made or reports one that a peer's log already
\* holds: sessions, stale decisions, conflict branches, timeouts and
\* restarts never rewrite a log or put anything else into it.
ImplementsEventSourcing == ES!Spec

\* Every event of every log goes back to a user of the node that made it
\* (see Provenance of EventSourcing).
EventProvenance == ES!Provenance

\* m's events up to the cursor that n keeps for them.
Seen(s) == {i \in FolderSeqs(db[s[2]], s[3]) : i <= last_seen[s]}

\* A cursor never passes an event whose file the node knows nothing about:
\* for every upsert up to last_seen_seqs the catalog has a row, live or
\* tombstone.  Events at or before the cursor are never requested again,
\* so a file passed over is lost to this node.
CursorCoversFiles ==
  \A s \in Session : \A i \in Seen(s) :
    LET e == db[s[2]].log[i] IN IsUpsert(e) => Known(db[s[1]], KeyOf(e))

\* The cursor of a session never points past the peer's log, which would
\* hide the peer's next changes (coordinator.rs: since_seq >= peer_latest_seq).
CursorWithinLog ==
  \A s \in Session : last_seen[s] <= Len(db[s[2]].log)

\* A deletion that a node was told of and passed stays respected: the node
\* does not show an older version of the file as live.
DeletionsRespected ==
  \A s \in Session : \A i \in Seen(s) :
    LET e == db[s[2]].log[i] IN
    ~IsUpsert(e) =>
      ~(Live(db[s[1]], KeyOf(e)) /\ db[s[1]].files[KeyOf(e)].version < e.version)

\* The version of a file never goes back on any node.
VersionsMonotone ==
  [][\A n \in Node : \A k \in DOMAIN db[n].files :
       db'[n].files[k].version >= db[n].files[k].version]_vars

\* What s decides in a ReceiveManifest step: the event, the decision.
DecidedNow(s, i, kind) ==
  /\ session[s].phase = "awaiting" /\ session'[s].phase = "applying"
  /\ i \in DOMAIN Head(manifests[LinkOf(s)]).events
  /\ Decide(db[s[1]], Head(manifests[LinkOf(s)]).events[i]) = kind

\* A change that the node has in its own log already is not concurrent
\* with what the node shows, and is not branched off as a conflict.
ConflictsAreConcurrent ==
  [][\A s \in Session : \A i \in DOMAIN session'[s].todo :
       DecidedNow(s, i, "Conflict") =>
         ~UpsertLogged(db[s[1]].log, Head(manifests[LinkOf(s)]).events[i])]_vars

\* A live file is replaced by a peer's content only if the author of that
\* content had the replaced one.
NoConcurrentOverwrite ==
  [][\A s \in Session : \A i \in DOMAIN session'[s].todo :
       DecidedNow(s, i, "DownloadNeeded") =>
         LET e == Head(manifests[LinkOf(s)]).events[i]
             local == db[s[1]].files[KeyOf(e)]
         IN Live(db[s[1]], KeyOf(e)) =>
              \E j \in 1..Len(db[e.origin_node_id].log) :
                /\ KeyOf(db[e.origin_node_id].log[j]) = KeyOf(e)
                /\ db[e.origin_node_id].log[j].content_hash = local.content_hash]_vars

\* Every creation or modification that is reported to record_local_file
\* leaves an event in the log.
ChangesAreRecorded ==
  [][edits' # edits => \E n \in Node : Len(db'[n].log) > Len(db[n].log)]_vars

\* Once users stop, and faults stop, every node catches up with the log of
\* every peer and stays caught up: relaying, conflict branches and retries
\* do not feed each other for ever, and no session is wedged.
EventuallyCaughtUp ==
  <>[](\A s \in Session :
         s[3] \in db[s[1]].folders \cap db[s[2]].folders =>
           last_seen[s] = get_latest_event_seq(db[s[2]], s[3]))
===========================================================================

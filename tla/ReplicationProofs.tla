------------------------- MODULE ReplicationProofs -------------------------
(***************************************************************************)
(* Proofs about Replication, for any nodes, folders, names, contents,      *)
(* clock readings, page limit and bounds.                                  *)
(***************************************************************************)
EXTENDS Replication, ReconcilerProofs, FiniteSetTheorems

---------------------------------------------------------------------------
(* Decisions and manifests. *)

\* An effective decision on a well-formed event is well formed, and carries
\* an event that reports the same change.
LEMMA ReconcileOK ==
  ASSUME NEW d, DbOK(d), NEW e, EventOK(e), Effective(reconcile_event(d, e))
  PROVE  /\ DecisionOK(reconcile_event(d, e))
         /\ ES!Reports(reconcile_event(d, e).event, e)
<1> DEFINE a == reconcile_event(d, e)
<1>1. DecisionOK(a) /\ Carries(a, e)
  BY DecisionCarries
<1> HIDE DEF a
<1>2. a.kind = "Conflict" => IsUpsert(a.event)
  BY <1>1 DEF DecisionOK
<1>3. ES!Reports(a.event, e)
  BY <1>1, <1>2
  DEF ES!Reports, ES!IsUpsert, ES!KeyOf, IsUpsert, Carries, EventOK, SyncEvent, Path,
      generate_conflict_path
<1> QED BY <1>1, <1>3 DEF a

\* What a decision puts into the log reports what the decision carries.
LEMMA AppliedReports ==
  ASSUME NEW a, DecisionOK(a), NEW now \in Time, NEW w, ES!Reports(a.event, w)
  PROVE  ES!Reports(AppliedEvent(a, now), w)
<1> DEFINE e == AppliedEvent(a, now)
<1>1. /\ e.event_type = a.event.event_type /\ e.version = a.event.version
      /\ e.folder_id = a.event.folder_id /\ e.relative_path = a.event.relative_path
      /\ a.kind # "DeleteLocal" =>
           /\ e.content_hash = a.event.content_hash
           /\ e.origin_node_id = a.event.origin_node_id
  BY DEF AppliedEvent
<1> HIDE DEF e
<1>2. ES!Reports(e, w)
  BY <1>1 DEF ES!Reports, ES!IsUpsert, ES!KeyOf, DecisionOK, IsUpsert
<1> QED BY <1>2 DEF e

\* A manifest quotes the log it was made from.
Quotes(resp, log) ==
  /\ resp.latest_event_seq \in 0..Len(log)
  /\ DOMAIN resp.events \subseteq 1..Len(log)
  /\ \A i \in DOMAIN resp.events : resp.events[i] = log[i]

\* get_events_since answers with a well-formed quotation.
LEMMA EventsSinceQuotes ==
  ASSUME NEW d, DbInv(d), NEW f \in Folder, NEW since \in Nat, NEW limit \in Nat
  PROVE  Quotes(get_events_since(d, f, since, limit), d.log)
<1> DEFINE newer == {i \in FolderSeqs(d, f) : i > since}
           page  == {i \in newer : Cardinality({j \in newer : j < i}) < limit}
           resp  == get_events_since(d, f, since, limit)
<1>1. resp = [events |-> [i \in page |-> d.log[i]],
              latest_event_seq |-> get_latest_event_seq(d, f)]
  BY DEF get_events_since
<1>2. page \subseteq 1..Len(d.log)
  BY DEF FolderSeqs
<1> HIDE DEF page, resp
<1>3. get_latest_event_seq(d, f) \in 0..Len(d.log)
  BY LatestInLog DEF DbInv
<1>4. Quotes(resp, d.log)
  BY <1>1, <1>2, <1>3 DEF Quotes
<1> QED BY <1>4 DEF resp

\* A quotation of a well-formed log is a well-formed manifest.
LEMMA QuotesOK ==
  ASSUME NEW d, DbOK(d), NEW resp, Quotes(resp, d.log)
  PROVE  ManifestOK(resp)
<1>1. Len(d.log) \in Nat
  BY DEF DbOK
<1> QED BY <1>1 DEF Quotes, ManifestOK, EventsOK, DbOK

\* A log only grows, so a quotation stays one.
LEMMA QuotesStable ==
  ASSUME NEW log \in Seq(SyncEvent), NEW e, EventOK(e), NEW resp, Quotes(resp, log)
  PROVE  Quotes(resp, Append(log, e))
<1>1. /\ Len(log) \in Nat /\ Len(Append(log, e)) = Len(log) + 1
      /\ \A j \in 1..Len(log) : Append(log, e)[j] = log[j]
  BY DEF EventOK
<1> QED BY <1>1 DEF Quotes

---------------------------------------------------------------------------
(* The inductive invariant.                                                *)
(*                                                                         *)
(* TypeOK and LogCoversCatalog hold of each database by the lemmas above.  *)
(* That a cursor stays within the peer's log, and that what a session      *)
(* relays is in the peer's log, needs what is in flight between the two:   *)
(* manifests quote the log of the peer that sent them, and the decisions   *)
(* of a session report the events of that log they were made for.          *)

Manifest ==
  [events : UNION {[D -> SyncEvent] : D \in SUBSET Nat}, latest_event_seq : Nat]

\* What a session works on reports the log it pulls from.
SessionQuotes(x, log) ==
  /\ x.latest \in 0..Len(log)
  /\ \A i \in DOMAIN x.todo :
       i \in 1..Len(log) /\ ES!Reports(x.todo[i].event, log[i])

DbsInv == DOMAIN db = Node /\ \A n \in Node : DbInv(db[n])

ChannelsInv ==
  /\ requests \in [Link -> Seq([folder : Folder, since : Nat])]
  /\ manifests \in [Link -> Seq(Manifest)]
  /\ \A l \in Link : \A q \in 1..Len(manifests[l]) :
       Quotes(manifests[l][q], db[l[2]].log)

SessionsInv ==
  /\ DOMAIN session = Session
  /\ \A s \in Session : SessionOK(session[s]) /\ SessionQuotes(session[s], db[s[2]].log)

CursorsInv == last_seen \in [Session -> Nat] /\ CursorWithinLog

CountersInv == <<edits, faults>> \in Budget

IInv == DbsInv /\ ChannelsInv /\ SessionsInv /\ CursorsInv /\ CountersInv

\* The invariant gives the properties it was made for.
LEMMA IInvImplies ==
  ASSUME IInv
  PROVE  TypeOK /\ LogCoversCatalog /\ CursorWithinLog
<1>1. \A n \in Node : DbOK(db[n]) /\ LogCovers(db[n])
  BY DEF IInv, DbsInv, DbInv
<1>2. \A l \in Link : \A q \in 1..Len(manifests[l]) : ManifestOK(manifests[l][q])
  <2> SUFFICES ASSUME NEW l \in Link, NEW q \in 1..Len(manifests[l])
               PROVE  ManifestOK(manifests[l][q])
    OBVIOUS
  <2>1. l[2] \in Node
    BY DEF Link
  <2> QED BY <1>1, <2>1, QuotesOK DEF IInv, ChannelsInv
<1>3. TypeOK
  BY <1>1, <1>2 DEF IInv, DbsInv, ChannelsInv, SessionsInv, CursorsInv, CountersInv, TypeOK
<1> QED BY <1>1, <1>3 DEF IInv, CursorsInv, LogCoversCatalog

\* The log stays, or one well-formed event is appended.
Grown(log, log2) == log2 = log \/ \E e : EventOK(e) /\ log2 = Append(log, e)

\* What quotes a log quotes it after it has grown.
LEMMA GrowthStable ==
  ASSUME NEW log \in Seq(SyncEvent), NEW log2, Grown(log, log2)
  PROVE  /\ Len(log) \in Nat /\ Len(log2) \in Nat /\ Len(log) <= Len(log2)
         /\ \A resp : Quotes(resp, log) => Quotes(resp, log2)
         /\ \A x : SessionQuotes(x, log) => SessionQuotes(x, log2)
<1>1. CASE log2 = log
  BY <1>1
<1>2. CASE log2 # log
  <2>1. PICK e : EventOK(e) /\ log2 = Append(log, e)
    BY <1>2 DEF Grown
  <2>2. /\ Len(log) \in Nat /\ Len(log2) = Len(log) + 1
        /\ \A j \in 1..Len(log) : log2[j] = log[j]
    BY <2>1 DEF EventOK
  <2>3. \A resp : Quotes(resp, log) => Quotes(resp, log2)
    BY <2>1, QuotesStable
  <2>4. \A x : SessionQuotes(x, log) => SessionQuotes(x, log2)
    BY <2>2 DEF SessionQuotes
  <2> QED BY <2>2, <2>3, <2>4
<1> QED BY <1>1, <1>2

\* A step that writes one database soundly, and lets its log only grow,
\* keeps the databases sound and everything that quotes them.
LEMMA DbGrowth ==
  ASSUME DbsInv, NEW n \in Node, NEW d2, DbInv(d2), Grown(db[n].log, d2.log),
         db' = [db EXCEPT ![n] = d2]
  PROVE  /\ DbsInv'
         /\ \A m \in Node :
              /\ Len(db[m].log) \in Nat /\ Len(db'[m].log) \in Nat
              /\ Len(db[m].log) <= Len(db'[m].log)
              /\ \A resp : Quotes(resp, db[m].log) => Quotes(resp, db'[m].log)
              /\ \A x : SessionQuotes(x, db[m].log) => SessionQuotes(x, db'[m].log)
<1>1. DOMAIN db' = Node /\ db'[n] = d2 /\ \A m \in Node \ {n} : db'[m] = db[m]
  BY DEF DbsInv
<1>2. DbsInv'
  BY <1>1 DEF DbsInv
<1>3. \A m \in Node : db[m].log \in Seq(SyncEvent) /\ Grown(db[m].log, db'[m].log)
  BY <1>1 DEF DbsInv, DbInv, DbOK, Grown
<1> QED BY <1>2, <1>3, GrowthStable

\* Initially every database is empty and nothing is in flight.
LEMMA InitIInv ==
  ASSUME Init
  PROVE  IInv
<1>1. DbInv(init_schema)
  <2>1. init_schema.folders = {} /\ init_schema.files = <<>> /\ init_schema.log = <<>>
    BY DEF init_schema
  <2>2. RowsOK(<<>>)
    BY DEF RowsOK
  <2>3. DbOK(init_schema)
    BY <2>1, <2>2 DEF init_schema, DbOK
  <2>4. HasLatest(<<>>)
    BY DEF HasLatest
  <2>5. LogCovers(init_schema)
    BY <2>1 DEF LogCovers
  <2> QED BY <2>1, <2>3, <2>4, <2>5 DEF DbInv
<1>2. DbsInv
  BY <1>1 DEF Init, DbsInv
<1>3. ChannelsInv
  BY DEF Init, ChannelsInv
<1>4. SessionsInv
  <2>1. \A n \in Node : Len(db[n].log) = 0
    BY DEF Init, init_schema
  <2>2. \A s \in Session : s[2] \in Node
    BY DEF Session
  <2>3. SessionOK(Idle) /\ DOMAIN Idle.todo = {} /\ Idle.latest = 0
    BY DEF SessionOK, Idle
  <2> QED BY <2>1, <2>2, <2>3 DEF Init, SessionsInv, SessionQuotes
<1>5. CursorsInv
  <2>1. \A n \in Node : Len(db[n].log) = 0
    BY DEF Init, init_schema
  <2>2. \A s \in Session : s[2] \in Node
    BY DEF Session
  <2> QED BY <2>1, <2>2 DEF Init, CursorsInv, CursorWithinLog
<1>6. CountersInv
  BY ReplicationAssumption DEF Init, CountersInv, ReplicationAssumption
<1> QED BY <1>2, <1>3, <1>4, <1>5, <1>6 DEF IInv

\* A step that writes a database and leaves channels, sessions and cursors.
LEMMA DbStepIInv ==
  ASSUME IInv, NEW n \in Node, NEW d2, DbInv(d2), Grown(db[n].log, d2.log),
         db' = [db EXCEPT ![n] = d2],
         UNCHANGED <<last_seen, session, requests, manifests>>, CountersInv'
  PROVE  IInv'
<1>0. DbsInv
  BY DEF IInv
<1>1. DbsInv'
      /\ \A m \in Node :
           /\ Len(db[m].log) \in Nat /\ Len(db'[m].log) \in Nat
           /\ Len(db[m].log) <= Len(db'[m].log)
           /\ \A resp : Quotes(resp, db[m].log) => Quotes(resp, db'[m].log)
           /\ \A x : SessionQuotes(x, db[m].log) => SessionQuotes(x, db'[m].log)
  BY <1>0, DbGrowth
<1>2. (\A s \in Session : s[2] \in Node) /\ (\A l \in Link : l[2] \in Node)
  BY DEF Session, Link
<1>3. ChannelsInv'
  BY <1>1, <1>2 DEF IInv, ChannelsInv
<1>4. SessionsInv'
  BY <1>1, <1>2 DEF IInv, SessionsInv
<1>5. CursorsInv'
  BY <1>1, <1>2 DEF IInv, CursorsInv, CursorWithinLog
<1> QED BY <1>1, <1>3, <1>4, <1>5 DEF IInv

\* Local steps.
LEMMA LocalStepsIInv ==
  ASSUME IInv, NEW n \in Node,
         \/ \E f \in Folder : RegisterFolder(n, f)
         \/ \E now \in Time, k \in UserKeys(n) :
              \/ \E h \in Hash : LocalUpsert(n, k, h, now)
              \/ LocalDelete(n, k, now)
  PROVE  IInv'
<1>1. DbInv(db[n])
  BY DEF IInv, DbsInv
<1>2. \A k \in UserKeys(n) : k \in Key
  <2>1. db[n].folders \subseteq Folder /\ DOMAIN db[n].files \subseteq Key
    BY <1>1 DEF DbInv, DbOK, RowsOK
  <2>2. \A x \in Name : [name |-> x, marks |-> <<>>] \in Path
    BY DEF Path
  <2> QED BY <2>1, <2>2 DEF UserKeys, Key
<1>3. ASSUME NEW f \in Folder, RegisterFolder(n, f) PROVE IInv'
  <2>1. DbInv(add_folder(db[n], f)) /\ add_folder(db[n], f).log = db[n].log
    BY <1>1, AddFolderInv
  <2>2. db' = [db EXCEPT ![n] = add_folder(db[n], f)]
        /\ UNCHANGED <<last_seen, session, requests, manifests, edits, faults>>
    BY <1>3 DEF RegisterFolder
  <2>3. Grown(db[n].log, add_folder(db[n], f).log)
    BY <2>1 DEF Grown
  <2>4. CountersInv'
    BY <2>2 DEF IInv, CountersInv
  <2> QED BY <2>1, <2>2, <2>3, <2>4, DbStepIInv
<1>4. ASSUME NEW now \in Time, NEW k \in UserKeys(n), NEW h \in Hash,
             LocalUpsert(n, k, h, now)
      PROVE  IInv'
  <2> DEFINE d2 == record_local_upsert(db[n], n, k, h, now)
             e == local_upsert_event(db[n], n, k, h, now)
  <2>1. DbInv(d2) /\ LogGrows(db[n], d2, e) /\ EventOK(e)
    BY <1>1, <1>2, RecordUpsertInv, LocalUpsertEventOK DEF DbInv
  <2>2. Grown(db[n].log, d2.log)
    BY <2>1 DEF Grown, LogGrows
  <2>3. db' = [db EXCEPT ![n] = d2]
        /\ UNCHANGED <<last_seen, session, requests, manifests, faults>>
    BY <1>4 DEF LocalUpsert
  <2>4. CountersInv'
    BY <1>4, ReplicationAssumption
    DEF LocalUpsert, IInv, CountersInv, ReplicationAssumption
  <2> HIDE DEF d2, e
  <2> QED BY <2>1, <2>2, <2>3, <2>4, DbStepIInv
<1>5. ASSUME NEW now \in Time, NEW k \in UserKeys(n), LocalDelete(n, k, now)
      PROVE  IInv'
  <2> DEFINE d2 == record_local_delete(db[n], n, k, now)
             e == local_delete_event(db[n], n, k, now)
  <2>0. Live(db[n], k)
    BY <1>5 DEF LocalDelete
  <2>1. DbInv(d2) /\ LogGrows(db[n], d2, e) /\ EventOK(e)
    BY <1>1, <1>2, <2>0, RecordDeleteInv, LocalDeleteEventOK DEF DbInv
  <2>2. Grown(db[n].log, d2.log)
    BY <2>1 DEF Grown, LogGrows
  <2>3. db' = [db EXCEPT ![n] = d2]
        /\ UNCHANGED <<last_seen, session, requests, manifests, faults>>
    BY <1>5 DEF LocalDelete
  <2>4. CountersInv'
    BY <1>5, ReplicationAssumption
    DEF LocalDelete, IInv, CountersInv, ReplicationAssumption
  <2> HIDE DEF d2, e
  <2> QED BY <2>1, <2>2, <2>3, <2>4, DbStepIInv
<1> QED BY <1>3, <1>4, <1>5

\* A session that is idle or awaiting quotes any log.
LEMMA FreshSession ==
  ASSUME NEW log, Len(log) \in Nat
  PROVE  /\ SessionOK(Idle) /\ SessionQuotes(Idle, log)
         /\ SessionOK(Awaiting) /\ SessionQuotes(Awaiting, log)
<1>1. /\ DOMAIN Idle.todo = {} /\ Idle.latest = 0
      /\ DOMAIN Awaiting.todo = {} /\ Awaiting.latest = 0
  BY DEF Idle, Awaiting
<1>2. SessionOK(Idle) /\ SessionOK(Awaiting)
  BY DEF SessionOK, Idle, Awaiting
<1> QED BY <1>1, <1>2 DEF SessionQuotes

\* Logs are sequences.
LEMMA LogLen ==
  ASSUME DbsInv, NEW n \in Node
  PROVE  Len(db[n].log) \in Nat
  BY DEF DbsInv, DbInv, DbOK

\* A session's peer, and the two nodes of its link.
LEMMA SessionNodes ==
  ASSUME NEW s \in Session
  PROVE  /\ s[1] \in Node /\ s[2] \in Node /\ s[3] \in Folder /\ s[1] # s[2]
         /\ LinkOf(s) \in Link /\ LinkOf(s)[2] = s[2]
  BY DEF Session, Link, LinkOf

\* Any session may be set to a state that is sound for its peer's log.
LEMMA SessionStep ==
  ASSUME DbsInv, SessionsInv, NEW s \in Session, NEW x,
         SessionOK(x), SessionQuotes(x, db[s[2]].log),
         session' = [session EXCEPT ![s] = x], UNCHANGED db
  PROVE  SessionsInv'
  BY DEF SessionsInv

\* What a link's channels hold.
LEMMA ChannelTypes ==
  ASSUME ChannelsInv, NEW l \in Link
  PROVE  /\ requests[l] \in Seq([folder : Folder, since : Nat])
         /\ manifests[l] \in Seq(Manifest)
  BY DEF ChannelsInv

\* Sending on a channel adds one message at the end.
LEMMA SendOK ==
  ASSUME NEW S, NEW q \in Seq(S), NEW x \in S
  PROVE  /\ Append(q, x) \in Seq(S)
         /\ \A i \in 1..Len(Append(q, x)) :
              (i \in 1..Len(q) /\ Append(q, x)[i] = q[i]) \/ Append(q, x)[i] = x
  OBVIOUS

\* Receiving takes the oldest message of a channel.
LEMMA TakeOK ==
  ASSUME NEW S, NEW q \in Seq(S), q # <<>>
  PROVE  /\ Head(q) \in S /\ Head(q) = q[1] /\ 1 \in 1..Len(q)
         /\ Tail(q) \in Seq(S)
         /\ \A i \in 1..Len(Tail(q)) : i + 1 \in 1..Len(q) /\ Tail(q)[i] = q[i + 1]
  OBVIOUS

\* StartSync: the request is well formed.
LEMMA StartSyncIInv ==
  ASSUME IInv, NEW s \in Session, StartSync(s)
  PROVE  IInv'
<1>1. s[2] \in Node /\ s[3] \in Folder /\ LinkOf(s) \in Link
  BY SessionNodes
<1>2. UNCHANGED <<db, last_seen, manifests, edits, faults>>
  BY DEF StartSync
<1>3. SessionsInv'
  <2>1. Len(db[s[2]].log) \in Nat
    BY <1>1, LogLen DEF IInv
  <2>2. session' = [session EXCEPT ![s] = Awaiting]
    BY DEF StartSync
  <2> QED BY <1>2, <2>1, <2>2, FreshSession, SessionStep DEF IInv
<1>4. ChannelsInv'
  <2> DEFINE req == [folder |-> s[3], since |-> last_seen[s]]
  <2>1. req \in [folder : Folder, since : Nat]
    BY <1>1 DEF IInv, CursorsInv
  <2>2. requests' = [requests EXCEPT ![LinkOf(s)] = Append(requests[LinkOf(s)], req)]
    BY DEF StartSync
  <2> HIDE DEF req
  <2>3. Append(requests[LinkOf(s)], req) \in Seq([folder : Folder, since : Nat])
    <3>1. requests[LinkOf(s)] \in Seq([folder : Folder, since : Nat])
      BY <1>1, ChannelTypes DEF IInv
    <3> QED BY <2>1, <3>1, SendOK
  <2>4. requests' \in [Link -> Seq([folder : Folder, since : Nat])]
    BY <1>1, <2>2, <2>3 DEF IInv, ChannelsInv
  <2> QED BY <1>2, <2>4 DEF IInv, ChannelsInv
<1>5. DbsInv' /\ CursorsInv' /\ CountersInv'
  BY <1>2 DEF IInv, DbsInv, CursorsInv, CursorWithinLog, CountersInv
<1> QED BY <1>3, <1>4, <1>5 DEF IInv

\* ServeManifest: the answer quotes the log of the node that gives it.
LEMMA ServeManifestIInv ==
  ASSUME IInv, NEW l \in Link, ServeManifest(l)
  PROVE  IInv'
<1> DEFINE req  == Head(requests[l])
           resp == get_events_since(db[l[2]], req.folder, req.since, PageLimit)
<1>1. l[2] \in Node
  BY DEF Link
<1>2. UNCHANGED <<db, last_seen, session, edits, faults>>
  BY DEF ServeManifest
<1>3. req \in [folder : Folder, since : Nat]
      /\ Tail(requests[l]) \in Seq([folder : Folder, since : Nat])
  <2>1. requests[l] \in Seq([folder : Folder, since : Nat])
    BY ChannelTypes DEF IInv
  <2>2. requests[l] # <<>>
    BY DEF ServeManifest
  <2> QED BY <2>1, <2>2, TakeOK
<1>4. Quotes(resp, db[l[2]].log)
  <2>1. DbInv(db[l[2]])
    BY <1>1 DEF IInv, DbsInv
  <2> QED BY <1>3, <2>1, EventsSinceQuotes, ReplicationAssumption DEF ReplicationAssumption
<1>5. requests' = [requests EXCEPT ![l] = Tail(requests[l])]
      /\ manifests' = [manifests EXCEPT ![l] = Append(manifests[l], resp)]
  BY DEF ServeManifest
<1>6. resp = [events |-> resp.events, latest_event_seq |-> resp.latest_event_seq]
      /\ resp.events = [i \in DOMAIN resp.events |-> resp.events[i]]
  BY DEF get_events_since
<1> HIDE DEF req, resp
<1>7. resp \in Manifest
  <2>1. Len(db[l[2]].log) \in Nat /\ db[l[2]].log \in Seq(SyncEvent)
    BY <1>1 DEF IInv, DbsInv, DbInv, DbOK
  <2>2. DOMAIN resp.events \in SUBSET Nat /\ resp.latest_event_seq \in Nat
    BY <1>4, <2>1 DEF Quotes
  <2>3. resp.events \in [DOMAIN resp.events -> SyncEvent]
    BY <1>4, <1>6, <2>1 DEF Quotes
  <2> QED BY <1>6, <2>2, <2>3 DEF Manifest
<1>8. ChannelsInv'
  <2>1. requests' \in [Link -> Seq([folder : Folder, since : Nat])]
    BY <1>3, <1>5 DEF IInv, ChannelsInv
  <2>2. manifests[l] \in Seq(Manifest)
    BY DEF IInv, ChannelsInv
  <2>3. Append(manifests[l], resp) \in Seq(Manifest)
    BY <1>7, <2>2
  <2>4. manifests' \in [Link -> Seq(Manifest)]
    BY <1>5, <2>3 DEF IInv, ChannelsInv
  <2>5. ASSUME NEW q \in 1..Len(Append(manifests[l], resp))
        PROVE  Quotes(Append(manifests[l], resp)[q], db[l[2]].log)
    BY <1>4, <1>7, <2>2 DEF IInv, ChannelsInv
  <2>6. ASSUME NEW l2 \in Link, NEW q \in 1..Len(manifests'[l2])
        PROVE  Quotes(manifests'[l2][q], db[l2[2]].log)
    <3>1. CASE l2 = l
      BY <1>5, <2>5, <3>1 DEF IInv, ChannelsInv
    <3>2. CASE l2 # l
      BY <1>5, <3>2 DEF IInv, ChannelsInv
    <3> QED BY <3>1, <3>2
  <2> QED BY <1>2, <2>1, <2>4, <2>6 DEF ChannelsInv
<1>9. DbsInv' /\ SessionsInv' /\ CursorsInv' /\ CountersInv'
  BY <1>2 DEF IInv, DbsInv, SessionsInv, CursorsInv, CursorWithinLog, CountersInv
<1> QED BY <1>8, <1>9 DEF IInv

\* The decisions on a manifest that quotes a log are sound for that log.
LEMMA DecisionsOK ==
  ASSUME NEW d, DbOK(d), NEW peer, DbOK(peer), NEW resp, Quotes(resp, peer.log)
  PROVE  LET x == Applying(Decisions(d, resp.events), resp.latest_event_seq)
         IN SessionOK(x) /\ SessionQuotes(x, peer.log)
<1> DEFINE todo == Decisions(d, resp.events)
           x == Applying(todo, resp.latest_event_seq)
<1>1. /\ DOMAIN todo \subseteq DOMAIN resp.events
      /\ \A i \in DOMAIN todo : /\ todo[i] = reconcile_event(d, resp.events[i])
                               /\ Effective(todo[i])
  BY DEF Decisions
<1>2. x = [phase |-> "applying", todo |-> todo, latest |-> resp.latest_event_seq,
           linked |-> TRUE]
  BY DEF Applying
<1> HIDE DEF todo, x
<1>3. Len(peer.log) \in Nat /\ \A i \in 1..Len(peer.log) : EventOK(peer.log[i])
  BY DEF DbOK
<1>4. ASSUME NEW i \in DOMAIN todo
      PROVE  /\ i \in 1..Len(peer.log)
             /\ DecisionOK(todo[i])
             /\ ES!Reports(todo[i].event, peer.log[i])
  <2>1. i \in 1..Len(peer.log) /\ resp.events[i] = peer.log[i]
    BY <1>1 DEF Quotes
  <2>2. EventOK(peer.log[i])
    BY <1>3, <2>1
  <2>3. todo[i] = reconcile_event(d, peer.log[i]) /\ Effective(todo[i])
    BY <1>1, <2>1
  <2> QED BY <2>1, <2>2, <2>3, ReconcileOK
<1>5. resp.latest_event_seq \in 0..Len(peer.log)
  BY DEF Quotes
<1>6. SessionOK(x)
  BY <1>2, <1>3, <1>4, <1>5 DEF SessionOK
<1>7. SessionQuotes(x, peer.log)
  BY <1>2, <1>4, <1>5 DEF SessionQuotes
<1> QED BY <1>6, <1>7 DEF x, todo

\* ReceiveManifest: the session works on what the manifest quotes.
LEMMA ReceiveManifestIInv ==
  ASSUME IInv, NEW s \in Session, ReceiveManifest(s)
  PROVE  IInv'
<1> DEFINE l == LinkOf(s)
           resp == Head(manifests[l])
           x == Applying(Decisions(db[s[1]], resp.events), resp.latest_event_seq)
<1>1. s[1] \in Node /\ s[2] \in Node /\ l \in Link /\ l[2] = s[2]
  BY SessionNodes
<1>2. /\ UNCHANGED <<db, last_seen, requests, edits, faults>>
      /\ manifests[l] # <<>>
      /\ manifests' = [manifests EXCEPT ![l] = Tail(manifests[l])]
      /\ session' = [session EXCEPT ![s] = x]
  BY DEF ReceiveManifest
<1>3. manifests[l] \in Seq(Manifest)
  BY <1>1, ChannelTypes DEF IInv
<1>4. /\ resp = manifests[l][1] /\ 1 \in 1..Len(manifests[l])
      /\ Tail(manifests[l]) \in Seq(Manifest)
      /\ \A i \in 1..Len(Tail(manifests[l])) :
           i + 1 \in 1..Len(manifests[l]) /\ Tail(manifests[l])[i] = manifests[l][i + 1]
  BY <1>2, <1>3, TakeOK
<1>5. \A q \in 1..Len(manifests[l]) : Quotes(manifests[l][q], db[s[2]].log)
  BY <1>1 DEF IInv, ChannelsInv
<1>6. SessionOK(x) /\ SessionQuotes(x, db[s[2]].log)
  <2>1. DbOK(db[s[1]]) /\ DbOK(db[s[2]])
    BY <1>1 DEF IInv, DbsInv, DbInv
  <2>2. Quotes(resp, db[s[2]].log)
    BY <1>4, <1>5
  <2> HIDE DEF resp
  <2> QED BY <2>1, <2>2, DecisionsOK
<1> HIDE DEF x, resp, l
<1>7. SessionsInv'
  BY <1>2, <1>6, SessionStep DEF IInv
<1>8. ChannelsInv'
  <2>1. manifests' \in [Link -> Seq(Manifest)]
    BY <1>1, <1>2, <1>4 DEF IInv, ChannelsInv
  <2>2. ASSUME NEW l2 \in Link, NEW q \in 1..Len(manifests'[l2])
        PROVE  Quotes(manifests'[l2][q], db[l2[2]].log)
    <3>1. CASE l2 = l
      <4>1. manifests'[l2] = Tail(manifests[l])
        BY <1>2, <3>1 DEF IInv, ChannelsInv
      <4> QED BY <1>1, <1>4, <1>5, <3>1, <4>1
    <3>2. CASE l2 # l
      BY <1>2, <3>2 DEF IInv, ChannelsInv
    <3> QED BY <3>1, <3>2
  <2> QED BY <1>2, <2>1, <2>2 DEF IInv, ChannelsInv
<1>9. DbsInv' /\ CursorsInv' /\ CountersInv'
  BY <1>2 DEF IInv, DbsInv, CursorsInv, CursorWithinLog, CountersInv
<1> QED BY <1>7, <1>8, <1>9 DEF IInv

\* A session with one decision less is as sound.
LEMMA RestOK ==
  ASSUME NEW x, SessionOK(x), NEW log, SessionQuotes(x, log), NEW i
  PROVE  LET y == [x EXCEPT !.todo = Rest(x.todo, i)]
         IN SessionOK(y) /\ SessionQuotes(y, log)
<1> DEFINE todo == Rest(x.todo, i)
           y == [x EXCEPT !.todo = todo]
<1>1. DOMAIN todo \subseteq DOMAIN x.todo /\ \A j \in DOMAIN todo : todo[j] = x.todo[j]
  BY DEF Rest
<1> HIDE DEF todo
<1>2. y = [phase |-> x.phase, todo |-> todo, latest |-> x.latest, linked |-> x.linked]
  BY DEF SessionOK
<1> HIDE DEF y
<1>3. SessionOK(y)
  BY <1>1, <1>2 DEF SessionOK
<1>4. SessionQuotes(y, log)
  BY <1>1, <1>2 DEF SessionQuotes
<1> QED BY <1>3, <1>4 DEF y, todo

\* ApplyAction: the database stays sound, and the log grows by the event
\* the decision was applied with.
LEMMA ApplyActionIInv ==
  ASSUME IInv, NEW s \in Session, NEW i \in DOMAIN session[s].todo, NEW now \in Time,
         ApplyAction(s, i, now)
  PROVE  IInv'
<1> DEFINE n == s[1]
           a == session[s].todo[i]
           d2 == apply_reconciliation_action(db[n], a, now)
           y == [session[s] EXCEPT !.todo = Rest(session[s].todo, i)]
<1>1. n \in Node /\ s[2] \in Node /\ n # s[2]
  BY SessionNodes
<1>2. /\ UNCHANGED <<last_seen, requests, manifests, edits, faults>>
      /\ db' = [db EXCEPT ![n] = d2]
      /\ session' = [session EXCEPT ![s] = y]
  BY DEF ApplyAction
<1>3. DecisionOK(a) /\ SessionOK(session[s]) /\ SessionQuotes(session[s], db[s[2]].log)
  BY DEF IInv, SessionsInv, SessionOK
<1>4. DbInv(d2) /\ Grown(db[n].log, d2.log)
  <2>1. DbInv(db[n])
    BY <1>1 DEF IInv, DbsInv
  <2>2. DbInv(d2) /\ LogGrows(db[n], d2, AppliedEvent(a, now))
    BY <1>3, <2>1, ApplyActionInv
  <2>3. EventOK(AppliedEvent(a, now))
    BY <1>3, AppliedEventOK
  <2> QED BY <2>2, <2>3 DEF LogGrows, Grown
<1>5. SessionOK(y) /\ SessionQuotes(y, db[s[2]].log)
  BY <1>3, RestOK
<1> HIDE DEF d2, y, a
<1>6. DbsInv'
      /\ \A m \in Node :
           /\ Len(db[m].log) \in Nat /\ Len(db'[m].log) \in Nat
           /\ Len(db[m].log) <= Len(db'[m].log)
           /\ \A resp : Quotes(resp, db[m].log) => Quotes(resp, db'[m].log)
           /\ \A x : SessionQuotes(x, db[m].log) => SessionQuotes(x, db'[m].log)
  <2>1. DbsInv
    BY DEF IInv
  <2> QED BY <1>1, <1>2, <1>4, <2>1, DbGrowth
<1>7. (\A t \in Session : t[2] \in Node) /\ (\A l \in Link : l[2] \in Node)
  BY DEF Session, Link
<1>8. ChannelsInv'
  BY <1>2, <1>6, <1>7 DEF IInv, ChannelsInv
<1>9. SessionsInv'
  <2>1. DOMAIN session' = Session /\ session'[s] = y
        /\ \A t \in Session \ {s} : session'[t] = session[t]
    BY <1>2 DEF IInv, SessionsInv
  <2>2. ASSUME NEW t \in Session
        PROVE  SessionOK(session'[t]) /\ SessionQuotes(session'[t], db'[t[2]].log)
    <3>1. CASE t = s
      BY <1>5, <1>6, <1>7, <2>1, <3>1
    <3>2. CASE t # s
      BY <1>6, <1>7, <2>1, <3>2 DEF IInv, SessionsInv
    <3> QED BY <3>1, <3>2
  <2> QED BY <2>1, <2>2 DEF SessionsInv
<1>10. CursorsInv'
  BY <1>2, <1>6, <1>7 DEF IInv, CursorsInv, CursorWithinLog
<1>11. CountersInv'
  BY <1>2 DEF IInv, CountersInv
<1> QED BY <1>6, <1>8, <1>9, <1>10, <1>11 DEF IInv

\* A session that ends without moving its cursor: AbortOnDbError,
\* AbortOnSendError, Timeout.
LEMMA SessionEndsIInv ==
  ASSUME IInv, NEW s \in Session, session' = [session EXCEPT ![s] = Idle],
         UNCHANGED <<db, last_seen, requests, manifests>>, CountersInv'
  PROVE  IInv'
<1>1. Len(db[s[2]].log) \in Nat
  BY SessionNodes, LogLen DEF IInv
<1>2. SessionsInv'
  BY <1>1, FreshSession, SessionStep DEF IInv
<1>3. DbsInv' /\ ChannelsInv' /\ CursorsInv'
  BY DEF IInv, DbsInv, ChannelsInv, CursorsInv, CursorWithinLog
<1> QED BY <1>2, <1>3 DEF IInv

\* FinishSync: the new cursor is the newest event_seq of the manifest.
LEMMA FinishSyncIInv ==
  ASSUME IInv, NEW s \in Session, FinishSync(s)
  PROVE  IInv'
<1>1. /\ UNCHANGED <<db, requests, manifests, edits, faults>>
      /\ last_seen' = [last_seen EXCEPT ![s] = session[s].latest]
      /\ session' = [session EXCEPT ![s] = Idle]
  BY DEF FinishSync
<1>2. Len(db[s[2]].log) \in Nat
  BY SessionNodes, LogLen DEF IInv
<1>3. session[s].latest \in 0..Len(db[s[2]].log)
  BY DEF IInv, SessionsInv, SessionQuotes
<1>4. SessionsInv'
  BY <1>1, <1>2, FreshSession, SessionStep DEF IInv
<1>5. CursorsInv'
  BY <1>1, <1>2, <1>3 DEF IInv, CursorsInv, CursorWithinLog
<1>6. DbsInv' /\ ChannelsInv' /\ CountersInv'
  BY <1>1 DEF IInv, DbsInv, ChannelsInv, CountersInv
<1> QED BY <1>4, <1>5, <1>6 DEF IInv

\* So is a session whose connection is lost.
LEMMA UnlinkOK ==
  ASSUME NEW x, SessionOK(x), NEW log, SessionQuotes(x, log)
  PROVE  LET y == [x EXCEPT !.linked = FALSE] IN SessionOK(y) /\ SessionQuotes(y, log)
<1> DEFINE b == FALSE
           y == [x EXCEPT !.linked = b]
<1>1. b \in BOOLEAN
  OBVIOUS
<1> HIDE DEF b
<1>2. y = [phase |-> x.phase, todo |-> x.todo, latest |-> x.latest, linked |-> b]
  BY DEF SessionOK
<1> HIDE DEF y
<1>3. SessionOK(y)
  BY <1>1, <1>2 DEF SessionOK
<1>4. SessionQuotes(y, log)
  BY <1>2 DEF SessionQuotes
<1> QED BY <1>3, <1>4 DEF y, b

\* A lost connection leaves sound sessions.
LEMMA SeveredOK ==
  ASSUME DbsInv, SessionsInv, NEW lost, NEW s \in Session
  PROVE  LET x == Severed(session, lost)[s]
         IN SessionOK(x) /\ SessionQuotes(x, db[s[2]].log)
<1> DEFINE y == [session[s] EXCEPT !.linked = FALSE]
<1>1. SessionOK(session[s]) /\ SessionQuotes(session[s], db[s[2]].log)
  BY DEF SessionsInv
<1>2. SessionOK(Idle) /\ SessionQuotes(Idle, db[s[2]].log)
  BY SessionNodes, LogLen, FreshSession
<1>3. SessionOK(y) /\ SessionQuotes(y, db[s[2]].log)
  BY <1>1, UnlinkOK
<1> HIDE DEF y
<1>4. Severed(session, lost)[s] \in {session[s], Idle, y}
  BY DEF Severed, y
<1> QED BY <1>1, <1>2, <1>3, <1>4

\* Emptied channels are sound.
LEMMA DrainedOK ==
  ASSUME ChannelsInv, NEW lost, UNCHANGED db,
         requests' = Drained(requests, lost), manifests' = Drained(manifests, lost)
  PROVE  ChannelsInv'
<1>1. \A l \in Link : /\ requests'[l] \in {requests[l], <<>>}
                      /\ manifests'[l] \in {manifests[l], <<>>}
  BY DEF Drained
<1>2. requests' = [l \in Link |-> requests'[l]] /\ manifests' = [l \in Link |-> manifests'[l]]
  BY DEF Drained
<1>3. \A S : <<>> \in Seq(S)
  OBVIOUS
<1>4. \A l \in Link : /\ requests'[l] \in Seq([folder : Folder, since : Nat])
                      /\ manifests'[l] \in Seq(Manifest)
  BY <1>1, <1>3, ChannelTypes
<1> DEFINE Requests == Seq([folder : Folder, since : Nat])
           Manifests == Seq(Manifest)
<1>5. requests' \in [Link -> Requests] /\ manifests' \in [Link -> Manifests]
  <2> HIDE DEF Requests, Manifests
  <2>1. \A l \in Link : requests'[l] \in Requests /\ manifests'[l] \in Manifests
    BY <1>4 DEF Requests, Manifests
  <2> QED BY <1>2, <2>1
<1>6. ASSUME NEW l \in Link, NEW q \in 1..Len(manifests'[l])
      PROVE  Quotes(manifests'[l][q], db[l[2]].log)
  BY <1>1, <1>6 DEF ChannelsInv
<1> QED BY <1>5, <1>6 DEF ChannelsInv

\* Disconnect.
LEMMA DisconnectIInv ==
  ASSUME IInv, NEW n \in Node, NEW m \in Node, Disconnect(n, m)
  PROVE  IInv'
<1> DEFINE ends == {<<n, m>>, <<m, n>>}
           lost == {s \in Session : LinkOf(s) \in ends}
<1>1. /\ UNCHANGED <<db, last_seen, edits>>
      /\ session' = Severed(session, lost)
      /\ requests' = Drained(requests, ends) /\ manifests' = Drained(manifests, ends)
      /\ <<edits, faults + 1>> \in Budget /\ faults' = faults + 1
  BY DEF Disconnect
<1> HIDE DEF ends, lost
<1>2. SessionsInv'
  <2>1. \A s \in Session : SessionOK(session'[s]) /\ SessionQuotes(session'[s], db[s[2]].log)
    BY <1>1, SeveredOK DEF IInv
  <2>2. DOMAIN session' = Session
    BY <1>1 DEF Severed
  <2> QED BY <1>1, <2>1, <2>2 DEF SessionsInv
<1>3. ChannelsInv'
  BY <1>1, DrainedOK DEF IInv
<1>4. DbsInv' /\ CursorsInv'
  BY <1>1 DEF IInv, DbsInv, CursorsInv, CursorWithinLog
<1>5. CountersInv'
  BY <1>1, ReplicationAssumption DEF IInv, CountersInv, ReplicationAssumption
<1> QED BY <1>2, <1>3, <1>4, <1>5 DEF IInv

\* Restart: the cursors start again from 0.
LEMMA RestartIInv ==
  ASSUME IInv, NEW n \in Node, Restart(n)
  PROVE  IInv'
<1> DEFINE ends == {l \in Link : n \in {l[1], l[2]}}
           lost == {t \in Session : LinkOf(t) \in ends}
<1>1. /\ UNCHANGED <<db, edits>>
      /\ last_seen' = [s \in Session |-> IF s[1] = n THEN 0 ELSE last_seen[s]]
      /\ session' = [s \in Session |-> IF s[1] = n THEN Idle ELSE Severed(session, lost)[s]]
      /\ requests' = Drained(requests, ends) /\ manifests' = Drained(manifests, ends)
      /\ <<edits, faults + 1>> \in Budget /\ faults' = faults + 1
  BY DEF Restart
<1> HIDE DEF ends, lost
<1>2. \A s \in Session : Len(db[s[2]].log) \in Nat
  BY SessionNodes, LogLen DEF IInv
<1>3. SessionsInv'
  <2>1. ASSUME NEW s \in Session
        PROVE  SessionOK(session'[s]) /\ SessionQuotes(session'[s], db[s[2]].log)
    <3>1. session'[s] \in {Idle, Severed(session, lost)[s]}
      BY <1>1
    <3>2. SessionOK(Idle) /\ SessionQuotes(Idle, db[s[2]].log)
      BY <1>2, FreshSession
    <3>3. SessionOK(Severed(session, lost)[s])
          /\ SessionQuotes(Severed(session, lost)[s], db[s[2]].log)
      BY SeveredOK DEF IInv
    <3> QED BY <3>1, <3>2, <3>3
  <2>2. DOMAIN session' = Session
    BY <1>1
  <2> QED BY <1>1, <2>1, <2>2 DEF SessionsInv
<1>4. ChannelsInv'
  BY <1>1, DrainedOK DEF IInv
<1>5. CursorsInv'
  BY <1>1, <1>2 DEF IInv, CursorsInv, CursorWithinLog
<1>6. DbsInv'
  BY <1>1 DEF IInv, DbsInv
<1>7. CountersInv'
  BY <1>1, ReplicationAssumption DEF IInv, CountersInv, ReplicationAssumption
<1> QED BY <1>3, <1>4, <1>5, <1>6, <1>7 DEF IInv

\* Every step keeps the invariant.
LEMMA NextIInv ==
  ASSUME IInv, [Next]_vars
  PROVE  IInv'
<1>1. ASSUME NEW n \in Node, NEW f \in Folder, RegisterFolder(n, f) PROVE IInv'
  BY <1>1, LocalStepsIInv
<1>2. ASSUME NEW n \in Node, NEW now \in Time, NEW k \in UserKeys(n), NEW h \in Hash,
             LocalUpsert(n, k, h, now)
      PROVE  IInv'
  BY <1>2, LocalStepsIInv
<1>3. ASSUME NEW n \in Node, NEW now \in Time, NEW k \in UserKeys(n), LocalDelete(n, k, now)
      PROVE  IInv'
  BY <1>3, LocalStepsIInv
<1>4. ASSUME NEW s \in Session, StartSync(s) PROVE IInv'
  BY <1>4, StartSyncIInv
<1>5. ASSUME NEW s \in Session, ReceiveManifest(s) PROVE IInv'
  BY <1>5, ReceiveManifestIInv
<1>6. ASSUME NEW s \in Session, NEW i \in DOMAIN session[s].todo, NEW now \in Time,
             ApplyAction(s, i, now)
      PROVE  IInv'
  BY <1>6, ApplyActionIInv
<1>7. ASSUME NEW s \in Session, NEW i, NEW now, AbortOnDbError(s, i, now) PROVE IInv'
  <2>1. CountersInv'
    BY <1>7 DEF AbortOnDbError, IInv, CountersInv
  <2> QED BY <1>7, <2>1, SessionEndsIInv DEF AbortOnDbError
<1>8. ASSUME NEW s \in Session, NEW i, AbortOnSendError(s, i) PROVE IInv'
  <2>1. CountersInv'
    BY <1>8 DEF AbortOnSendError, IInv, CountersInv
  <2> QED BY <1>8, <2>1, SessionEndsIInv DEF AbortOnSendError
<1>9. ASSUME NEW s \in Session, FinishSync(s) PROVE IInv'
  BY <1>9, FinishSyncIInv
<1>10. ASSUME NEW s \in Session, Timeout(s) PROVE IInv'
  <2>1. CountersInv'
    BY <1>10, ReplicationAssumption DEF Timeout, IInv, CountersInv, ReplicationAssumption
  <2> QED BY <1>10, <2>1, SessionEndsIInv DEF Timeout
<1>11. ASSUME NEW l \in Link, ServeManifest(l) PROVE IInv'
  BY <1>11, ServeManifestIInv
<1>12. ASSUME NEW n \in Node, NEW m \in Node, Disconnect(n, m) PROVE IInv'
  BY <1>12, DisconnectIInv
<1>13. ASSUME NEW n \in Node, Restart(n) PROVE IInv'
  BY <1>13, RestartIInv
<1>14. CASE UNCHANGED vars
  BY <1>14 DEF vars, IInv, DbsInv, ChannelsInv, SessionsInv, CursorsInv, CursorWithinLog,
               CountersInv
<1>15. CASE Next
  BY <1>15, <1>1, <1>2, <1>3, <1>4, <1>5, <1>6, <1>7, <1>8, <1>9, <1>10, <1>11, <1>12, <1>13
  DEF Next, SyncStep
<1> QED BY <1>14, <1>15

\* The invariant holds in every reachable state.
LEMMA AlwaysIInv ==
  Spec => []IInv
<1>1. Init => IInv
  BY InitIInv
<1>2. IInv /\ [Next]_vars => IInv'
  BY NextIInv
<1> QED BY <1>1, <1>2, PTL DEF Spec

\* All state keeps its type: in particular what a session downloads or
\* branches is an upsert with content and a real author (service.rs
\* apply_reconciliation_action, reconciler.rs reconcile_event).
THEOREM TypeCorrect == Spec => []TypeOK
<1>1. IInv => TypeOK
  BY IInvImplies
<1> QED BY <1>1, AlwaysIInv, PTL

\* Every row of every catalog is backed by its node's log, although the
\* append of a relayed event is skipped when the log seems to hold it
\* (db.rs apply_remote_upsert, apply_remote_delete).
THEOREM LogAlwaysCovers == Spec => []LogCoversCatalog
<1>1. IInv => LogCoversCatalog
  BY IInvImplies
<1> QED BY <1>1, AlwaysIInv, PTL

\* No cursor passes the end of its peer's log (coordinator.rs do_reconcile).
THEOREM CursorsStayInLogs == Spec => []CursorWithinLog
<1>1. IInv => CursorWithinLog
  BY IInvImplies
<1> QED BY <1>1, AlwaysIInv, PTL

---------------------------------------------------------------------------
(* Replication implements EventSourcing. *)

\* Both modules read the same data model.
LEMMA SameEvents == ES!SyncEvent = SyncEvent
<1>1. ES!Origin = Origin /\ ES!FileId = FileId
  BY DEF ES!Origin, Origin, ES!FileId, FileId
<1>2. ES!Path = Path
  BY <1>1 DEF ES!Path, Path
<1> QED BY <1>1, <1>2 DEF ES!SyncEvent, SyncEvent

\* Appending an event to one database's log extends the log of its node.
LEMMA ExtendsLog ==
  ASSUME DbsInv, NEW n \in Node, NEW d2, NEW e, EventOK(e),
         db' = [db EXCEPT ![n] = d2], d2.log = Append(db[n].log, e)
  PROVE  ES!Extend(n) /\ ES!NewEvent(n) = e
<1>1. Logs = [m \in Node |-> db[m].log] /\ Logs' = [m \in Node |-> db'[m].log]
  BY DEF Logs
<1>2. db'[n] = d2 /\ \A m \in Node \ {n} : db'[m] = db[m]
  BY DEF DbsInv
<1>3. Logs'[n] = Append(Logs[n], e) /\ \A m \in Node \ {n} : Logs'[m] = Logs[m]
  BY <1>1, <1>2
<1>4. Logs[n] \in Seq(SyncEvent) /\ e \in SyncEvent
  BY <1>1 DEF DbsInv, DbInv, DbOK, EventOK
<1>5. Len(Logs'[n]) = Len(Logs[n]) + 1 /\ Logs'[n][Len(Logs'[n])] = e
  BY <1>3, <1>4
<1>6. Logs' = [Logs EXCEPT ![n] = Append(Logs[n], e)]
  BY <1>1, <1>3
<1>7. ES!NewEvent(n) = e
  BY <1>5 DEF ES!NewEvent
<1> QED BY <1>4, <1>5, <1>6, <1>7, SameEvents DEF ES!Extend

\* A step that leaves every log alone stutters.
LEMMA SameLogs ==
  ASSUME DbsInv, NEW n \in Node, NEW d2, db' = [db EXCEPT ![n] = d2], d2.log = db[n].log
  PROVE  Logs' = Logs
<1>1. \A m \in Node : db'[m].log = db[m].log
  BY DEF DbsInv
<1> QED BY <1>1 DEF Logs

\* A local change is authored by the node.
LEMMA LocalRefines ==
  ASSUME IInv, NEW n \in Node, NEW d2, NEW e, EventOK(e), e.origin_node_id = n,
         db' = [db EXCEPT ![n] = d2], LogGrows(db[n], d2, e)
  PROVE  ES!Next \/ Logs' = Logs
<1>1. CASE d2.log = db[n].log
  BY <1>1, SameLogs DEF IInv
<1>2. CASE d2.log = Append(db[n].log, e)
  <2>1. ES!Extend(n) /\ ES!NewEvent(n) = e
    BY <1>2, ExtendsLog DEF IInv
  <2> QED BY <2>1 DEF ES!Next, ES!Author
<1> QED BY <1>1, <1>2 DEF LogGrows

\* An applied decision is relayed from the peer.
LEMMA ApplyRefines ==
  ASSUME IInv, NEW s \in Session, NEW i \in DOMAIN session[s].todo, NEW now \in Time,
         ApplyAction(s, i, now)
  PROVE  ES!Next \/ Logs' = Logs
<1> DEFINE n == s[1]
           a == session[s].todo[i]
           e == AppliedEvent(a, now)
           d2 == apply_reconciliation_action(db[n], a, now)
<1>1. n \in Node /\ s[2] \in Node \ {n}
  BY SessionNodes
<1>2. DecisionOK(a) /\ i \in 1..Len(db[s[2]].log) /\ ES!Reports(a.event, db[s[2]].log[i])
  BY DEF IInv, SessionsInv, SessionOK, SessionQuotes
<1>3. EventOK(e)
  BY <1>2, AppliedEventOK
<1>4. LogGrows(db[n], d2, e)
  BY <1>1, <1>2, ApplyActionInv DEF IInv, DbsInv
<1>5. db' = [db EXCEPT ![n] = d2]
  BY DEF ApplyAction
<1>6. ES!Reports(e, db[s[2]].log[i])
  BY <1>2, AppliedReports
<1> HIDE DEF d2, e, a
<1>7. CASE d2.log = db[n].log
  BY <1>1, <1>5, <1>7, SameLogs DEF IInv
<1>8. CASE d2.log = Append(db[n].log, e)
  <2>1. ES!Extend(n) /\ ES!NewEvent(n) = e
    BY <1>1, <1>3, <1>5, <1>8, ExtendsLog DEF IInv
  <2>2. i \in 1..Len(Logs[s[2]]) /\ ES!Reports(ES!NewEvent(n), Logs[s[2]][i])
    BY <1>1, <1>2, <1>6, <2>1 DEF Logs
  <2>3. ES!Relay(n, s[2])
    BY <2>1, <2>2 DEF ES!Relay
  <2> QED BY <1>1, <2>3 DEF ES!Next
<1> QED BY <1>4, <1>7, <1>8 DEF LogGrows

\* Every step maps to a step of EventSourcing or to a stutter.
LEMMA StepRefines ==
  ASSUME IInv, [Next]_vars
  PROVE  [ES!Next]_Logs
<1>0. \A n \in Node : DbInv(db[n]) /\ DbOK(db[n])
  BY DEF IInv, DbsInv, DbInv
<1>1. CASE UNCHANGED db
  BY <1>1 DEF Logs
<1>2. ASSUME NEW n \in Node, NEW f \in Folder, RegisterFolder(n, f) PROVE Logs' = Logs
  <2>1. add_folder(db[n], f).log = db[n].log
    BY <1>0, AddFolderInv
  <2> QED BY <1>2, <2>1, SameLogs DEF RegisterFolder, IInv
<1>3. ASSUME NEW n \in Node PROVE UserKeys(n) \subseteq Key
  <2>1. db[n].folders \subseteq Folder /\ DOMAIN db[n].files \subseteq Key
    BY <1>0 DEF DbOK, RowsOK
  <2>2. \A x \in Name : [name |-> x, marks |-> <<>>] \in Path
    BY DEF Path
  <2> QED BY <2>1, <2>2 DEF UserKeys, Key
<1>4. ASSUME NEW n \in Node, NEW now \in Time, NEW k \in UserKeys(n), NEW h \in Hash,
             LocalUpsert(n, k, h, now)
      PROVE  ES!Next \/ Logs' = Logs
  <2> DEFINE e == local_upsert_event(db[n], n, k, h, now)
             d2 == record_local_upsert(db[n], n, k, h, now)
  <2>1. EventOK(e) /\ e.origin_node_id = n /\ LogGrows(db[n], d2, e)
    BY <1>0, <1>3, RecordUpsertInv, LocalUpsertEventOK
  <2>2. db' = [db EXCEPT ![n] = d2]
    BY <1>4 DEF LocalUpsert
  <2> HIDE DEF e, d2
  <2> QED BY <2>1, <2>2, LocalRefines
<1>5. ASSUME NEW n \in Node, NEW now \in Time, NEW k \in UserKeys(n), LocalDelete(n, k, now)
      PROVE  ES!Next \/ Logs' = Logs
  <2> DEFINE e == local_delete_event(db[n], n, k, now)
             d2 == record_local_delete(db[n], n, k, now)
  <2>1. Live(db[n], k)
    BY <1>5 DEF LocalDelete
  <2>2. EventOK(e) /\ e.origin_node_id = n /\ LogGrows(db[n], d2, e)
    BY <1>0, <1>3, <2>1, RecordDeleteInv, LocalDeleteEventOK
  <2>3. db' = [db EXCEPT ![n] = d2]
    BY <1>5 DEF LocalDelete
  <2> HIDE DEF e, d2
  <2> QED BY <2>2, <2>3, LocalRefines
<1>6. ASSUME NEW s \in Session, NEW i \in DOMAIN session[s].todo, NEW now \in Time,
             ApplyAction(s, i, now)
      PROVE  ES!Next \/ Logs' = Logs
  BY <1>6, ApplyRefines
<1>7. ASSUME NEW s \in Session, StartSync(s) \/ ReceiveManifest(s) \/ FinishSync(s) \/ Timeout(s)
      PROVE  UNCHANGED db
  BY <1>7 DEF StartSync, ReceiveManifest, FinishSync, Timeout
<1>8. ASSUME NEW s, NEW i, NEW now, AbortOnDbError(s, i, now) \/ AbortOnSendError(s, i)
      PROVE  UNCHANGED db
  BY <1>8 DEF AbortOnDbError, AbortOnSendError
<1>9. ASSUME NEW l, ServeManifest(l) PROVE UNCHANGED db
  BY <1>9 DEF ServeManifest
<1>10. ASSUME NEW n, NEW m, Disconnect(n, m) \/ Restart(n) PROVE UNCHANGED db
  BY <1>10 DEF Disconnect, Restart
<1>11. CASE Next
  BY <1>11, <1>1, <1>2, <1>4, <1>5, <1>6, <1>7, <1>8, <1>9, <1>10 DEF Next, SyncStep
<1> QED BY <1>1, <1>11 DEF vars

\* The logs of the mesh are an event-sourced history: they only grow, and
\* only by changes of the node's own users and by changes that a peer's
\* log reports (db.rs record_local_* and apply_remote_*, service.rs
\* apply_reconciliation_action, coordinator.rs do_reconcile).
THEOREM RefinesEventSourcing == Spec => ImplementsEventSourcing
<1>1. Init => ES!Init
  <2>1. init_schema.log = <<>>
    BY DEF init_schema
  <2> QED BY <2>1 DEF Init, ES!Init, Logs
<1>2. IInv /\ [Next]_vars => [ES!Next]_Logs
  BY StepRefines
<1> QED BY <1>1, <1>2, AlwaysIInv, PTL DEF Spec, ES!Spec, ImplementsEventSourcing

\* Every event of every log goes back to the user that made the change.
THEOREM ChangesGoBackToUsers == Spec => []EventProvenance
<1>1. ES!Spec => []ES!Provenance
  BY ES!ChangesHaveAuthors, DbAssumption DEF DbAssumption
<1> QED BY <1>1, RefinesEventSourcing, PTL DEF ImplementsEventSourcing, EventProvenance

---------------------------------------------------------------------------
(* Cursors pass no file.                                                   *)
(*                                                                         *)
(* What is requested, answered, worked on and passed is one chain: the     *)
(* events a cursor has passed are of files the node has rows of, a request *)
(* asks for what comes after, a page that leaves nothing out answers for   *)
(* all of it, and a session either knows the file of an event already or   *)
(* still holds the download that will make its row.  Rows are never        *)
(* removed, so nothing is lost on the way, however old the answer is.      *)
(*                                                                         *)
(* The chain breaks in two places of the code.  A page holds 500 events,   *)
(* and the cursor is moved to the newest sequence number even if the page  *)
(* ends before it (PageLimit.cfg).  And a session of one folder takes the  *)
(* answer to another folder's request for its own (TwoFolders.cfg).        *)

\* Node n, with database d, has a row for the file of event i of log.
Knows(d, log, i) == IsUpsert(log[i]) => Known(d, KeyOf(log[i]))

CursorCovers(c, d, log) == \A i \in 1..c : Knows(d, log, i)

RequestCovers(req, d, log) == req.since \in 0..Len(log) /\ CursorCovers(req.since, d, log)

ManifestCovers(resp, d, log) ==
  \A i \in 1..resp.latest_event_seq : i \in DOMAIN resp.events \/ Knows(d, log, i)

SessionCovers(x, d, log) ==
  x.phase = "applying" =>
    /\ \A i \in 1..x.latest : i \in DOMAIN x.todo \/ Knows(d, log, i)
    /\ \A i \in DOMAIN x.todo :
         \/ Knows(d, log, i)
         \/ /\ x.todo[i].kind = "DownloadNeeded"
            /\ KeyOf(x.todo[i].event) = KeyOf(log[i])

RequestsCover ==
  \A l \in Link : \A q \in 1..Len(requests[l]) :
    RequestCovers(requests[l][q], db[l[1]], db[l[2]].log)

ManifestsCover ==
  \A l \in Link : \A q \in 1..Len(manifests[l]) :
    ManifestCovers(manifests[l][q], db[l[1]], db[l[2]].log)

SessionsCover == \A s \in Session : SessionCovers(session[s], db[s[1]], db[s[2]].log)

CursorsCover == \A s \in Session : CursorCovers(last_seen[s], db[s[1]], db[s[2]].log)

CoverInv == RequestsCover /\ ManifestsCover /\ SessionsCover /\ CursorsCover

\* There is one shared folder.
OneFolder == \A f, g \in Folder : f = g

\* No answer leaves out events for want of room.
PagesSuffice ==
  \A l \in Link :
    ServeManifest(l) =>
      LET req == Head(requests[l])
      IN Cardinality({i \in FolderSeqs(db[l[2]], req.folder) : i > req.since}) <= PageLimit

\* What a step does to a database: the log grows and no row goes away.
Kept(d, d2) == Grown(d.log, d2.log) /\ DOMAIN d.files \subseteq DOMAIN d2.files

\* What is covered stays covered.
LEMMA KeptCovers ==
  ASSUME NEW d, NEW d2, Kept(d, d2), NEW log \in Seq(SyncEvent), NEW log2, Grown(log, log2)
  PROVE  /\ \A c \in 0..Len(log) : CursorCovers(c, d, log) => CursorCovers(c, d2, log2)
         /\ \A req : RequestCovers(req, d, log) => RequestCovers(req, d2, log2)
         /\ \A resp : Quotes(resp, log) /\ ManifestCovers(resp, d, log)
                        => ManifestCovers(resp, d2, log2)
         /\ \A x : SessionQuotes(x, log) /\ SessionCovers(x, d, log)
                     => SessionCovers(x, d2, log2)
<1>1. /\ Len(log) \in Nat /\ Len(log2) \in Nat /\ Len(log) <= Len(log2)
      /\ \A i \in 1..Len(log) : log2[i] = log[i]
  BY DEF Grown, EventOK
<1>2. \A i \in 1..Len(log) : Knows(d, log, i) => Knows(d2, log2, i)
  BY <1>1 DEF Knows, Known, Kept
<1>3. \A c \in 0..Len(log) : CursorCovers(c, d, log) => CursorCovers(c, d2, log2)
  BY <1>1, <1>2 DEF CursorCovers
<1>4. \A req : RequestCovers(req, d, log) => RequestCovers(req, d2, log2)
  BY <1>1, <1>3 DEF RequestCovers
<1>5. ASSUME NEW resp, Quotes(resp, log), ManifestCovers(resp, d, log)
      PROVE  ManifestCovers(resp, d2, log2)
  BY <1>1, <1>2, <1>5 DEF Quotes, ManifestCovers
<1>6. ASSUME NEW x, SessionQuotes(x, log), SessionCovers(x, d, log)
      PROVE  SessionCovers(x, d2, log2)
  <2>1. /\ x.latest \in 0..Len(log)
        /\ \A i \in DOMAIN x.todo : i \in 1..Len(log)
    BY <1>6 DEF SessionQuotes
  <2> QED BY <1>1, <1>2, <1>6, <2>1 DEF SessionCovers
<1> QED BY <1>3, <1>4, <1>5, <1>6

\* Applying a decision keeps all rows, and makes the row of what it brings.
LEMMA ApplyKeeps ==
  ASSUME NEW d, NEW a, DecisionOK(a), NEW now
  PROVE  LET d2 == apply_reconciliation_action(d, a, now) IN
         /\ DOMAIN d.files \subseteq DOMAIN d2.files
         /\ a.kind = "DownloadNeeded" /\ ~ApplyFails(d, a, now) => Known(d2, KeyOf(a.event))
<1> DEFINE e == AppliedEvent(a, now)
           d2 == apply_reconciliation_action(d, a, now)
<1>1. KeyOf(e) = KeyOf(a.event)
  BY DEF AppliedEvent, KeyOf
<1> HIDE DEF e
<1>2. CASE a.kind = "DeleteLocal"
  <2>1. d2 = apply_remote_delete(d, e)
    BY <1>2 DEF apply_reconciliation_action, e
  <2>2. DOMAIN d.files \subseteq DOMAIN apply_remote_delete(d, e).files
    BY DEF apply_remote_delete, Commit, PutRow
  <2> QED BY <1>2, <2>1, <2>2
<1>3. CASE a.kind \in {"DownloadNeeded", "Conflict"}
  <2>1. d2 = apply_remote_upsert(d, e)
    BY <1>3 DEF apply_reconciliation_action, e
  <2>2. /\ DOMAIN d.files \subseteq DOMAIN apply_remote_upsert(d, e).files
        /\ ~UpsertRejected(d, e) => Known(apply_remote_upsert(d, e), KeyOf(e))
    BY DEF apply_remote_upsert, Commit, PutRow, Known
  <2>3. ~ApplyFails(d, a, now) => ~UpsertRejected(d, e)
    BY <1>3 DEF ApplyFails, e
  <2> QED BY <1>1, <2>1, <2>2, <2>3
<1> QED BY <1>2, <1>3 DEF DecisionOK, Effective

\* Every step grows the logs and keeps the rows.
LEMMA StepKeeps ==
  ASSUME IInv, [Next]_vars
  PROVE  \A n \in Node : Kept(db[n], db'[n])
<1>0. DOMAIN db = Node /\ \A n \in Node : DbInv(db[n]) /\ DbOK(db[n])
  BY DEF IInv, DbsInv, DbInv
<1> DEFINE AllKept == \A n \in Node : Kept(db[n], db'[n])
<1>1. ASSUME UNCHANGED db PROVE AllKept
  BY <1>1 DEF Kept, Grown
<1>2. ASSUME NEW n \in Node, NEW d2, Kept(db[n], d2), db' = [db EXCEPT ![n] = d2]
      PROVE  AllKept
  BY <1>0, <1>2 DEF Kept, Grown
<1> HIDE DEF AllKept
<1>3. ASSUME NEW n \in Node, NEW f \in Folder, RegisterFolder(n, f) PROVE AllKept
  <2>1. Kept(db[n], add_folder(db[n], f))
    BY <1>0 DEF Kept, Grown, add_folder, DbOK
  <2> QED BY <1>2, <1>3, <2>1 DEF RegisterFolder
<1>4. ASSUME NEW n \in Node PROVE UserKeys(n) \subseteq Key
  <2>1. db[n].folders \subseteq Folder /\ DOMAIN db[n].files \subseteq Key
    BY <1>0 DEF DbOK, RowsOK
  <2>2. \A x \in Name : [name |-> x, marks |-> <<>>] \in Path
    BY DEF Path
  <2> QED BY <2>1, <2>2 DEF UserKeys, Key
<1>5. ASSUME NEW n \in Node, NEW k \in UserKeys(n), NEW h \in Hash, NEW now \in Time,
             LocalUpsert(n, k, h, now)
      PROVE  AllKept
  <2> DEFINE d2 == record_local_upsert(db[n], n, k, h, now)
             e == local_upsert_event(db[n], n, k, h, now)
  <2>1. EventOK(e) /\ LogGrows(db[n], d2, e)
    BY <1>0, <1>4, RecordUpsertInv, LocalUpsertEventOK
  <2>2. DOMAIN db[n].files \subseteq DOMAIN d2.files
    BY DEF record_local_upsert, Commit, PutRow
  <2>3. db' = [db EXCEPT ![n] = d2]
    BY <1>5 DEF LocalUpsert
  <2> HIDE DEF e, d2
  <2>4. Kept(db[n], d2)
    BY <2>1, <2>2 DEF Kept, Grown, LogGrows
  <2> QED BY <1>2, <2>3, <2>4
<1>6. ASSUME NEW n \in Node, NEW k \in UserKeys(n), NEW now \in Time, LocalDelete(n, k, now)
      PROVE  AllKept
  <2> DEFINE d2 == record_local_delete(db[n], n, k, now)
             e == local_delete_event(db[n], n, k, now)
  <2>0. Live(db[n], k)
    BY <1>6 DEF LocalDelete
  <2>1. EventOK(e) /\ LogGrows(db[n], d2, e)
    BY <1>0, <1>4, <2>0, RecordDeleteInv, LocalDeleteEventOK
  <2>2. DOMAIN db[n].files \subseteq DOMAIN d2.files
    BY DEF record_local_delete, Commit, PutRow
  <2>3. db' = [db EXCEPT ![n] = d2]
    BY <1>6 DEF LocalDelete
  <2> HIDE DEF e, d2
  <2>4. Kept(db[n], d2)
    BY <2>1, <2>2 DEF Kept, Grown, LogGrows
  <2> QED BY <1>2, <2>3, <2>4
<1>7. ASSUME NEW s \in Session, NEW i \in DOMAIN session[s].todo, NEW now \in Time,
             ApplyAction(s, i, now)
      PROVE  AllKept
  <2> DEFINE a == session[s].todo[i]
             d2 == apply_reconciliation_action(db[s[1]], a, now)
             e == AppliedEvent(a, now)
  <2>0. s[1] \in Node
    BY SessionNodes
  <2>1. DecisionOK(a)
    BY DEF IInv, SessionsInv, SessionOK
  <2>2. EventOK(e) /\ LogGrows(db[s[1]], d2, e)
    BY <1>0, <2>0, <2>1, ApplyActionInv, AppliedEventOK
  <2>3. DOMAIN db[s[1]].files \subseteq DOMAIN d2.files
    BY <2>1, ApplyKeeps
  <2>4. db' = [db EXCEPT ![s[1]] = d2]
    BY <1>7 DEF ApplyAction
  <2> HIDE DEF e, d2, a
  <2>5. Kept(db[s[1]], d2)
    BY <2>2, <2>3 DEF Kept, Grown, LogGrows
  <2> QED BY <1>2, <2>0, <2>4, <2>5
<1>8. ASSUME NEW s \in Session, StartSync(s) \/ ReceiveManifest(s) \/ FinishSync(s) \/ Timeout(s)
      PROVE  UNCHANGED db
  BY <1>8 DEF StartSync, ReceiveManifest, FinishSync, Timeout
<1>9. ASSUME NEW s, NEW i, NEW now, AbortOnDbError(s, i, now) \/ AbortOnSendError(s, i)
      PROVE  UNCHANGED db
  BY <1>9 DEF AbortOnDbError, AbortOnSendError
<1>10. ASSUME NEW l, ServeManifest(l) PROVE UNCHANGED db
  BY <1>10 DEF ServeManifest
<1>11. ASSUME NEW n, NEW m, Disconnect(n, m) \/ Restart(n) PROVE UNCHANGED db
  BY <1>11 DEF Disconnect, Restart
<1>12. CASE Next
  BY <1>12, <1>1, <1>3, <1>5, <1>6, <1>7, <1>8, <1>9, <1>10, <1>11 DEF Next, SyncStep, AllKept
<1> QED BY <1>1, <1>12 DEF vars, AllKept

\* A step keeps what is covered: the requests, manifests, sessions and
\* cursors from before it are covered by the databases after it.
LEMMA CoverKept ==
  ASSUME IInv, CoverInv, [Next]_vars
  PROVE  /\ \A l \in Link : \A q \in 1..Len(requests[l]) :
              RequestCovers(requests[l][q], db'[l[1]], db'[l[2]].log)
         /\ \A l \in Link : \A q \in 1..Len(manifests[l]) :
              ManifestCovers(manifests[l][q], db'[l[1]], db'[l[2]].log)
         /\ \A s \in Session :
              /\ SessionCovers(session[s], db'[s[1]], db'[s[2]].log)
              /\ last_seen[s] \in 0..Len(db'[s[2]].log)
              /\ CursorCovers(last_seen[s], db'[s[1]], db'[s[2]].log)
<1>1. \A n \in Node : /\ Kept(db[n], db'[n])
                      /\ db[n].log \in Seq(SyncEvent) /\ Grown(db[n].log, db'[n].log)
                      /\ Len(db[n].log) \in Nat /\ Len(db'[n].log) \in Nat
                      /\ Len(db[n].log) <= Len(db'[n].log)
  <2>1. \A n \in Node : Kept(db[n], db'[n]) /\ db[n].log \in Seq(SyncEvent)
    BY StepKeeps DEF IInv, DbsInv, DbInv, DbOK
  <2> QED BY <2>1, GrowthStable DEF Kept
<1>2. ASSUME NEW l \in Link
      PROVE  /\ \A q \in 1..Len(requests[l]) :
                  RequestCovers(requests[l][q], db'[l[1]], db'[l[2]].log)
             /\ \A q \in 1..Len(manifests[l]) :
                  ManifestCovers(manifests[l][q], db'[l[1]], db'[l[2]].log)
  <2>1. l[1] \in Node /\ l[2] \in Node
    BY DEF Link
  <2>2. \A q \in 1..Len(requests[l]) :
          RequestCovers(requests[l][q], db[l[1]], db[l[2]].log)
    BY DEF CoverInv, RequestsCover
  <2>3. \A q \in 1..Len(manifests[l]) :
          /\ ManifestCovers(manifests[l][q], db[l[1]], db[l[2]].log)
          /\ Quotes(manifests[l][q], db[l[2]].log)
    BY DEF CoverInv, ManifestsCover, IInv, ChannelsInv
  <2> QED BY <1>1, <2>1, <2>2, <2>3, KeptCovers
<1>3. ASSUME NEW s \in Session
      PROVE  /\ SessionCovers(session[s], db'[s[1]], db'[s[2]].log)
             /\ last_seen[s] \in 0..Len(db'[s[2]].log)
             /\ CursorCovers(last_seen[s], db'[s[1]], db'[s[2]].log)
  <2>1. s[1] \in Node /\ s[2] \in Node
    BY SessionNodes
  <2>2. /\ SessionCovers(session[s], db[s[1]], db[s[2]].log)
        /\ CursorCovers(last_seen[s], db[s[1]], db[s[2]].log)
    BY DEF CoverInv, SessionsCover, CursorsCover
  <2>3. SessionQuotes(session[s], db[s[2]].log)
    BY DEF IInv, SessionsInv
  <2>4. last_seen[s] \in Nat /\ last_seen[s] <= Len(db[s[2]].log)
    BY DEF IInv, CursorsInv, CursorWithinLog
  <2>5. last_seen[s] \in 0..Len(db[s[2]].log) /\ last_seen[s] \in 0..Len(db'[s[2]].log)
    BY <1>1, <2>1, <2>4
  <2> QED BY <1>1, <2>1, <2>2, <2>3, <2>5, KeptCovers
<1> QED BY <1>2, <1>3

\* Idle and waiting sessions have nothing to cover.
LEMMA RestingCovers ==
  ASSUME NEW d, NEW log
  PROVE  SessionCovers(Idle, d, log) /\ SessionCovers(Awaiting, d, log)
  BY DEF SessionCovers, Idle, Awaiting

\* One session is set to a state that is covered.
LEMMA OneSessionCovers ==
  ASSUME IInv, CoverInv, [Next]_vars, NEW s \in Session, NEW x,
         session' = [session EXCEPT ![s] = x],
         SessionCovers(x, db'[s[1]], db'[s[2]].log)
  PROVE  SessionsCover'
<1>1. \A t \in Session : SessionCovers(session[t], db'[t[1]], db'[t[2]].log)
  BY CoverKept
<1>2. \A t \in Session : session'[t] = IF t = s THEN x ELSE session[t]
  BY DEF IInv, SessionsInv
<1> QED BY <1>1, <1>2 DEF SessionsCover

\* The parts of the state a step leaves alone stay covered.
LEMMA UntouchedCover ==
  ASSUME IInv, CoverInv, [Next]_vars
  PROVE  /\ requests' = requests => RequestsCover'
         /\ manifests' = manifests => ManifestsCover'
         /\ session' = session => SessionsCover'
         /\ last_seen' = last_seen => CursorsCover'
  BY CoverKept DEF RequestsCover, ManifestsCover, SessionsCover, CursorsCover

\* StartSync asks for what comes after the cursor.
LEMMA StartSyncCovers ==
  ASSUME IInv, CoverInv, [Next]_vars, NEW s \in Session, StartSync(s)
  PROVE  CoverInv'
<1> DEFINE req == [folder |-> s[3], since |-> last_seen[s]]
           l == LinkOf(s)
<1>1. /\ UNCHANGED <<last_seen, manifests>>
      /\ session' = [session EXCEPT ![s] = Awaiting]
      /\ requests' = [requests EXCEPT ![l] = Append(requests[l], req)]
  BY DEF StartSync
<1>2. s[3] \in Folder /\ l \in Link /\ l[1] = s[1] /\ l[2] = s[2]
  BY SessionNodes DEF LinkOf
<1>3. req \in [folder : Folder, since : Nat] /\ req.since = last_seen[s]
  BY <1>2 DEF IInv, CursorsInv
<1> HIDE DEF req, l
<1>4. requests[l] \in Seq([folder : Folder, since : Nat])
  BY <1>2, ChannelTypes DEF IInv
<1>5. RequestCovers(req, db'[l[1]], db'[l[2]].log)
  BY <1>2, <1>3, CoverKept DEF RequestCovers
<1>6. RequestsCover'
  <2>1. ASSUME NEW m \in Link, NEW q \in 1..Len(requests'[m])
        PROVE  RequestCovers(requests'[m][q], db'[m[1]], db'[m[2]].log)
    <3>1. CASE m = l
      <4>1. requests'[m] = Append(requests[l], req)
        BY <1>1, <1>2, <3>1 DEF IInv, ChannelsInv
      <4>2. (q \in 1..Len(requests[l]) /\ requests'[m][q] = requests[l][q])
            \/ requests'[m][q] = req
        BY <1>3, <1>4, <4>1, SendOK
      <4> QED BY <1>2, <1>5, <3>1, <4>2, CoverKept
    <3>2. CASE m # l
      <4>1. requests'[m] = requests[m]
        BY <1>1, <3>2 DEF IInv, ChannelsInv
      <4> QED BY <4>1, CoverKept
    <3> QED BY <3>1, <3>2
  <2> QED BY <2>1 DEF RequestsCover
<1>7. SessionsCover'
  BY <1>1, RestingCovers, OneSessionCovers
<1> QED BY <1>1, <1>6, <1>7, UntouchedCover DEF CoverInv

\* With one folder, a page that leaves nothing out holds everything after
\* the requested sequence number.
LEMMA WholePage ==
  ASSUME OneFolder, NEW d, DbInv(d), NEW f \in Folder, NEW since \in Nat,
         NEW limit \in Nat,
         Cardinality({i \in FolderSeqs(d, f) : i > since}) <= limit
  PROVE  LET resp == get_events_since(d, f, since, limit)
         IN \A i \in 1..resp.latest_event_seq : i > since => i \in DOMAIN resp.events
<1> DEFINE newer == {i \in FolderSeqs(d, f) : i > since}
           page  == {i \in newer : Cardinality({j \in newer : j < i}) < limit}
           resp  == get_events_since(d, f, since, limit)
<1>1. DOMAIN resp.events = page /\ resp.latest_event_seq = get_latest_event_seq(d, f)
  BY DEF get_events_since
<1>2. /\ d.log \in Seq(SyncEvent) /\ Len(d.log) \in Nat
      /\ \A i \in 1..Len(d.log) : d.log[i].folder_id = f
  <2>1. d.log \in Seq(SyncEvent)
    BY DEF DbInv, DbOK
  <2>2. ASSUME NEW i \in 1..Len(d.log) PROVE d.log[i].folder_id = f
    <3>1. d.log[i] \in SyncEvent
      BY <2>1
    <3>2. d.log[i].folder_id \in Folder
      BY <3>1 DEF SyncEvent
    <3> QED BY <3>2 DEF OneFolder
  <2> QED BY <2>1, <2>2
<1>3. FolderSeqs(d, f) = 1..Len(d.log)
  BY <1>2 DEF FolderSeqs
<1>4. get_latest_event_seq(d, f) \in 0..Len(d.log)
  BY LatestInLog DEF DbInv
<1>5. IsFiniteSet(newer) /\ Cardinality(newer) \in Nat
  <2>1. IsFiniteSet(1..Len(d.log))
    <3>1. 1 \in Int /\ Len(d.log) \in Int
      BY <1>2
    <3> QED BY <3>1, FS_Interval
  <2>2. newer \subseteq 1..Len(d.log)
    BY <1>3
  <2> QED BY <2>1, <2>2, FS_Subset, FS_CardinalityType
<1>6. ASSUME NEW i \in newer PROVE i \in page
  <2> DEFINE older == {j \in newer : j < i}
  <2>1. older \subseteq newer \ {i}
    BY <1>3
  <2>2. IsFiniteSet(newer \ {i}) /\ Cardinality(newer \ {i}) = Cardinality(newer) - 1
    BY <1>5, FS_RemoveElement
  <2>3. IsFiniteSet(older) /\ Cardinality(older) <= Cardinality(newer \ {i})
    BY <2>1, <2>2, FS_Subset
  <2>4. Cardinality(older) \in Nat /\ Cardinality(newer) <= limit
    BY <2>3, FS_CardinalityType
  <2>5. Cardinality(older) < limit
    <3> HIDE DEF older, newer
    <3> QED BY <1>5, <2>2, <2>3, <2>4
  <2> QED BY <2>5
<1> HIDE DEF page, resp
<1>7. \A i \in 1..get_latest_event_seq(d, f) : i > since => i \in newer
  BY <1>2, <1>3, <1>4
<1>8. \A i \in 1..resp.latest_event_seq : i > since => i \in DOMAIN resp.events
  BY <1>1, <1>6, <1>7
<1> QED BY <1>8 DEF resp

\* ServeManifest answers for everything the asker does not know.
LEMMA ServeManifestCovers ==
  ASSUME OneFolder, PagesSuffice, IInv, CoverInv, [Next]_vars,
         NEW l \in Link, ServeManifest(l)
  PROVE  CoverInv'
<1> DEFINE req  == Head(requests[l])
           resp == get_events_since(db[l[2]], req.folder, req.since, PageLimit)
<1>1. /\ UNCHANGED <<db, last_seen, session>> /\ requests[l] # <<>>
      /\ requests' = [requests EXCEPT ![l] = Tail(requests[l])]
      /\ manifests' = [manifests EXCEPT ![l] = Append(manifests[l], resp)]
  BY DEF ServeManifest
<1>2. l[1] \in Node /\ l[2] \in Node
  BY DEF Link
<1>3. /\ requests[l] \in Seq([folder : Folder, since : Nat])
      /\ manifests[l] \in Seq(Manifest)
  BY ChannelTypes DEF IInv
<1>4. /\ req \in [folder : Folder, since : Nat] /\ req = requests[l][1]
      /\ 1 \in 1..Len(requests[l])
      /\ \A i \in 1..Len(Tail(requests[l])) :
           i + 1 \in 1..Len(requests[l]) /\ Tail(requests[l])[i] = requests[l][i + 1]
  BY <1>1, <1>3, TakeOK
<1>5. RequestCovers(req, db[l[1]], db[l[2]].log)
  BY <1>4 DEF CoverInv, RequestsCover
<1>6. ManifestCovers(resp, db[l[1]], db[l[2]].log)
  <2>1. Cardinality({i \in FolderSeqs(db[l[2]], req.folder) : i > req.since}) <= PageLimit
    BY DEF PagesSuffice
  <2>2. DbInv(db[l[2]]) /\ PageLimit \in Nat
    BY <1>2, ReplicationAssumption DEF IInv, DbsInv, ReplicationAssumption
  <2>3. req.folder \in Folder /\ req.since \in Nat
    BY <1>4
  <2>4. \A i \in 1..resp.latest_event_seq : i > req.since => i \in DOMAIN resp.events
    <3> HIDE DEF req
    <3> QED BY <2>1, <2>2, <2>3, WholePage
  <2>5. \A i \in 1..req.since : Knows(db[l[1]], db[l[2]].log, i)
    BY <1>5 DEF RequestCovers, CursorCovers
  <2>6. resp.latest_event_seq \in Nat
    <3>1. Quotes(resp, db[l[2]].log)
      <4> HIDE DEF req
      <4> QED BY <2>2, <2>3, EventsSinceQuotes
    <3>2. Len(db[l[2]].log) \in Nat
      BY <1>2, LogLen DEF IInv
    <3> QED BY <3>1, <3>2 DEF Quotes
  <2> HIDE DEF resp, req
  <2> QED BY <2>3, <2>4, <2>5, <2>6 DEF ManifestCovers
<1> HIDE DEF req, resp
<1>7. RequestsCover'
  <2>1. ASSUME NEW m \in Link, NEW q \in 1..Len(requests'[m])
        PROVE  RequestCovers(requests'[m][q], db'[m[1]], db'[m[2]].log)
    <3>1. requests'[m] = IF m = l THEN Tail(requests[l]) ELSE requests[m]
      BY <1>1 DEF IInv, ChannelsInv
    <3>2. \E p \in 1..Len(requests[m]) : requests'[m][q] = requests[m][p]
      BY <1>4, <3>1
    <3> QED BY <3>2, CoverKept
  <2> QED BY <2>1 DEF RequestsCover
<1>8. ManifestsCover'
  <2>1. ASSUME NEW m \in Link, NEW q \in 1..Len(manifests'[m])
        PROVE  ManifestCovers(manifests'[m][q], db'[m[1]], db'[m[2]].log)
    <3>1. CASE m = l
      <4>1. manifests'[m] = Append(manifests[l], resp)
        BY <1>1, <3>1 DEF IInv, ChannelsInv
      <4>2. (q \in 1..Len(manifests[l]) /\ manifests'[m][q] = manifests[l][q])
            \/ manifests'[m][q] = resp
        BY <1>3, <4>1
      <4> QED BY <1>1, <1>6, <3>1, <4>2, CoverKept
    <3>2. CASE m # l
      <4>1. manifests'[m] = manifests[m]
        BY <1>1, <3>2 DEF IInv, ChannelsInv
      <4> QED BY <4>1, CoverKept
    <3> QED BY <3>1, <3>2
  <2> QED BY <2>1 DEF ManifestsCover
<1> QED BY <1>1, <1>7, <1>8, UntouchedCover DEF CoverInv

\* The decisions on a manifest, and the manifest's cursor, are covered: what
\* is no decision is known, and so is what is not a download.
LEMMA DecisionsCover ==
  ASSUME NEW d, NEW log, NEW resp, Quotes(resp, log), ManifestCovers(resp, d, log)
  PROVE  SessionCovers(Applying(Decisions(d, resp.events), resp.latest_event_seq), d, log)
<1> DEFINE todo == Decisions(d, resp.events)
           x == Applying(todo, resp.latest_event_seq)
           action(i) == reconcile_event(d, resp.events[i])
<1>1. /\ DOMAIN todo = {i \in DOMAIN resp.events : Effective(action(i))}
      /\ \A i \in DOMAIN todo : todo[i] = action(i)
  BY DEF Decisions
<1>2. x.todo = todo /\ x.latest = resp.latest_event_seq
  BY DEF Applying
<1>3. ASSUME NEW i \in DOMAIN resp.events, ~Knows(d, log, i)
      PROVE  /\ action(i).kind = "DownloadNeeded" /\ KeyOf(action(i).event) = KeyOf(log[i])
             /\ Effective(action(i))
  <2>1. IsUpsert(log[i]) /\ ~Known(d, KeyOf(log[i])) /\ resp.events[i] = log[i]
    BY <1>3 DEF Knows, Quotes
  <2>2. Decide(d, resp.events[i]) = "DownloadNeeded"
    BY <2>1 DEF Decide
  <2>3. action(i).kind = "DownloadNeeded" /\ action(i).event = resp.events[i]
    BY <2>2 DEF reconcile_event, Carried
  <2> QED BY <2>1, <2>3 DEF Effective
<1> HIDE DEF todo, x, action
<1>4. \A i \in 1..x.latest : i \in DOMAIN x.todo \/ Knows(d, log, i)
  BY <1>1, <1>2, <1>3 DEF ManifestCovers
<1>5. \A i \in DOMAIN x.todo :
        \/ Knows(d, log, i)
        \/ x.todo[i].kind = "DownloadNeeded" /\ KeyOf(x.todo[i].event) = KeyOf(log[i])
  BY <1>1, <1>2, <1>3
<1>6. SessionCovers(x, d, log)
  BY <1>4, <1>5 DEF SessionCovers
<1> QED BY <1>6 DEF x, todo

\* ReceiveManifest decides on whatever the manifest answers.
LEMMA ReceiveManifestCovers ==
  ASSUME IInv, CoverInv, [Next]_vars, NEW s \in Session, ReceiveManifest(s)
  PROVE  CoverInv'
<1> DEFINE l == LinkOf(s)
           resp == Head(manifests[l])
           x == Applying(Decisions(db[s[1]], resp.events), resp.latest_event_seq)
<1>1. /\ UNCHANGED <<db, last_seen, requests>> /\ manifests[l] # <<>>
      /\ manifests' = [manifests EXCEPT ![l] = Tail(manifests[l])]
      /\ session' = [session EXCEPT ![s] = x]
  BY DEF ReceiveManifest
<1>2. l \in Link /\ l[1] = s[1] /\ l[2] = s[2]
  BY SessionNodes DEF LinkOf
<1>3. manifests[l] \in Seq(Manifest)
  BY <1>2, ChannelTypes DEF IInv
<1>4. /\ resp = manifests[l][1] /\ 1 \in 1..Len(manifests[l])
      /\ \A i \in 1..Len(Tail(manifests[l])) :
           i + 1 \in 1..Len(manifests[l]) /\ Tail(manifests[l])[i] = manifests[l][i + 1]
  BY <1>1, <1>3, TakeOK
<1>5. /\ ManifestCovers(resp, db[s[1]], db[s[2]].log)
      /\ Quotes(resp, db[s[2]].log)
  <2> HIDE DEF resp, l
  <2> QED BY <1>2, <1>4 DEF CoverInv, ManifestsCover, IInv, ChannelsInv
<1>6. SessionCovers(x, db[s[1]], db[s[2]].log)
  <2> HIDE DEF resp
  <2> QED BY <1>5, DecisionsCover
<1> HIDE DEF x, resp, l
<1>7. SessionsCover'
  BY <1>1, <1>6, OneSessionCovers
<1>8. ManifestsCover'
  <2>1. ASSUME NEW m \in Link, NEW q \in 1..Len(manifests'[m])
        PROVE  ManifestCovers(manifests'[m][q], db'[m[1]], db'[m[2]].log)
    <3>1. manifests'[m] = IF m = l THEN Tail(manifests[l]) ELSE manifests[m]
      BY <1>1 DEF IInv, ChannelsInv
    <3>2. \E p \in 1..Len(manifests[m]) : manifests'[m][q] = manifests[m][p]
      BY <1>4, <3>1
    <3> QED BY <3>2, CoverKept
  <2> QED BY <2>1 DEF ManifestsCover
<1> QED BY <1>1, <1>7, <1>8, UntouchedCover DEF CoverInv

\* ApplyAction makes the row before its decision is done with.
LEMMA ApplyActionCovers ==
  ASSUME IInv, CoverInv, [Next]_vars, NEW s \in Session,
         NEW i \in DOMAIN session[s].todo, NEW now \in Time, ApplyAction(s, i, now)
  PROVE  CoverInv'
<1> DEFINE a == session[s].todo[i]
           todo == Rest(session[s].todo, i)
           y == [session[s] EXCEPT !.todo = todo]
           d2 == apply_reconciliation_action(db[s[1]], a, now)
           log == db[s[2]].log
<1>1. /\ UNCHANGED <<last_seen, requests, manifests>>
      /\ db' = [db EXCEPT ![s[1]] = d2]
      /\ session' = [session EXCEPT ![s] = y]
      /\ session[s].phase = "applying"
      /\ ~ApplyFails(db[s[1]], a, now)
  BY DEF ApplyAction, IsNext
<1>2. s[1] \in Node /\ s[2] \in Node /\ s[1] # s[2]
  BY SessionNodes
<1>3. db'[s[1]] = d2 /\ db'[s[2]].log = log
  BY <1>1, <1>2 DEF IInv, DbsInv
<1>4. DecisionOK(a) /\ SessionOK(session[s])
  BY DEF IInv, SessionsInv, SessionOK
<1>5. /\ DOMAIN db[s[1]].files \subseteq DOMAIN d2.files
      /\ a.kind = "DownloadNeeded" => Known(d2, KeyOf(a.event))
  BY <1>1, <1>4, ApplyKeeps
<1>6. SessionCovers(session[s], d2, log)
  BY <1>3, CoverKept
<1>7. DOMAIN todo = DOMAIN session[s].todo \ {i}
      /\ \A j \in DOMAIN todo : todo[j] = session[s].todo[j]
  BY DEF Rest
<1> HIDE DEF todo
<1>8. y.todo = todo /\ y.latest = session[s].latest /\ y.phase = "applying"
  BY <1>1, <1>4 DEF SessionOK
<1> HIDE DEF y, d2
<1>9. Knows(d2, log, i)
  BY <1>1, <1>5, <1>6 DEF SessionCovers, Knows
<1> HIDE DEF a, log
<1>10. SessionCovers(y, d2, log)
  BY <1>1, <1>6, <1>7, <1>8, <1>9 DEF SessionCovers
<1>11. SessionsCover'
  BY <1>1, <1>3, <1>10, OneSessionCovers
<1> QED BY <1>1, <1>11, UntouchedCover DEF CoverInv

\* A session that ends without moving its cursor.
LEMMA SessionEndsCovers ==
  ASSUME IInv, CoverInv, [Next]_vars, NEW s \in Session,
         session' = [session EXCEPT ![s] = Idle],
         UNCHANGED <<last_seen, requests, manifests>>
  PROVE  CoverInv'
<1>1. SessionsCover'
  BY RestingCovers, OneSessionCovers
<1> QED BY <1>1, UntouchedCover DEF CoverInv

\* FinishSync: a session without decisions knows all it has seen.
LEMMA FinishSyncCovers ==
  ASSUME IInv, CoverInv, [Next]_vars, NEW s \in Session, FinishSync(s)
  PROVE  CoverInv'
<1>1. /\ UNCHANGED <<requests, manifests>>
      /\ session[s].phase = "applying" /\ DOMAIN session[s].todo = {}
      /\ last_seen' = [last_seen EXCEPT ![s] = session[s].latest]
      /\ session' = [session EXCEPT ![s] = Idle]
  BY DEF FinishSync
<1>2. SessionsCover'
  BY <1>1, RestingCovers, OneSessionCovers
<1>3. CursorsCover'
  <2>1. CursorCovers(session[s].latest, db'[s[1]], db'[s[2]].log)
    <3>1. SessionCovers(session[s], db'[s[1]], db'[s[2]].log)
      BY CoverKept
    <3> QED BY <1>1, <3>1 DEF SessionCovers, CursorCovers
  <2>2. ASSUME NEW t \in Session
        PROVE  CursorCovers(last_seen'[t], db'[t[1]], db'[t[2]].log)
    <3>1. last_seen'[t] = IF t = s THEN session[s].latest ELSE last_seen[t]
      BY <1>1 DEF IInv, CursorsInv
    <3> QED BY <2>1, <3>1, CoverKept
  <2> QED BY <2>2 DEF CursorsCover
<1> QED BY <1>1, <1>2, <1>3, UntouchedCover DEF CoverInv

\* A lost connection empties channels; sessions end or keep what they have.
LEMMA SeveredCovers ==
  ASSUME IInv, CoverInv, [Next]_vars, NEW lost, NEW s \in Session
  PROVE  SessionCovers(Severed(session, lost)[s], db'[s[1]], db'[s[2]].log)
<1> DEFINE b == FALSE
           y == [session[s] EXCEPT !.linked = b]
<1>1. SessionCovers(session[s], db'[s[1]], db'[s[2]].log)
  BY CoverKept
<1>2. Severed(session, lost)[s] \in {session[s], Idle, y}
  BY DEF Severed
<1> HIDE DEF b
<1>3. y.phase = session[s].phase /\ y.todo = session[s].todo /\ y.latest = session[s].latest
  BY DEF IInv, SessionsInv, SessionOK
<1> HIDE DEF y
<1>4. SessionCovers(y, db'[s[1]], db'[s[2]].log)
  BY <1>1, <1>3 DEF SessionCovers
<1> QED BY <1>1, <1>2, <1>4, RestingCovers

LEMMA DrainedCovers ==
  ASSUME IInv, CoverInv, [Next]_vars, NEW lost,
         requests' = Drained(requests, lost), manifests' = Drained(manifests, lost)
  PROVE  RequestsCover' /\ ManifestsCover'
<1>1. \A l \in Link : /\ requests'[l] \in {requests[l], <<>>}
                      /\ manifests'[l] \in {manifests[l], <<>>}
  BY DEF Drained
<1>2. Len(<<>>) = 0
  OBVIOUS
<1>3. ASSUME NEW l \in Link, NEW q \in 1..Len(requests'[l])
      PROVE  RequestCovers(requests'[l][q], db'[l[1]], db'[l[2]].log)
  BY <1>1, <1>2, CoverKept
<1>4. ASSUME NEW l \in Link, NEW q \in 1..Len(manifests'[l])
      PROVE  ManifestCovers(manifests'[l][q], db'[l[1]], db'[l[2]].log)
  BY <1>1, <1>2, CoverKept
<1> QED BY <1>3, <1>4 DEF RequestsCover, ManifestsCover

\* Disconnect and Restart.
LEMMA FaultsCover ==
  ASSUME IInv, CoverInv, [Next]_vars, NEW n \in Node, NEW m \in Node,
         Disconnect(n, m) \/ Restart(n)
  PROVE  CoverInv'
<1>1. ASSUME NEW lost, session' = Severed(session, lost)
      PROVE  SessionsCover'
  BY <1>1, SeveredCovers DEF SessionsCover
<1>2. CASE Disconnect(n, m)
  <2>1. RequestsCover' /\ ManifestsCover'
    BY <1>2, DrainedCovers DEF Disconnect
  <2> QED BY <1>1, <1>2, <2>1, UntouchedCover DEF Disconnect, CoverInv
<1>3. CASE Restart(n)
  <2>1. RequestsCover' /\ ManifestsCover'
    BY <1>3, DrainedCovers DEF Restart
  <2>2. PICK lost : /\ last_seen' = [s \in Session |-> IF s[1] = n THEN 0 ELSE last_seen[s]]
                    /\ session' = [s \in Session |->
                         IF s[1] = n THEN Idle ELSE Severed(session, lost)[s]]
    BY <1>3 DEF Restart
  <2>3. SessionsCover'
    BY <2>2, SeveredCovers, RestingCovers DEF SessionsCover
  <2>4. CursorsCover'
    <3>1. \A d, log : CursorCovers(0, d, log)
      BY DEF CursorCovers
    <3>2. \A s \in Session : last_seen'[s] \in {0, last_seen[s]}
      BY <2>2
    <3> QED BY <3>1, <3>2, CoverKept DEF CursorsCover
  <2> QED BY <2>1, <2>3, <2>4 DEF CoverInv
<1> QED BY <1>2, <1>3

\* Every step keeps the chain, if its pages suffice.
LEMMA NextCovers ==
  ASSUME OneFolder, PagesSuffice, IInv, CoverInv, [Next]_vars
  PROVE  CoverInv'
<1>1. ASSUME UNCHANGED <<last_seen, session, requests, manifests>> PROVE CoverInv'
  BY <1>1, UntouchedCover DEF CoverInv
<1>2. ASSUME NEW n, NEW f, RegisterFolder(n, f) PROVE CoverInv'
  BY <1>1, <1>2 DEF RegisterFolder
<1>3. ASSUME NEW n, NEW k, NEW now, LocalDelete(n, k, now) \/ \E h : LocalUpsert(n, k, h, now)
      PROVE  CoverInv'
  BY <1>1, <1>3 DEF LocalUpsert, LocalDelete
<1>4. ASSUME NEW s \in Session, StartSync(s) PROVE CoverInv'
  BY <1>4, StartSyncCovers
<1>5. ASSUME NEW s \in Session, ReceiveManifest(s) PROVE CoverInv'
  BY <1>5, ReceiveManifestCovers
<1>6. ASSUME NEW s \in Session, NEW i \in DOMAIN session[s].todo, NEW now \in Time,
             ApplyAction(s, i, now)
      PROVE  CoverInv'
  BY <1>6, ApplyActionCovers
<1>7. ASSUME NEW s \in Session, NEW i, NEW now,
             AbortOnDbError(s, i, now) \/ AbortOnSendError(s, i) \/ Timeout(s)
      PROVE  CoverInv'
  BY <1>7, SessionEndsCovers DEF AbortOnDbError, AbortOnSendError, Timeout
<1>8. ASSUME NEW s \in Session, FinishSync(s) PROVE CoverInv'
  BY <1>8, FinishSyncCovers
<1>9. ASSUME NEW l \in Link, ServeManifest(l) PROVE CoverInv'
  BY <1>9, ServeManifestCovers
<1>10. ASSUME NEW n \in Node, NEW m \in Node, Disconnect(n, m) PROVE CoverInv'
  BY <1>10, FaultsCover
<1>11. ASSUME NEW n \in Node, Restart(n) PROVE CoverInv'
  BY <1>11, FaultsCover
<1>12. CASE UNCHANGED vars
  BY <1>1, <1>12 DEF vars
<1>13. CASE Next
  BY <1>13, <1>2, <1>3, <1>4, <1>5, <1>6, <1>7, <1>8, <1>9, <1>10, <1>11 DEF Next, SyncStep
<1> QED BY <1>12, <1>13

\* A cursor passes no event of a file that the node has no row of: such a
\* file would never be asked for again (coordinator.rs do_reconcile,
\* service.rs reconcile_remote_manifest, db.rs get_events_since).  This
\* holds of nodes that share one folder, as long as no manifest is cut off
\* by its limit, whatever is late, lost, interrupted or restarted.
THEOREM CursorsPassNoFile ==
  ASSUME OneFolder
  PROVE  Spec /\ [][PagesSuffice]_vars => []CursorCoversFiles
<1>1. Init => CoverInv
  <2> SUFFICES ASSUME Init PROVE CoverInv
    OBVIOUS
  <2>1. \A n \in Node : Len(db[n].log) = 0
    BY DEF Init, init_schema
  <2>2. (\A l \in Link : Len(requests[l]) = 0 /\ Len(manifests[l]) = 0)
        /\ \A s \in Session : last_seen[s] = 0 /\ session[s] = Idle
    BY DEF Init
  <2>3. RequestsCover /\ ManifestsCover
    BY <2>2 DEF RequestsCover, ManifestsCover
  <2>4. SessionsCover
    BY <2>2, RestingCovers DEF SessionsCover
  <2>5. CursorsCover
    BY <2>2 DEF CursorsCover, CursorCovers
  <2> QED BY <2>3, <2>4, <2>5 DEF CoverInv
<1>2. IInv /\ CoverInv /\ [Next]_vars /\ [PagesSuffice]_vars => CoverInv'
  <2> SUFFICES ASSUME IInv, CoverInv, [Next]_vars, [PagesSuffice]_vars PROVE CoverInv'
    OBVIOUS
  <2>1. CASE PagesSuffice
    BY <2>1, NextCovers
  <2>2. CASE UNCHANGED vars
    BY <2>2, UntouchedCover DEF vars, CoverInv
  <2> QED BY <2>1, <2>2
<1>3. IInv /\ CoverInv => CursorCoversFiles
  <2> SUFFICES ASSUME IInv, CoverInv, NEW s \in Session, NEW i \in Seen(s)
               PROVE  Knows(db[s[1]], db[s[2]].log, i)
    BY DEF CursorCoversFiles, Knows
  <2>1. s[2] \in Node /\ last_seen[s] \in Nat
    BY SessionNodes DEF IInv, CursorsInv
  <2>2. i \in 1..Len(db[s[2]].log) /\ i <= last_seen[s]
    BY DEF Seen, FolderSeqs
  <2>3. i \in 1..last_seen[s]
    BY <2>1, <2>2, LogLen DEF IInv
  <2> QED BY <2>3 DEF CoverInv, CursorsCover, CursorCovers
<1> QED BY <1>1, <1>2, <1>3, AlwaysIInv, PTL DEF Spec

===========================================================================

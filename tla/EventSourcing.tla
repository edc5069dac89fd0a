--------------------------- MODULE EventSourcing ---------------------------
(***************************************************************************)
(* What replication promises, in terms of the logs alone: every node keeps *)
(* an append-only log, and an event enters a log in one of two ways.       *)
(* Either a user of that node made the change, or the node relays a change *)
(* that the log of another node already reports.  What is relayed may      *)
(* carry another path mark, file id or time than the quoted event, but it  *)
(* reports the same change.                                                *)
(***************************************************************************)
EXTENDS MetadataDb, TLAPS

VARIABLE logs   \* logs[n]: the sync events of node n

\* e reports the change that w records.  An upsert keeps its author, folder,
\* name, version and content; a deletion its path and version.
Reports(e, w) ==
  IF IsUpsert(e)
    THEN /\ IsUpsert(w) /\ w.origin_node_id = e.origin_node_id
         /\ w.folder_id = e.folder_id
         /\ w.relative_path.name = e.relative_path.name
         /\ w.version = e.version /\ w.content_hash = e.content_hash
    ELSE /\ ~IsUpsert(w)
         /\ KeyOf(w) = KeyOf(e) /\ w.version = e.version

\* The step appends one event to the log of n.
NewEvent(n) == logs'[n][Len(logs'[n])]

Extend(n) ==
  /\ Len(logs'[n]) = Len(logs[n]) + 1
  /\ NewEvent(n) \in SyncEvent
  /\ logs' = [logs EXCEPT ![n] = Append(@, NewEvent(n))]

Author(n) == Extend(n) /\ NewEvent(n).origin_node_id = n

Relay(n, m) ==
  /\ Extend(n)
  /\ \E i \in 1..Len(logs[m]) : Reports(NewEvent(n), logs[m][i])

Init == logs = [n \in Node |-> <<>>]

Next ==
  \/ \E n \in Node : Author(n)
  \/ \E n \in Node : \E m \in Node \ {n} : Relay(n, m)

Spec == Init /\ [][Next]_logs

\* In logs ls, o made the change that e reports.
MadeBy(ls, o, e) ==
  \E i \in 1..Len(ls[o]) : ls[o][i].origin_node_id = o /\ Reports(e, ls[o][i])

\* e can be traced to a user.
Traced(ls, e) ==
  IF IsUpsert(e)
    THEN e.origin_node_id \in Node => MadeBy(ls, e.origin_node_id, e)
    ELSE \E o \in Node : MadeBy(ls, o, e)

\* No node invents a change: an upsert in any log is in the log of the
\* node it names as its author, with the same content and version, through
\* any number of relays, retries, restarts and conflict branches; and a
\* deletion in any log was made by a user of some node, for that very path
\* and version.  No file is deleted that nobody deleted.
Provenance == \A n \in Node : \A i \in 1..Len(logs[n]) : Traced(logs, logs[n][i])
---------------------------------------------------------------------------
TypeOK == logs \in [Node -> Seq(SyncEvent)]

\* Reporting is transitive: a relay of a relay reports the change itself.
LEMMA ReportsTransitive ==
  ASSUME NEW e, NEW v, NEW w, Reports(e, v), Reports(v, w)
  PROVE  Reports(e, w)
  BY DEF Reports, IsUpsert, KeyOf

\* An event reports the change it records itself.
LEMMA ReportsReflexive ==
  ASSUME NEW e
  PROVE  Reports(e, e)
  BY DEF Reports

\* What a step does to the logs: one of them is extended by an event.
LEMMA ExtendLogs ==
  ASSUME TypeOK, NEW n \in Node, Extend(n)
  PROVE  /\ TypeOK'
         /\ NewEvent(n) \in SyncEvent
         /\ Len(logs[n]) \in Nat /\ Len(logs'[n]) = Len(logs[n]) + 1
         /\ logs'[n][Len(logs[n]) + 1] = NewEvent(n)
         /\ \A i \in 1..Len(logs[n]) : logs'[n][i] = logs[n][i]
         /\ \A m \in Node \ {n} : logs'[m] = logs[m]
<1> DEFINE e == NewEvent(n)
<1>1. e \in SyncEvent /\ logs' = [logs EXCEPT ![n] = Append(logs[n], e)]
      /\ Len(logs'[n]) = Len(logs[n]) + 1
  BY DEF Extend
<1>2. logs'[n][Len(logs'[n])] = e
  BY DEF NewEvent
<1> HIDE DEF e
<1>3. logs[n] \in Seq(SyncEvent) /\ DOMAIN logs = Node
  BY DEF TypeOK
<1>4. logs'[n] = Append(logs[n], e) /\ \A m \in Node \ {n} : logs'[m] = logs[m]
  BY <1>1, <1>3
<1>5. Append(logs[n], e) \in Seq(SyncEvent) /\ Len(logs[n]) \in Nat
      /\ \A i \in 1..Len(logs[n]) : Append(logs[n], e)[i] = logs[n][i]
  BY <1>1, <1>3
<1>6. TypeOK'
  BY <1>1, <1>5 DEF TypeOK
<1> QED BY <1>1, <1>2, <1>4, <1>5, <1>6 DEF e

\* A change once made stays in the log of its author.
LEMMA TracedStable ==
  ASSUME TypeOK, NEW n \in Node, Extend(n), NEW e, Traced(logs, e)
  PROVE  Traced(logs', e)
<1>1. ASSUME NEW o \in Node, MadeBy(logs, o, e) PROVE MadeBy(logs', o, e)
  <2>1. PICK i \in 1..Len(logs[o]) : logs[o][i].origin_node_id = o /\ Reports(e, logs[o][i])
    BY <1>1 DEF MadeBy
  <2>2. i \in 1..Len(logs'[o]) /\ logs'[o][i] = logs[o][i]
    BY <2>1, ExtendLogs
  <2> QED BY <2>1, <2>2 DEF MadeBy
<1> QED BY <1>1 DEF Traced

\* What reports a traceable event is traceable.
LEMMA TracedRelayed ==
  ASSUME NEW ls, NEW e, NEW w, Reports(e, w), Traced(ls, w)
  PROVE  Traced(ls, e)
<1>1. ASSUME NEW o, MadeBy(ls, o, w) PROVE MadeBy(ls, o, e)
  <2>1. PICK i \in 1..Len(ls[o]) : ls[o][i].origin_node_id = o /\ Reports(w, ls[o][i])
    BY <1>1 DEF MadeBy
  <2>2. Reports(e, ls[o][i])
    BY <2>1, ReportsTransitive
  <2> QED BY <2>1, <2>2 DEF MadeBy
<1>2. IsUpsert(e) <=> IsUpsert(w)
  BY DEF Reports
<1>3. IsUpsert(e) => e.origin_node_id = w.origin_node_id
  BY DEF Reports
<1> QED BY <1>1, <1>2, <1>3 DEF Traced

\* Every step keeps every event traceable.
LEMMA ProvenanceStep ==
  ASSUME TypeOK, Provenance, [Next]_logs
  PROVE  TypeOK' /\ Provenance'
<1>1. CASE UNCHANGED logs
  BY <1>1 DEF TypeOK, Provenance
<1>2. ASSUME NEW n \in Node, Extend(n), Traced(logs', NewEvent(n))
      PROVE  TypeOK' /\ Provenance'
  <2>1. TypeOK'
    BY <1>2, ExtendLogs
  <2>2. ASSUME NEW m \in Node, NEW i \in 1..Len(logs'[m])
        PROVE  Traced(logs', logs'[m][i])
    <3>1. CASE m = n /\ i = Len(logs[n]) + 1
      BY <1>2, <3>1, ExtendLogs
    <3>2. CASE ~(m = n /\ i = Len(logs[n]) + 1)
      <4>1. i \in 1..Len(logs[m]) /\ logs'[m][i] = logs[m][i]
        BY <1>2, <3>2, ExtendLogs
      <4>2. Traced(logs, logs[m][i])
        BY <4>1 DEF Provenance
      <4> QED BY <1>2, <4>1, <4>2, TracedStable
    <3> QED BY <3>1, <3>2
  <2> QED BY <2>1, <2>2 DEF Provenance
<1>3. ASSUME NEW n \in Node, Author(n) PROVE TypeOK' /\ Provenance'
  <2> DEFINE e == NewEvent(n)
  <2>1. Extend(n) /\ e.origin_node_id = n
    BY <1>3 DEF Author
  <2>2. Len(logs'[n]) \in 1..Len(logs'[n]) /\ logs'[n][Len(logs'[n])] = e
    BY <2>1, ExtendLogs
  <2> HIDE DEF e
  <2>3. MadeBy(logs', n, e)
    BY <2>1, <2>2, ReportsReflexive DEF MadeBy
  <2>4. Traced(logs', e)
    BY <2>1, <2>3 DEF Traced
  <2> QED BY <1>2, <2>1, <2>4 DEF e
<1>4. ASSUME NEW n \in Node, NEW m \in Node \ {n}, Relay(n, m)
      PROVE  TypeOK' /\ Provenance'
  <2>1. Extend(n)
    BY <1>4 DEF Relay
  <2>2. PICK i \in 1..Len(logs[m]) : Reports(NewEvent(n), logs[m][i])
    BY <1>4 DEF Relay
  <2>3. Traced(logs, logs[m][i])
    BY DEF Provenance
  <2>4. Traced(logs', NewEvent(n))
    BY <2>1, <2>2, <2>3, TracedStable, TracedRelayed
  <2> QED BY <1>2, <2>1, <2>4
<1> QED BY <1>1, <1>3, <1>4 DEF Next

\* Every change in every log goes back to a user that made it.
THEOREM ChangesHaveAuthors == Spec => []Provenance
<1>1. Init => TypeOK /\ Provenance
  BY DEF Init, TypeOK, Provenance
<1>2. TypeOK /\ Provenance /\ [Next]_logs => TypeOK' /\ Provenance'
  BY ProvenanceStep
<1> QED BY <1>1, <1>2, PTL DEF Spec
===========================================================================

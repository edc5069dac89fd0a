--------------------------- MODULE ManagerProofs ---------------------------
(***************************************************************************)
(* What holds of Manager for any peers and addresses, however attempts,    *)
(* accepted connections, the maintenance loop and users cross: types and   *)
(* the bound on misses, that every connection is looked after, and that    *)
(* candidates and connections belong to the peer they are filed under.     *)
(***************************************************************************)
EXTENDS Manager, TLAPS

\* What attempt_connect_best_candidate has of its work.
Attempting ==
  {NoAttempt} \cup [phase : {"start"}, id : Id]
    \cup [phase : {"dial"}, id : Id, todo : Seq(Address) \ {<<>>}]

\* Where the maintenance loop may be: a ping, and what follows when it was
\* answered, has a connection of a peer.
Maintaining ==
  [phase : {"sleep", "next"}, peers : SUBSET Id, conn : {None}]
    \cup [phase : {"ping", "restore"}, peers : SUBSET Id, peer : Peer, conn : PeerConnection]
    \cup [phase : {"remove", "attempt"}, peers : SUBSET Id, peer : Id,
          conn : PeerConnection \cup {None}]

TypeInv ==
  /\ candidates \in [Id -> Seq(Address)]
  /\ active_connections \in [Peer -> PeerConnection \cup {None}]
  /\ simulate_lan_disabled \in BOOLEAN
  /\ attempt \in [Task -> Attempting]
  /\ maint \in Maintaining
  /\ accepted \subseteq Address /\ up \subseteq Address
  /\ added \subseteq Manual /\ events \in 0..MaxEvents

\* A peer has three misses only while its connection is about to be removed.
MissesInv ==
  /\ failed_pings \in [Peer -> 0..3]
  /\ \A p \in Peer : failed_pings[p] = 3 => Turn(p, "remove")

\* What is dialled for a peer is the peer's, and was copied from its list.
AttemptsInv ==
  \A t \in Task : attempt[t].phase = "dial" /\ attempt[t].id \in Peer =>
    /\ candidates[attempt[t].id] # <<>>
    /\ \A j \in DOMAIN attempt[t].todo : Owner[attempt[t].todo[j]] = attempt[t].id

IInv == TypeInv /\ MissesInv /\ AttemptsInv /\ ActiveIsMaintained /\ OwnCandidates
---------------------------------------------------------------------------
(* Lists of candidates. *)

LEMMA PriorityIsNat == \A a : priority(a) \in 1..2
  BY DEF priority

\* Sorting permutes the list.
LEMMA SortPermutes ==
  ASSUME NEW s \in Seq(Address), NEW sorted \in sort_by_priority(s)
  PROVE  /\ sorted \in Seq(Address)
         /\ DOMAIN sorted = DOMAIN s
         /\ \A j \in DOMAIN s : \E k \in DOMAIN s : sorted[j] = s[k]
         /\ IsInjective(s) => IsInjective(sorted)
<1>1. PICK o \in [DOMAIN s -> DOMAIN s] :
        /\ sorted = [j \in DOMAIN s |-> s[o[j]]]
        /\ \A j, k \in DOMAIN s : j < k => Precedes(s, o[j], o[k])
  BY DEF sort_by_priority
<1>2. DOMAIN s = 1..Len(s) /\ Len(s) \in Nat /\ \A j \in DOMAIN s : s[j] \in Address
  OBVIOUS
<1>3. \A j, k \in DOMAIN s : o[j] = o[k] => j = k
  <2>1. \A j \in DOMAIN s : ~Precedes(s, o[j], o[j])
    BY <1>2, PriorityIsNat DEF Precedes
  <2>2. \A j, k \in DOMAIN s : j # k => j < k \/ k < j
    BY <1>2
  <2> QED BY <1>1, <2>1, <2>2
<1>4. sorted \in [1..Len(s) -> Address]
  BY <1>1, <1>2
<1>5. IsInjective(s) => IsInjective(sorted)
  BY <1>1, <1>3 DEF IsInjective
<1> QED BY <1>1, <1>2, <1>4, <1>5

\* An address that is not in the list is put behind it.
LEMMA AppendKeepsInjective ==
  ASSUME NEW s \in Seq(Address), NEW a \in Address, IsInjective(s),
         \A j \in DOMAIN s : s[j] # a
  PROVE  IsInjective(Append(s, a))
<1>1. /\ DOMAIN s = 1..Len(s) /\ Len(s) \in Nat
      /\ DOMAIN Append(s, a) = 1..(Len(s) + 1)
      /\ \A j \in 1..Len(s) : Append(s, a)[j] = s[j]
      /\ Append(s, a)[Len(s) + 1] = a
  OBVIOUS
<1>2. \A j \in 1..(Len(s) + 1) : j \in 1..Len(s) \/ j = Len(s) + 1
  BY <1>1
<1> QED BY <1>1, <1>2 DEF IsInjective

LEMMA HeadAndTail ==
  ASSUME NEW s \in Seq(Address), s # <<>>
  PROVE  /\ Head(s) \in Address /\ Tail(s) \in Seq(Address)
         /\ Len(s) # 1 => Tail(s) # <<>>
         /\ 1 \in DOMAIN s /\ Head(s) = s[1]
         /\ \A j \in DOMAIN Tail(s) : j + 1 \in DOMAIN s /\ Tail(s)[j] = s[j + 1]
<1>1. Len(s) \in Nat /\ Len(s) > 0 /\ DOMAIN s = 1..Len(s)
  OBVIOUS
<1>2. /\ Head(s) = s[1] /\ Head(s) \in Address /\ Tail(s) \in Seq(Address)
      /\ Len(Tail(s)) = Len(s) - 1 /\ DOMAIN Tail(s) = 1..Len(Tail(s))
      /\ \A j \in 1..Len(Tail(s)) : Tail(s)[j] = s[j + 1]
  BY <1>1
<1>3. Len(<<>>) = 0
  OBVIOUS
<1>4. Len(s) # 1 => Tail(s) # <<>>
  <2> DEFINE t == Tail(s)
  <2>1. Len(s) # 1 => Len(t) # 0
    BY <1>1, <1>2
  <2> HIDE DEF t
  <2>2. Len(s) # 1 => t # <<>>
    BY <1>3, <2>1
  <2> QED BY <2>2 DEF t
<1> QED BY <1>1, <1>2, <1>4

\* What a list may become: its entries and perhaps a, each still at most once.
Extends(new, old, a) ==
  /\ new \in Seq(Address) /\ new # <<>>
  /\ \A j \in DOMAIN new : new[j] = a \/ \E k \in DOMAIN old : new[j] = old[k]
  /\ IsInjective(old) => IsInjective(new)

LEMMA AppendExtends ==
  ASSUME NEW s \in Seq(Address), NEW a \in Address, \A j \in DOMAIN s : s[j] # a
  PROVE  Extends(Append(s, a), s, a)
<1>1. \A j \in DOMAIN Append(s, a) : Append(s, a)[j] = a \/ \E k \in DOMAIN s : Append(s, a)[j] = s[k]
  OBVIOUS
<1>2. Append(s, a) \in Seq(Address) /\ Append(s, a) # <<>>
  <2>1. Len(Append(s, a)) = Len(s) + 1 /\ Len(s) \in Nat /\ Len(<<>>) = 0
    OBVIOUS
  <2> QED BY <2>1
<1> QED BY <1>1, <1>2, AppendKeepsInjective DEF Extends

LEMMA KnownExtends ==
  ASSUME NEW s \in Seq(Address), NEW a \in Address, \E j \in DOMAIN s : s[j] = a
  PROVE  Extends(s, s, a)
<1>1. DOMAIN <<>> = {}
  OBVIOUS
<1> QED BY <1>1 DEF Extends

LEMMA SortExtends ==
  ASSUME NEW s \in Seq(Address), NEW a \in Address, \A j \in DOMAIN s : s[j] # a,
         NEW sorted \in sort_by_priority(Append(s, a))
  PROVE  Extends(sorted, s, a)
<1> DEFINE l == Append(s, a)
<1>1. l \in Seq(Address) /\ 1 \in DOMAIN l /\ sorted \in sort_by_priority(l)
  OBVIOUS
<1>2. Extends(l, s, a)
  BY AppendExtends
<1> HIDE DEF l
<1>3. /\ sorted \in Seq(Address) /\ DOMAIN sorted = DOMAIN l
      /\ \A j \in DOMAIN sorted : \E k \in DOMAIN l : sorted[j] = l[k]
      /\ IsInjective(l) => IsInjective(sorted)
  BY <1>1, SortPermutes
<1>4. sorted # <<>>
  <2>1. DOMAIN <<>> = {}
    OBVIOUS
  <2> QED BY <1>1, <1>3, <2>1
<1> QED BY <1>2, <1>3, <1>4 DEF Extends
---------------------------------------------------------------------------
(* The parts of actions. *)

LEMMA ConnectionIsSome ==
  ASSUME NEW c \in PeerConnection
  PROVE  c # None /\ c.addr \in Address /\ [c EXCEPT !.alive = FALSE] \in PeerConnection
         /\ [c EXCEPT !.alive = FALSE].addr = c.addr
<1>1. DOMAIN c = {"addr", "alive"} /\ DOMAIN None = {"alive"}
  BY DEF PeerConnection, None
<1>2. c # None
  BY <1>1
<1>3. c.addr \in Address
  BY DEF PeerConnection
<1>4. [c EXCEPT !.alive = FALSE] \in PeerConnection
  BY DEF PeerConnection
<1>5. [c EXCEPT !.alive = FALSE].addr = c.addr
  BY <1>1
<1> QED BY <1>2, <1>3, <1>4, <1>5

LEMMA WithoutKeeps ==
  ASSUME NEW c \in PeerConnection \cup {None}, NEW a
  PROVE  /\ c \in PeerConnection => Without(c, a) \in PeerConnection /\ Without(c, a).addr = c.addr
         /\ c = None => Without(c, a) = None
  BY ConnectionIsSome DEF Without

LEMMA AttemptKinds ==
  ASSUME NEW w \in Attempting
  PROVE  /\ w.phase \in {"none", "start", "dial"}
         /\ w.phase = "none" => w = NoAttempt
         /\ w.phase \in {"start", "dial"} => w.id \in Id
         /\ w.phase = "dial" =>
              /\ w.todo \in Seq(Address) /\ w.todo # <<>> /\ Head(w.todo) \in Address
              /\ Len(w.todo) # 1 => [w EXCEPT !.todo = Tail(@)] \in Attempting
                 /\ [w EXCEPT !.todo = Tail(@)].id = w.id
                 /\ [w EXCEPT !.todo = Tail(@)].todo = Tail(w.todo)
<1>1. CASE w = NoAttempt
  BY <1>1 DEF NoAttempt
<1>2. CASE w \in [phase : {"start"}, id : Id]
  BY <1>2
<1>3. CASE w \in [phase : {"dial"}, id : Id, todo : Seq(Address) \ {<<>>}]
  <2>1. w.todo \in Seq(Address) /\ w.todo # <<>> /\ w.phase = "dial" /\ w.id \in Id
    BY <1>3
  <2>2. Head(w.todo) \in Address /\ Tail(w.todo) \in Seq(Address)
        /\ (Len(w.todo) # 1 => Tail(w.todo) # <<>>)
    BY <2>1, HeadAndTail
  <2>3. /\ [w EXCEPT !.todo = Tail(@)].todo = Tail(w.todo)
        /\ [w EXCEPT !.todo = Tail(@)].id = w.id
        /\ [w EXCEPT !.todo = Tail(@)] = [phase |-> "dial", id |-> w.id, todo |-> Tail(w.todo)]
    BY <1>3
  <2> QED BY <1>3, <2>1, <2>2, <2>3 DEF Attempting
<1> QED BY <1>1, <1>2, <1>3 DEF Attempting

\* add_candidate of a task at rest.
LEMMA CandidateAdded ==
  ASSUME NEW t \in Task, NEW i \in Id, NEW a \in Address, TypeInv,
         attempt[t] = NoAttempt, add_candidate(t, i, a)
  PROVE  /\ candidates' \in [Id -> Seq(Address)]
         /\ Extends(candidates'[i], candidates[i], a)
         /\ \A k \in Id \ {i} : candidates'[k] = candidates[k]
         /\ attempt' \in [Task -> Attempting]
         /\ \A u \in Task : attempt'[u].phase = "dial" => attempt'[u] = attempt[u]
<1> DEFINE start == [phase |-> "start", id |-> i]
<1>1. candidates \in [Id -> Seq(Address)] /\ attempt \in [Task -> Attempting]
  BY DEF TypeInv
<1>2. CASE Known(i, a)
  BY <1>1, <1>2, KnownExtends DEF add_candidate, Known
<1>3. CASE ~Known(i, a)
  <2>1. PICK sorted \in sort_by_priority(Append(candidates[i], a)) :
          candidates' = [candidates EXCEPT ![i] = sorted]
    BY <1>3 DEF add_candidate
  <2>2. Extends(sorted, candidates[i], a)
    BY <1>1, <1>3, SortExtends DEF Known
  <2>3. attempt' = attempt \/ attempt' = [attempt EXCEPT ![t] = start]
    BY <1>3 DEF add_candidate
  <2>4. start \in Attempting /\ start.phase = "start"
    BY DEF Attempting
  <2> HIDE DEF start
  <2>5. attempt' \in [Task -> Attempting]
        /\ \A u \in Task : attempt'[u].phase = "dial" => attempt'[u] = attempt[u]
    BY <1>1, <2>3, <2>4
  <2>6. candidates' \in [Id -> Seq(Address)]
    BY <1>1, <2>1, <2>2 DEF Extends
  <2> QED BY <1>1, <2>1, <2>2, <2>5, <2>6
<1> QED BY <1>2, <1>3

LEMMA ConnectionRegistered ==
  ASSUME NEW p \in Peer, NEW a \in Address,
         active_connections \in [Peer -> PeerConnection \cup {None}],
         register_active_connection(p, a)
  PROVE  /\ active_connections' \in [Peer -> PeerConnection \cup {None}]
         /\ active_connections'[p] \in PeerConnection
         /\ active_connections'[p].addr = a
         /\ \A q \in Peer \ {p} : active_connections'[q] = active_connections[q]
  BY DEF register_active_connection, PeerConnection

\* What a dial that succeeds makes of the lists.
LEMMA CandidatesMigrated ==
  ASSUME NEW i \in Id, NEW p \in Peer, NEW a \in Address,
         candidates \in [Id -> Seq(Address)], i \in Peer => i = p,
         candidates' = Migrated(i, p, a)
  PROVE  /\ candidates' \in [Id -> Seq(Address)]
         /\ \A q \in Peer \ {p} : candidates'[q] = candidates[q]
         /\ i = p => candidates' = candidates
         /\ i # p => Extends(candidates'[p], candidates[p], a)
<1>1. p \in Id
  BY DEF Id
<1>2. CASE i = p
  BY <1>2 DEF Migrated
<1>3. CASE i # p
  <2> DEFINE l == IF Known(p, a) THEN candidates[p] ELSE Append(candidates[p], a)
  <2>1. i = Placeholder /\ i \notin Peer
    BY <1>3 DEF Id
  <2>2. candidates' = [candidates EXCEPT ![i] = <<>>, ![p] = l]
    BY <1>1, <1>3 DEF Migrated
  <2>3. Extends(l, candidates[p], a)
    BY <1>1, AppendExtends, KnownExtends DEF Known
  <2>4. l \in Seq(Address)
    BY <2>3 DEF Extends
  <2> HIDE DEF l
  <2>5. candidates' \in [Id -> Seq(Address)]
    <3>1. <<>> \in Seq(Address)
      OBVIOUS
    <3> QED BY <1>1, <2>2, <2>4, <3>1
  <2> QED BY <1>1, <1>3, <2>1, <2>2, <2>3, <2>5 DEF Id
<1> QED BY <1>2, <1>3
---------------------------------------------------------------------------
(* Where the maintenance loop goes. *)

LEMMA MaintKinds ==
  ASSUME NEW m \in Maintaining
  PROVE  /\ m.phase \in {"sleep", "next", "ping", "restore", "remove", "attempt"}
         /\ m.peers \subseteq Id /\ m.conn \in PeerConnection \cup {None}
         /\ m.phase \in {"ping", "restore"} => m.peer \in Peer /\ m.conn \in PeerConnection
         /\ m.phase \in {"remove", "attempt"} => m.peer \in Id
  BY DEF Maintaining

LEMMA MaintSteps ==
  ASSUME NEW m \in Maintaining
  PROVE  /\ m.phase = "ping" =>
              /\ [m EXCEPT !.phase = "restore"] \in Maintaining
              /\ [m EXCEPT !.phase = "restore"].phase = "restore"
              /\ [m EXCEPT !.phase = "remove"] \in Maintaining
              /\ [m EXCEPT !.phase = "remove"].phase = "remove"
              /\ [m EXCEPT !.phase = "remove"].peer = m.peer
         /\ m.phase = "remove" =>
              /\ [m EXCEPT !.phase = "attempt", !.conn = None] \in Maintaining
              /\ [m EXCEPT !.phase = "attempt", !.conn = None].phase = "attempt"
<1>1. CASE m.phase = "ping"
  <2>1. m \in [phase : {"ping", "restore"}, peers : SUBSET Id, peer : Peer, conn : PeerConnection]
    BY <1>1 DEF Maintaining
  <2>2. [m EXCEPT !.phase = "restore"] \in
          [phase : {"ping", "restore"}, peers : SUBSET Id, peer : Peer, conn : PeerConnection]
    BY <2>1
  <2>3. Peer \subseteq Id
    BY DEF Id
  <2>4. [m EXCEPT !.phase = "remove"] \in
          [phase : {"remove", "attempt"}, peers : SUBSET Id, peer : Id,
           conn : PeerConnection \cup {None}]
    BY <2>1, <2>3
  <2>5. /\ [m EXCEPT !.phase = "restore"].phase = "restore"
        /\ [m EXCEPT !.phase = "remove"].phase = "remove"
        /\ [m EXCEPT !.phase = "remove"].peer = m.peer
    BY <2>1
  <2> QED BY <1>1, <2>2, <2>4, <2>5 DEF Maintaining
<1>2. CASE m.phase = "remove"
  <2>1. m \in [phase : {"remove", "attempt"}, peers : SUBSET Id, peer : Id,
               conn : PeerConnection \cup {None}]
    BY <1>2 DEF Maintaining
  <2>2. [m EXCEPT !.phase = "attempt", !.conn = None] \in
          [phase : {"remove", "attempt"}, peers : SUBSET Id, peer : Id,
           conn : PeerConnection \cup {None}]
    BY <2>1
  <2>3. [m EXCEPT !.phase = "attempt", !.conn = None].phase = "attempt"
    BY <2>1
  <2> QED BY <1>2, <2>2, <2>3 DEF Maintaining
<1> QED BY <1>1, <1>2

LEMMA MaintConnDies ==
  ASSUME NEW m \in Maintaining, NEW a
  PROVE  /\ [m EXCEPT !.conn = Without(@, a)] \in Maintaining
         /\ [m EXCEPT !.conn = Without(@, a)].phase = m.phase
         /\ [m EXCEPT !.conn = Without(@, a)].peer = m.peer
<1> DEFINE c == Without(m.conn, a)
<1>1. c \in PeerConnection \cup {None} /\ (m.conn \in PeerConnection => c \in PeerConnection)
      /\ (m.conn = None => c = None)
  BY MaintKinds, WithoutKeeps
<1> HIDE DEF c
<1>2. [m EXCEPT !.conn = c] \in Maintaining
  <2>1. CASE m \in [phase : {"sleep", "next"}, peers : SUBSET Id, conn : {None}]
    BY <1>1, <2>1 DEF Maintaining
  <2>2. CASE m \in [phase : {"ping", "restore"}, peers : SUBSET Id, peer : Peer, conn : PeerConnection]
    BY <1>1, <2>2 DEF Maintaining
  <2>3. CASE m \in [phase : {"remove", "attempt"}, peers : SUBSET Id, peer : Id,
                    conn : PeerConnection \cup {None}]
    BY <1>1, <2>3 DEF Maintaining
  <2> QED BY <2>1, <2>2, <2>3 DEF Maintaining
<1>3. [m EXCEPT !.conn = c].phase = m.phase /\ [m EXCEPT !.conn = c].peer = m.peer
  BY DEF Maintaining
<1> QED BY <1>2, <1>3 DEF c

LEMMA NextPeer ==
  ASSUME maint \in Maintaining
  PROVE  Next_peer \in Maintaining /\ Next_peer.phase = "next"
  BY MaintKinds DEF Next_peer, Maintaining

LEMMA HealthyStep ==
  ASSUME maint \in Maintaining, maint.phase = "ping"
  PROVE  Healthy \in Maintaining /\ Healthy.phase \in {"restore", "next"}
  BY NextPeer, MaintSteps DEF Healthy
---------------------------------------------------------------------------
LEMMA InitInv == Init => IInv
<1> SUFFICES ASSUME Init PROVE IInv
  OBVIOUS
<1>1. <<>> \in Seq(Address) /\ DOMAIN <<>> = {} /\ IsInjective(<<>>)
  BY DEF IsInjective
<1>2. Resting \in Maintaining /\ Resting.phase = "sleep"
  BY DEF Resting, Maintaining
<1>3. NoAttempt \in Attempting /\ NoAttempt.phase = "none"
  BY DEF NoAttempt, Attempting
<1>4. TypeInv
  <2>1. attempt \in [Task -> Attempting]
    BY <1>3 DEF Init
  <2>2. maint \in Maintaining
    BY <1>2 DEF Init
  <2>3. candidates \in [Id -> Seq(Address)] /\ active_connections \in [Peer -> PeerConnection \cup {None}]
    BY <1>1 DEF Init
  <2>4. simulate_lan_disabled \in BOOLEAN /\ accepted \subseteq Address /\ added \subseteq Manual
    BY DEF Init
  <2>5. up \subseteq Address /\ events \in 0..MaxEvents
    BY ManagerAssumption DEF Init, ManagerAssumption
  <2> QED BY <2>1, <2>2, <2>3, <2>4, <2>5 DEF TypeInv
<1>5. MissesInv /\ AttemptsInv
  BY <1>3 DEF Init, MissesInv, AttemptsInv
<1>6. \A p \in Peer : p \in Id /\ ~Connected(p)
  BY DEF Init, Connected, Id
<1>7. ActiveIsMaintained /\ OwnCandidates
  BY <1>1, <1>6 DEF Init, ActiveIsMaintained, OwnCandidates
<1> QED BY <1>4, <1>5, <1>7 DEF IInv

LEMMA OwnerIsPeer ==
  ASSUME NEW a \in Address
  PROVE  Owner[a] \in Peer /\ Owner[a] \in Id
  BY ManagerAssumption DEF ManagerAssumption, Id

LEMMA EventCounts ==
  ASSUME events \in 0..MaxEvents, Event
  PROVE  events' \in 0..MaxEvents
  BY ManagerAssumption DEF ManagerAssumption, Event

\* A connection found by the preferred network is one to a candidate.
LEMMA FirstLanIsCandidate ==
  ASSUME TypeInv, NEW p \in Peer, NEW a \in FirstLan(p)
  PROVE  a \in Address /\ \E j \in DOMAIN candidates[p] : candidates[p][j] = a
<1>1. candidates[p] \in Seq(Address)
  BY DEF TypeInv, Id
<1>2. \A j \in DOMAIN candidates[p] : candidates[p][j] \in Address
  BY <1>1
<1> QED BY <1>2 DEF FirstLan, LanPositions

\* The dial for a known peer is answered by that peer.
LEMMA PeerAnswers ==
  ASSUME TypeInv, AttemptsInv, NEW t \in Task, attempt[t].phase = "dial"
  PROVE  LET a == Head(attempt[t].todo) i == attempt[t].id IN
         /\ a \in Address /\ i \in Id /\ Owner[a] \in Peer
         /\ i \in Peer => Owner[a] = i /\ candidates[i] # <<>>
<1>1. attempt[t] \in Attempting
  BY DEF TypeInv
<1>2. /\ attempt[t].todo \in Seq(Address) /\ attempt[t].todo # <<>>
      /\ Head(attempt[t].todo) \in Address /\ attempt[t].id \in Id
  BY <1>1, AttemptKinds
<1>3. 1 \in DOMAIN attempt[t].todo /\ Head(attempt[t].todo) = attempt[t].todo[1]
  BY <1>2, HeadAndTail
<1> QED BY <1>2, <1>3, OwnerIsPeer DEF AttemptsInv

LEMMA TypeStep == IInv /\ [Next]_vars => TypeInv'
<1> SUFFICES ASSUME TypeInv, AttemptsInv, [Next]_vars PROVE TypeInv'
  BY DEF IInv
<1> USE DEF TypeInv
<1>1. ASSUME NEW a \in Address, AddressGoesDown(a) PROVE TypeInv'
  <2>1. active_connections' \in [Peer -> PeerConnection \cup {None}]
    BY <1>1, WithoutKeeps DEF AddressGoesDown
  <2>2. maint' \in Maintaining
    BY <1>1, MaintConnDies DEF AddressGoesDown
  <2> QED BY <1>1, <2>1, <2>2, EventCounts DEF AddressGoesDown
<1>2. ASSUME NEW a \in Address, AddressComesUp(a) PROVE TypeInv'
  BY <1>2, EventCounts DEF AddressComesUp
<1>3. CASE set_simulate_lan_disabled
  BY <1>3, EventCounts DEF set_simulate_lan_disabled
<1>4. ASSUME NEW a \in Address, Discover(a) PROVE TypeInv'
  BY <1>4, OwnerIsPeer, CandidateAdded DEF Discover, Task
<1>5. ASSUME NEW a \in Address, AddManually(a) PROVE TypeInv'
  <2>1. Placeholder \in Id
    BY DEF Id
  <2>2. candidates' \in [Id -> Seq(Address)] /\ attempt' \in [Task -> Attempting]
    BY <1>5, <2>1, CandidateAdded DEF AddManually, Task
  <2> QED BY <1>5, <2>2 DEF AddManually
<1>6. ASSUME NEW a \in Address, Accept(a) PROVE TypeInv'
  BY <1>6, OwnerIsPeer, ConnectionRegistered, EventCounts DEF Accept
<1>7. ASSUME NEW a \in Address, AddAccepted(a) PROVE TypeInv'
  BY <1>7, OwnerIsPeer, CandidateAdded DEF AddAccepted, Task
<1>8. ASSUME NEW t \in Task, StartAttempt(t) PROVE TypeInv'
  <2>1. attempt[t].id \in Id
    BY <1>8, AttemptKinds DEF StartAttempt
  <2>2. attempt' \in [Task -> Attempting]
    <3>1. \/ attempt' = [attempt EXCEPT ![t] = NoAttempt]
          \/ /\ candidates[attempt[t].id] # <<>>
             /\ attempt' = [attempt EXCEPT ![t] =
                  [phase |-> "dial", id |-> attempt[t].id, todo |-> candidates[attempt[t].id]]]
      BY <1>8 DEF StartAttempt
    <3>2. candidates[attempt[t].id] # <<>> =>
            [phase |-> "dial", id |-> attempt[t].id, todo |-> candidates[attempt[t].id]] \in Attempting
      BY <2>1 DEF Attempting
    <3> QED BY <3>1, <3>2 DEF Attempting
  <2> QED BY <1>8, <2>2 DEF StartAttempt
<1>9. ASSUME NEW t \in Task, DialFails(t) PROVE TypeInv'
  <2>1. attempt' \in [Task -> Attempting]
    <3>1. NoAttempt \in Attempting
      BY DEF Attempting
    <3>2. Len(attempt[t].todo) # 1 => [attempt[t] EXCEPT !.todo = Tail(@)] \in Attempting
      BY <1>9, AttemptKinds DEF DialFails
    <3> QED BY <1>9, <3>1, <3>2 DEF DialFails
  <2> QED BY <1>9, <2>1 DEF DialFails
<1>10. ASSUME NEW t \in Task, DialSucceeds(t) PROVE TypeInv'
  <2> DEFINE a == Head(attempt[t].todo)
             i == attempt[t].id
  <2>1. /\ a \in Address /\ i \in Id /\ Owner[a] \in Peer
        /\ i \in Peer => i = Owner[a]
    BY <1>10, PeerAnswers DEF DialSucceeds
  <2>2. candidates' = Migrated(i, Owner[a], a) /\ register_active_connection(Owner[a], a)
    BY <1>10 DEF DialSucceeds
  <2>3. attempt' \in [Task -> Attempting]
    BY <1>10 DEF DialSucceeds, Attempting
  <2> HIDE DEF a, i
  <2>4. candidates' \in [Id -> Seq(Address)]
    BY <2>1, <2>2, CandidatesMigrated
  <2>5. active_connections' \in [Peer -> PeerConnection \cup {None}]
    BY <2>1, <2>2, ConnectionRegistered
  <2> QED BY <1>10, <2>3, <2>4, <2>5 DEF DialSucceeds
<1>11. CASE StartRound
  <2>1. maint' \in Maintaining
    BY <1>11 DEF StartRound, Maintaining
  <2> QED BY <1>11, <2>1 DEF StartRound
<1>12. CASE EndRound
  <2>1. maint' \in Maintaining
    BY <1>12 DEF EndRound, Resting, Maintaining
  <2> QED BY <1>12, <2>1 DEF EndRound
<1>13. CASE AttemptOver
  BY <1>13, NextPeer DEF AttemptOver
<1>14. ASSUME NEW i \in Id, TakeConnection(i) PROVE TypeInv'
  <2> DEFINE c == IF i \in Peer THEN active_connections[i] ELSE None
             m(ph) == [phase |-> ph, peers |-> maint.peers \ {i}, peer |-> i, conn |-> c]
  <2>1. c \in PeerConnection \cup {None} /\ (c # None => i \in Peer /\ c \in PeerConnection)
    OBVIOUS
  <2>2. maint' = m("remove") \/ (c # None /\ maint' = m("ping"))
    BY <1>14 DEF TakeConnection
  <2>3. maint.peers \ {i} \subseteq Id
    BY MaintKinds
  <2> HIDE DEF c
  <2>4. maint' \in Maintaining
    BY <2>1, <2>2, <2>3 DEF Maintaining
  <2> QED BY <1>14, <2>4 DEF TakeConnection
<1>15. ASSUME NEW i \in Id, RemoveConnection(i) PROVE TypeInv'
  <2>1. active_connections' \in [Peer -> PeerConnection \cup {None}]
    BY <1>15 DEF RemoveConnection
  <2>2. attempt' \in [Task -> Attempting]
    <3>1. [phase |-> "start", id |-> i] \in Attempting
      BY DEF Attempting
    <3> QED BY <1>15, <3>1 DEF RemoveConnection
  <2>3. maint' \in Maintaining
    BY <1>15, MaintSteps DEF RemoveConnection, Turn
  <2> QED BY <1>15, <2>1, <2>2, <2>3 DEF RemoveConnection
<1>16. ASSUME NEW p \in Peer, Pong(p) PROVE TypeInv'
  BY <1>16, HealthyStep DEF Pong, Turn
<1>17. ASSUME NEW p \in Peer, Miss(p) PROVE TypeInv'
  <2>1. maint' \in Maintaining
    BY <1>17, HealthyStep, MaintSteps DEF Miss, Turn
  <2>2. events' \in 0..MaxEvents
    BY <1>17, EventCounts DEF Miss
  <2> QED BY <1>17, <2>1, <2>2 DEF Miss
<1>18. ASSUME NEW p \in Peer, Restore(p) PROVE TypeInv'
  <2>1. active_connections' \in [Peer -> PeerConnection \cup {None}]
    BY <1>18, FirstLanIsCandidate, ConnectionRegistered DEF Restore
  <2> QED BY <1>18, <2>1, NextPeer DEF Restore
<1>19. CASE UNCHANGED vars
  BY <1>19 DEF vars
<1> QED BY <1>1, <1>2, <1>3, <1>4, <1>5, <1>6, <1>7, <1>8, <1>9, <1>10, <1>11, <1>12, <1>13,
           <1>14, <1>15, <1>16, <1>17, <1>18, <1>19
        DEF Next, Maintain, Attempt, Network
---------------------------------------------------------------------------
LEMMA MissesStep == IInv /\ [Next]_vars => MissesInv'
<1> SUFFICES ASSUME TypeInv, MissesInv, AttemptsInv, [Next]_vars PROVE MissesInv'
  BY DEF IInv
<1> USE DEF MissesInv
\* No other step comes between the third miss and the removal.
<1>1. \A p \in Peer : maint.phase # "remove" => failed_pings[p] \in 0..2
  BY DEF Turn
<1>2. ASSUME NEW p \in Peer, NEW a \in Address, register_active_connection(p, a),
             \/ maint'.phase = maint.phase /\ maint'.peer = maint.peer
             \/ maint.phase # "remove"
      PROVE  MissesInv'
  BY <1>1, <1>2 DEF register_active_connection, Turn
<1>3. ASSUME NEW a \in Address, AddressGoesDown(a) PROVE MissesInv'
  <2>1. maint'.phase = maint.phase /\ maint'.peer = maint.peer
    BY <1>3, MaintConnDies DEF AddressGoesDown, TypeInv
  <2> QED BY <1>3, <2>1 DEF AddressGoesDown, Turn
<1>4. ASSUME NEW a \in Address, Accept(a) PROVE MissesInv'
  BY <1>2, <1>4, OwnerIsPeer DEF Accept
<1>5. ASSUME NEW t \in Task, DialSucceeds(t) PROVE MissesInv'
  BY <1>2, <1>5, PeerAnswers DEF DialSucceeds
<1>6. ASSUME NEW p \in Peer, Restore(p) PROVE MissesInv'
  <2>1. maint.phase = "restore"
    BY <1>6 DEF Restore, Turn
  <2>2. CASE \E a \in FirstLan(p) : register_active_connection(p, a)
    BY <1>2, <2>1, <2>2, FirstLanIsCandidate
  <2>3. CASE failed_pings' = failed_pings
    BY <1>1, <2>1, <2>3
  <2> QED BY <1>6, <2>2, <2>3 DEF Restore
<1>7. CASE StartRound \/ EndRound \/ AttemptOver
  BY <1>1, <1>7 DEF StartRound, EndRound, AttemptOver
<1>8. ASSUME NEW i \in Id, TakeConnection(i) PROVE MissesInv'
  BY <1>1, <1>8 DEF TakeConnection
<1>9. ASSUME NEW i \in Id, RemoveConnection(i) PROVE MissesInv'
  BY <1>9 DEF RemoveConnection, Turn
<1>10. ASSUME NEW p \in Peer, Pong(p) PROVE MissesInv'
  BY <1>1, <1>10 DEF Pong, Turn
<1>11. ASSUME NEW p \in Peer, Miss(p) PROVE MissesInv'
  <2>1. maint.phase = "ping" /\ maint.peer = p /\ maint \in Maintaining
    BY <1>11 DEF Miss, Turn, TypeInv
  <2>2. /\ failed_pings' = [failed_pings EXCEPT ![p] = @ + 1]
        /\ failed_pings[p] + 1 >= 3 => maint' = [maint EXCEPT !.phase = "remove"]
    BY <1>11 DEF Miss
  <2>3. failed_pings[p] + 1 >= 3 => Turn(p, "remove")'
    BY <2>1, <2>2, MaintSteps DEF Turn
  <2> QED BY <1>1, <2>1, <2>2, <2>3
<1>12. CASE UNCHANGED <<failed_pings, maint>>
  BY <1>12 DEF Turn
<1>13. CASE set_simulate_lan_disabled
  BY <1>12, <1>13 DEF set_simulate_lan_disabled
<1>14. ASSUME NEW a \in Address, AddressComesUp(a) \/ Discover(a) \/ AddManually(a) \/ AddAccepted(a)
       PROVE  MissesInv'
  BY <1>12, <1>14 DEF AddressComesUp, Discover, AddManually, AddAccepted
<1>15. ASSUME NEW t \in Task, StartAttempt(t) \/ DialFails(t) PROVE MissesInv'
  BY <1>12, <1>15 DEF StartAttempt, DialFails
<1>16. CASE UNCHANGED vars
  BY <1>12, <1>16 DEF vars
<1> QED BY <1>3, <1>4, <1>5, <1>6, <1>7, <1>8, <1>9, <1>10, <1>11, <1>13, <1>14, <1>15, <1>16
        DEF Next, Maintain, Attempt, Network
---------------------------------------------------------------------------
(* What a step may do to lists, attempts and connections. *)

\* A peer's list only grows, and by its own addresses.
Grows(p) ==
  \/ candidates'[p] = candidates[p]
  \/ \E a \in Address : Owner[a] = p /\ Extends(candidates'[p], candidates[p], a)

LEMMA AddedGrows ==
  ASSUME NEW t \in Task, NEW i \in Id, NEW a \in Address, TypeInv,
         attempt[t] = NoAttempt, add_candidate(t, i, a), i \in Peer => Owner[a] = i
  PROVE  \A p \in Peer : Grows(p)
<1>1. /\ Extends(candidates'[i], candidates[i], a)
      /\ \A k \in Id \ {i} : candidates'[k] = candidates[k]
  BY CandidateAdded
<1>2. Peer \subseteq Id
  BY DEF Id
<1> QED BY <1>1, <1>2 DEF Grows

LEMMA MigratedGrows ==
  ASSUME TypeInv, AttemptsInv, NEW t \in Task, DialSucceeds(t)
  PROVE  /\ \A p \in Peer : Grows(p)
         /\ candidates'[Owner[Head(attempt[t].todo)]] # <<>>
<1> DEFINE a == Head(attempt[t].todo)
           i == attempt[t].id
<1>1. /\ a \in Address /\ i \in Id /\ Owner[a] \in Peer
      /\ i \in Peer => Owner[a] = i /\ candidates[i] # <<>>
  BY PeerAnswers DEF DialSucceeds
<1>2. candidates' = Migrated(i, Owner[a], a)
  BY DEF DialSucceeds
<1> HIDE DEF a, i
<1>3. /\ \A q \in Peer \ {Owner[a]} : candidates'[q] = candidates[q]
      /\ i = Owner[a] => candidates' = candidates
      /\ i # Owner[a] => Extends(candidates'[Owner[a]], candidates[Owner[a]], a)
  BY <1>1, <1>2, CandidatesMigrated DEF TypeInv
<1>4. \A p \in Peer : Grows(p)
  BY <1>1, <1>3 DEF Grows
<1>5. candidates'[Owner[a]] # <<>>
  BY <1>1, <1>3 DEF Extends
<1> QED BY <1>4, <1>5 DEF a

LEMMA ListsGrow == IInv /\ [Next]_vars => \A p \in Peer : Grows(p)
<1> SUFFICES ASSUME TypeInv, AttemptsInv, [Next]_vars PROVE \A p \in Peer : Grows(p)
  BY DEF IInv
<1>1. ASSUME NEW a \in Address, Discover(a) \/ AddAccepted(a) PROVE \A p \in Peer : Grows(p)
  BY <1>1, AddedGrows, OwnerIsPeer DEF Discover, AddAccepted, Task
<1>2. ASSUME NEW a \in Address, AddManually(a) PROVE \A p \in Peer : Grows(p)
  BY <1>2, AddedGrows, ManagerAssumption DEF AddManually, Task, Id, ManagerAssumption
<1>3. ASSUME NEW t \in Task, DialSucceeds(t) PROVE \A p \in Peer : Grows(p)
  BY <1>3, MigratedGrows
<1>4. CASE candidates' = candidates
  BY <1>4 DEF Grows
<1>5. ASSUME NEW a \in Address, AddressGoesDown(a) \/ AddressComesUp(a) \/ Accept(a)
      PROVE  \A p \in Peer : Grows(p)
  BY <1>4, <1>5 DEF AddressGoesDown, AddressComesUp, Accept
<1>6. ASSUME NEW t \in Task, StartAttempt(t) \/ DialFails(t) PROVE \A p \in Peer : Grows(p)
  BY <1>4, <1>6 DEF StartAttempt, DialFails
<1>7. CASE Maintain
  BY <1>4, <1>7 DEF Maintain, StartRound, EndRound, AttemptOver, TakeConnection,
                    RemoveConnection, Pong, Miss, Restore
<1>8. CASE set_simulate_lan_disabled \/ UNCHANGED vars
  BY <1>4, <1>8 DEF set_simulate_lan_disabled, vars
<1> QED BY <1>1, <1>2, <1>3, <1>5, <1>6, <1>7, <1>8 DEF Next, Attempt, Network

\* A list that has an address keeps one.
LEMMA GrownIsNotEmpty ==
  ASSUME NEW p \in Peer, Grows(p), candidates[p] # <<>>
  PROVE  candidates'[p] # <<>>
  BY DEF Grows, Extends

\* What a dial of an attempt was or came from.
Continues(t) ==
  attempt'[t].phase = "dial" =>
    \/ attempt'[t] = attempt[t]
    \/ /\ attempt[t].phase = "dial" /\ attempt'[t].id = attempt[t].id
       /\ attempt'[t].todo = Tail(attempt[t].todo)
    \/ /\ candidates[attempt'[t].id] # <<>>
       /\ attempt'[t].todo = candidates[attempt'[t].id]

LEMMA AttemptsContinue == IInv /\ [Next]_vars => \A t \in Task : Continues(t)
<1> SUFFICES ASSUME TypeInv, [Next]_vars PROVE \A t \in Task : Continues(t)
  BY DEF IInv
<1>1. attempt \in [Task -> Attempting] /\ NoAttempt.phase # "dial"
  BY DEF TypeInv, NoAttempt
<1>2. ASSUME NEW a \in Address, Discover(a) \/ AddAccepted(a) PROVE \A t \in Task : Continues(t)
  BY <1>2, CandidateAdded, OwnerIsPeer DEF Discover, AddAccepted, Task, Continues
<1>3. ASSUME NEW a \in Address, AddManually(a) PROVE \A t \in Task : Continues(t)
  BY <1>3, CandidateAdded DEF AddManually, Task, Continues, Id
<1>4. ASSUME NEW t \in Task, StartAttempt(t) PROVE \A u \in Task : Continues(u)
  <2> DEFINE dial == [phase |-> "dial", id |-> attempt[t].id, todo |-> candidates[attempt[t].id]]
  <2>1. \/ attempt' = [attempt EXCEPT ![t] = NoAttempt]
        \/ candidates[attempt[t].id] # <<>> /\ attempt' = [attempt EXCEPT ![t] = dial]
    BY <1>4 DEF StartAttempt
  <2>2. dial.id = attempt[t].id /\ dial.todo = candidates[attempt[t].id]
    OBVIOUS
  <2> HIDE DEF dial
  <2> QED BY <1>1, <2>1, <2>2 DEF Continues
<1>5. ASSUME NEW t \in Task, DialFails(t) PROVE \A u \in Task : Continues(u)
  <2> DEFINE rest == [attempt[t] EXCEPT !.todo = Tail(@)]
  <2>1. \/ attempt' = [attempt EXCEPT ![t] = NoAttempt]
        \/ Len(attempt[t].todo) # 1 /\ attempt' = [attempt EXCEPT ![t] = rest]
    BY <1>5 DEF DialFails
  <2>2. Len(attempt[t].todo) # 1 => rest.id = attempt[t].id /\ rest.todo = Tail(attempt[t].todo)
    BY <1>1, <1>5, AttemptKinds DEF DialFails
  <2>3. attempt[t].phase = "dial"
    BY <1>5 DEF DialFails
  <2> HIDE DEF rest
  <2> QED BY <1>1, <2>1, <2>2, <2>3 DEF Continues
<1>6. ASSUME NEW t \in Task, DialSucceeds(t) PROVE \A u \in Task : Continues(u)
  BY <1>1, <1>6 DEF DialSucceeds, Continues
<1>7. ASSUME NEW i \in Id, RemoveConnection(i) PROVE \A t \in Task : Continues(t)
  <2> DEFINE start == [phase |-> "start", id |-> i]
  <2>1. attempt' = [attempt EXCEPT !["maint"] = start] /\ start.phase # "dial"
    BY <1>7 DEF RemoveConnection
  <2> HIDE DEF start
  <2> QED BY <1>1, <2>1 DEF Continues
<1>8. CASE attempt' = attempt
  BY <1>8 DEF Continues
<1>9. ASSUME NEW a \in Address, AddressGoesDown(a) \/ AddressComesUp(a) \/ Accept(a)
      PROVE  \A t \in Task : Continues(t)
  BY <1>8, <1>9 DEF AddressGoesDown, AddressComesUp, Accept
<1>10. CASE StartRound \/ EndRound \/ AttemptOver \/ set_simulate_lan_disabled \/ UNCHANGED vars
  BY <1>8, <1>10 DEF StartRound, EndRound, AttemptOver, set_simulate_lan_disabled, vars
<1>11. ASSUME NEW i \in Id, TakeConnection(i) PROVE \A t \in Task : Continues(t)
  BY <1>8, <1>11 DEF TakeConnection
<1>12. ASSUME NEW p \in Peer, Pong(p) \/ Miss(p) \/ Restore(p) PROVE \A t \in Task : Continues(t)
  BY <1>8, <1>12 DEF Pong, Miss, Restore
<1> QED BY <1>2, <1>3, <1>4, <1>5, <1>6, <1>7, <1>9, <1>10, <1>11, <1>12
        DEF Next, Maintain, Attempt, Network
\* The connection of p is the one it had, or one to its own address, which is a
\* candidate or will become one.
Leads(p) ==
  active_connections'[p] # None =>
    \/ Connected(p) /\ active_connections'[p].addr = active_connections[p].addr
    \/ /\ active_connections'[p].addr \in Address
       /\ Owner[active_connections'[p].addr] = p
       /\ candidates'[p] # <<>> \/ active_connections'[p].addr \in accepted'

LEMMA ConnectionsLead == IInv /\ [Next]_vars => \A p \in Peer : Leads(p)
<1> SUFFICES ASSUME TypeInv, AttemptsInv, OwnCandidates, [Next]_vars
             PROVE  \A p \in Peer : Leads(p)
  BY DEF IInv
<1>1. active_connections \in [Peer -> PeerConnection \cup {None}]
  BY DEF TypeInv
<1>2. ASSUME NEW p \in Peer, NEW a \in Address, register_active_connection(p, a),
             Owner[a] = p, candidates'[p] # <<>> \/ a \in accepted'
      PROVE  \A q \in Peer : Leads(q)
  <2>1. /\ active_connections'[p].addr = a
        /\ \A q \in Peer \ {p} : active_connections'[q] = active_connections[q]
    BY <1>1, <1>2, ConnectionRegistered
  <2> QED BY <1>2, <2>1 DEF Leads, Connected
<1>3. ASSUME NEW a \in Address, AddressGoesDown(a) PROVE \A p \in Peer : Leads(p)
  <2> SUFFICES ASSUME NEW p \in Peer PROVE Leads(p)
    OBVIOUS
  <2>1. active_connections'[p] = Without(active_connections[p], a)
    BY <1>3 DEF AddressGoesDown
  <2> QED BY <1>1, <2>1, WithoutKeeps, ConnectionIsSome DEF Leads, Connected
<1>4. ASSUME NEW a \in Address, Accept(a) PROVE \A p \in Peer : Leads(p)
  BY <1>2, <1>4, OwnerIsPeer DEF Accept
<1>5. ASSUME NEW t \in Task, DialSucceeds(t) PROVE \A p \in Peer : Leads(p)
  BY <1>2, <1>5, PeerAnswers, MigratedGrows DEF DialSucceeds
<1>6. ASSUME NEW p \in Peer, Restore(p) PROVE \A q \in Peer : Leads(q)
  <2>1. ASSUME NEW a \in FirstLan(p), register_active_connection(p, a)
        PROVE  \A q \in Peer : Leads(q)
    <3>1. a \in Address /\ \E j \in DOMAIN candidates[p] : candidates[p][j] = a
      BY FirstLanIsCandidate
    <3>2. candidates[p] # <<>>
      <4>1. DOMAIN <<>> = {}
        OBVIOUS
      <4> QED BY <3>1, <4>1
    <3>3. Owner[a] = p /\ candidates'[p] # <<>>
      BY <1>6, <3>1, <3>2 DEF Restore, OwnCandidates
    <3> QED BY <1>2, <2>1, <3>1, <3>3
  <2>2. CASE active_connections' = active_connections
    BY <2>2 DEF Leads, Connected
  <2> QED BY <1>6, <2>1, <2>2 DEF Restore
<1>7. ASSUME NEW i \in Id, RemoveConnection(i) PROVE \A p \in Peer : Leads(p)
  BY <1>1, <1>7 DEF RemoveConnection, Leads, Connected
<1>8. CASE active_connections' = active_connections
  BY <1>8 DEF Leads, Connected
<1>9. ASSUME NEW a \in Address, AddressComesUp(a) \/ Discover(a) \/ AddManually(a) \/ AddAccepted(a)
      PROVE  \A p \in Peer : Leads(p)
  BY <1>8, <1>9 DEF AddressComesUp, Discover, AddManually, AddAccepted
<1>10. ASSUME NEW t \in Task, StartAttempt(t) \/ DialFails(t) PROVE \A p \in Peer : Leads(p)
  BY <1>8, <1>10 DEF StartAttempt, DialFails
<1>11. CASE StartRound \/ EndRound \/ AttemptOver \/ set_simulate_lan_disabled \/ UNCHANGED vars
  BY <1>8, <1>11 DEF StartRound, EndRound, AttemptOver, set_simulate_lan_disabled, vars
<1>12. ASSUME NEW i \in Id, TakeConnection(i) PROVE \A p \in Peer : Leads(p)
  BY <1>8, <1>12 DEF TakeConnection
<1>13. ASSUME NEW p \in Peer, Pong(p) \/ Miss(p) PROVE \A q \in Peer : Leads(q)
  BY <1>8, <1>13 DEF Pong, Miss
<1> QED BY <1>3, <1>4, <1>5, <1>6, <1>7, <1>9, <1>10, <1>11, <1>12, <1>13
        DEF Next, Maintain, Attempt, Network

\* The address of an accepted connection waits until it is a candidate.
LEMMA AcceptedBecomeCandidates ==
  IInv /\ [Next]_vars => \A a \in accepted : a \in accepted' \/ candidates'[Owner[a]] # <<>>
<1> SUFFICES ASSUME TypeInv, [Next]_vars
             PROVE  \A a \in accepted : a \in accepted' \/ candidates'[Owner[a]] # <<>>
  BY DEF IInv
<1>1. ASSUME NEW a \in Address, AddAccepted(a)
      PROVE  candidates'[Owner[a]] # <<>> /\ accepted' = accepted \ {a}
  BY <1>1, OwnerIsPeer, CandidateAdded DEF AddAccepted, Task, Extends
<1>2. ASSUME NEW a \in Address, Accept(a) PROVE accepted \subseteq accepted'
  BY <1>2 DEF Accept
<1>3. ASSUME NEW a \in Address, AddressGoesDown(a) \/ AddressComesUp(a) \/ Discover(a) \/ AddManually(a)
      PROVE  accepted' = accepted
  BY <1>3 DEF AddressGoesDown, AddressComesUp, Discover, AddManually
<1>4. ASSUME NEW t \in Task, Attempt(t) PROVE accepted' = accepted
  BY <1>4 DEF Attempt, StartAttempt, DialFails, DialSucceeds
<1>5. CASE Maintain
  BY <1>5 DEF Maintain, StartRound, EndRound, AttemptOver, TakeConnection, RemoveConnection,
              Pong, Miss, Restore
<1>6. CASE set_simulate_lan_disabled \/ UNCHANGED vars
  BY <1>6 DEF set_simulate_lan_disabled, vars
<1> QED BY <1>1, <1>2, <1>3, <1>4, <1>5, <1>6 DEF Next, Network
---------------------------------------------------------------------------
LEMMA AttemptsStep == IInv /\ [Next]_vars => AttemptsInv'
<1> SUFFICES ASSUME IInv, [Next]_vars, NEW t \in Task,
                    attempt'[t].phase = "dial", attempt'[t].id \in Peer
             PROVE  /\ candidates'[attempt'[t].id] # <<>>
                    /\ \A j \in DOMAIN attempt'[t].todo :
                         Owner[attempt'[t].todo[j]] = attempt'[t].id
  BY DEF AttemptsInv
<1> DEFINE p == attempt'[t].id
<1>1. Grows(p) /\ Continues(t) /\ p \in Id
  BY ListsGrow, AttemptsContinue DEF Id
<1>2. attempt[t] \in Attempting
  BY DEF IInv, TypeInv
<1>3. CASE attempt'[t] = attempt[t]
  BY <1>1, <1>3, GrownIsNotEmpty DEF IInv, AttemptsInv
<1>4. CASE /\ attempt[t].phase = "dial" /\ attempt'[t].id = attempt[t].id
           /\ attempt'[t].todo = Tail(attempt[t].todo)
  <2>1. attempt[t].todo \in Seq(Address) /\ attempt[t].todo # <<>>
    BY <1>2, <1>4, AttemptKinds
  <2>2. \A j \in DOMAIN attempt'[t].todo : \E k \in DOMAIN attempt[t].todo :
          attempt'[t].todo[j] = attempt[t].todo[k]
    BY <1>4, <2>1, HeadAndTail
  <2>3. candidates[p] # <<>> /\ \A k \in DOMAIN attempt[t].todo : Owner[attempt[t].todo[k]] = p
    BY <1>4 DEF IInv, AttemptsInv
  <2> QED BY <1>1, <2>2, <2>3, GrownIsNotEmpty
<1>5. CASE candidates[p] # <<>> /\ attempt'[t].todo = candidates[p]
  BY <1>1, <1>5, GrownIsNotEmpty DEF IInv, OwnCandidates
<1> QED BY <1>1, <1>3, <1>4, <1>5 DEF Continues

LEMMA ActiveStep == IInv /\ [Next]_vars => ActiveIsMaintained'
<1> SUFFICES ASSUME IInv, [Next]_vars, NEW p \in Peer, active_connections'[p] # None
             PROVE  candidates'[p] # <<>> \/ \E a \in accepted' : Owner[a] = p
  BY DEF ActiveIsMaintained, Connected
<1>1. Leads(p) /\ Grows(p)
  BY ConnectionsLead, ListsGrow
<1>2. CASE Connected(p)
  <2>1. candidates[p] # <<>> \/ \E a \in accepted : Owner[a] = p
    BY <1>2 DEF IInv, ActiveIsMaintained
  <2> QED BY <1>1, <2>1, GrownIsNotEmpty, AcceptedBecomeCandidates
<1> QED BY <1>1, <1>2 DEF Leads

LEMMA OwnStep == IInv /\ [Next]_vars => OwnCandidates'
<1> SUFFICES ASSUME IInv, [Next]_vars, NEW p \in Peer
             PROVE  /\ \A j \in DOMAIN candidates'[p] : Owner[candidates'[p][j]] = p
                    /\ IsInjective(candidates'[p])
                    /\ active_connections'[p] # None => Owner[active_connections'[p].addr] = p
  BY DEF OwnCandidates, Connected
<1>1. Leads(p) /\ Grows(p)
  BY ConnectionsLead, ListsGrow
<1>2. /\ \A j \in DOMAIN candidates[p] : Owner[candidates[p][j]] = p
      /\ IsInjective(candidates[p])
      /\ Connected(p) => Owner[active_connections[p].addr] = p
  BY DEF IInv, OwnCandidates
<1>3. \A j \in DOMAIN candidates'[p] : Owner[candidates'[p][j]] = p
  BY <1>1, <1>2 DEF Grows, Extends
<1>4. IsInjective(candidates'[p])
  BY <1>1, <1>2 DEF Grows, Extends
<1>5. active_connections'[p] # None => Owner[active_connections'[p].addr] = p
  BY <1>1, <1>2 DEF Leads
<1> QED BY <1>3, <1>4, <1>5

LEMMA AlwaysIInv == Spec => []IInv
<1>1. IInv /\ [Next]_vars => IInv'
  BY TypeStep, MissesStep, AttemptsStep, ActiveStep, OwnStep DEF IInv
<1> QED BY InitInv, <1>1, PTL DEF Spec
---------------------------------------------------------------------------
\* TypeOK: in particular, no peer is ever given more than three misses, however
\* pings, new connections and the removal cross (manager.rs:331-360).
THEOREM TypeCorrect == Spec => []TypeOK
<1>1. IInv => TypeOK
  <2> SUFFICES ASSUME IInv PROVE TypeOK
    OBVIOUS
  <2>1. \A t \in Task : attempt[t] # NoAttempt => attempt[t].id \in Id
    BY AttemptKinds DEF IInv, TypeInv
  <2>2. maint.peers \subseteq Id /\ maint.conn \in PeerConnection \cup {None}
    BY MaintKinds DEF IInv, TypeInv
  <2> QED BY <2>1, <2>2 DEF IInv, TypeInv, MissesInv, TypeOK
<1> QED BY <1>1, AlwaysIInv, PTL

\* ActiveIsMaintained: every connection is pinged in every round of the
\* maintenance loop, because its peer has a candidate, or gets one when the
\* address of the accepted connection is added (manager.rs:195-196, 303-306).
THEOREM ConnectionsAreMaintained == Spec => []ActiveIsMaintained
<1>1. IInv => ActiveIsMaintained
  BY DEF IInv
<1> QED BY <1>1, AlwaysIInv, PTL

\* OwnCandidates: no address is filed under a peer that does not answer there,
\* none is listed twice, and no connection is used for another peer, through
\* every migration of the placeholder's addresses (manager.rs:425-440).
THEOREM CandidatesAreOwn == Spec => []OwnCandidates
<1>1. IInv => OwnCandidates
  BY DEF IInv
<1> QED BY <1>1, AlwaysIInv, PTL
=============================================================================

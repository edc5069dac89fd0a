------------------------------ MODULE Manager ------------------------------
(***************************************************************************)
(* The connection manager of one node (tusher-network/src/manager.rs): the *)
(* addresses it has learnt for each peer, the connection it uses for each, *)
(* and the tasks that work on both:                                        *)
(*                                                                         *)
(*   maint      every three seconds pings every peer it has an address of, *)
(*              drops the connection after three misses, dials again, and  *)
(*              tries to go from Tailscale back to the local network;      *)
(*   discovery  adds the addresses of the beacons it hears;                *)
(*   user       adds addresses by hand, as local ones of a peer not known; *)
(*   accept     takes the connections that peers dial.                     *)
(*                                                                         *)
(* An address leads to its peer while it is up; a connection dies with its *)
(* address, without a word, and pings then miss.  A dial and the handshake *)
(* succeed together or not at all (module Pairing's checks pass), and what *)
(* follows a successful dial is one step.                                  *)
(***************************************************************************)
EXTENDS Naturals, FiniteSets, SequencesExt

CONSTANTS
  Peer,         \* the other nodes
  Placeholder,  \* the id "remote" that stands for a peer not known yet
  Address,      \* socket addresses with their transport
  Owner,        \* the peer an address leads to
  Transport,    \* "Lan" or "Tailscale"
  Heard,        \* addresses that beacons and the peers' own dials reveal
  Manual,       \* addresses a user adds; the front ends call them local
  MaxEvents     \* bound: addresses that go up or down, connections that peers
                \* dial, switches of the simulated loss of the local network,
                \* and pings that miss on a connection that lives

ASSUME ManagerAssumption ==
  /\ Placeholder \notin Peer
  /\ Owner \in [Address -> Peer]
  /\ Transport \in [Address -> {"Lan", "Tailscale"}]
  /\ Heard \subseteq Address
  /\ Manual \subseteq {a \in Address : Transport[a] = "Lan"}
  /\ MaxEvents \in Nat

Id == Peer \cup {Placeholder}

Task == {"maint", "discovery", "user", "accept"}

VARIABLES
  candidates,            \* addresses of each id, in the order they are tried
  active_connections,    \* the connection used for each peer, or None
  failed_pings,          \* misses in a row
  simulate_lan_disabled,
  attempt,               \* attempt_connect_best_candidate of each task
  maint,                 \* where the maintenance loop is
  accepted,              \* accepted connections' addresses, not yet added
  up,                    \* addresses that lead to their peer
  added,                 \* bound: addresses the user has added
  events                 \* bound: events so far

vars == <<candidates, active_connections, failed_pings, simulate_lan_disabled,
          attempt, maint, accepted, up, added, events>>

None == [alive |-> FALSE]

PeerConnection == [addr : Address, alive : BOOLEAN]

NoAttempt == [phase |-> "none"]

Resting == [phase |-> "sleep", peers |-> {}, conn |-> None]

priority(a) == IF Transport[a] = "Lan" THEN 1 ELSE 2

Connected(p) == active_connections[p] # None

\* The local network counts as gone while its loss is simulated.
Severed(a) == Transport[a] = "Lan" /\ simulate_lan_disabled

Event == events < MaxEvents /\ events' = events + 1

Init ==
  /\ candidates = [i \in Id |-> <<>>]
  /\ active_connections = [p \in Peer |-> None]
  /\ failed_pings = [p \in Peer |-> 0]
  /\ simulate_lan_disabled = FALSE
  /\ attempt = [t \in Task |-> NoAttempt]
  /\ maint = Resting
  /\ accepted = {}
  /\ up \in SUBSET Address
  /\ added = {}
  /\ events = 0
---------------------------------------------------------------------------
(* The network. *)

Without(c, a) == IF c # None /\ c.addr = a THEN [c EXCEPT !.alive = FALSE] ELSE c

\* A connection dies with its address.
AddressGoesDown(a) ==
  /\ a \in up
  /\ Event
  /\ up' = up \ {a}
  /\ active_connections' = [p \in Peer |-> Without(active_connections[p], a)]
  /\ maint' = [maint EXCEPT !.conn = Without(@, a)]
  /\ UNCHANGED <<candidates, failed_pings, simulate_lan_disabled, attempt, accepted, added>>

AddressComesUp(a) ==
  /\ a \notin up
  /\ Event
  /\ up' = up \cup {a}
  /\ UNCHANGED <<candidates, active_connections, failed_pings,
                 simulate_lan_disabled, attempt, maint, accepted, added>>

set_simulate_lan_disabled ==
  /\ Event
  /\ simulate_lan_disabled' = ~simulate_lan_disabled
  /\ UNCHANGED <<candidates, active_connections, failed_pings, attempt, maint,
                 accepted, up, added>>

---------------------------------------------------------------------------
(* Connections and candidates. *)

\* A new connection takes the place of the one there is.
register_active_connection(p, a) ==
  /\ active_connections' = [active_connections EXCEPT ![p] = [addr |-> a, alive |-> TRUE]]
  /\ failed_pings' = [failed_pings EXCEPT ![p] = 0]

Known(i, a) == \E j \in DOMAIN candidates[i] : candidates[i][j] = a

Precedes(s, j, k) ==
  \/ priority(s[j]) < priority(s[k])
  \/ priority(s[j]) = priority(s[k]) /\ j < k

\* What Vec::sort_by_key makes of s: the same entries in order of priority, and
\* those of equal priority in the order they had.  There is one such list.
sort_by_priority(s) ==
  {[j \in DOMAIN s |-> s[order[j]]] : order \in
     {o \in [DOMAIN s -> DOMAIN s] :
        \A j, k \in DOMAIN s : j < k => Precedes(s, o[j], o[k])}}

\* add_candidate of task t: an address that is new leads to an attempt, unless
\* there is a connection.
add_candidate(t, i, a) ==
  IF Known(i, a)
    THEN UNCHANGED <<candidates, attempt>>
    ELSE /\ \E sorted \in sort_by_priority(Append(candidates[i], a)) :
              candidates' = [candidates EXCEPT ![i] = sorted]
         /\ attempt' = IF i \in Peer /\ Connected(i) THEN attempt
                       ELSE [attempt EXCEPT ![t] = [phase |-> "start", id |-> i]]

Discover(a) ==
  /\ a \in up \cap Heard
  /\ attempt["discovery"] = NoAttempt
  /\ ~Severed(a)
  /\ add_candidate("discovery", Owner[a], a)
  /\ UNCHANGED <<active_connections, failed_pings, simulate_lan_disabled, maint,
                 accepted, up, added, events>>

AddManually(a) ==
  /\ a \in Manual \ added
  /\ attempt["user"] = NoAttempt
  /\ add_candidate("user", Placeholder, a)
  /\ added' = added \cup {a}
  /\ UNCHANGED <<active_connections, failed_pings, simulate_lan_disabled, maint,
                 accepted, up, events>>

\* A peer dials this node over a network whose address is a.
Accept(a) ==
  /\ a \in up \cap Heard
  /\ Event
  /\ ~Severed(a)
  /\ register_active_connection(Owner[a], a)
  /\ accepted' = accepted \cup {a}
  /\ UNCHANGED <<candidates, simulate_lan_disabled, attempt, maint, up, added>>

\* Then the address it listens at becomes a candidate.
AddAccepted(a) ==
  /\ a \in accepted
  /\ attempt["accept"] = NoAttempt
  /\ accepted' = accepted \ {a}
  /\ add_candidate("accept", Owner[a], a)
  /\ UNCHANGED <<active_connections, failed_pings, simulate_lan_disabled, maint,
                 up, added, events>>

---------------------------------------------------------------------------
(* attempt_connect_best_candidate. *)

\* Nothing to do when there is a connection; else the candidates are copied.
StartAttempt(t) ==
  LET i == attempt[t].id IN
  /\ attempt[t].phase = "start"
  /\ attempt' = [attempt EXCEPT ![t] =
       IF (i \in Peer /\ Connected(i)) \/ candidates[i] = <<>> THEN NoAttempt
       ELSE [phase |-> "dial", id |-> i, todo |-> candidates[i]]]
  /\ UNCHANGED <<candidates, active_connections, failed_pings,
                 simulate_lan_disabled, maint, accepted, up, added, events>>

\* The dial of the next candidate fails, or it is not tried.
DialFails(t) ==
  /\ attempt[t].phase = "dial"
  /\ Head(attempt[t].todo) \notin up \/ Severed(Head(attempt[t].todo))
  /\ attempt' = [attempt EXCEPT ![t] =
       IF Len(@.todo) = 1 THEN NoAttempt ELSE [attempt[t] EXCEPT !.todo = Tail(@)]]
  /\ UNCHANGED <<candidates, active_connections, failed_pings,
                 simulate_lan_disabled, maint, accepted, up, added, events>>

\* Defect: the placeholder's candidates are dropped, not handed on.
MigratedAway(i, p, a) ==
  IF i = p THEN candidates ELSE [candidates EXCEPT ![i] = <<>>]

\* Defect: a candidate the peer has already is added again.
MigratedTwice(i, p, a) ==
  IF i = p THEN candidates ELSE [candidates EXCEPT ![i] = <<>>, ![p] = Append(@, a)]

\* Once it is known who answers at a, what was a candidate of the placeholder
\* becomes one of the peer, the last; its other candidates are dropped.
Migrated(i, p, a) ==
  IF i = p THEN candidates
  ELSE [candidates EXCEPT ![i] = <<>>, ![p] = IF Known(p, a) THEN @ ELSE Append(@, a)]

DialSucceeds(t) ==
  LET a == Head(attempt[t].todo) IN
  /\ attempt[t].phase = "dial"
  /\ a \in up /\ ~Severed(a)
  /\ candidates' = Migrated(attempt[t].id, Owner[a], a)
  /\ register_active_connection(Owner[a], a)
  /\ attempt' = [attempt EXCEPT ![t] = NoAttempt]
  /\ UNCHANGED <<simulate_lan_disabled, maint, accepted, up, added, events>>

---------------------------------------------------------------------------
(* maintain_connections. *)

Turn(p, phase) == maint.phase = phase /\ maint.peer = p

Next_peer == [phase |-> "next", peers |-> maint.peers, conn |-> None]

StartRound ==
  /\ maint.phase = "sleep"
  /\ maint' = [phase |-> "next", conn |-> None,
               peers |-> {i \in Id : candidates[i] # <<>>}]
  /\ UNCHANGED <<candidates, active_connections, failed_pings,
                 simulate_lan_disabled, attempt, accepted, up, added, events>>

EndRound ==
  /\ maint.phase = "next"
  /\ maint.peers = {}
  /\ maint' = Resting
  /\ UNCHANGED <<candidates, active_connections, failed_pings,
                 simulate_lan_disabled, attempt, accepted, up, added, events>>

\* The connection is looked up.  Without one, or when the local network it
\* runs over is severed, it is to be removed; else it is pinged.
TakeConnection(i) ==
  LET c == IF i \in Peer THEN active_connections[i] ELSE None IN
  /\ maint.phase = "next"
  /\ i \in maint.peers
  /\ maint' = [phase |-> IF c = None \/ Severed(c.addr) THEN "remove" ELSE "ping",
               peers |-> maint.peers \ {i}, peer |-> i, conn |-> c]
  /\ UNCHANGED <<candidates, active_connections, failed_pings,
                 simulate_lan_disabled, attempt, accepted, up, added, events>>

\* A healthy connection over Tailscale may be exchanged for a better one.
Healthy ==
  IF Transport[maint.conn.addr] = "Tailscale" THEN [maint EXCEPT !.phase = "restore"]
                                              ELSE Next_peer

Pong(p) ==
  /\ Turn(p, "ping")
  /\ maint.conn.alive
  /\ failed_pings' = [failed_pings EXCEPT ![p] = 0]
  /\ maint' = Healthy
  /\ UNCHANGED <<candidates, active_connections, simulate_lan_disabled, attempt,
                 accepted, up, added, events>>

\* Defect: the misses are counted and nothing follows.
MissForever(p) ==
  /\ Turn(p, "ping")
  /\ ~maint.conn.alive
  /\ failed_pings' = [failed_pings EXCEPT ![p] = IF @ < 3 THEN @ + 1 ELSE 3]
  /\ maint' = Healthy
  /\ UNCHANGED <<candidates, active_connections, simulate_lan_disabled, attempt,
                 accepted, up, added, events>>

\* Defect: a connection is dropped after the fourth miss.
MissLate(p) ==
  /\ Turn(p, "ping")
  /\ ~maint.conn.alive
  /\ failed_pings' = [failed_pings EXCEPT ![p] = @ + 1]
  /\ maint' = IF failed_pings[p] + 1 > 3 THEN [maint EXCEPT !.phase = "remove"] ELSE Healthy
  /\ UNCHANGED <<candidates, active_connections, simulate_lan_disabled, attempt,
                 accepted, up, added, events>>

\* The third miss in a row is one too many.
Miss(p) ==
  /\ Turn(p, "ping")
  /\ \/ ~maint.conn.alive /\ UNCHANGED events
     \/ maint.conn.alive /\ Event
  /\ failed_pings' = [failed_pings EXCEPT ![p] = @ + 1]
  /\ maint' = IF failed_pings[p] + 1 >= 3 THEN [maint EXCEPT !.phase = "remove"] ELSE Healthy
  /\ UNCHANGED <<candidates, active_connections, simulate_lan_disabled, attempt,
                 accepted, up, added>>

\* Whatever connection the peer has by now is removed, and a new one tried.
RemoveConnection(i) ==
  /\ Turn(i, "remove")
  /\ IF i \in Peer
       THEN /\ active_connections' = [active_connections EXCEPT ![i] = None]
            /\ failed_pings' = [failed_pings EXCEPT ![i] = 0]
       ELSE UNCHANGED <<active_connections, failed_pings>>
  /\ attempt' = [attempt EXCEPT !["maint"] = [phase |-> "start", id |-> i]]
  /\ maint' = [maint EXCEPT !.phase = "attempt", !.conn = None]
  /\ UNCHANGED <<candidates, simulate_lan_disabled, accepted, up, added, events>>

AttemptOver ==
  /\ maint.phase = "attempt"
  /\ attempt["maint"] = NoAttempt
  /\ maint' = Next_peer
  /\ UNCHANGED <<candidates, active_connections, failed_pings,
                 simulate_lan_disabled, attempt, accepted, up, added, events>>

LanPositions(p) == {j \in DOMAIN candidates[p] : Transport[candidates[p][j]] = "Lan"}

\* The first candidate on the local network, if there is one.
FirstLan(p) ==
  {candidates[p][j] : j \in {j \in LanPositions(p) : \A k \in LanPositions(p) : j <= k}}

\* Defect: the preferred network is looked for, and the connection stays.
LookForLan(p) ==
  /\ Turn(p, "restore")
  /\ maint' = Next_peer
  /\ UNCHANGED <<candidates, active_connections, failed_pings,
                 simulate_lan_disabled, attempt, accepted, up, added, events>>

\* From Tailscale back to the local network, if its first candidate answers.
Restore(p) ==
  LET answering == {a \in FirstLan(p) \cap up : ~simulate_lan_disabled} IN
  /\ Turn(p, "restore")
  /\ maint' = Next_peer
  /\ \/ \E a \in answering : register_active_connection(p, a)
     \/ answering = {} /\ UNCHANGED <<active_connections, failed_pings>>
  /\ UNCHANGED <<candidates, simulate_lan_disabled, attempt, accepted, up, added, events>>

---------------------------------------------------------------------------
Maintain ==
  \/ StartRound \/ EndRound \/ AttemptOver
  \/ \E i \in Id : TakeConnection(i) \/ RemoveConnection(i)
  \/ \E p \in Peer : Pong(p) \/ Miss(p) \/ Restore(p)

Attempt(t) == StartAttempt(t) \/ DialFails(t) \/ DialSucceeds(t)

Network ==
  \/ \E a \in Address : AddressGoesDown(a) \/ AddressComesUp(a) \/ Accept(a)
  \/ set_simulate_lan_disabled

Next ==
  \/ Maintain
  \/ \E t \in Task : Attempt(t)
  \/ \E a \in Address : Discover(a) \/ AddManually(a) \/ AddAccepted(a)
  \/ Network

Spec == Init /\ [][Next]_vars

\* The tasks run.  Beacons of an address that is up are heard again and again.
Fairness ==
  /\ WF_vars(Maintain)
  /\ \A t \in Task : WF_vars(Attempt(t))
  /\ \A a \in Address : WF_vars(Discover(a)) /\ WF_vars(AddAccepted(a))

FairSpec == Spec /\ Fairness
---------------------------------------------------------------------------
(* Properties. *)

\* Every variable keeps its type.
TypeOK ==
  /\ candidates \in [Id -> Seq(Address)]
  /\ active_connections \in [Peer -> PeerConnection \cup {None}]
  /\ failed_pings \in [Peer -> 0..3]
  /\ simulate_lan_disabled \in BOOLEAN
  /\ \A t \in Task : attempt[t] # NoAttempt => attempt[t].id \in Id
  /\ maint.peers \subseteq Id /\ maint.conn \in PeerConnection \cup {None}
  /\ accepted \subseteq Address /\ up \subseteq Address
  /\ added \subseteq Manual /\ events \in 0..MaxEvents

\* A peer with a connection has a candidate, so that the connection is looked
\* after, from the moment an accepted connection's address is added: the
\* maintenance loop goes through the candidates, and the migration of a
\* placeholder must not leave a connection without (manager.rs:303-306,
\* 430-437 and 195-196).
ActiveIsMaintained ==
  \A p \in Peer : Connected(p) =>
    candidates[p] # <<>> \/ \E a \in accepted : Owner[a] = p

\* A peer's connection and candidates lead to it: what was added for a peer
\* not known ends up with the peer that answered, and no candidate is twice.
OwnCandidates ==
  \A p \in Peer :
    /\ \A j \in DOMAIN candidates[p] : Owner[candidates[p][j]] = p
    /\ IsInjective(candidates[p])
    /\ Connected(p) => Owner[active_connections[p].addr] = p

Usable(a) == a \in up /\ ~Severed(a)

\* When a candidate of a peer can be reached, the peer has a connection that
\* lives at last, whatever was lost before and however attempts, accepted
\* connections and the maintenance loop cross.
Reconnects ==
  \A p \in Peer :
    <>[]((\E j \in DOMAIN candidates[p] : Usable(candidates[p][j])) =>
           active_connections[p].alive)

\* When the first local candidate of a peer can be reached, the connection is
\* at last not one over Tailscale.
LanRestored ==
  \A p \in Peer :
    <>[]((\E a \in FirstLan(p) : Usable(a)) /\ Connected(p) =>
           Transport[active_connections[p].addr] # "Tailscale")

\* The same when any local candidate can be reached.
AnyLanRestored ==
  \A p \in Peer :
    <>[]((\E j \in LanPositions(p) : Usable(candidates[p][j])) /\ Connected(p) =>
           Transport[active_connections[p].addr] # "Tailscale")

\* A connection that lives is never removed, unless it runs over the severed
\* local network.
OnlyDeadRemoved ==
  [][\A p \in Peer :
       active_connections[p].alive /\ active_connections'[p] = None =>
         Severed(active_connections[p].addr)]_vars
===========================================================================

---------------------------- MODULE Connection ----------------------------
(***************************************************************************)
(* One connection between two nodes (tusher-network/src/connection.rs),    *)
(* with the request loop the manager runs on it (manager.rs:282-297) and   *)
(* the calls the other tasks make over it.                                 *)
(*                                                                         *)
(* At each end every task puts its messages in one bounded channel, from   *)
(* which the writer task sends them; the reader task takes what arrives    *)
(* and puts it in the bounded channel of its kind, and waits while that is *)
(* full.  A task that calls puts its request in the channel and waits for  *)
(* an answer for a while, and a ping waits for its pong; putting a message *)
(* in a full channel waits as long as it takes.                            *)
(*                                                                         *)
(* A call stands for one step of a task: a chunk, or the first or last     *)
(* message, of a transfer; a manifest request of a session; or a notice or *)
(* a pull request, which have no answer.  Who gets whose answer is in      *)
(* Transfer and Replication.  An end may lose the other without a word:    *)
(* then messages are sent and do not arrive.                               *)
(***************************************************************************)
EXTENDS Naturals, Sequences

CONSTANTS
  End,          \* the two ends
  Caller,       \* tasks that call
  EndOf,        \* the end of each
  Kind,         \* what it sends: "transfer", "manifest" or "notice"
  WriteLimit,   \* capacity of the channel to the writer (128)
  WireLimit,    \* messages the network and the socket buffers hold
  InboundLimit, \* capacity of each channel the reader fills (128; pongs 64)
  MaxCalls,     \* bound: calls of each task
  MaxPings,     \* bound: pings of each end
  MayCut        \* whether the network may be lost

ASSUME ConnectionAssumption ==
  /\ EndOf \in [Caller -> End]
  /\ Kind \in [Caller -> {"transfer", "manifest", "notice"}]
  /\ {WriteLimit, WireLimit} \subseteq Nat \ {0}
  /\ MaxCalls \in Nat /\ MaxPings \in [End -> Nat] /\ MayCut \in BOOLEAN
  /\ \E a, b \in End : a # b /\ End = {a, b}

Inbound == {"request", "response", "manifest", "pong"}

ASSUME LimitAssumption == InboundLimit \in [Inbound -> Nat \ {0}]

VARIABLES
  write_tx,  \* messages of each end the writer has not sent
  wire,      \* messages of each end the other's reader has not taken
  inbound,   \* messages the reader has put in each channel
  handler,   \* the request loop: the answer it has to send, or none
  caller,    \* what each task does
  calls,     \* how many calls it made
  pinger,    \* the ping of each end
  cut,       \* whether the network is lost
  ponged     \* history: pings of each end the other has answered

vars == <<write_tx, wire, inbound, handler, caller, calls, pinger, cut, ponged>>

Other(e) == CHOOSE f \in End : f # e

Message ==
  [type : {"transfer", "manifest", "notice", "ack", "manifest_resp"}]
    \cup [type : {"ping", "pong"}, seq : Nat]

\* The channel the reader puts a message in.
ChannelOf(m) ==
  CASE m.type = "pong" -> "pong"
    [] m.type = "manifest_resp" -> "manifest"
    [] m.type = "ack" -> "response"
    [] OTHER -> "request"

\* What the request loop answers to a request.
None == [type |-> "none"]

AnswerTo(m) ==
  CASE m.type = "transfer" -> [type |-> "ack"]
    [] m.type = "manifest" -> [type |-> "manifest_resp"]
    [] OTHER -> None

\* The channel in which a task finds the answer to its call.
AnswerChannel(c) == IF Kind[c] = "manifest" THEN "manifest" ELSE "response"

Init ==
  /\ write_tx = [e \in End |-> <<>>]
  /\ wire = [e \in End |-> <<>>]
  /\ inbound = [e \in End |-> [ch \in Inbound |-> <<>>]]
  /\ handler = [e \in End |-> None]
  /\ caller = [c \in Caller |-> "idle"]
  /\ calls = [c \in Caller |-> 0]
  /\ pinger = [e \in End |-> [phase |-> "idle", seq |-> 0]]
  /\ cut = FALSE
  /\ ponged = [e \in End |-> {}]
---------------------------------------------------------------------------
(* send: wait for room in the channel to the writer. *)

Enqueue(e, m) ==
  /\ Len(write_tx[e]) < WriteLimit
  /\ write_tx' = [write_tx EXCEPT ![e] = Append(@, m)]

Dequeue(e, ch) == inbound' = [inbound EXCEPT ![e][ch] = Tail(@)]

---------------------------------------------------------------------------
(* The writer and the reader. *)

Write(e) ==
  /\ write_tx[e] # <<>>
  /\ Len(wire[e]) < WireLimit
  /\ write_tx' = [write_tx EXCEPT ![e] = Tail(@)]
  /\ wire' = [wire EXCEPT ![e] = Append(@, Head(write_tx[e]))]
  /\ UNCHANGED <<inbound, handler, caller, calls, pinger, cut, ponged>>

\* A ping is answered by the reader itself, through the writer's channel.
ReadPing(e) ==
  /\ ~cut
  /\ wire[Other(e)] # <<>>
  /\ LET m == Head(wire[Other(e)]) IN
       /\ m.type = "ping"
       /\ Enqueue(e, [type |-> "pong", seq |-> m.seq])
       /\ ponged' = [ponged EXCEPT ![Other(e)] = @ \cup {m.seq}]
  /\ wire' = [wire EXCEPT ![Other(e)] = Tail(@)]
  /\ UNCHANGED <<inbound, handler, caller, calls, pinger, cut>>

\* Defect: the reader does not look whether the channel is full.
ReadAlways(e) ==
  /\ ~cut
  /\ wire[Other(e)] # <<>>
  /\ LET m == Head(wire[Other(e)]) IN
       /\ m.type # "ping"
       /\ inbound' = [inbound EXCEPT ![e][ChannelOf(m)] = Append(@, m)]
  /\ wire' = [wire EXCEPT ![Other(e)] = Tail(@)]
  /\ UNCHANGED <<write_tx, handler, caller, calls, pinger, cut, ponged>>

Read(e) ==
  /\ ~cut
  /\ wire[Other(e)] # <<>>
  /\ LET m == Head(wire[Other(e)]) IN
       /\ m.type # "ping"
       /\ Len(inbound[e][ChannelOf(m)]) < InboundLimit[ChannelOf(m)]
       /\ inbound' = [inbound EXCEPT ![e][ChannelOf(m)] = Append(@, m)]
  /\ wire' = [wire EXCEPT ![Other(e)] = Tail(@)]
  /\ UNCHANGED <<write_tx, handler, caller, calls, pinger, cut, ponged>>

---------------------------------------------------------------------------
(* The request loop: one request after the other, and its answer. *)

Handle(e) ==
  /\ handler[e] = None
  /\ inbound[e]["request"] # <<>>
  /\ handler' = [handler EXCEPT ![e] = AnswerTo(Head(inbound[e]["request"]))]
  /\ Dequeue(e, "request")
  /\ UNCHANGED <<write_tx, wire, caller, calls, pinger, cut, ponged>>

SendAnswer(e) ==
  /\ handler[e] # None
  /\ Enqueue(e, handler[e])
  /\ handler' = [handler EXCEPT ![e] = None]
  /\ UNCHANGED <<wire, inbound, caller, calls, pinger, cut, ponged>>

---------------------------------------------------------------------------
(* The tasks that call. *)

Begin(c) ==
  /\ caller[c] = "idle"
  /\ calls[c] < MaxCalls
  /\ caller' = [caller EXCEPT ![c] = "sending"]
  /\ calls' = [calls EXCEPT ![c] = @ + 1]
  /\ UNCHANGED <<write_tx, wire, inbound, handler, pinger, cut, ponged>>

SendRequest(c) ==
  /\ caller[c] = "sending"
  /\ Enqueue(EndOf[c], [type |-> Kind[c]])
  /\ caller' = [caller EXCEPT ![c] = IF Kind[c] = "notice" THEN "idle" ELSE "waiting"]
  /\ UNCHANGED <<wire, inbound, handler, calls, pinger, cut, ponged>>

Receive(c) ==
  /\ caller[c] = "waiting"
  /\ inbound[EndOf[c]][AnswerChannel(c)] # <<>>
  /\ Dequeue(EndOf[c], AnswerChannel(c))
  /\ caller' = [caller EXCEPT ![c] = "idle"]
  /\ UNCHANGED <<write_tx, wire, handler, calls, pinger, cut, ponged>>

\* Defect: only transfers have a time limit.
GiveUpTransfer(c) ==
  /\ caller[c] = "waiting"
  /\ Kind[c] = "transfer"
  /\ caller' = [caller EXCEPT ![c] = "idle"]
  /\ UNCHANGED <<write_tx, wire, inbound, handler, calls, pinger, cut, ponged>>

\* The time for the answer (3 to 10 s) is over.
GiveUp(c) ==
  /\ caller[c] = "waiting"
  /\ caller' = [caller EXCEPT ![c] = "idle"]
  /\ UNCHANGED <<write_tx, wire, inbound, handler, calls, pinger, cut, ponged>>

---------------------------------------------------------------------------
(* ping: only the wait for the pong has a time limit. *)

StartPing(e) ==
  /\ pinger[e].phase = "idle"
  /\ pinger[e].seq < MaxPings[e]
  /\ pinger' = [pinger EXCEPT ![e] = [phase |-> "sending", seq |-> @.seq + 1]]
  /\ UNCHANGED <<write_tx, wire, inbound, handler, caller, calls, cut, ponged>>

SendPing(e) ==
  /\ pinger[e].phase = "sending"
  /\ Enqueue(e, [type |-> "ping", seq |-> pinger[e].seq])
  /\ pinger' = [pinger EXCEPT ![e].phase = "waiting"]
  /\ UNCHANGED <<wire, inbound, handler, caller, calls, cut, ponged>>

\* Defect: any pong will do.
TakeAnyPong(e) ==
  /\ pinger[e].phase = "waiting"
  /\ inbound[e]["pong"] # <<>>
  /\ Dequeue(e, "pong")
  /\ pinger' = [pinger EXCEPT ![e].phase = "ok"]
  /\ UNCHANGED <<write_tx, wire, handler, caller, calls, cut, ponged>>

\* Pongs of earlier pings are skipped.
TakePong(e) ==
  /\ pinger[e].phase = "waiting"
  /\ inbound[e]["pong"] # <<>>
  /\ Dequeue(e, "pong")
  /\ pinger' = IF Head(inbound[e]["pong"]).seq = pinger[e].seq
                 THEN [pinger EXCEPT ![e].phase = "ok"] ELSE pinger
  /\ UNCHANGED <<write_tx, wire, handler, caller, calls, cut, ponged>>

\* Defect: the ping waits for as long as the connection is open.
PingPatiently(e) ==
  /\ pinger[e].phase = "ok"
  /\ pinger' = [pinger EXCEPT ![e].phase = "idle"]
  /\ UNCHANGED <<write_tx, wire, inbound, handler, caller, calls, cut, ponged>>

\* The ping returns: answered, or after 6 s not.
EndPing(e) ==
  /\ pinger[e].phase \in {"waiting", "ok"}
  /\ pinger' = [pinger EXCEPT ![e].phase = "idle"]
  /\ UNCHANGED <<write_tx, wire, inbound, handler, caller, calls, cut, ponged>>

---------------------------------------------------------------------------
\* The network no longer carries anything, and nobody is told.
Cut ==
  /\ ~cut
  /\ MayCut
  /\ cut' = TRUE
  /\ UNCHANGED <<write_tx, wire, inbound, handler, caller, calls, pinger, ponged>>

Call(c) == Begin(c) \/ SendRequest(c) \/ Receive(c) \/ GiveUp(c)

Ping(e) == StartPing(e) \/ SendPing(e) \/ TakePong(e) \/ EndPing(e)

Next ==
  \/ \E e \in End : Write(e) \/ Read(e) \/ ReadPing(e) \/ Handle(e) \/ SendAnswer(e)
  \/ \E e \in End : Ping(e)
  \/ \E c \in Caller : Call(c)
  \/ Cut

Spec == Init /\ [][Next]_vars

\* Every task runs when it can.  Tasks begin calls and pings as they like.
Fairness ==
  /\ \A e \in End : /\ WF_vars(Write(e)) /\ WF_vars(Read(e)) /\ WF_vars(ReadPing(e))
                    /\ WF_vars(Handle(e)) /\ WF_vars(SendAnswer(e))
                    /\ WF_vars(SendPing(e)) /\ WF_vars(EndPing(e))
  /\ \A c \in Caller : WF_vars(SendRequest(c)) /\ WF_vars(GiveUp(c))

FairSpec == Spec /\ Fairness
---------------------------------------------------------------------------
(* Properties. *)

\* Every channel keeps its capacity and holds messages of its kind.
TypeOK ==
  /\ \A e \in End :
       /\ write_tx[e] \in Seq(Message) /\ Len(write_tx[e]) <= WriteLimit
       /\ wire[e] \in Seq(Message) /\ Len(wire[e]) <= WireLimit
       /\ \A ch \in Inbound :
            /\ inbound[e][ch] \in Seq({m \in Message : ChannelOf(m) = ch})
            /\ Len(inbound[e][ch]) <= InboundLimit[ch]
       /\ handler[e] \in {None} \cup Message
       /\ pinger[e] \in [phase : {"idle", "sending", "waiting", "ok"}, seq : 0..MaxPings[e]]
       /\ ponged[e] \subseteq 1..MaxPings[e]
  /\ caller \in [Caller -> {"idle", "sending", "waiting"}]
  /\ calls \in [Caller -> 0..MaxCalls]
  /\ cut \in BOOLEAN

\* A ping that succeeds was answered by the peer's reader after it was sent: a
\* pong that comes too late for its own ping does not vouch for a later one
\* (connection.rs:364-372).
SuccessIsFresh ==
  \A e \in End : pinger[e].phase = "ok" => pinger[e].seq \in ponged[e]

\* Every ping returns, answered or not, so that the maintenance loop, which
\* pings one peer after the other, goes on (manager.rs:329, connection.rs:356).
PingsEnd == \A e \in End : pinger[e].phase # "idle" ~> pinger[e].phase = "idle"

\* Every session's request for a manifest ends.
SessionsEnd ==
  \A c \in Caller : Kind[c] = "manifest" => (caller[c] # "idle" ~> caller[c] = "idle")

\* Every call ends, so that the folder of a session is free for the next one
\* (coordinator.rs:333-346), also when the network is lost.
CallsEnd == \A c \in Caller : caller[c] # "idle" ~> caller[c] = "idle"
===========================================================================

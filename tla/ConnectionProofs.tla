-------------------------- MODULE ConnectionProofs --------------------------
(***************************************************************************)
(* What holds of Connection for every number of tasks, calls and pings and *)
(* all capacities of the channels: the types of what the channels hold,    *)
(* and that a ping only succeeds when it was answered.                     *)
(***************************************************************************)
EXTENDS Connection, TLAPS

\* The messages an end may have sent: its pings so far, and pongs of the pings
\* of the other end that it answered.
Sent(e) ==
  [type : {"transfer", "manifest", "notice", "ack", "manifest_resp"}]
    \cup [type : {"ping"}, seq : 1..pinger[e].seq]
    \cup [type : {"pong"}, seq : ponged[Other(e)]]

\* Those of the other end's that the reader puts in channel ch.
SentTo(e, ch) == {m \in Sent(Other(e)) : m.type # "ping" /\ ChannelOf(m) = ch}

WritersInv ==
  /\ DOMAIN write_tx = End
  /\ \A e \in End : write_tx[e] \in Seq(Sent(e)) /\ Len(write_tx[e]) <= WriteLimit

WiresInv ==
  /\ DOMAIN wire = End
  /\ \A e \in End : wire[e] \in Seq(Sent(e)) /\ Len(wire[e]) <= WireLimit

InboundInv ==
  /\ DOMAIN inbound = End
  /\ \A e \in End : DOMAIN inbound[e] = Inbound
  /\ \A e \in End, ch \in Inbound :
       inbound[e][ch] \in Seq(SentTo(e, ch)) /\ Len(inbound[e][ch]) <= InboundLimit[ch]

HandlersInv == handler \in [End -> {None} \cup [type : {"ack", "manifest_resp"}]]

\* Only pings that were sent are answered; the first has number 1.
PingersInv ==
  /\ DOMAIN pinger = End /\ DOMAIN ponged = End
  /\ \A e \in End :
       /\ pinger[e] \in [phase : {"idle", "sending", "waiting", "ok"}, seq : 0..MaxPings[e]]
       /\ ponged[e] \subseteq 1..pinger[e].seq
       /\ pinger[e].phase # "idle" => pinger[e].seq # 0
  /\ SuccessIsFresh

CallersInv ==
  /\ caller \in [Caller -> {"idle", "sending", "waiting"}]
  /\ calls \in [Caller -> 0..MaxCalls]
  /\ cut \in BOOLEAN

IInv == WritersInv /\ WiresInv /\ InboundInv /\ HandlersInv /\ PingersInv /\ CallersInv
---------------------------------------------------------------------------
\* There are two ends, each other's other.
LEMMA OtherEnd ==
  ASSUME NEW e \in End
  PROVE  Other(e) \in End /\ Other(e) # e /\ Other(Other(e)) = e
<1>1. PICK a \in End, b \in End : a # b /\ End = {a, b}
  BY ConnectionAssumption DEF ConnectionAssumption
<1>2. \E f \in End : f # e
  BY <1>1
<1>3. \A d \in End : Other(d) \in End /\ Other(d) # d
  <2> TAKE d \in End
  <2>1. \E f \in End : f # d
    BY <1>1
  <2> QED BY <2>1 DEF Other
<1> QED BY <1>1, <1>3

LEMMA SeqMonotone ==
  ASSUME NEW S, NEW T, S \subseteq T, NEW s \in Seq(S)
  PROVE  s \in Seq(T)
  OBVIOUS

LEMMA EmptySeq == ASSUME NEW S PROVE <<>> \in Seq(S) /\ Len(<<>>) = 0
  OBVIOUS

\* A message is added to a queue that is not full.
LEMMA QueueAppend ==
  ASSUME NEW S, NEW s \in Seq(S), NEW m \in S, NEW limit \in Nat, Len(s) < limit
  PROVE  Append(s, m) \in Seq(S) /\ Len(Append(s, m)) <= limit
  OBVIOUS

\* The oldest message is taken.
LEMMA QueueTail ==
  ASSUME NEW S, NEW s \in Seq(S), s # <<>>, NEW limit \in Nat, Len(s) <= limit
  PROVE  Tail(s) \in Seq(S) /\ Len(Tail(s)) <= limit
<1>1. Tail(s) \in Seq(S) /\ Len(Tail(s)) = Len(s) - 1 /\ Len(s) \in Nat
  OBVIOUS
<1> QED BY <1>1

LEMMA QueueHead ==
  ASSUME NEW S, NEW s \in Seq(S), s # <<>>
  PROVE  Head(s) \in S
  OBVIOUS

\* Pings and pongs only grow in number.
Grown ==
  \A e \in End : /\ pinger[e].seq <= pinger'[e].seq
                 /\ ponged[e] \subseteq ponged'[e]

LEMMA SentGrows ==
  ASSUME PingersInv, PingersInv', Grown, NEW e \in End
  PROVE  /\ Sent(e) \subseteq Sent(e)'
         /\ \A ch \in Inbound : SentTo(e, ch) \subseteq SentTo(e, ch)'
<1>1. \A d \in End : Sent(d) \subseteq Sent(d)'
  <2> TAKE d \in End
  <2>1. ponged[Other(d)] \subseteq ponged'[Other(d)]
    BY OtherEnd DEF Grown
  <2>2. pinger[d].seq \in Nat /\ pinger'[d].seq \in Nat /\ pinger[d].seq <= pinger'[d].seq
    BY ConnectionAssumption DEF PingersInv, Grown, ConnectionAssumption
  <2>3. 1..pinger[d].seq \subseteq 1..pinger'[d].seq
    BY <2>2
  <2> QED BY <2>1, <2>3 DEF Sent
<1>2. Other(e) \in End
  BY OtherEnd
<1> QED BY <1>1, <1>2 DEF SentTo, ChannelOf

\* Channels that a step leaves alone.
LEMMA UntouchedInv ==
  ASSUME IInv, PingersInv', Grown
  PROVE  /\ UNCHANGED write_tx => WritersInv'
         /\ UNCHANGED wire => WiresInv'
         /\ UNCHANGED inbound => InboundInv'
<1>1. UNCHANGED write_tx => WritersInv'
  BY SentGrows, SeqMonotone DEF IInv, WritersInv
<1>2. UNCHANGED wire => WiresInv'
  BY SentGrows, SeqMonotone DEF IInv, WiresInv
<1>3. UNCHANGED inbound => InboundInv'
  BY SentGrows, SeqMonotone DEF IInv, InboundInv
<1> QED BY <1>1, <1>2, <1>3

LEMMA EnqueueInv ==
  ASSUME IInv, PingersInv', Grown, NEW e \in End, NEW m \in Sent(e)', Enqueue(e, m)
  PROVE  WritersInv'
<1> SUFFICES ASSUME NEW d \in End
             PROVE  write_tx'[d] \in Seq(Sent(d)') /\ Len(write_tx'[d]) <= WriteLimit
  BY DEF WritersInv, Enqueue, IInv
<1>1. write_tx[d] \in Seq(Sent(d)') /\ Len(write_tx[d]) <= WriteLimit
  BY SentGrows, SeqMonotone DEF IInv, WritersInv
<1>2. CASE d = e
  <2>1. write_tx'[d] = Append(write_tx[d], m) /\ Len(write_tx[d]) < WriteLimit
    BY <1>2 DEF Enqueue, IInv, WritersInv
  <2>2. WriteLimit \in Nat
    BY ConnectionAssumption DEF ConnectionAssumption
  <2> QED BY <1>1, <1>2, <2>1, <2>2, QueueAppend
<1>3. CASE d # e
  BY <1>1, <1>3 DEF Enqueue, IInv, WritersInv
<1> QED BY <1>2, <1>3

LEMMA DequeueInv ==
  ASSUME IInv, PingersInv', Grown, NEW e \in End, NEW c \in Inbound,
         inbound[e][c] # <<>>, Dequeue(e, c)
  PROVE  InboundInv'
<1>1. \A d \in End, ch \in Inbound :
        inbound'[d][ch] = IF d = e /\ ch = c THEN Tail(inbound[d][ch]) ELSE inbound[d][ch]
  BY DEF Dequeue, IInv, InboundInv
<1>2. DOMAIN inbound' = End /\ \A d \in End : DOMAIN inbound'[d] = Inbound
  BY DEF Dequeue, IInv, InboundInv
<1>3. ASSUME NEW d \in End, NEW ch \in Inbound
      PROVE  inbound'[d][ch] \in Seq(SentTo(d, ch)') /\ Len(inbound'[d][ch]) <= InboundLimit[ch]
  <2>1. inbound[d][ch] \in Seq(SentTo(d, ch)') /\ Len(inbound[d][ch]) <= InboundLimit[ch]
    BY SentGrows, SeqMonotone DEF IInv, InboundInv
  <2>2. InboundLimit[ch] \in Nat
    BY LimitAssumption DEF LimitAssumption
  <2>3. CASE d = e /\ ch = c
    <3>1. inbound'[d][ch] = Tail(inbound[d][ch]) /\ inbound[d][ch] # <<>>
      BY <1>1, <2>3
    <3> QED BY <2>1, <2>2, <3>1, QueueTail
  <2>4. CASE ~(d = e /\ ch = c)
    BY <1>1, <2>1, <2>4
  <2> QED BY <2>3, <2>4
<1> QED BY <1>2, <1>3 DEF InboundInv

\* The reader takes the oldest message of the other end off the wire.
LEMMA WireTaken ==
  ASSUME IInv, PingersInv', Grown, NEW e \in End, wire[e] # <<>>,
         wire' = [wire EXCEPT ![e] = Tail(@)]
  PROVE  WiresInv' /\ Head(wire[e]) \in Sent(e)
<1>1. wire[e] \in Seq(Sent(e))
  BY DEF IInv, WiresInv
<1>2. Head(wire[e]) \in Sent(e)
  BY <1>1, QueueHead
<1>3. WireLimit \in Nat
  BY ConnectionAssumption DEF ConnectionAssumption
<1>4. ASSUME NEW d \in End
      PROVE  wire'[d] \in Seq(Sent(d)') /\ Len(wire'[d]) <= WireLimit
  <2>1. wire[d] \in Seq(Sent(d)') /\ Len(wire[d]) <= WireLimit
    BY SentGrows, SeqMonotone DEF IInv, WiresInv
  <2>2. CASE d = e
    <3>1. wire'[d] = Tail(wire[d])
      BY <2>2 DEF IInv, WiresInv
    <3> QED BY <1>3, <2>1, <2>2, <3>1, QueueTail
  <2>3. CASE d # e
    BY <2>1, <2>3 DEF IInv, WiresInv
  <2> QED BY <2>2, <2>3
<1>5. DOMAIN wire' = End
  BY DEF IInv, WiresInv
<1> QED BY <1>2, <1>4, <1>5 DEF WiresInv

\* When no ping and no pong is added, nothing is to be shown of them.
LEMMA PingersRest ==
  ASSUME PingersInv, UNCHANGED <<pinger, ponged>>
  PROVE  PingersInv' /\ Grown
<1>1. PingersInv'
  BY DEF PingersInv, SuccessIsFresh
<1>2. \A e \in End : pinger[e].seq \in Nat
  BY ConnectionAssumption DEF PingersInv, ConnectionAssumption
<1> QED BY <1>1, <1>2 DEF Grown
---------------------------------------------------------------------------
\* The writer moves its oldest message to the wire.
LEMMA WriteInv ==
  ASSUME IInv, NEW e \in End, Write(e)
  PROVE  IInv'
<1>1. PingersInv' /\ Grown
  BY PingersRest DEF Write, IInv
<1>2. write_tx[e] \in Seq(Sent(e)) /\ write_tx[e] # <<>>
  BY DEF Write, IInv, WritersInv
<1>3. Head(write_tx[e]) \in Sent(e)'
  BY <1>1, <1>2, QueueHead, SentGrows DEF IInv
<1>4. WritersInv'
  <2>1. WriteLimit \in Nat
    BY ConnectionAssumption DEF ConnectionAssumption
  <2>2. ASSUME NEW d \in End
        PROVE  write_tx'[d] \in Seq(Sent(d)') /\ Len(write_tx'[d]) <= WriteLimit
    <3>1. write_tx[d] \in Seq(Sent(d)') /\ Len(write_tx[d]) <= WriteLimit
      BY <1>1, SentGrows, SeqMonotone DEF IInv, WritersInv
    <3>2. CASE d = e
      <4>1. write_tx'[d] = Tail(write_tx[d])
        BY <3>2 DEF Write, IInv, WritersInv
      <4> QED BY <1>2, <2>1, <3>1, <3>2, <4>1, QueueTail
    <3>3. CASE d # e
      BY <3>1, <3>3 DEF Write, IInv, WritersInv
    <3> QED BY <3>2, <3>3
  <2> QED BY <2>2 DEF WritersInv, Write, IInv
<1>5. WiresInv'
  <2>1. WireLimit \in Nat
    BY ConnectionAssumption DEF ConnectionAssumption
  <2>2. ASSUME NEW d \in End
        PROVE  wire'[d] \in Seq(Sent(d)') /\ Len(wire'[d]) <= WireLimit
    <3>1. wire[d] \in Seq(Sent(d)') /\ Len(wire[d]) <= WireLimit
      BY <1>1, SentGrows, SeqMonotone DEF IInv, WiresInv
    <3>2. CASE d = e
      <4>1. wire'[d] = Append(wire[d], Head(write_tx[d])) /\ Len(wire[d]) < WireLimit
        BY <3>2 DEF Write, IInv, WiresInv
      <4> QED BY <1>3, <2>1, <3>1, <3>2, <4>1, QueueAppend
    <3>3. CASE d # e
      BY <3>1, <3>3 DEF Write, IInv, WiresInv
    <3> QED BY <3>2, <3>3
  <2> QED BY <2>2 DEF WiresInv, Write, IInv
<1>6. InboundInv'
  BY <1>1, UntouchedInv DEF Write
<1>7. HandlersInv' /\ CallersInv'
  BY DEF Write, IInv, HandlersInv, CallersInv
<1> QED BY <1>1, <1>4, <1>5, <1>6, <1>7 DEF IInv

\* The reader answers a ping: the ping was sent, and now it is answered.
LEMMA ReadPingInv ==
  ASSUME IInv, NEW e \in End, ReadPing(e)
  PROVE  IInv'
<1> DEFINE m == Head(wire[Other(e)])
<1>1. Other(e) \in End /\ Other(Other(e)) = e /\ wire[Other(e)] # <<>> /\ m.type = "ping"
  BY OtherEnd DEF ReadPing
<1>2. m \in Sent(Other(e))
  BY <1>1, QueueHead DEF IInv, WiresInv
<1>3. m.seq \in 1..pinger[Other(e)].seq
  BY <1>1, <1>2 DEF Sent
<1>4. \A d \in End : ponged'[d] = IF d = Other(e) THEN ponged[d] \cup {m.seq} ELSE ponged[d]
  BY DEF ReadPing, IInv, PingersInv
<1>5. PingersInv'
  BY <1>3, <1>4 DEF ReadPing, IInv, PingersInv, SuccessIsFresh
<1>6. Grown
  <2> SUFFICES ASSUME NEW d \in End
               PROVE  pinger[d].seq <= pinger'[d].seq /\ ponged[d] \subseteq ponged'[d]
    BY DEF Grown
  <2>1. pinger[d].seq \in Nat /\ pinger'[d].seq = pinger[d].seq
    BY ConnectionAssumption DEF IInv, PingersInv, ConnectionAssumption, ReadPing
  <2>2. ponged[d] \subseteq ponged'[d]
    BY <1>4
  <2> QED BY <2>1, <2>2
<1>7. [type |-> "pong", seq |-> m.seq] \in Sent(e)'
  BY <1>1, <1>4 DEF Sent
<1>8. WritersInv'
  BY <1>5, <1>6, <1>7, EnqueueInv DEF ReadPing
<1>9. WiresInv'
  BY <1>1, <1>5, <1>6, WireTaken DEF ReadPing
<1>10. InboundInv'
  BY <1>5, <1>6, UntouchedInv DEF ReadPing
<1>11. HandlersInv' /\ CallersInv'
  BY DEF ReadPing, IInv, HandlersInv, CallersInv
<1> QED BY <1>5, <1>8, <1>9, <1>10, <1>11 DEF IInv

\* The reader puts any other message in its channel.
LEMMA ReadInv ==
  ASSUME IInv, NEW e \in End, Read(e)
  PROVE  IInv'
<1> DEFINE m == Head(wire[Other(e)])
<1>1. PingersInv' /\ Grown
  BY PingersRest DEF Read, IInv
<1>2. Other(e) \in End /\ wire[Other(e)] # <<>> /\ m.type # "ping"
  BY OtherEnd DEF Read
<1>3. WiresInv' /\ m \in Sent(Other(e))
  BY <1>1, <1>2, WireTaken DEF Read
<1>4. PICK c \in Inbound : c = ChannelOf(m)
  BY DEF ChannelOf, Inbound
<1>5. m \in SentTo(e, c)'
  <2>1. m \in SentTo(e, c)
    BY <1>2, <1>3, <1>4 DEF SentTo
  <2> QED BY <1>1, <2>1, SentGrows DEF IInv
<1>6. \A d \in End, ch \in Inbound :
        inbound'[d][ch] = IF d = e /\ ch = c THEN Append(inbound[d][ch], m) ELSE inbound[d][ch]
  BY <1>4 DEF Read, IInv, InboundInv
<1>7. ASSUME NEW d \in End, NEW ch \in Inbound
      PROVE  inbound'[d][ch] \in Seq(SentTo(d, ch)') /\ Len(inbound'[d][ch]) <= InboundLimit[ch]
  <2>1. inbound[d][ch] \in Seq(SentTo(d, ch)') /\ Len(inbound[d][ch]) <= InboundLimit[ch]
    BY <1>1, SentGrows, SeqMonotone DEF IInv, InboundInv
  <2>2. InboundLimit[ch] \in Nat
    BY LimitAssumption DEF LimitAssumption
  <2>3. CASE d = e /\ ch = c
    <3>1. Len(inbound[d][ch]) < InboundLimit[ch]
      BY <1>4, <2>3 DEF Read
    <3>2. inbound'[d][ch] = Append(inbound[d][ch], m) /\ m \in SentTo(d, ch)'
      BY <1>5, <1>6, <2>3
    <3> QED BY <2>1, <2>2, <3>1, <3>2, QueueAppend
  <2>4. CASE ~(d = e /\ ch = c)
    BY <1>6, <2>1, <2>4
  <2> QED BY <2>3, <2>4
<1>8. DOMAIN inbound' = End /\ \A d \in End : DOMAIN inbound'[d] = Inbound
  BY DEF Read, IInv, InboundInv
<1>9. InboundInv'
  BY <1>7, <1>8 DEF InboundInv
<1>10. WritersInv'
  BY <1>1, UntouchedInv DEF Read
<1>11. HandlersInv' /\ CallersInv'
  BY DEF Read, IInv, HandlersInv, CallersInv
<1> QED BY <1>1, <1>3, <1>9, <1>10, <1>11 DEF IInv

\* The request loop takes a request and has its answer to send.
LEMMA HandleInv ==
  ASSUME IInv, NEW e \in End, Handle(e)
  PROVE  IInv'
<1>1. PingersInv' /\ Grown
  BY PingersRest DEF Handle, IInv
<1>2. InboundInv'
  BY <1>1, DequeueInv DEF Handle, Inbound
<1>3. HandlersInv'
  BY DEF Handle, IInv, HandlersInv, AnswerTo
<1>4. WritersInv' /\ WiresInv'
  BY <1>1, UntouchedInv DEF Handle
<1>5. CallersInv'
  BY DEF Handle, IInv, CallersInv
<1> QED BY <1>1, <1>2, <1>3, <1>4, <1>5 DEF IInv

LEMMA SendAnswerInv ==
  ASSUME IInv, NEW e \in End, SendAnswer(e)
  PROVE  IInv'
<1>1. PingersInv' /\ Grown
  BY PingersRest DEF SendAnswer, IInv
<1>2. handler[e] \in Sent(e)'
  BY DEF SendAnswer, IInv, HandlersInv, Sent
<1>3. WritersInv'
  BY <1>1, <1>2, EnqueueInv DEF SendAnswer
<1>4. WiresInv' /\ InboundInv'
  BY <1>1, UntouchedInv DEF SendAnswer
<1>5. HandlersInv' /\ CallersInv'
  BY DEF SendAnswer, IInv, HandlersInv, CallersInv
<1> QED BY <1>1, <1>3, <1>4, <1>5 DEF IInv
---------------------------------------------------------------------------
\* What a task that calls does.
LEMMA CallInv ==
  ASSUME IInv, NEW c \in Caller, Call(c)
  PROVE  IInv'
<1>1. PingersInv' /\ Grown
  BY PingersRest DEF Call, Begin, SendRequest, Receive, GiveUp, IInv
<1>2. EndOf[c] \in End /\ Kind[c] \in {"transfer", "manifest", "notice"} /\ MaxCalls \in Nat
  BY ConnectionAssumption DEF ConnectionAssumption
<1>3. WiresInv'
  BY <1>1, UntouchedInv DEF Call, Begin, SendRequest, Receive, GiveUp
<1>4. HandlersInv'
  BY DEF IInv, HandlersInv, Call, Begin, SendRequest, Receive, GiveUp
<1>5. CallersInv'
  <2>1. CASE Begin(c)
    BY <1>2, <2>1 DEF IInv, CallersInv, Begin
  <2>2. CASE SendRequest(c)
    BY <2>2 DEF IInv, CallersInv, SendRequest
  <2>3. CASE Receive(c)
    BY <2>3 DEF IInv, CallersInv, Receive
  <2>4. CASE GiveUp(c)
    BY <2>4 DEF IInv, CallersInv, GiveUp
  <2> QED BY <2>1, <2>2, <2>3, <2>4 DEF Call
<1>6. CASE SendRequest(c)
  <2>1. [type |-> Kind[c]] \in Sent(EndOf[c])'
    BY <1>2 DEF Sent
  <2>2. WritersInv'
    BY <1>1, <1>2, <1>6, <2>1, EnqueueInv DEF SendRequest
  <2>3. InboundInv'
    BY <1>1, <1>6, UntouchedInv DEF SendRequest
  <2> QED BY <1>1, <1>3, <1>4, <1>5, <2>2, <2>3 DEF IInv
<1>7. CASE Receive(c)
  <2>1. AnswerChannel(c) \in Inbound
    BY DEF AnswerChannel, Inbound
  <2>2. InboundInv'
    BY <1>1, <1>2, <1>7, <2>1, DequeueInv DEF Receive
  <2>3. WritersInv'
    BY <1>1, <1>7, UntouchedInv DEF Receive
  <2> QED BY <1>1, <1>3, <1>4, <1>5, <2>2, <2>3 DEF IInv
<1>8. CASE Begin(c) \/ GiveUp(c)
  <2>1. WritersInv' /\ InboundInv'
    BY <1>1, <1>8, UntouchedInv DEF Begin, GiveUp
  <2> QED BY <1>1, <1>3, <1>4, <1>5, <2>1 DEF IInv
<1> QED BY <1>6, <1>7, <1>8 DEF Call
---------------------------------------------------------------------------
\* What the pings of an end are after a step of the ping of e that adds no pong.
LEMMA PingerStep ==
  ASSUME PingersInv, NEW e \in End, UNCHANGED ponged,
         NEW p \in [phase : {"idle", "sending", "waiting", "ok"}, seq : 0..MaxPings[e]],
         pinger' = [pinger EXCEPT ![e] = p],
         pinger[e].seq <= p.seq,
         p.phase # "idle" => p.seq # 0,
         p.phase = "ok" => p.seq \in ponged[e]
  PROVE  PingersInv' /\ Grown
<1>1. \A d \in End : pinger'[d] = IF d = e THEN p ELSE pinger[d]
  BY DEF PingersInv
<1>2. \A d \in End : pinger[d].seq \in Nat /\ MaxPings[d] \in Nat
  BY ConnectionAssumption DEF PingersInv, ConnectionAssumption
<1>3. Grown
  BY <1>1, <1>2 DEF Grown
<1>4. ASSUME NEW d \in End
      PROVE  /\ pinger'[d] \in [phase : {"idle", "sending", "waiting", "ok"}, seq : 0..MaxPings[d]]
             /\ ponged'[d] \subseteq 1..pinger'[d].seq
             /\ pinger'[d].phase # "idle" => pinger'[d].seq # 0
             /\ pinger'[d].phase = "ok" => pinger'[d].seq \in ponged'[d]
  <2>1. CASE d = e
    <3>1. ponged[d] \subseteq 1..pinger[d].seq /\ p.seq \in Nat
      BY <1>2 DEF PingersInv
    <3> QED BY <1>1, <1>2, <2>1, <3>1
  <2>2. CASE d # e
    BY <1>1, <2>2 DEF PingersInv, SuccessIsFresh
  <2> QED BY <2>1, <2>2
<1> QED BY <1>3, <1>4 DEF PingersInv, SuccessIsFresh

\* The pongs that reach an end are of pings of its own.
LEMMA PongsAreOwn ==
  ASSUME IInv, NEW e \in End, inbound[e]["pong"] # <<>>
  PROVE  Head(inbound[e]["pong"]).seq \in ponged[e]
<1>1. Head(inbound[e]["pong"]) \in SentTo(e, "pong")
  BY QueueHead DEF IInv, InboundInv, Inbound
<1>2. Head(inbound[e]["pong"]).type = "pong"
  BY <1>1 DEF SentTo, ChannelOf
<1>3. Head(inbound[e]["pong"]).seq \in ponged[Other(Other(e))]
  BY <1>1, <1>2 DEF SentTo, Sent
<1> QED BY <1>3, OtherEnd

\* What the ping of an end does.
LEMMA PingInv ==
  ASSUME IInv, NEW e \in End, Ping(e)
  PROVE  IInv'
<1>1. pinger[e] \in [phase : {"idle", "sending", "waiting", "ok"}, seq : 0..MaxPings[e]]
      /\ MaxPings[e] \in Nat
  BY ConnectionAssumption DEF IInv, PingersInv, ConnectionAssumption
<1>2. PingersInv' /\ Grown
  <2>1. CASE StartPing(e)
    <3> DEFINE p == [phase |-> "sending", seq |-> pinger[e].seq + 1]
    <3>1. pinger' = [pinger EXCEPT ![e] = p] /\ UNCHANGED ponged
      BY <2>1 DEF StartPing
    <3>2. p \in [phase : {"idle", "sending", "waiting", "ok"}, seq : 0..MaxPings[e]]
          /\ pinger[e].seq <= p.seq /\ p.seq # 0 /\ p.phase = "sending"
      BY <1>1, <2>1 DEF StartPing
    <3> HIDE DEF p
    <3> QED BY <3>1, <3>2, PingerStep DEF IInv
  <2>2. CASE SendPing(e)
    <3> DEFINE p == [pinger[e] EXCEPT !.phase = "waiting"]
    <3>1. pinger' = [pinger EXCEPT ![e] = p] /\ UNCHANGED ponged
      BY <2>2 DEF SendPing
    <3>2. /\ p \in [phase : {"idle", "sending", "waiting", "ok"}, seq : 0..MaxPings[e]]
          /\ p.phase = "waiting" /\ p.seq = pinger[e].seq /\ p.seq # 0 /\ p.seq <= p.seq
      BY <1>1, <2>2 DEF SendPing, IInv, PingersInv
    <3> HIDE DEF p
    <3> QED BY <3>1, <3>2, PingerStep DEF IInv
  <2>3. CASE TakePong(e)
    <3>1. CASE Head(inbound[e]["pong"]).seq = pinger[e].seq
      <4> DEFINE p == [pinger[e] EXCEPT !.phase = "ok"]
      <4>1. pinger' = [pinger EXCEPT ![e] = p] /\ UNCHANGED ponged
        BY <2>3, <3>1 DEF TakePong
      <4>2. /\ p \in [phase : {"idle", "sending", "waiting", "ok"}, seq : 0..MaxPings[e]]
            /\ p.phase = "ok" /\ p.seq = pinger[e].seq /\ p.seq # 0 /\ p.seq <= p.seq
        BY <1>1, <2>3 DEF TakePong, IInv, PingersInv
      <4>3. p.seq \in ponged[e]
        BY <2>3, <3>1, <4>2, PongsAreOwn DEF TakePong
      <4> HIDE DEF p
      <4> QED BY <4>1, <4>2, <4>3, PingerStep DEF IInv
    <3>2. CASE Head(inbound[e]["pong"]).seq # pinger[e].seq
      BY <2>3, <3>2, PingersRest DEF TakePong, IInv
    <3> QED BY <3>1, <3>2
  <2>4. CASE EndPing(e)
    <3> DEFINE p == [pinger[e] EXCEPT !.phase = "idle"]
    <3>1. pinger' = [pinger EXCEPT ![e] = p] /\ UNCHANGED ponged
      BY <2>4 DEF EndPing
    <3>2. /\ p \in [phase : {"idle", "sending", "waiting", "ok"}, seq : 0..MaxPings[e]]
          /\ p.phase = "idle" /\ p.seq = pinger[e].seq /\ p.seq <= p.seq
      BY <1>1
    <3> HIDE DEF p
    <3> QED BY <3>1, <3>2, PingerStep DEF IInv
  <2> QED BY <2>1, <2>2, <2>3, <2>4 DEF Ping
<1>3. WiresInv'
  BY <1>2, UntouchedInv DEF Ping, StartPing, SendPing, TakePong, EndPing
<1>4. HandlersInv' /\ CallersInv'
  BY DEF IInv, HandlersInv, CallersInv, Ping, StartPing, SendPing, TakePong, EndPing
<1>5. CASE SendPing(e)
  <2>1. pinger'[e].seq = pinger[e].seq /\ pinger[e].seq # 0
    BY <1>1, <1>5 DEF SendPing, IInv, PingersInv
  <2>2. [type |-> "ping", seq |-> pinger[e].seq] \in Sent(e)'
    <3>1. pinger[e].seq \in 1..pinger'[e].seq
      BY <1>1, <2>1
    <3> QED BY <3>1 DEF Sent
  <2>3. WritersInv'
    BY <1>2, <1>5, <2>2, EnqueueInv DEF SendPing
  <2>4. InboundInv'
    BY <1>2, <1>5, UntouchedInv DEF SendPing
  <2> QED BY <1>2, <1>3, <1>4, <2>3, <2>4 DEF IInv
<1>6. CASE TakePong(e)
  <2>1. InboundInv'
    BY <1>2, <1>6, DequeueInv DEF TakePong, Inbound
  <2>2. WritersInv'
    BY <1>2, <1>6, UntouchedInv DEF TakePong
  <2> QED BY <1>2, <1>3, <1>4, <2>1, <2>2 DEF IInv
<1>7. CASE StartPing(e) \/ EndPing(e)
  <2>1. WritersInv' /\ InboundInv'
    BY <1>2, <1>7, UntouchedInv DEF StartPing, EndPing
  <2> QED BY <1>2, <1>3, <1>4, <2>1 DEF IInv
<1> QED BY <1>5, <1>6, <1>7 DEF Ping
---------------------------------------------------------------------------
LEMMA InitInv ==
  ASSUME Init
  PROVE  IInv
<1>1. WritersInv /\ WiresInv
  BY EmptySeq, ConnectionAssumption DEF Init, WritersInv, WiresInv, ConnectionAssumption
<1>2. InboundInv
  BY EmptySeq, LimitAssumption DEF Init, InboundInv, LimitAssumption
<1>3. HandlersInv
  BY DEF Init, HandlersInv
<1>4. PingersInv
  BY ConnectionAssumption DEF Init, PingersInv, SuccessIsFresh, ConnectionAssumption
<1>5. CallersInv
  <2>1. 0 \in 0..MaxCalls
    BY ConnectionAssumption DEF ConnectionAssumption
  <2> QED BY <2>1 DEF Init, CallersInv
<1> QED BY <1>1, <1>2, <1>3, <1>4, <1>5 DEF IInv

LEMMA NextInv ==
  ASSUME IInv, [Next]_vars
  PROVE  IInv'
<1>1. CASE Cut \/ UNCHANGED vars
  <2>1. PingersInv' /\ Grown
    BY <1>1, PingersRest DEF IInv, Cut, vars
  <2>2. WritersInv' /\ WiresInv' /\ InboundInv'
    BY <1>1, <2>1, UntouchedInv DEF Cut, vars
  <2>3. HandlersInv' /\ CallersInv'
    BY <1>1 DEF IInv, HandlersInv, CallersInv, Cut, vars
  <2> QED BY <2>1, <2>2, <2>3 DEF IInv
<1>2. CASE Next
  BY <1>1, <1>2, WriteInv, ReadInv, ReadPingInv, HandleInv, SendAnswerInv, CallInv, PingInv
     DEF Next
<1> QED BY <1>1, <1>2

\* The invariant of the proofs.
LEMMA AlwaysIInv == Spec => []IInv
  BY InitInv, NextInv, PTL DEF Spec

\* TypeOK: the channels keep their capacities, and each holds messages of its
\* kind (connection.rs:213-258).
THEOREM TypeCorrect == Spec => []TypeOK
<1>1. ASSUME IInv PROVE TypeOK
  <2>1. ASSUME NEW e \in End
        PROVE  /\ Sent(e) \subseteq Message
               /\ ponged[e] \subseteq 1..MaxPings[e]
    <3>1. Other(e) \in End
      BY OtherEnd
    <3>2. \A d \in End : /\ pinger[d].seq \in 0..MaxPings[d] /\ MaxPings[d] \in Nat
                         /\ ponged[d] \subseteq 1..pinger[d].seq
      BY <1>1, ConnectionAssumption DEF IInv, PingersInv, ConnectionAssumption
    <3>3. \A d \in End : ponged[d] \subseteq 1..MaxPings[d] /\ 1..pinger[d].seq \subseteq Nat
      <4> TAKE d \in End
      <4>1. pinger[d].seq \in 0..MaxPings[d] /\ MaxPings[d] \in Nat
        BY <3>2
      <4>2. 1..pinger[d].seq \subseteq 1..MaxPings[d] /\ 1..pinger[d].seq \subseteq Nat
        BY <4>1
      <4> QED BY <3>2, <4>2
    <3> QED BY <3>1, <3>3 DEF Sent, Message
  <2>2. ASSUME NEW e \in End, NEW ch \in Inbound
        PROVE  inbound[e][ch] \in Seq({m \in Message : ChannelOf(m) = ch})
    <3>1. SentTo(e, ch) \subseteq {m \in Message : ChannelOf(m) = ch}
      BY <2>1, OtherEnd DEF SentTo
    <3> QED BY <1>1, <3>1, SeqMonotone DEF IInv, InboundInv
  <2>3. ASSUME NEW e \in End
        PROVE  write_tx[e] \in Seq(Message) /\ wire[e] \in Seq(Message)
    BY <1>1, <2>1, SeqMonotone DEF IInv, WritersInv, WiresInv
  <2>4. ASSUME NEW e \in End
        PROVE  handler[e] \in {None} \cup Message
    BY <1>1 DEF IInv, HandlersInv, Message
  <2> QED BY <1>1, <2>1, <2>2, <2>3, <2>4
          DEF TypeOK, IInv, WritersInv, WiresInv, InboundInv, PingersInv, CallersInv
<1> QED BY <1>1, AlwaysIInv, PTL

\* SuccessIsFresh: a ping that succeeds was answered by the peer's reader, no
\* matter how many pongs came too late (connection.rs:349-387).
THEOREM PingsAreHonest == Spec => []SuccessIsFresh
<1>1. IInv => SuccessIsFresh
  BY DEF IInv, PingersInv
<1> QED BY <1>1, AlwaysIInv, PTL
=============================================================================

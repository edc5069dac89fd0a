-------------------------- MODULE TransferProofs --------------------------
(***************************************************************************)
(* What holds of Transfer for every set of peers, files and contents, and  *)
(* any number of changes, timeouts and crashes: its types, and that it     *)
(* implements AtomicPlacement; that a send that reports success has placed *)
(* its file, when no two sends share a connection; and that a transfer may *)
(* skip the chunks it does, when nobody changes a file that is being sent. *)
(***************************************************************************)
EXTENDS Transfer, TLAPS

\* A connection's oldest request, and what it leaves.
LEMMA OldestRequest ==
  ASSUME ChannelsOK, NEW p \in Peer, requests[p] # <<>>
  PROVE  Head(requests[p]) \in Request /\ Tail(requests[p]) \in Seq(Request)
<1>1. requests[p] \in Seq(Request)
  BY DEF ChannelsOK
<1> QED BY <1>1

\* The fields of the requests.
LEMMA RequestFields ==
  ASSUME NEW m \in Request
  PROVE  /\ m.id \in Content
         /\ m.type = "TransferInit" => m.dest \in Dest /\ m.size \in Nat
         /\ m.type = "TransferChunk" => m.chunk \in Position /\ m.data \in Seq(Datum)
  BY DEF Request

\* A send lives on a connection of its peer.
LEMMA SendFields ==
  ASSUME NEW t \in Send
  PROVE  t.peer \in Peer /\ t.file \in File /\ t.dest \in Dest
  BY TransferAssumption DEF TransferAssumption

\* Sending a request keeps the channels' types.
LEMMA PostOK ==
  ASSUME ChannelsOK, NEW t \in Send, NEW m \in Request, Post(t, m)
  PROVE  ChannelsOK'
<1>1. t.peer \in Peer
  BY SendFields
<1>2. requests[t.peer] \in Seq(Request)
  BY <1>1 DEF ChannelsOK
<1>3. Append(requests[t.peer], m) \in Seq(Request)
  BY <1>2
<1> QED BY <1>1, <1>3 DEF Post, ChannelsOK

\* So does answering the oldest request.
LEMMA AnswerOK ==
  ASSUME ChannelsOK, NEW p \in Peer, requests[p] # <<>>, NEW r \in Response, Answer(p, r)
  PROVE  ChannelsOK'
<1>1. Tail(requests[p]) \in Seq(Request)
  BY OldestRequest
<1>2. responses[p] \in Seq(Response)
  BY DEF ChannelsOK
<1>3. Append(responses[p], r) \in Seq(Response)
  BY <1>2
<1> QED BY <1>1, <1>3 DEF Answer, ChannelsOK

\* And dropping it without an answer.
LEMMA NoAnswerOK ==
  ASSUME ChannelsOK, NEW p \in Peer, requests[p] # <<>>, NoAnswer(p)
  PROVE  ChannelsOK'
<1>1. Tail(requests[p]) \in Seq(Request)
  BY OldestRequest
<1> QED BY <1>1 DEF NoAnswer, ChannelsOK

\* An idle send is well-typed.
LEMMA IdleOK == SendOK(Idle)
<1>1. <<>> \in Seq(Datum)
  OBVIOUS
<1> QED BY <1>1 DEF SendOK, Idle, Phase, Position

\* Only send t changes, to a well-typed one.
LEMMA SendsStep ==
  ASSUME SendsOK, UNCHANGED source, NEW t \in Send, DOMAIN send' = Send,
         \A s \in Send \ {t} : send'[s] = send[s], SendOK(send'[t])
  PROVE  SendsOK'
  BY DEF SendsOK

\* Ending a send.
LEMMA EndOK ==
  ASSUME SendsOK, UNCHANGED source, NEW t \in Send, send' = [send EXCEPT ![t] = Idle]
  PROVE  SendsOK'
  BY IdleOK, SendsStep DEF SendsOK

\* What a step leaves alone keeps its type.
LEMMA UnchangedOK ==
  ASSUME TypeOK
  PROVE  /\ UNCHANGED <<source, send>> => SendsOK'
         /\ UNCHANGED channels => ChannelsOK'
         /\ UNCHANGED staging => StagingOK'
         /\ UNCHANGED history => HistoryOK'
         /\ UNCHANGED bounds => BoundsOK'
<1>1. UNCHANGED <<source, send>> => SendsOK'
  BY DEF TypeOK, SendsOK
<1>2. UNCHANGED channels => ChannelsOK'
  BY DEF TypeOK, ChannelsOK, channels
<1>3. UNCHANGED staging => StagingOK'
  BY DEF TypeOK, StagingOK, StatesOK, staging
<1>4. UNCHANGED history => HistoryOK'
  BY DEF TypeOK, HistoryOK, history
<1>5. UNCHANGED bounds => BoundsOK'
  BY DEF TypeOK, BoundsOK, bounds
<1> QED BY <1>1, <1>2, <1>3, <1>4, <1>5

\* A broken connection leaves idle sends and empty channels.
LEMMA SeverOK ==
  ASSUME SendsOK, ChannelsOK, UNCHANGED source, NEW lost, Sever(lost)
  PROVE  SendsOK' /\ ChannelsOK'
<1>1. SendsOK'
  BY IdleOK DEF Sever, SendsOK
<1>2. <<>> \in Seq(Request) /\ <<>> \in Seq(Response)
  OBVIOUS
<1>3. ChannelsOK'
  BY <1>2 DEF Sever, ChannelsOK
<1> QED BY <1>1, <1>3

\* Adding and removing a transfer state.
LEMMA PutStateOK ==
  ASSUME NEW states, StatesOK(states), NEW id \in Content, NEW x \in TransferState
  PROVE  StatesOK(Put(states, id, x))
  BY DEF StatesOK, Put

LEMMA DropStateOK ==
  ASSUME NEW states, StatesOK(states), NEW id
  PROVE  StatesOK(Drop(states, id))
  BY DEF StatesOK, Drop

\* The state a transfer starts or resumes with.
LEMMA ResumeStateOK ==
  ASSUME StagingOK, NEW m \in Request, m.type = "TransferInit"
  PROVE  ResumeState(m) \in TransferState
  BY RequestFields DEF ResumeState, StagingOK, StatesOK, TransferState

\* Partial files stay sequences of chunks when one is allocated...
LEMMA AllocatedOK ==
  ASSUME StagingOK, NEW m \in Request, m.type = "TransferInit"
  PROVE  /\ DOMAIN Allocated(m) \subseteq Content
         /\ \A id \in DOMAIN Allocated(m) : Allocated(m)[id] \in Bytes
<1>1. m.id \in Content /\ m.size \in Nat
  BY RequestFields
<1>2. Zeros(m.size) \in Bytes
  BY <1>1 DEF Zeros, Bytes
<1> QED BY <1>1, <1>2 DEF Allocated, Put, StagingOK

\* ...or only created...
LEMMA CreatedOK ==
  ASSUME StagingOK, NEW m \in Request
  PROVE  /\ DOMAIN Created(m) \subseteq Content
         /\ \A id \in DOMAIN Created(m) : Created(m)[id] \in Bytes
<1>1. <<>> \in Bytes
  BY DEF Bytes
<1> QED BY <1>1, RequestFields DEF Created, Put, StagingOK

\* ...and when a chunk is written, past the end or not.
LEMMA WriteChunkOK ==
  ASSUME NEW file \in Bytes, NEW i \in Position, NEW data \in Seq(Datum)
  PROVE  WriteChunk(file, i, data) \in Bytes
<1>1. CASE data = <<>>
  BY <1>1 DEF WriteChunk
<1>2. CASE data # <<>>
  <2> DEFINE n == IF i > Len(file) THEN i ELSE Len(file)
  <2>1. n \in Nat /\ Len(file) \in Nat
    BY DEF Bytes, Position
  <2>2. data[1] \in Datum
    BY <1>2
  <2>3. \A j \in 1..n : (IF j = i THEN data[1] ELSE IF j <= Len(file) THEN file[j] ELSE Zero)
                          \in Datum \cup {Zero}
    BY <2>1, <2>2 DEF Bytes
  <2>4. WriteChunk(file, i, data) =
          [j \in 1..n |-> IF j = i THEN data[1] ELSE IF j <= Len(file) THEN file[j] ELSE Zero]
    BY <1>2 DEF WriteChunk
  <2> HIDE DEF n
  <2> QED BY <2>1, <2>3, <2>4 DEF Bytes
<1> QED BY <1>1, <1>2

LEMMA WrittenOK ==
  ASSUME StagingOK, NEW m \in Request, m.type = "TransferChunk", m.id \in DOMAIN partial
  PROVE  /\ DOMAIN Written(m) \subseteq Content
         /\ \A id \in DOMAIN Written(m) : Written(m)[id] \in Bytes
<1>1. m.id \in Content /\ m.chunk \in Position /\ m.data \in Seq(Datum)
  BY RequestFields
<1>2. partial[m.id] \in Bytes
  BY DEF StagingOK
<1>3. WriteChunk(partial[m.id], m.chunk, m.data) \in Bytes
  BY <1>1, <1>2, WriteChunkOK
<1> QED BY <1>1, <1>3 DEF Written, Put, StagingOK

\* Recording a chunk keeps a state well-typed.
LEMMA RecordedOK ==
  ASSUME NEW x \in TransferState, NEW i \in Position
  PROVE  [x EXCEPT !.done = @ \cup {i}] \in TransferState
<1> DEFINE more == x.done \cup {i}
<1>1. more \in SUBSET Position
  BY DEF TransferState
<1> HIDE DEF more
<1>2. [x EXCEPT !.done = more] \in TransferState
  BY <1>1 DEF TransferState
<1> QED BY <1>2 DEF more

---------------------------------------------------------------------------
(* The steps of a sender. *)

\* The initial states.
LEMMA InitTypes == Init => TypeOK
<1> SUFFICES ASSUME Init PROVE TypeOK
  OBVIOUS
<1>1. SendsOK
  BY IdleOK DEF Init, SendsOK
<1>2. <<>> \in Seq(Request) /\ <<>> \in Seq(Response)
  OBVIOUS
<1>3. ChannelsOK
  BY <1>2 DEF Init, ChannelsOK
<1>4. StagingOK
  BY DEF Init, StagingOK, StatesOK
<1>5. HistoryOK /\ BoundsOK
  BY TransferAssumption DEF Init, HistoryOK, BoundsOK, TransferAssumption
<1> QED BY <1>1, <1>3, <1>4, <1>5 DEF TypeOK

LEMMA StartOK ==
  ASSUME TypeOK, NEW t \in Send, Start(t)
  PROVE  TypeOK'
<1>1. Len(source[t.file]) \in Nat
  <2>1. source[t.file] \in Seq(Datum)
    BY SendFields, TransferAssumption DEF TypeOK, SendsOK, TransferAssumption
  <2> QED BY <2>1
<1> DEFINE x == [Idle EXCEPT !.phase = "hashing", !.size = Len(source[t.file])]
<1>2. SendOK(x)
  BY <1>1, IdleOK DEF SendOK, Phase
<1>3. send' = [send EXCEPT ![t] = x]
  BY DEF Start
<1> HIDE DEF x
<1>4. DOMAIN send' = Send /\ send'[t] = x /\ \A s \in Send \ {t} : send'[s] = send[s]
  BY <1>3 DEF TypeOK, SendsOK
<1>5. SendsOK'
  BY <1>2, <1>4, SendsStep DEF TypeOK, Start
<1> QED BY <1>5, UnchangedOK DEF TypeOK, Start

LEMMA SendInitOK ==
  ASSUME TypeOK, NEW t \in Send, SendInit(t)
  PROVE  TypeOK'
<1> DEFINE c == source[t.file]
           m == [type |-> "TransferInit", id |-> c, dest |-> t.dest, size |-> send[t].size]
<1>1. c \in Content /\ c \in Seq(Datum)
  BY SendFields, TransferAssumption DEF TypeOK, SendsOK, TransferAssumption
<1>2. SendsOK'
  <2>1. send' = [send EXCEPT ![t].phase = "init", ![t].hash = c]
    BY DEF SendInit
  <2> HIDE DEF c
  <2>2. DOMAIN send' = Send /\ \A s \in Send \ {t} : send'[s] = send[s]
    BY <2>1 DEF TypeOK, SendsOK
  <2>3. send'[t] = [[send[t] EXCEPT !.phase = "init"] EXCEPT !.hash = c]
    BY <2>1, Zenon DEF TypeOK, SendsOK
  <2>4. SendOK(send[t])
    BY DEF TypeOK, SendsOK
  <2>5. SendOK(send'[t])
    BY <1>1, <2>3, <2>4 DEF SendOK, Phase
  <2> QED BY <2>2, <2>5, SendsStep DEF TypeOK, SendInit
<1>3. ChannelsOK'
  <2>1. send[t].size \in Nat
    BY DEF TypeOK, SendsOK, SendOK
  <2>2. m \in Request
    BY <1>1, <2>1, SendFields DEF Request
  <2>3. Post(t, m)
    BY DEF SendInit
  <2> QED BY <2>2, <2>3, PostOK DEF TypeOK
<1>4. HistoryOK'
  BY <1>1, SendFields DEF TypeOK, HistoryOK, SendInit
<1> QED BY <1>2, <1>3, <1>4, UnchangedOK DEF TypeOK, SendInit

\* A chunk that is sent is well-typed.
LEMMA ChunkTyped ==
  ASSUME TypeOK, NEW t \in Send, NEW i \in Pending(send[t]), SendChunk(t, i)
  PROVE  [type |-> "TransferChunk", id |-> send[t].hash, chunk |-> i, data |-> ChunkData(t, i)]
           \in Request
<1>1. SendOK(send[t])
  BY DEF TypeOK, SendsOK
<1>2. i \in Position /\ send[t].hash \in Content
  BY <1>1 DEF SendOK, Pending, Position, SendChunk, NextChunk
<1>3. source[t.file] \in Seq(Datum)
  BY SendFields, TransferAssumption DEF TypeOK, SendsOK, TransferAssumption
<1>4. send[t].size > 0 => i <= Len(source[t.file])
  BY <1>1, <1>2, <1>3 DEF SendChunk, ReadFails, SendOK, Position
<1>5. ChunkData(t, i) \in Seq(Datum)
  BY <1>1, <1>2, <1>3, <1>4 DEF ChunkData, Position, SendOK
<1> QED BY <1>2, <1>5 DEF Request

LEMMA SendChunkOK ==
  ASSUME TypeOK, NEW t \in Send, NEW i \in Pending(send[t]), SendChunk(t, i)
  PROVE  TypeOK'
<1> DEFINE m == [type |-> "TransferChunk", id |-> send[t].hash, chunk |-> i,
                 data |-> ChunkData(t, i)]
<1>1. SendOK(send[t])
  BY DEF TypeOK, SendsOK
<1>2. i \in Position /\ send[t].hash \in Content
  BY <1>1 DEF SendOK, Pending, Position, SendChunk, NextChunk
<1>3. SendsOK'
  <2>1. send' = [send EXCEPT ![t].phase = "chunk_ack", ![t].chunk = i]
    BY DEF SendChunk
  <2>2. DOMAIN send' = Send /\ \A s \in Send \ {t} : send'[s] = send[s]
    BY <2>1 DEF TypeOK, SendsOK
  <2>3. send'[t] = [[send[t] EXCEPT !.phase = "chunk_ack"] EXCEPT !.chunk = i]
    BY <2>1, Zenon DEF TypeOK, SendsOK
  <2>4. SendOK(send'[t])
    BY <1>1, <1>2, <2>3 DEF SendOK, Phase
  <2> QED BY <2>2, <2>4, SendsStep DEF TypeOK, SendChunk
<1>4. ChannelsOK'
  <2>1. m \in Request
    BY ChunkTyped
  <2>2. Post(t, m)
    BY DEF SendChunk
  <2> QED BY <2>1, <2>2, PostOK DEF TypeOK
<1> QED BY <1>3, <1>4, UnchangedOK DEF TypeOK, SendChunk

LEMMA SendCompleteOK ==
  ASSUME TypeOK, NEW t \in Send, SendComplete(t)
  PROVE  TypeOK'
<1> DEFINE m == [type |-> "TransferComplete", id |-> send[t].hash]
<1>1. SendOK(send[t])
  BY DEF TypeOK, SendsOK
<1>2. SendsOK'
  <2>1. send' = [send EXCEPT ![t].phase = "complete"]
    BY DEF SendComplete
  <2>2. DOMAIN send' = Send /\ \A s \in Send \ {t} : send'[s] = send[s]
    BY <2>1 DEF TypeOK, SendsOK
  <2>3. SendOK(send'[t])
    BY <1>1, <2>1 DEF SendOK, Phase, SendComplete, TypeOK, SendsOK
  <2> QED BY <2>2, <2>3, SendsStep DEF TypeOK, SendComplete
<1>3. m \in Request
  BY <1>1 DEF Request, SendOK, SendComplete
<1>4. ChannelsOK'
  BY <1>3, PostOK DEF TypeOK, SendComplete
<1> QED BY <1>2, <1>4, UnchangedOK DEF TypeOK, SendComplete

\* The fields of the answers.
LEMMA ResponseFields ==
  ASSUME NEW r \in Response
  PROVE  r.type = "TransferInitAck" => r.existing \in SUBSET Position
  BY DEF Response

LEMMA TakeAnswerOK ==
  ASSUME TypeOK, NEW t \in Send, TakeAnswer(t)
  PROVE  TypeOK'
<1> DEFINE r == Head(responses[t.peer])
           x == send[t]
           y == IF Expected(t, r) THEN Continued(x, r) ELSE Idle
<1>1. SendOK(x) /\ x.phase \in {"init", "chunk_ack", "complete"}
  BY DEF TypeOK, SendsOK, TakeAnswer, Waiting
<1>2. t.peer \in Peer
  BY SendFields
<1>3. responses[t.peer] \in Seq(Response)
  BY <1>2 DEF TypeOK, ChannelsOK
<1>4. r \in Response /\ Tail(responses[t.peer]) \in Seq(Response)
  BY <1>3 DEF TakeAnswer
<1>5. SendsOK'
  <2>1. ASSUME Expected(t, r) PROVE SendOK(Continued(x, r))
    <3>1. CASE x.phase = "init"
      <4>1. r.existing \in SUBSET Position
        BY <1>4, <2>1, <3>1, ResponseFields DEF Expected
      <4>2. Continued(x, r) = [[x EXCEPT !.phase = "chunks"] EXCEPT !.existing = r.existing]
        BY <3>1, Zenon DEF Continued
      <4> HIDE DEF r
      <4> QED BY <1>1, <3>1, <4>1, <4>2 DEF SendOK, Phase
    <3>2. CASE x.phase = "chunk_ack"
      <4>1. Continued(x, r) = [[x EXCEPT !.phase = "chunks"] EXCEPT !.chunk = x.chunk + 1]
        BY <3>2 DEF Continued
      <4>2. x.chunk + 1 \in Position
        BY <1>1 DEF SendOK, Position
      <4> QED BY <1>1, <3>2, <4>1, <4>2 DEF SendOK, Phase
    <3>3. CASE x.phase = "complete"
      <4>1. Continued(x, r) = [x EXCEPT !.phase = "verified"]
        BY <3>3 DEF Continued
      <4> QED BY <1>1, <3>3, <4>1 DEF SendOK, Phase
    <3> QED BY <1>1, <3>1, <3>2, <3>3
  <2>2. SendOK(y)
    BY <2>1, IdleOK
  <2>3. send' = [send EXCEPT ![t] = y]
    BY DEF TakeAnswer
  <2> HIDE DEF y
  <2>4. DOMAIN send' = Send /\ send'[t] = y /\ \A s \in Send \ {t} : send'[s] = send[s]
    BY <2>3 DEF TypeOK, SendsOK
  <2> QED BY <2>2, <2>4, SendsStep DEF TypeOK, TakeAnswer
<1>6. ChannelsOK'
  BY <1>2, <1>4 DEF TypeOK, ChannelsOK, TakeAnswer
<1> QED BY <1>5, <1>6, UnchangedOK DEF TypeOK, TakeAnswer

\* Every step of a sender keeps the types.
LEMMA SenderOK ==
  ASSUME TypeOK, NEW t \in Send, SenderStep(t)
  PROVE  TypeOK'
<1>1. ASSUME NEW i \in Pending(send[t]), FailRead(t, i)
      PROVE  TypeOK'
  BY <1>1, EndOK, UnchangedOK DEF TypeOK, FailRead
<1>2. CASE GiveUp(t)
  BY <1>2, EndOK, UnchangedOK DEF TypeOK, GiveUp
<1> QED BY <1>1, <1>2, StartOK, SendInitOK, SendChunkOK, SendCompleteOK, TakeAnswerOK
           DEF SenderStep

\* A timeout whose answer is still on its way.
LEMMA TimeoutLateOK ==
  ASSUME TypeOK, NEW t \in Send, TimeoutLate(t)
  PROVE  TypeOK'
<1>1. BoundsOK'
  BY TransferAssumption DEF TypeOK, BoundsOK, TimeoutLate, TransferAssumption
<1> QED BY <1>1, EndOK, UnchangedOK DEF TypeOK, TimeoutLate

\* A change of a source file.
LEMMA EditSourceOK ==
  ASSUME TypeOK, NEW f \in File, NEW c \in Content, EditSource(f, c)
  PROVE  TypeOK'
<1>1. BoundsOK'
  BY TransferAssumption DEF TypeOK, BoundsOK, EditSource, TransferAssumption
<1>2. SendsOK'
  BY DEF TypeOK, SendsOK, EditSource
<1> QED BY <1>1, <1>2, UnchangedOK DEF TypeOK, EditSource

---------------------------------------------------------------------------
(* The steps of the receiver. *)

\* The oldest request is there and well-typed.
LEMMA HandledOK ==
  ASSUME TypeOK, NEW p \in Peer, NEW type, Handles(p, type)
  PROVE  /\ requests[p] # <<>> /\ Head(requests[p]).type = type
         /\ Head(requests[p]) \in Request
  BY OldestRequest DEF TypeOK, Handles

LEMMA handle_initOK ==
  ASSUME TypeOK, NEW p \in Peer, handle_init(p)
  PROVE  TypeOK'
<1> DEFINE m == Head(requests[p])
           r == [type |-> "TransferInitAck", id |-> m.id, existing |-> ResumeState(m).done]
<1>1. requests[p] # <<>> /\ m \in Request /\ m.type = "TransferInit"
  BY HandledOK DEF handle_init
<1>2. m.id \in Content /\ ResumeState(m) \in TransferState
  BY <1>1, RequestFields, ResumeStateOK DEF TypeOK
<1>3. StagingOK'
  <2>1. StatesOK(Put(saved, m.id, ResumeState(m))) /\ StatesOK(Put(active, m.id, ResumeState(m)))
    BY <1>2, PutStateOK DEF TypeOK, StagingOK
  <2>2. /\ DOMAIN Allocated(m) \subseteq Content
        /\ \A id \in DOMAIN Allocated(m) : Allocated(m)[id] \in Bytes
    BY <1>1, AllocatedOK DEF TypeOK
  <2> QED BY <2>1, <2>2 DEF StagingOK, handle_init
<1>4. r \in Response
  BY <1>2 DEF Response, TransferState
<1>5. ChannelsOK'
  BY <1>1, <1>4, AnswerOK DEF TypeOK, handle_init
<1> QED BY <1>3, <1>5, UnchangedOK DEF TypeOK, handle_init

LEMMA handle_chunkOK ==
  ASSUME TypeOK, NEW p \in Peer, handle_chunk(p)
  PROVE  TypeOK'
<1> DEFINE m == Head(requests[p])
           done == [active[m.id] EXCEPT !.done = @ \cup {m.chunk}]
           r == [type |-> "TransferChunkAck", chunk |-> m.chunk]
<1>1. requests[p] # <<>> /\ m \in Request /\ m.type = "TransferChunk"
  BY HandledOK DEF handle_chunk
<1>2. m.id \in Content /\ m.chunk \in Position
  BY <1>1, RequestFields
<1>3. StagingOK'
  <2>1. /\ DOMAIN Written(m) \subseteq Content
        /\ \A id \in DOMAIN Written(m) : Written(m)[id] \in Bytes
    BY <1>1, WrittenOK DEF TypeOK, handle_chunk
  <2>2. CASE m.id \in DOMAIN active
    <3>1. done \in TransferState
      BY <1>2, <2>2, RecordedOK DEF TypeOK, StagingOK, StatesOK
    <3>2. active' = Put(active, m.id, done) /\ saved' = Put(saved, m.id, done)
      BY <2>2 DEF handle_chunk
    <3> HIDE DEF done
    <3>3. StatesOK(Put(active, m.id, done)) /\ StatesOK(Put(saved, m.id, done))
      BY <1>2, <3>1, PutStateOK DEF TypeOK, StagingOK
    <3> QED BY <2>1, <3>2, <3>3 DEF StagingOK, handle_chunk
  <2>3. CASE m.id \notin DOMAIN active
    <3>1. UNCHANGED <<active, saved>> /\ partial' = Written(m)
      BY <2>3 DEF handle_chunk
    <3> QED BY <2>1, <3>1 DEF TypeOK, StagingOK, StatesOK
  <2> QED BY <2>2, <2>3
<1>4. r \in Response
  BY <1>2 DEF Response
<1>5. ChannelsOK'
  BY <1>1, <1>4, AnswerOK DEF TypeOK, handle_chunk
<1> QED BY <1>3, <1>5, UnchangedOK DEF TypeOK, handle_chunk

LEMMA FailChunkOK ==
  ASSUME TypeOK, NEW p \in Peer, FailChunk(p)
  PROVE  TypeOK'
<1>1. ChannelsOK'
  BY HandledOK, NoAnswerOK DEF TypeOK, FailChunk
<1> QED BY <1>1, UnchangedOK DEF TypeOK, FailChunk

\* What is placed has a destination and, being its own hash, is a content.
LEMMA CompletesOK ==
  ASSUME TypeOK, NEW p \in Peer, NEW id, Completes(p, id)
  PROVE  /\ requests[p] # <<>> /\ id \in Content
         /\ StateOf(id) \in TransferState
<1>1. requests[p] # <<>> /\ Head(requests[p]) \in Request
  BY HandledOK DEF Completes
<1>2. id \in Content
  BY <1>1, RequestFields DEF Completes
<1>3. StateOf(id) \in TransferState
  BY DEF Completes, StateOf, TypeOK, StagingOK, StatesOK
<1> QED BY <1>1, <1>2, <1>3

\* A partial file removed.
LEMMA DropPartialOK ==
  ASSUME StagingOK, NEW id
  PROVE  /\ DOMAIN Drop(partial, id) \subseteq Content
         /\ \A j \in DOMAIN Drop(partial, id) : Drop(partial, id)[j] \in Bytes
  BY DEF StagingOK, Drop

\* Placing verified content keeps the history's type.
LEMMA PlacedOK ==
  ASSUME TypeOK, NEW p \in Peer, NEW id, Completes(p, id), partial[id] = id,
         placed' = placed \cup {<<StateOf(id).dest, partial[id]>>}, UNCHANGED announced
  PROVE  HistoryOK'
  BY CompletesOK DEF TypeOK, HistoryOK, TransferState

LEMMA handle_completeOK ==
  ASSUME TypeOK, NEW p \in Peer, NEW id, handle_complete(p, id)
  PROVE  TypeOK'
<1>1. requests[p] # <<>>
  BY CompletesOK DEF handle_complete
<1>2. StagingOK'
  BY DropStateOK, DropPartialOK DEF TypeOK, StagingOK, handle_complete
<1>3. [type |-> "TransferCompleteAck", verified |-> TRUE] \in Response
  BY DEF Response
<1>4. ChannelsOK'
  BY <1>1, <1>3, AnswerOK DEF TypeOK, handle_complete
<1>5. HistoryOK'
  BY PlacedOK DEF handle_complete
<1> QED BY <1>2, <1>4, <1>5, UnchangedOK DEF TypeOK, handle_complete

LEMMA RejectCompleteOK ==
  ASSUME TypeOK, NEW p \in Peer, NEW id, RejectComplete(p, id)
  PROVE  TypeOK'
<1>1. requests[p] # <<>>
  BY CompletesOK DEF RejectComplete
<1>2. StagingOK'
  BY DropStateOK DEF TypeOK, StagingOK, StatesOK, RejectComplete
<1>3. [type |-> "TransferCompleteAck", verified |-> FALSE] \in Response
  BY DEF Response
<1>4. ChannelsOK'
  BY <1>1, <1>3, AnswerOK DEF TypeOK, RejectComplete
<1> QED BY <1>2, <1>4, UnchangedOK DEF TypeOK, RejectComplete

LEMMA FailCompleteOK ==
  ASSUME TypeOK, NEW p \in Peer, FailComplete(p)
  PROVE  TypeOK'
<1>1. StagingOK'
  BY DropStateOK DEF TypeOK, StagingOK, StatesOK, FailComplete
<1>2. ChannelsOK'
  BY HandledOK, NoAnswerOK DEF TypeOK, FailComplete
<1> QED BY <1>1, <1>2, UnchangedOK DEF TypeOK, FailComplete

\* Every step of the receiver keeps the types.
LEMMA ReceiverOK ==
  ASSUME TypeOK, NEW p \in Peer, ReceiverStep(p)
  PROVE  TypeOK'
  BY handle_initOK, handle_chunkOK, FailChunkOK, handle_completeOK, RejectCompleteOK,
     FailCompleteOK DEF ReceiverStep

---------------------------------------------------------------------------
(* Faults. *)

LEMMA BreakOK ==
  ASSUME TypeOK, NEW p \in Peer, Break(p)
  PROVE  TypeOK'
<1>1. SendsOK' /\ ChannelsOK'
  BY SeverOK DEF TypeOK, Break
<1>2. BoundsOK'
  BY TransferAssumption DEF TypeOK, BoundsOK, Break, TransferAssumption
<1> QED BY <1>1, <1>2, UnchangedOK DEF TypeOK, Break

\* What a crash does to everything but the files and what was placed.
LEMMA CrashOK ==
  ASSUME TypeOK, Crash
  PROVE  SendsOK' /\ ChannelsOK' /\ StatesOK(active)' /\ BoundsOK'
<1>1. SendsOK' /\ ChannelsOK'
  BY SeverOK DEF TypeOK, Crash
<1>2. StatesOK(active)'
  BY DEF Crash, StatesOK
<1>3. BoundsOK'
  BY TransferAssumption DEF TypeOK, BoundsOK, Crash, TransferAssumption
<1> QED BY <1>1, <1>2, <1>3

LEMMA RestartOK ==
  ASSUME TypeOK, Restart
  PROVE  TypeOK'
<1>1. StagingOK'
  BY CrashOK DEF TypeOK, StagingOK, StatesOK, Restart
<1>2. HistoryOK'
  BY DEF TypeOK, HistoryOK, Restart, Crash
<1> QED BY <1>1, <1>2, CrashOK DEF TypeOK, Restart

\* A state file that a crash left, or made unreadable.
LEMMA HalfSavedOK ==
  ASSUME StagingOK, NEW id, HalfSaved(id)
  PROVE  StatesOK(saved')
  BY DropStateOK DEF StagingOK, HalfSaved

LEMMA CrashStepOK ==
  ASSUME TypeOK, NEW p \in Peer, CrashStep(p)
  PROVE  TypeOK'
<1>1. CASE CrashInInit(p)
  <2>1. Head(requests[p]) \in Request /\ Head(requests[p]).type = "TransferInit"
    BY <1>1, HandledOK DEF CrashInInit
  <2>2. StatesOK(saved')
    BY <1>1, HalfSavedOK DEF TypeOK, StagingOK, CrashInInit
  <2>3. ASSUME partial' = Created(Head(requests[p]))
        PROVE  StagingOK'
    BY <1>1, <2>1, <2>2, <2>3, CreatedOK, CrashOK DEF TypeOK, StagingOK, CrashInInit
  <2>4. ASSUME partial' = Allocated(Head(requests[p]))
        PROVE  StagingOK'
    BY <1>1, <2>1, <2>2, <2>4, AllocatedOK, CrashOK DEF TypeOK, StagingOK, CrashInInit
  <2>5. HistoryOK'
    BY <1>1 DEF TypeOK, HistoryOK, CrashInInit, Crash
  <2>6. StagingOK'
    BY <1>1, <2>3, <2>4 DEF CrashInInit
  <2> QED BY <1>1, <2>5, <2>6, CrashOK DEF TypeOK, CrashInInit
<1>2. CASE CrashInChunk(p)
  <2>1. Head(requests[p]) \in Request /\ Head(requests[p]).type = "TransferChunk"
    BY <1>2, HandledOK DEF CrashInChunk
  <2>2. StatesOK(saved')
    BY <1>2, HalfSavedOK DEF TypeOK, CrashInChunk
  <2>3. StagingOK'
    BY <1>2, <2>1, <2>2, WrittenOK, CrashOK DEF TypeOK, StagingOK, CrashInChunk
  <2>4. HistoryOK'
    BY <1>2 DEF TypeOK, HistoryOK, CrashInChunk, Crash
  <2> QED BY <1>2, <2>3, <2>4, CrashOK DEF TypeOK, CrashInChunk
<1>3. ASSUME NEW id \in DOMAIN partial, CrashInComplete(p, id)
      PROVE  TypeOK'
  <2>1. StagingOK'
    BY <1>3, CrashOK, DropPartialOK DEF TypeOK, StagingOK, StatesOK, CrashInComplete
  <2>2. HistoryOK'
    BY <1>3, PlacedOK DEF CrashInComplete, Crash
  <2> QED BY <1>3, <2>1, <2>2, CrashOK DEF TypeOK, CrashInComplete
<1> QED BY <1>1, <1>2, <1>3 DEF CrashStep

\* Every step keeps the types.
LEMMA NextTypes == TypeOK /\ [Next]_vars => TypeOK'
<1> SUFFICES ASSUME TypeOK, [Next]_vars PROVE TypeOK'
  OBVIOUS
<1>1. CASE UNCHANGED vars
  BY <1>1, UnchangedOK DEF vars, TypeOK
<1>2. CASE Next
  BY <1>2, SenderOK, TimeoutLateOK, EditSourceOK, ReceiverOK, BreakOK, CrashStepOK, RestartOK
     DEF Next
<1> QED BY <1>1, <1>2

\* All state keeps its type: the channels carry whole messages, the states
\* of interrupted transfers name a destination and valid chunks, and only
\* contents are placed.
THEOREM TypeCorrect == Spec => []TypeOK
BY InitTypes, NextTypes, PTL DEF Spec

---------------------------------------------------------------------------
(* Transfer implements AtomicPlacement.  The receiver places a file at the *)
(* destination of the state it keeps for the transfer id, not of the       *)
(* message that completes it; so every state, and every request that may   *)
(* become one, must go back to an announcement of the same content.        *)

RequestsAnnounced ==
  \A p \in Peer : \A i \in 1..Len(requests[p]) :
    requests[p][i].type = "TransferInit" =>
      <<requests[p][i].dest, requests[p][i].id>> \in announced

StatesAnnounced(states) == \A id \in DOMAIN states : <<states[id].dest, id>> \in announced

Announced == RequestsAnnounced /\ StatesAnnounced(active) /\ StatesAnnounced(saved)

\* Announcements are never taken back.
LEMMA AnnouncementsStay ==
  ASSUME TypeOK, [Next]_vars
  PROVE  announced \subseteq announced'
<1>1. CASE UNCHANGED vars
  BY <1>1 DEF vars, history
<1>2. ASSUME NEW t \in Send, SenderStep(t) \/ TimeoutLate(t)
      PROVE  announced \subseteq announced'
  BY <1>2 DEF SenderStep, Start, SendInit, SendChunk, FailRead, SendComplete, TakeAnswer, GiveUp,
              TimeoutLate, history
<1>3. ASSUME NEW p \in Peer, ReceiverStep(p) \/ Break(p) \/ CrashStep(p)
      PROVE  announced \subseteq announced'
  BY <1>3 DEF ReceiverStep, handle_init, handle_chunk, FailChunk, handle_complete, RejectComplete,
              FailComplete, Break, CrashStep, CrashInInit, CrashInChunk, CrashInComplete, Crash,
              history
<1>4. ASSUME NEW f \in File, NEW c \in Content, EditSource(f, c)
      PROVE  announced \subseteq announced'
  BY <1>4 DEF EditSource, history
<1>5. CASE Restart
  BY <1>5 DEF Restart, Crash
<1> QED BY <1>1, <1>2, <1>3, <1>4, <1>5 DEF Next

\* A request of another kind, or of announced content, is appended.
LEMMA PostAnnounced ==
  ASSUME TypeOK, RequestsAnnounced, announced \subseteq announced',
         NEW t \in Send, NEW m \in Request, Post(t, m),
         m.type = "TransferInit" => <<m.dest, m.id>> \in announced'
  PROVE  RequestsAnnounced'
<1> SUFFICES ASSUME NEW p \in Peer, NEW i \in 1..Len(requests'[p]),
                    requests'[p][i].type = "TransferInit"
             PROVE  <<requests'[p][i].dest, requests'[p][i].id>> \in announced'
  BY DEF RequestsAnnounced
<1>1. requests[p] \in Seq(Request) /\ t.peer \in Peer
  BY SendFields DEF TypeOK, ChannelsOK
<1>2. CASE p = t.peer
  <2>1. requests'[p] = Append(requests[p], m)
    BY <1>1, <1>2 DEF Post, TypeOK, ChannelsOK
  <2>2. CASE i = Len(requests[p]) + 1
    BY <1>1, <2>1, <2>2
  <2>3. CASE i \in 1..Len(requests[p])
    <3>1. requests'[p][i] = requests[p][i]
      BY <1>1, <2>1, <2>3
    <3> QED BY <2>3, <3>1 DEF RequestsAnnounced
  <2>4. Len(requests'[p]) = Len(requests[p]) + 1 /\ Len(requests[p]) \in Nat
    BY <1>1, <2>1
  <2>5. i \in 1..Len(requests[p]) \/ i = Len(requests[p]) + 1
    BY <2>4
  <2> QED BY <2>2, <2>3, <2>5
<1>3. CASE p # t.peer
  <2>1. requests'[p] = requests[p]
    BY <1>1, <1>3 DEF Post, TypeOK, ChannelsOK
  <2> QED BY <2>1 DEF RequestsAnnounced
<1> QED BY <1>2, <1>3

\* The elements of a sequence without its first.
LEMMA TailElements ==
  ASSUME NEW S, NEW s \in Seq(S), s # <<>>, NEW i \in 1..Len(Tail(s))
  PROVE  i + 1 \in 1..Len(s) /\ Tail(s)[i] = s[i + 1]
  OBVIOUS

\* The oldest request is taken off.
LEMMA HandledAnnounced ==
  ASSUME TypeOK, RequestsAnnounced, announced \subseteq announced',
         NEW p \in Peer, requests[p] # <<>>,
         requests' = [requests EXCEPT ![p] = Tail(@)]
  PROVE  RequestsAnnounced'
<1> SUFFICES ASSUME NEW q \in Peer, NEW i \in 1..Len(requests'[q]),
                    requests'[q][i].type = "TransferInit"
             PROVE  <<requests'[q][i].dest, requests'[q][i].id>> \in announced'
  BY DEF RequestsAnnounced
<1>1. requests[q] \in Seq(Request)
  BY DEF TypeOK, ChannelsOK
<1>2. CASE q = p
  <2>1. requests'[q] = Tail(requests[q])
    BY <1>2 DEF TypeOK, ChannelsOK
  <2>2. i + 1 \in 1..Len(requests[q]) /\ requests'[q][i] = requests[q][i + 1]
    BY <1>1, <1>2, <2>1, TailElements
  <2> QED BY <2>2 DEF RequestsAnnounced
<1>3. CASE q # p
  <2>1. requests'[q] = requests[q]
    BY <1>3 DEF TypeOK, ChannelsOK
  <2> QED BY <2>1 DEF RequestsAnnounced
<1> QED BY <1>2, <1>3

\* Broken connections lose requests.
LEMMA SeveredAnnounced ==
  ASSUME TypeOK, RequestsAnnounced, announced \subseteq announced', NEW lost, Sever(lost)
  PROVE  RequestsAnnounced'
<1> SUFFICES ASSUME NEW p \in Peer, NEW i \in 1..Len(requests'[p]),
                    requests'[p][i].type = "TransferInit"
             PROVE  <<requests'[p][i].dest, requests'[p][i].id>> \in announced'
  BY DEF RequestsAnnounced
<1>1. CASE p \in lost
  <2>1. requests'[p] = <<>>
    BY <1>1 DEF Sever
  <2> QED BY <2>1
<1>2. CASE p \notin lost
  <2>1. requests'[p] = requests[p]
    BY <1>2 DEF Sever
  <2> QED BY <2>1 DEF RequestsAnnounced
<1> QED BY <1>1, <1>2

\* The state of a new or resumed transfer goes back to an announcement.
LEMMA ResumedAnnounced ==
  ASSUME TypeOK, Announced, NEW p \in Peer, Handles(p, "TransferInit")
  PROVE  <<ResumeState(Head(requests[p])).dest, Head(requests[p]).id>> \in announced
<1> DEFINE m == Head(requests[p])
<1>1. requests[p] # <<>> /\ m.type = "TransferInit" /\ m \in Request
  BY HandledOK
<1>2. <<m.dest, m.id>> \in announced
  <2>1. requests[p] \in Seq(Request)
    BY DEF TypeOK, ChannelsOK
  <2>2. 1 \in 1..Len(requests[p]) /\ m = requests[p][1]
    BY <1>1, <2>1
  <2> QED BY <1>1, <2>2 DEF Announced, RequestsAnnounced
<1>3. CASE m.id \in DOMAIN saved /\ saved[m.id].size = m.size
  BY <1>3 DEF ResumeState, Announced, StatesAnnounced
<1>4. CASE ~(m.id \in DOMAIN saved /\ saved[m.id].size = m.size)
  <2>1. ResumeState(m).dest = m.dest
    BY <1>4 DEF ResumeState
  <2> QED BY <1>2, <2>1
<1> QED BY <1>3, <1>4

\* Adding an announced state, and removing any.
LEMMA PutAnnounced ==
  ASSUME NEW states, StatesAnnounced(states), announced \subseteq announced',
         NEW id, NEW x, <<x.dest, id>> \in announced'
  PROVE  \A j \in DOMAIN Put(states, id, x) : <<Put(states, id, x)[j].dest, j>> \in announced'
  BY DEF StatesAnnounced, Put

LEMMA DropAnnounced ==
  ASSUME NEW states, StatesAnnounced(states), announced \subseteq announced', NEW id
  PROVE  \A j \in DOMAIN Drop(states, id) : <<Drop(states, id)[j].dest, j>> \in announced'
  BY DEF StatesAnnounced, Drop

\* What a step leaves alone.
LEMMA UnchangedAnnounced ==
  ASSUME Announced, announced \subseteq announced'
  PROVE  /\ UNCHANGED requests => RequestsAnnounced'
         /\ UNCHANGED active => StatesAnnounced(active)'
         /\ UNCHANGED saved => StatesAnnounced(saved)'
<1>1. UNCHANGED requests => RequestsAnnounced'
  BY DEF Announced, RequestsAnnounced
<1>2. UNCHANGED active => StatesAnnounced(active)'
  BY DEF Announced, StatesAnnounced
<1>3. UNCHANGED saved => StatesAnnounced(saved)'
  BY DEF Announced, StatesAnnounced
<1> QED BY <1>1, <1>2, <1>3

LEMMA SenderAnnounced ==
  ASSUME TypeOK, Announced, announced \subseteq announced', NEW t \in Send, SenderStep(t)
  PROVE  Announced'
<1>1. UNCHANGED staging
  BY DEF SenderStep, Start, SendInit, SendChunk, FailRead, SendComplete, TakeAnswer, GiveUp
<1>2. RequestsAnnounced'
  <2>1. CASE SendInit(t)
    <3> DEFINE m == [type |-> "TransferInit", id |-> source[t.file], dest |-> t.dest,
                     size |-> send[t].size]
    <3>1. m \in Request
      <4>1. source[t.file] \in Content
        BY SendFields DEF TypeOK, SendsOK
      <4>2. send[t].size \in Nat
        BY DEF TypeOK, SendsOK, SendOK
      <4> QED BY <4>1, <4>2, SendFields DEF Request
    <3>2. <<m.dest, m.id>> \in announced'
      BY <2>1 DEF SendInit
    <3>3. Post(t, m)
      BY <2>1 DEF SendInit
    <3> QED BY <3>1, <3>2, <3>3, PostAnnounced DEF Announced
  <2>2. ASSUME NEW i \in Pending(send[t]), SendChunk(t, i)
        PROVE  RequestsAnnounced'
    <3> DEFINE m == [type |-> "TransferChunk", id |-> send[t].hash, chunk |-> i,
                     data |-> ChunkData(t, i)]
    <3>1. m \in Request
      BY <2>2, ChunkTyped
    <3>2. Post(t, m)
      BY <2>2 DEF SendChunk
    <3> QED BY <3>1, <3>2, PostAnnounced DEF Announced
  <2>3. CASE SendComplete(t)
    <3> DEFINE m == [type |-> "TransferComplete", id |-> send[t].hash]
    <3>1. m \in Request
      BY <2>3 DEF Request, SendOK, SendComplete, TypeOK, SendsOK
    <3> QED BY <2>3, <3>1, PostAnnounced DEF Announced, SendComplete
  <2>4. ASSUME \/ Start(t) \/ TakeAnswer(t) \/ GiveUp(t)
               \/ \E i \in Pending(send[t]) : FailRead(t, i)
        PROVE  UNCHANGED requests
    BY <2>4 DEF Start, TakeAnswer, GiveUp, FailRead, channels
  <2> QED BY <2>1, <2>2, <2>3, <2>4, UnchangedAnnounced DEF SenderStep
<1> QED BY <1>1, <1>2, UnchangedAnnounced DEF Announced, staging

LEMMA handle_initAnnounced ==
  ASSUME TypeOK, Announced, announced \subseteq announced', NEW p \in Peer, handle_init(p)
  PROVE  Announced'
<1> DEFINE m == Head(requests[p])
           x == ResumeState(m)
<1>1. <<x.dest, m.id>> \in announced'
  BY ResumedAnnounced DEF handle_init
<1>2. active' = Put(active, m.id, x) /\ saved' = Put(saved, m.id, x)
  BY DEF handle_init
<1> HIDE DEF x
<1>3. StatesAnnounced(active)' /\ StatesAnnounced(saved)'
  BY <1>1, <1>2, PutAnnounced DEF StatesAnnounced, Announced
<1>4. RequestsAnnounced'
  BY HandledOK, HandledAnnounced DEF handle_init, Answer, Announced
<1> QED BY <1>3, <1>4 DEF Announced

LEMMA handle_chunkAnnounced ==
  ASSUME TypeOK, Announced, announced \subseteq announced', NEW p \in Peer, handle_chunk(p)
  PROVE  Announced'
<1> DEFINE m == Head(requests[p])
           done == [active[m.id] EXCEPT !.done = @ \cup {m.chunk}]
<1>1. StatesAnnounced(active)' /\ StatesAnnounced(saved)'
  <2>1. CASE m.id \in DOMAIN active
    <3>1. done.dest = active[m.id].dest
      BY <2>1 DEF TypeOK, StagingOK, StatesOK, TransferState
    <3>2. active' = Put(active, m.id, done) /\ saved' = Put(saved, m.id, done)
      BY <2>1 DEF handle_chunk
    <3> HIDE DEF done
    <3>3. <<done.dest, m.id>> \in announced'
      BY <2>1, <3>1 DEF Announced, StatesAnnounced
    <3> QED BY <3>2, <3>3, PutAnnounced DEF StatesAnnounced, Announced
  <2>2. CASE m.id \notin DOMAIN active
    BY <2>2, UnchangedAnnounced DEF handle_chunk
  <2> QED BY <2>1, <2>2
<1>2. RequestsAnnounced'
  BY HandledOK, HandledAnnounced DEF handle_chunk, Answer, Announced
<1> QED BY <1>1, <1>2 DEF Announced

LEMMA ReceiverAnnounced ==
  ASSUME TypeOK, Announced, announced \subseteq announced', NEW p \in Peer, ReceiverStep(p)
  PROVE  Announced'
<1>1. CASE FailChunk(p)
  <2>1. RequestsAnnounced'
    BY <1>1, HandledOK, HandledAnnounced DEF FailChunk, NoAnswer, Announced
  <2> QED BY <1>1, <2>1, UnchangedAnnounced DEF FailChunk, staging, Announced
<1>2. ASSUME NEW id \in DOMAIN partial, handle_complete(p, id)
      PROVE  Announced'
  <2>1. RequestsAnnounced'
    BY <1>2, CompletesOK, HandledAnnounced DEF handle_complete, Answer, Announced
  <2>2. StatesAnnounced(active)' /\ StatesAnnounced(saved)'
    BY <1>2, DropAnnounced DEF handle_complete, StatesAnnounced, Announced
  <2> QED BY <2>1, <2>2 DEF Announced
<1>3. ASSUME NEW id \in DOMAIN partial, RejectComplete(p, id)
      PROVE  Announced'
  <2>1. RequestsAnnounced'
    BY <1>3, CompletesOK, HandledAnnounced DEF RejectComplete, Answer, Announced
  <2>2. StatesAnnounced(active)'
    BY <1>3, DropAnnounced DEF RejectComplete, StatesAnnounced, Announced
  <2> QED BY <1>3, <2>1, <2>2, UnchangedAnnounced DEF RejectComplete, Announced
<1>4. CASE FailComplete(p)
  <2>1. RequestsAnnounced'
    BY <1>4, HandledOK, HandledAnnounced DEF FailComplete, NoAnswer, Announced
  <2>2. StatesAnnounced(active)'
    BY <1>4, DropAnnounced DEF FailComplete, StatesAnnounced, Announced
  <2> QED BY <1>4, <2>1, <2>2, UnchangedAnnounced DEF FailComplete, Announced
<1> QED BY <1>1, <1>2, <1>3, <1>4, handle_initAnnounced, handle_chunkAnnounced DEF ReceiverStep

\* A crash forgets active states and leaves saved ones, or makes one unreadable.
LEMMA CrashAnnounced ==
  ASSUME TypeOK, Announced, announced \subseteq announced', Crash,
         saved' = saved \/ \E id : HalfSaved(id)
  PROVE  Announced'
<1>1. RequestsAnnounced'
  BY SeveredAnnounced DEF Crash, Announced
<1>2. StatesAnnounced(active)'
  BY DEF Crash, StatesAnnounced
<1>3. StatesAnnounced(saved)'
  BY DropAnnounced, UnchangedAnnounced DEF HalfSaved, StatesAnnounced, Announced
<1> QED BY <1>1, <1>2, <1>3 DEF Announced

LEMMA NextAnnounced ==
  ASSUME TypeOK, Announced, [Next]_vars
  PROVE  Announced'
<1>1. announced \subseteq announced'
  BY AnnouncementsStay
<1>2. CASE UNCHANGED vars
  BY <1>1, <1>2, UnchangedAnnounced DEF vars, channels, staging, Announced
<1>3. ASSUME NEW t \in Send, TimeoutLate(t)
      PROVE  Announced'
  BY <1>1, <1>3, UnchangedAnnounced DEF TimeoutLate, channels, staging, Announced
<1>4. ASSUME NEW f \in File, NEW c \in Content, EditSource(f, c)
      PROVE  Announced'
  BY <1>1, <1>4, UnchangedAnnounced DEF EditSource, channels, staging, Announced
<1>5. ASSUME NEW p \in Peer, Break(p)
      PROVE  Announced'
  <2>1. RequestsAnnounced'
    BY <1>1, <1>5, SeveredAnnounced DEF Break, Announced
  <2> QED BY <1>1, <1>5, <2>1, UnchangedAnnounced DEF Break, staging, Announced
<1>6. ASSUME NEW p \in Peer, CrashStep(p)
      PROVE  Announced'
  BY <1>1, <1>6, CrashAnnounced DEF CrashStep, CrashInInit, CrashInChunk, CrashInComplete
<1>7. CASE Restart
  BY <1>1, <1>7, CrashAnnounced DEF Restart
<1> QED BY <1>1, <1>2, <1>3, <1>4, <1>5, <1>6, <1>7, SenderAnnounced, ReceiverAnnounced DEF Next

LEMMA InitAnnounced == Init => Announced
  BY DEF Init, Announced, RequestsAnnounced, StatesAnnounced

\* Completing, or crashing in the middle of it, places announced content.
LEMMA CompletionPlaces ==
  ASSUME TypeOK, Announced, NEW p \in Peer, NEW id, Completes(p, id), partial[id] = id,
         placed' = placed \cup {<<StateOf(id).dest, partial[id]>>}, UNCHANGED announced
  PROVE  AP!Next
<1> DEFINE d == StateOf(id).dest
<1>1. d \in Dest /\ id \in Content
  BY CompletesOK DEF TransferState
<1>2. <<d, id>> \in announced
  BY DEF Completes, StateOf, Announced, StatesAnnounced
<1>3. AP!Place(d, id)
  BY <1>2 DEF AP!Place
<1> QED BY <1>1, <1>3 DEF AP!Next

\* Every other step announces content or leaves both histories alone.
LEMMA StepPlaces ==
  ASSUME TypeOK, Announced, [Next]_vars
  PROVE  [AP!Next]_AP!vars
<1>1. CASE UNCHANGED vars
  BY <1>1 DEF vars, history, AP!vars
<1>2. ASSUME NEW t \in Send, SendInit(t)
      PROVE  AP!Next
  <2>1. t.dest \in Dest /\ source[t.file] \in Content
    BY SendFields DEF TypeOK, SendsOK
  <2>2. AP!Announce(t.dest, source[t.file])
    BY <1>2 DEF SendInit, AP!Announce
  <2> QED BY <2>1, <2>2 DEF AP!Next
<1>3. ASSUME NEW t \in Send, SenderStep(t) \/ TimeoutLate(t), ~SendInit(t)
      PROVE  UNCHANGED history
  BY <1>3 DEF SenderStep, Start, SendChunk, FailRead, SendComplete, TakeAnswer, GiveUp, TimeoutLate
<1>4. ASSUME NEW f \in File, NEW c \in Content, EditSource(f, c)
      PROVE  UNCHANGED history
  BY <1>4 DEF EditSource
<1>5. ASSUME NEW p \in Peer, NEW id \in DOMAIN partial,
             handle_complete(p, id) \/ CrashInComplete(p, id)
      PROVE  AP!Next
  BY <1>5, CompletionPlaces DEF handle_complete, CrashInComplete, Crash
<1>6. ASSUME NEW p \in Peer,
             ReceiverStep(p) \/ Break(p) \/ CrashStep(p),
             \A id \in DOMAIN partial : ~handle_complete(p, id) /\ ~CrashInComplete(p, id)
      PROVE  UNCHANGED history
  BY <1>6 DEF ReceiverStep, handle_init, handle_chunk, FailChunk, RejectComplete, FailComplete,
              Break, CrashStep, CrashInInit, CrashInChunk, Crash, history
<1>7. CASE Restart
  BY <1>7 DEF Restart, Crash, AP!vars
<1>8. UNCHANGED history => UNCHANGED AP!vars
  BY DEF history, AP!vars
<1> QED BY <1>1, <1>2, <1>3, <1>4, <1>5, <1>6, <1>7, <1>8 DEF Next

\* Every state of a transfer, in memory or saved, belongs to an
\* announcement of its content for its destination.
THEOREM StatesGoBackToAnnouncements == Spec => []Announced
BY InitTypes, NextTypes, InitAnnounced, NextAnnounced, PTL DEF Spec

\* Transfer implements AtomicPlacement: whatever peers send at once, however
\* files change, and wherever a crash cuts a handler, a destination is only
\* given whole content that was announced for it.
THEOREM PlacesAtomically == Spec => ImplementsAtomicPlacement
<1>1. Init => AP!Init
  BY DEF Init, AP!Init
<1>2. TypeOK /\ Announced /\ [Next]_vars => [AP!Next]_AP!vars
  BY StepPlaces
<1> QED BY <1>1, <1>2, TypeCorrect, StatesGoBackToAnnouncements, PTL
           DEF Spec, AP!Spec, ImplementsAtomicPlacement

---------------------------------------------------------------------------
(* A send that reports success filled a destination, when it is the only   *)
(* one on its connection.  The acknowledgement of a completion does not    *)
(* say which transfer it is about; what says so is the acknowledgement of  *)
(* the TransferInit before it in the queue, which was compared.            *)

Opens(m) == m.type \in {"TransferInit", "TransferInitAck"}

\* Of the messages before place j of the queue s, none opens a transfer...
Unopened(s, j) == \A k \in 1..(j - 1) : ~Opens(s[k])

\* ...or the last one that does opens that of content c.
Opened(s, j, c) ==
  \E i \in 1..(j - 1) :
    /\ Opens(s[i]) /\ s[i].id = c
    /\ \A k \in (i + 1)..(j - 1) : ~Opens(s[k])

End(s) == Len(s) + 1

\* The queue grows at its end.
LEMMA AppendOpens ==
  ASSUME NEW S, NEW s \in Seq(S), NEW m \in S, NEW j \in 1..End(s), NEW c
  PROVE  /\ Opened(Append(s, m), j, c) => Opened(s, j, c)
         /\ Unopened(Append(s, m), j) => Unopened(s, j)
<1>1. \A k \in 1..(j - 1) : Append(s, m)[k] = s[k]
  BY DEF End
<1>2. j \in Nat
  BY DEF End
<1>3. Opened(Append(s, m), j, c) => Opened(s, j, c)
  <2>1. \A i \in 1..(j - 1) : \A k \in (i + 1)..(j - 1) : k \in 1..(j - 1)
    BY <1>2
  <2> QED BY <1>1, <2>1 DEF Opened
<1>4. Unopened(Append(s, m), j) => Unopened(s, j)
  BY <1>1 DEF Unopened
<1> QED BY <1>3, <1>4

\* What its last message means for the one that will follow.
LEMMA AppendEnds ==
  ASSUME NEW S, NEW s \in Seq(S), NEW m \in S, NEW c
  PROVE  /\ Opened(Append(s, m), End(Append(s, m)), c) =>
              (Opens(m) /\ m.id = c) \/ (~Opens(m) /\ Opened(s, End(s), c))
         /\ Unopened(Append(s, m), End(Append(s, m))) => ~Opens(m) /\ Unopened(s, End(s))
<1> DEFINE n == Len(s)
           u == Append(s, m)
<1>1. n \in Nat /\ Len(u) = n + 1 /\ u[n + 1] = m /\ \A k \in 1..n : u[k] = s[k]
  OBVIOUS
<1>2. End(u) - 1 = n + 1 /\ End(s) - 1 = n
  BY <1>1 DEF End
<1> HIDE DEF u, n
<1>3. ASSUME Opened(u, End(u), c)
      PROVE  (Opens(m) /\ m.id = c) \/ (~Opens(m) /\ Opened(s, End(s), c))
  <2>1. PICK i \in 1..(n + 1) :
          /\ Opens(u[i]) /\ u[i].id = c
          /\ \A k \in (i + 1)..(n + 1) : ~Opens(u[k])
    BY <1>2, <1>3 DEF Opened
  <2>2. CASE i = n + 1
    BY <1>1, <2>1, <2>2
  <2>3. CASE i # n + 1
    <3>1. i \in 1..n /\ Opens(s[i]) /\ s[i].id = c
      BY <1>1, <2>1, <2>3
    <3>2. n + 1 \in (i + 1)..(n + 1)
      BY <1>1, <3>1
    <3>3. ~Opens(m)
      BY <1>1, <2>1, <3>2
    <3>4. \A k \in (i + 1)..n : ~Opens(s[k])
      <4>1. \A k \in (i + 1)..n : k \in (i + 1)..(n + 1) /\ k \in 1..n
        BY <1>1, <3>1
      <4> QED BY <1>1, <2>1, <4>1
    <3> QED BY <1>2, <3>1, <3>3, <3>4 DEF Opened
  <2> QED BY <2>2, <2>3
<1>4. ASSUME Unopened(u, End(u))
      PROVE  ~Opens(m) /\ Unopened(s, End(s))
  <2>1. \A k \in 1..(n + 1) : ~Opens(u[k])
    BY <1>2, <1>4 DEF Unopened
  <2>2. n + 1 \in 1..(n + 1) /\ \A k \in 1..n : k \in 1..(n + 1)
    BY <1>1
  <2> QED BY <1>1, <1>2, <2>1, <2>2 DEF Unopened
<1> QED BY <1>3, <1>4 DEF u

\* The queue loses its first message.
LEMMA TailOpens ==
  ASSUME NEW S, NEW s \in Seq(S), s # <<>>, NEW j \in 1..Len(s), NEW c
  PROVE  /\ j + 1 \in 1..End(s)
         /\ Opened(Tail(s), j, c) => Opened(s, j + 1, c)
         /\ Unopened(Tail(s), j) /\ Opens(Head(s)) => Opened(s, j + 1, Head(s).id)
         /\ Unopened(Tail(s), j) /\ ~Opens(Head(s)) => Unopened(s, j + 1)
<1>1. Len(s) \in Nat /\ Head(s) = s[1] /\ Len(Tail(s)) = Len(s) - 1
  OBVIOUS
<1>2. \A k \in 1..(j - 1) : Tail(s)[k] = s[k + 1]
  BY <1>1, TailElements
<1>3. \A k \in 2..j : s[k] = Tail(s)[k - 1] /\ k - 1 \in 1..(j - 1)
  <2>1. \A k \in 2..j : k - 1 \in 1..(j - 1) /\ (k - 1) + 1 = k
    BY <1>1
  <2> QED BY <1>2, <2>1
<1>4. ASSUME Opened(Tail(s), j, c) PROVE Opened(s, j + 1, c)
  <2>1. PICK i \in 1..(j - 1) :
          /\ Opens(Tail(s)[i]) /\ Tail(s)[i].id = c
          /\ \A k \in (i + 1)..(j - 1) : ~Opens(Tail(s)[k])
    BY <1>4 DEF Opened
  <2>2. i + 1 \in 1..((j + 1) - 1) /\ Opens(s[i + 1]) /\ s[i + 1].id = c
    BY <1>1, <1>2, <2>1
  <2>3. \A k \in ((i + 1) + 1)..((j + 1) - 1) : k \in 2..j /\ k - 1 \in (i + 1)..(j - 1)
    BY <1>1, <2>1
  <2>4. \A k \in ((i + 1) + 1)..((j + 1) - 1) : ~Opens(s[k])
    BY <1>3, <2>1, <2>3
  <2> QED BY <2>2, <2>4 DEF Opened
<1>5. ASSUME Unopened(Tail(s), j)
      PROVE  \A k \in 2..j : ~Opens(s[k])
  BY <1>3, <1>5 DEF Unopened
<1>6. ASSUME Unopened(Tail(s), j), Opens(Head(s)) PROVE Opened(s, j + 1, Head(s).id)
  <2>1. 1 \in 1..((j + 1) - 1) /\ (1 + 1)..((j + 1) - 1) = 2..j
    BY <1>1
  <2> QED BY <1>1, <1>5, <1>6, <2>1 DEF Opened
<1>7. ASSUME Unopened(Tail(s), j), ~Opens(Head(s)) PROVE Unopened(s, j + 1)
  <2>1. \A k \in 1..((j + 1) - 1) : k = 1 \/ k \in 2..j
    BY <1>1
  <2> QED BY <1>1, <1>5, <1>7, <2>1 DEF Unopened
<1>8. j + 1 \in 1..End(s)
  BY <1>1 DEF End
<1> QED BY <1>4, <1>6, <1>7, <1>8

\* A send that was told to go on with its chunks.
Talking(t) == send[t].phase \in {"chunks", "chunk_ack", "complete"}

InPlace(c) == \E d \in Dest : <<d, c>> \in placed

InPlaceNext(c) == \E d \in Dest : <<d, c>> \in placed'

\* A waiting acknowledgement of success is about content that is in place:
\* of the transfer opened before it, or the one the send is at.
AcksInv(t) ==
  LET R == responses[t.peer] IN
  \A j \in 1..Len(R) : R[j].type = "TransferCompleteAck" /\ R[j].verified =>
    /\ \A c \in Content : Opened(R, j, c) => InPlace(c)
    /\ Unopened(R, j) /\ Talking(t) => InPlace(send[t].hash)

\* A TransferComplete on its way is about the transfer opened before it.
CompletesInv(t) ==
  LET R == responses[t.peer]
      Q == requests[t.peer]
  IN
  \A j \in 1..Len(Q) : Q[j].type = "TransferComplete" =>
    /\ \A c \in Content : Opened(Q, j, c) => Q[j].id = c
    /\ Unopened(Q, j) =>
         /\ \A c \in Content : Opened(R, End(R), c) => Q[j].id = c
         /\ Unopened(R, End(R)) /\ Talking(t) => Q[j].id = send[t].hash

\* The transfer that was opened last is the one the send is at.
OpensInv(t) ==
  LET R == responses[t.peer]
      Q == requests[t.peer]
  IN
  Talking(t) \/ send[t].phase = "init" =>
    /\ \A c \in Content : Opened(Q, End(Q), c) => c = send[t].hash
    /\ Unopened(Q, End(Q)) => \A c \in Content : Opened(R, End(R), c) => c = send[t].hash

Honest(t) ==
  /\ AcksInv(t) /\ CompletesInv(t) /\ OpensInv(t)
  /\ send[t].phase = "verified" => InPlace(send[t].hash)

\* Every send is the only one on its connection.
OneSendEach == \A s, t \in Send : s.peer = t.peer => s = t

\* What is in place stays.
LEMMA PlacedStays ==
  ASSUME [Next]_vars
  PROVE  placed \subseteq placed'
<1>1. ASSUME NEW p \in Peer, CrashStep(p) PROVE placed \subseteq placed'
  BY <1>1 DEF CrashStep, CrashInInit, CrashInChunk, CrashInComplete
<1>2. ASSUME NEW p \in Peer, ReceiverStep(p) \/ Break(p) PROVE placed \subseteq placed'
  BY <1>2 DEF ReceiverStep, handle_init, handle_chunk, FailChunk, handle_complete,
              RejectComplete, FailComplete, Break, history
<1>3. ASSUME NEW t \in Send, SenderStep(t) \/ TimeoutLate(t) PROVE placed \subseteq placed'
  BY <1>3 DEF SenderStep, Start, SendInit, SendChunk, FailRead, SendComplete, TakeAnswer,
              GiveUp, TimeoutLate, history
<1> QED BY <1>1, <1>2, <1>3 DEF Next, EditSource, Restart, vars, history

\* The queues of a send's connection, and its own hash.
LEMMA QueueTypes ==
  ASSUME TypeOK, NEW t \in Send
  PROVE  /\ t.peer \in Peer
         /\ requests[t.peer] \in Seq(Request) /\ responses[t.peer] \in Seq(Response)
  BY SendFields DEF TypeOK, ChannelsOK

\* The send's queues are left alone, and so is it, or it ends or begins.
LEMMA HonestStays ==
  ASSUME TypeOK, NEW t \in Send, Honest(t), placed \subseteq placed',
         responses'[t.peer] = responses[t.peer], requests'[t.peer] = requests[t.peer],
         send'[t] = send[t] \/ send'[t].phase \in {"idle", "hashing"}
  PROVE  Honest(t)'
<1>1. \A c : InPlace(c) => InPlaceNext(c)
  BY DEF InPlace, InPlaceNext
<1>2. AcksInv(t)'
  BY <1>1 DEF Honest, AcksInv, Talking, InPlaceNext, InPlace
<1>3. CompletesInv(t)'
  BY DEF Honest, CompletesInv, Talking
<1>4. OpensInv(t)'
  BY DEF Honest, OpensInv, Talking
<1>5. send'[t].phase = "verified" => InPlaceNext(send'[t].hash)
  BY <1>1 DEF Honest
<1> QED BY <1>2, <1>3, <1>4, <1>5 DEF Honest, InPlaceNext, InPlace

\* The connection breaks.
LEMMA HonestSevered ==
  ASSUME NEW t \in Send, responses'[t.peer] = <<>>, requests'[t.peer] = <<>>,
         send'[t].phase = "idle"
  PROVE  Honest(t)'
  BY DEF Honest, AcksInv, CompletesInv, OpensInv, Talking

\* The send opens a transfer, or goes on with the one it is at.
LEMMA HonestPosts ==
  ASSUME TypeOK, NEW t \in Send, Honest(t), placed \subseteq placed', NEW m \in Request,
         responses'[t.peer] = responses[t.peer],
         requests'[t.peer] = Append(requests[t.peer], m),
         \/ Opens(m) /\ m.id = send'[t].hash /\ send'[t].phase = "init"
         \/ ~Opens(m) /\ Talking(t) /\ Talking(t)' /\ send'[t].hash = send[t].hash,
         m.type = "TransferComplete" => m.id = send'[t].hash,
         send'[t].phase # "verified"
  PROVE  Honest(t)'
<1> DEFINE R == responses[t.peer]
           Q == requests[t.peer]
           Q1 == Append(Q, m)
           h == send'[t].hash
<1>1. \A c : InPlace(c) => InPlaceNext(c)
  BY DEF InPlace, InPlaceNext
<1>2. Q \in Seq(Request) /\ R \in Seq(Response) /\ Len(Q) \in Nat
  BY QueueTypes
<1>3. Talking(t)' => Talking(t) /\ send[t].hash = h
  BY DEF Talking
<1>4. AcksInv(t)'
  BY <1>1, <1>3 DEF Honest, AcksInv, InPlaceNext, InPlace
<1>5. /\ Len(Q1) = Len(Q) + 1 /\ Q1[Len(Q) + 1] = m
      /\ \A j \in 1..Len(Q) : Q1[j] = Q[j] /\ j \in 1..End(Q)
      /\ Len(Q) + 1 \in 1..End(Q)
  BY <1>2 DEF End
<1>6. CompletesInv(t)'
  <2>1. ASSUME NEW j \in 1..Len(Q1), Q1[j].type = "TransferComplete"
        PROVE  /\ \A c \in Content : Opened(Q1, j, c) => Q1[j].id = c
               /\ Unopened(Q1, j) =>
                    /\ \A c \in Content : Opened(R, End(R), c) => Q1[j].id = c
                    /\ Unopened(R, End(R)) /\ Talking(t)' => Q1[j].id = h
    <3>1. j \in 1..End(Q)
      BY <1>2, <1>5 DEF End
    <3>2. /\ \A c \in Content : Opened(Q1, j, c) => Opened(Q, j, c)
          /\ Unopened(Q1, j) => Unopened(Q, j)
      BY <1>2, <3>1, AppendOpens
    <3>3. CASE j \in 1..Len(Q)
      <4>1. Q1[j] = Q[j]
        BY <1>5, <3>3
      <4> QED BY <1>3, <2>1, <3>2, <3>3, <4>1 DEF Honest, CompletesInv
    <3>4. CASE j = Len(Q) + 1
      <4>1. ~Opens(m) /\ Talking(t) /\ m.id = h /\ send[t].hash = h /\ Q1[j] = m
        BY <1>5, <2>1, <3>4 DEF Opens
      <4>2. j = End(Q)
        BY <3>4 DEF End
      <4> QED BY <3>2, <4>1, <4>2 DEF Honest, OpensInv
    <3> QED BY <1>2, <1>5, <3>3, <3>4
  <2> QED BY <2>1 DEF CompletesInv
<1>7. OpensInv(t)'
  <2>1. ASSUME NEW c \in Content, Opened(Q1, End(Q1), c) PROVE c = h
    <3>1. (Opens(m) /\ m.id = c) \/ (~Opens(m) /\ Opened(Q, End(Q), c))
      BY <1>2, <2>1, AppendEnds
    <3> QED BY <3>1 DEF Honest, OpensInv
  <2>2. ASSUME Unopened(Q1, End(Q1)), NEW c \in Content, Opened(R, End(R), c) PROVE c = h
    <3>1. ~Opens(m) /\ Unopened(Q, End(Q))
      BY <1>2, <2>2, AppendEnds
    <3> QED BY <2>2, <3>1 DEF Honest, OpensInv
  <2> QED BY <2>1, <2>2 DEF OpensInv
<1> QED BY <1>4, <1>6, <1>7 DEF Honest, InPlaceNext, InPlace

\* The send takes an answer: it goes on with the transfer it opened, or ends.
LEMMA HonestTakes ==
  ASSUME TypeOK, NEW t \in Send, Honest(t), TakeAnswer(t)
  PROVE  Honest(t)'
<1> DEFINE R == responses[t.peer]
           r == Head(R)
           R1 == Tail(R)
<1>1. t.peer \in Peer /\ R \in Seq(Response) /\ R # <<>>
  BY QueueTypes DEF TakeAnswer
<1>2. responses'[t.peer] = R1 /\ requests'[t.peer] = requests[t.peer] /\ placed' = placed
  BY <1>1 DEF TakeAnswer, TypeOK, ChannelsOK, history
<1>3. /\ Len(R) \in Nat /\ Len(R) >= 1 /\ Len(R1) = Len(R) - 1
      /\ r = R[1] /\ r \in Response
      /\ \A j \in 1..Len(R1) : R1[j] = R[j + 1] /\ j + 1 \in 1..Len(R)
  BY <1>1
<1>4. \A c : InPlaceNext(c) <=> InPlace(c)
  BY <1>2 DEF InPlace, InPlaceNext
<1>5. send'[t] = IF Expected(t, r) THEN Continued(send[t], r) ELSE Idle
  BY DEF TakeAnswer, TypeOK, SendsOK
\* The opening is its own, or it is past it already.
<1>6. ASSUME Talking(t)'
      PROVE  /\ send'[t].hash = send[t].hash
             /\ Opens(r) => r.id = send[t].hash /\ send[t].phase = "init"
             /\ ~Opens(r) => Talking(t)
  <2>1. Expected(t, r) /\ send'[t] = Continued(send[t], r)
    BY <1>5, <1>6 DEF Talking, Idle
  <2>2. SendOK(send[t])
    BY DEF TypeOK, SendsOK
  <2>3. CASE send[t].phase = "init" /\ r.type = "TransferInitAck" /\ r.id = send[t].hash
    <3>1. send'[t] = [send[t] EXCEPT !.phase = "chunks", !.existing = r.existing]
      BY <2>1, <2>3 DEF Continued
    <3>2. send'[t].hash = send[t].hash
      BY <2>2, <3>1 DEF SendOK
    <3> QED BY <2>3, <3>2 DEF Opens
  <2>4. CASE send[t].phase = "chunk_ack" /\ r.type = "TransferChunkAck"
    <3>1. send'[t] = [send[t] EXCEPT !.phase = "chunks", !.chunk = @ + 1]
      BY <2>1, <2>4 DEF Continued
    <3>2. send'[t].hash = send[t].hash
      BY <2>2, <3>1 DEF SendOK
    <3> QED BY <2>4, <3>2 DEF Opens, Talking
  <2>5. CASE send[t].phase = "complete"
    <3>1. send'[t] = [send[t] EXCEPT !.phase = "verified"]
      BY <2>1, <2>5 DEF Continued
    <3>2. send'[t].phase = "verified"
      BY <2>2, <3>1 DEF SendOK
    <3> QED BY <1>6, <3>2 DEF Talking
  <2> QED BY <2>1, <2>3, <2>4, <2>5 DEF Expected
<1>7. ASSUME NEW j \in 1..Len(R), NEW c
      PROVE  /\ j + 1 \in 1..End(R)
             /\ Opened(R1, j, c) => Opened(R, j + 1, c)
             /\ Unopened(R1, j) /\ Opens(r) => Opened(R, j + 1, r.id)
             /\ Unopened(R1, j) /\ ~Opens(r) => Unopened(R, j + 1)
  BY <1>1, TailOpens
<1>8. Opens(r) => r.id \in Content
  BY <1>3 DEF Opens, Response
<1>9. AcksInv(t)'
  <2>1. ASSUME NEW j \in 1..Len(R1), R1[j].type = "TransferCompleteAck", R1[j].verified
        PROVE  /\ \A c \in Content : Opened(R1, j, c) => InPlace(c)
               /\ Unopened(R1, j) /\ Talking(t)' => InPlace(send'[t].hash)
    <3>1. j \in 1..Len(R) /\ j + 1 \in 1..Len(R) /\ R1[j] = R[j + 1]
      BY <1>3
    <3>2. /\ \A c \in Content : Opened(R, j + 1, c) => InPlace(c)
          /\ Unopened(R, j + 1) /\ Talking(t) => InPlace(send[t].hash)
      BY <2>1, <3>1 DEF Honest, AcksInv
    <3>3. \A c \in Content : Opened(R1, j, c) => InPlace(c)
      BY <1>7, <3>1, <3>2
    <3>4. ASSUME Unopened(R1, j), Talking(t)' PROVE InPlace(send'[t].hash)
      BY <1>6, <1>7, <1>8, <3>1, <3>2, <3>4
    <3> QED BY <3>3, <3>4
  <2> QED BY <1>2, <2>1 DEF AcksInv, InPlace
<1>10. Len(R) = End(R1)
  BY <1>3 DEF End
<1>11. CompletesInv(t)'
  <2> DEFINE Q == requests[t.peer]
  <2>1. ASSUME NEW j \in 1..Len(Q), Q[j].type = "TransferComplete"
        PROVE  /\ \A c \in Content : Opened(Q, j, c) => Q[j].id = c
               /\ Unopened(Q, j) =>
                    /\ \A c \in Content : Opened(R1, End(R1), c) => Q[j].id = c
                    /\ Unopened(R1, End(R1)) /\ Talking(t)' => Q[j].id = send'[t].hash
    <3>1. /\ \A c \in Content : Opened(Q, j, c) => Q[j].id = c
          /\ Unopened(Q, j) =>
               /\ \A c \in Content : Opened(R, End(R), c) => Q[j].id = c
               /\ Unopened(R, End(R)) /\ Talking(t) => Q[j].id = send[t].hash
      BY <2>1 DEF Honest, CompletesInv
    <3>2. Len(R) \in 1..Len(R) /\ Len(R) + 1 = End(R)
      BY <1>3 DEF End
    <3>3. ASSUME NEW c \in Content, Opened(R1, End(R1), c) PROVE Opened(R, End(R), c)
      BY <1>7, <1>10, <3>2, <3>3
    <3>4. ASSUME Unopened(R1, End(R1)), Talking(t)', Unopened(Q, j)
          PROVE  Q[j].id = send'[t].hash
      BY <1>6, <1>7, <1>8, <1>10, <3>1, <3>2, <3>4
    <3> QED BY <3>1, <3>3, <3>4
  <2> QED BY <1>2, <2>1 DEF CompletesInv
<1>12. OpensInv(t)'
  <2> DEFINE Q == requests[t.peer]
  <2>1. ASSUME Talking(t)' \/ send'[t].phase = "init"
        PROVE  /\ \A c \in Content : Opened(Q, End(Q), c) => c = send'[t].hash
               /\ Unopened(Q, End(Q)) =>
                    \A c \in Content : Opened(R1, End(R1), c) => c = send'[t].hash
    <3>1. Talking(t)'
      <4>1. SendOK(send[t])
        BY DEF TypeOK, SendsOK
      <4>2. send'[t].phase # "init"
        BY <1>5, <4>1 DEF Expected, Continued, Idle, SendOK, Phase
      <4> QED BY <2>1, <4>2
    <3>2. Talking(t) \/ send[t].phase = "init"
      BY <1>6, <3>1
    <3>3. Len(R) \in 1..Len(R) /\ Len(R) + 1 = End(R)
      BY <1>3 DEF End
    <3>4. ASSUME NEW c \in Content, Opened(R1, End(R1), c) PROVE Opened(R, End(R), c)
      BY <1>7, <1>10, <3>3, <3>4
    <3> QED BY <1>6, <3>1, <3>2, <3>4 DEF Honest, OpensInv
  <2> QED BY <1>2, <2>1 DEF OpensInv
<1>13. ASSUME send'[t].phase = "verified" PROVE InPlaceNext(send'[t].hash)
  <2>1. SendOK(send[t])
    BY DEF TypeOK, SendsOK
  <2>2. /\ send[t].phase = "complete" /\ r.type = "TransferCompleteAck" /\ r.verified
        /\ send'[t] = [send[t] EXCEPT !.phase = "verified"]
    BY <1>5, <1>13, <2>1 DEF Expected, Continued, Idle, SendOK
  <2>3. send'[t].hash = send[t].hash
    BY <2>1, <2>2 DEF SendOK
  <2>4. 1 \in 1..Len(R) /\ Unopened(R, 1) /\ Talking(t)
    BY <1>3, <2>2 DEF Unopened, Talking
  <2>5. InPlace(send[t].hash)
    BY <1>3, <2>2, <2>4 DEF Honest, AcksInv
  <2> QED BY <1>4, <2>3, <2>5
<1> QED BY <1>9, <1>11, <1>12, <1>13 DEF Honest, InPlaceNext, InPlace

\* The receiver answers: an opening with an opening, and a completion with
\* success only when its content is in place.
LEMMA HonestAnswers ==
  ASSUME TypeOK, NEW t \in Send, Honest(t), placed \subseteq placed', send' = send,
         requests[t.peer] # <<>>, NEW r \in Response,
         requests'[t.peer] = Tail(requests[t.peer]),
         responses'[t.peer] = Append(responses[t.peer], r),
         Opens(r) <=> Opens(Head(requests[t.peer])),
         Opens(r) => r.id = Head(requests[t.peer]).id,
         r.type = "TransferCompleteAck" /\ r.verified =>
           /\ Head(requests[t.peer]).type = "TransferComplete"
           /\ InPlaceNext(Head(requests[t.peer]).id)
  PROVE  Honest(t)'
<1> DEFINE R == responses[t.peer]
           R1 == Append(R, r)
           Q == requests[t.peer]
           Q1 == Tail(Q)
           m == Head(Q)
           h == send[t].hash
<1>1. \A c : InPlace(c) => InPlaceNext(c)
  BY DEF InPlace, InPlaceNext
<1>2. Q \in Seq(Request) /\ R \in Seq(Response) /\ Q # <<>>
  BY QueueTypes
<1>3. /\ Len(R) \in Nat /\ Len(Q) \in Nat /\ Len(Q) >= 1 /\ Len(Q1) = Len(Q) - 1
      /\ m = Q[1] /\ m \in Request
      /\ Len(R1) = Len(R) + 1 /\ R1[Len(R) + 1] = r /\ \A j \in 1..Len(R) : R1[j] = R[j]
      /\ \A j \in 1..Len(Q1) : Q1[j] = Q[j + 1] /\ j + 1 \in 1..Len(Q) /\ j \in 1..Len(Q)
  BY <1>2
<1>4. m.id \in Content /\ Opens(m) => r.id = m.id
  BY <1>3, RequestFields
<1>5. Talking(t)' <=> Talking(t)
  BY DEF Talking
<1>6. ASSUME NEW j \in 1..Len(Q), NEW c
      PROVE  /\ j + 1 \in 1..End(Q)
             /\ Opened(Q1, j, c) => Opened(Q, j + 1, c)
             /\ Unopened(Q1, j) /\ Opens(m) => Opened(Q, j + 1, m.id)
             /\ Unopened(Q1, j) /\ ~Opens(m) => Unopened(Q, j + 1)
  BY <1>2, TailOpens
\* What opens the end of the answers now: the new answer, or what did before.
<1>7. ASSUME NEW c
      PROVE  /\ Opened(R1, End(R1), c) =>
                  (Opens(m) /\ r.id = c) \/ (~Opens(m) /\ Opened(R, End(R), c))
             /\ Unopened(R1, End(R1)) => ~Opens(m) /\ Unopened(R, End(R))
  BY <1>2, AppendEnds
<1>8. AcksInv(t)'
  <2>1. ASSUME NEW j \in 1..Len(R1), R1[j].type = "TransferCompleteAck", R1[j].verified
        PROVE  /\ \A c \in Content : Opened(R1, j, c) => InPlaceNext(c)
               /\ Unopened(R1, j) /\ Talking(t) => InPlaceNext(h)
    <3>1. j \in 1..End(R) /\ (j \in 1..Len(R) \/ j = Len(R) + 1)
      BY <1>3 DEF End
    <3>2. /\ \A c \in Content : Opened(R1, j, c) => Opened(R, j, c)
          /\ Unopened(R1, j) => Unopened(R, j)
      BY <1>2, <3>1, AppendOpens
    <3>3. CASE j \in 1..Len(R)
      <4>1. R[j].type = "TransferCompleteAck" /\ R[j].verified
        BY <1>3, <2>1, <3>3
      <4> QED BY <1>1, <3>2, <3>3, <4>1 DEF Honest, AcksInv
    <3>4. CASE j = Len(R) + 1
      <4>1. m.type = "TransferComplete" /\ InPlaceNext(m.id)
        BY <1>3, <2>1, <3>4
      <4>2. 1 \in 1..Len(Q) /\ Unopened(Q, 1) /\ j = End(R)
        BY <1>3, <3>4 DEF Unopened, End
      <4>3. /\ \A c \in Content : Opened(R, End(R), c) => m.id = c
            /\ Unopened(R, End(R)) /\ Talking(t) => m.id = h
        BY <1>3, <4>1, <4>2 DEF Honest, CompletesInv
      <4>4. ASSUME NEW c \in Content, Opened(R1, j, c) PROVE InPlaceNext(c)
        <5>1. m.id = c
          BY <3>2, <4>2, <4>3, <4>4
        <5> QED BY <4>1, <5>1
      <4>5. ASSUME Unopened(R1, j), Talking(t) PROVE InPlaceNext(h)
        <5>1. m.id = h
          BY <3>2, <4>2, <4>3, <4>5
        <5> QED BY <4>1, <5>1
      <4> QED BY <4>4, <4>5
    <3> QED BY <3>1, <3>3, <3>4
  <2> QED BY <1>5, <2>1 DEF AcksInv, InPlaceNext, InPlace
<1>9. CompletesInv(t)'
  <2>1. ASSUME NEW j \in 1..Len(Q1), Q1[j].type = "TransferComplete"
        PROVE  /\ \A c \in Content : Opened(Q1, j, c) => Q1[j].id = c
               /\ Unopened(Q1, j) =>
                    /\ \A c \in Content : Opened(R1, End(R1), c) => Q1[j].id = c
                    /\ Unopened(R1, End(R1)) /\ Talking(t) => Q1[j].id = h
    <3>1. j \in 1..Len(Q) /\ j + 1 \in 1..Len(Q) /\ Q1[j] = Q[j + 1]
      BY <1>3
    <3>2. /\ \A c \in Content : Opened(Q, j + 1, c) => Q[j + 1].id = c
          /\ Unopened(Q, j + 1) =>
               /\ \A c \in Content : Opened(R, End(R), c) => Q[j + 1].id = c
               /\ Unopened(R, End(R)) /\ Talking(t) => Q[j + 1].id = h
      BY <2>1, <3>1 DEF Honest, CompletesInv
    <3>3. ASSUME Unopened(Q1, j), NEW c \in Content, Opened(R1, End(R1), c)
          PROVE  Q[j + 1].id = c
      BY <1>4, <1>6, <1>7, <3>1, <3>2, <3>3
    <3>4. ASSUME Unopened(Q1, j), Unopened(R1, End(R1)), Talking(t)
          PROVE  Q[j + 1].id = h
      BY <1>6, <1>7, <3>1, <3>2, <3>4
    <3>5. ASSUME NEW c \in Content, Opened(Q1, j, c) PROVE Q[j + 1].id = c
      BY <1>6, <3>1, <3>2, <3>5
    <3> QED BY <3>1, <3>3, <3>4, <3>5
  <2> QED BY <1>5, <2>1 DEF CompletesInv
<1>10. OpensInv(t)'
  <2>1. ASSUME Talking(t) \/ send[t].phase = "init"
        PROVE  /\ \A c \in Content : Opened(Q1, End(Q1), c) => c = h
               /\ Unopened(Q1, End(Q1)) =>
                    \A c \in Content : Opened(R1, End(R1), c) => c = h
    <3>1. /\ \A c \in Content : Opened(Q, End(Q), c) => c = h
          /\ Unopened(Q, End(Q)) => \A c \in Content : Opened(R, End(R), c) => c = h
      BY <2>1 DEF Honest, OpensInv
    <3>2. End(Q1) \in 1..Len(Q) /\ End(Q1) + 1 = End(Q)
      BY <1>3 DEF End
    <3>3. ASSUME NEW c \in Content, Opened(Q1, End(Q1), c) PROVE c = h
      BY <1>6, <3>1, <3>2, <3>3
    <3>4. ASSUME Unopened(Q1, End(Q1)), NEW c \in Content, Opened(R1, End(R1), c) PROVE c = h
      BY <1>4, <1>6, <1>7, <3>1, <3>2, <3>4
    <3> QED BY <3>3, <3>4
  <2> QED BY <1>5, <2>1 DEF OpensInv
<1> QED BY <1>1, <1>8, <1>9, <1>10 DEF Honest, InPlaceNext, InPlace

\* The receiver fails on a request that opens nothing.
LEMMA HonestDrops ==
  ASSUME TypeOK, NEW t \in Send, Honest(t), placed \subseteq placed', send' = send,
         requests[t.peer] # <<>>, ~Opens(Head(requests[t.peer])),
         requests'[t.peer] = Tail(requests[t.peer]), responses'[t.peer] = responses[t.peer]
  PROVE  Honest(t)'
<1> DEFINE R == responses[t.peer]
           Q == requests[t.peer]
           Q1 == Tail(Q)
<1>1. \A c : InPlace(c) => InPlaceNext(c)
  BY DEF InPlace, InPlaceNext
<1>2. Q \in Seq(Request) /\ Q # <<>>
  BY QueueTypes
<1>3. /\ Len(Q) \in Nat /\ Len(Q) >= 1 /\ Len(Q1) = Len(Q) - 1
      /\ \A j \in 1..Len(Q1) : Q1[j] = Q[j + 1] /\ j + 1 \in 1..Len(Q) /\ j \in 1..Len(Q)
  BY <1>2
<1>4. Talking(t)' <=> Talking(t)
  BY DEF Talking
<1>5. ASSUME NEW j \in 1..Len(Q), NEW c
      PROVE  /\ Opened(Q1, j, c) => Opened(Q, j + 1, c)
             /\ Unopened(Q1, j) => Unopened(Q, j + 1)
  BY <1>2, TailOpens
<1>6. AcksInv(t)'
  BY <1>1, <1>4 DEF Honest, AcksInv, InPlaceNext, InPlace
<1>7. CompletesInv(t)'
  <2>1. ASSUME NEW j \in 1..Len(Q1), Q1[j].type = "TransferComplete"
        PROVE  /\ \A c \in Content : Opened(Q1, j, c) => Q1[j].id = c
               /\ Unopened(Q1, j) =>
                    /\ \A c \in Content : Opened(R, End(R), c) => Q1[j].id = c
                    /\ Unopened(R, End(R)) /\ Talking(t) => Q1[j].id = send[t].hash
    <3>1. j \in 1..Len(Q) /\ j + 1 \in 1..Len(Q) /\ Q1[j] = Q[j + 1]
      BY <1>3
    <3>2. /\ \A c \in Content : Opened(Q, j + 1, c) => Q[j + 1].id = c
          /\ Unopened(Q, j + 1) =>
               /\ \A c \in Content : Opened(R, End(R), c) => Q[j + 1].id = c
               /\ Unopened(R, End(R)) /\ Talking(t) => Q[j + 1].id = send[t].hash
      BY <2>1, <3>1 DEF Honest, CompletesInv
    <3> QED BY <1>5, <3>1, <3>2
  <2> QED BY <1>4, <2>1 DEF CompletesInv
<1>8. OpensInv(t)'
  <2>1. End(Q1) \in 1..Len(Q) /\ End(Q1) + 1 = End(Q)
    BY <1>3 DEF End
  <2> QED BY <1>4, <1>5, <2>1 DEF Honest, OpensInv
<1> QED BY <1>1, <1>6, <1>7, <1>8 DEF Honest, InPlaceNext, InPlace

\* A step of a sender: of the send itself, or of one on another connection.
LEMMA HonestSender ==
  ASSUME TypeOK, OneSendEach, NEW t \in Send, Honest(t), placed \subseteq placed',
         NEW s \in Send, SenderStep(s) \/ TimeoutLate(s)
  PROVE  Honest(t)'
<1>1. t.peer \in Peer /\ requests[t.peer] \in Seq(Request) /\ SendOK(send[t])
  BY QueueTypes DEF TypeOK, SendsOK
<1>2. CASE s # t
  <2>1. s.peer # t.peer
    BY <1>2 DEF OneSendEach
  <2>2. /\ responses'[t.peer] = responses[t.peer] /\ requests'[t.peer] = requests[t.peer]
        /\ send'[t] = send[t]
    BY <1>1, <1>2, <2>1 DEF SenderStep, Start, SendInit, SendChunk, FailRead, SendComplete,
       TakeAnswer, GiveUp, TimeoutLate, Post, channels, TypeOK, SendsOK, ChannelsOK
  <2> QED BY <2>2, HonestStays
<1>3. CASE Start(t) \/ GiveUp(t) \/ TimeoutLate(t) \/ \E i \in Pending(send[t]) : FailRead(t, i)
  <2>1. UNCHANGED channels
    BY <1>3 DEF Start, GiveUp, TimeoutLate, FailRead
  <2>2. ASSUME Start(t) PROVE send'[t].phase = "hashing"
    <3> DEFINE n == Len(source[t.file])
    <3>1. send'[t] = [Idle EXCEPT !.phase = "hashing", !.size = n]
      BY <2>2 DEF Start, TypeOK, SendsOK
    <3> HIDE DEF n
    <3> QED BY <3>1 DEF Idle
  <2>3. send'[t].phase \in {"idle", "hashing"}
    BY <1>3, <2>2 DEF GiveUp, TimeoutLate, FailRead, TypeOK, SendsOK, Idle
  <2> QED BY <2>1, <2>3, HonestStays DEF channels
<1>4. CASE SendInit(t)
  <2> DEFINE m == [type |-> "TransferInit", id |-> source[t.file], dest |-> t.dest,
                   size |-> send[t].size]
  <2>1. m \in Request
    <3>1. source[t.file] \in Content /\ send[t].size \in Nat
      BY <1>1, SendFields DEF TypeOK, SendsOK, SendOK
    <3> QED BY <3>1, SendFields DEF Request
  <2>2. /\ requests'[t.peer] = Append(requests[t.peer], m)
        /\ responses'[t.peer] = responses[t.peer]
    BY <1>1, <1>4 DEF SendInit, Post, TypeOK, ChannelsOK
  <2>3. send'[t] = [[send[t] EXCEPT !.phase = "init"] EXCEPT !.hash = source[t.file]]
    BY <1>4, Zenon DEF SendInit, TypeOK, SendsOK
  <2>4. send'[t].phase = "init" /\ send'[t].hash = source[t.file]
    BY <1>1, <2>3 DEF SendOK
  <2>5. m.type = "TransferInit" /\ Opens(m) /\ m.id = send'[t].hash
    BY <2>4 DEF Opens
  <2> HIDE DEF m
  <2> QED BY <2>1, <2>2, <2>4, <2>5, HonestPosts
<1>5. ASSUME NEW i \in Pending(send[t]), SendChunk(t, i)
      PROVE  Honest(t)'
  <2> DEFINE m == [type |-> "TransferChunk", id |-> send[t].hash, chunk |-> i,
                   data |-> ChunkData(t, i)]
  <2>1. m \in Request
    BY <1>5, ChunkTyped
  <2>2. /\ requests'[t.peer] = Append(requests[t.peer], m)
        /\ responses'[t.peer] = responses[t.peer]
    BY <1>1, <1>5 DEF SendChunk, Post, TypeOK, ChannelsOK
  <2>3. send'[t] = [[send[t] EXCEPT !.phase = "chunk_ack"] EXCEPT !.chunk = i]
    BY <1>5, Zenon DEF SendChunk, TypeOK, SendsOK
  <2>4. send'[t].phase = "chunk_ack" /\ send'[t].hash = send[t].hash
    BY <1>1, <2>3 DEF SendOK
  <2>5. Talking(t) /\ Talking(t)'
    BY <1>5, <2>4 DEF Talking, SendChunk, NextChunk
  <2>6. m.type = "TransferChunk" /\ ~Opens(m)
    BY DEF Opens
  <2> HIDE DEF m
  <2> QED BY <2>1, <2>2, <2>4, <2>5, <2>6, HonestPosts
<1>6. CASE SendComplete(t)
  <2> DEFINE m == [type |-> "TransferComplete", id |-> send[t].hash]
  <2>1. m \in Request
    BY <1>1, <1>6 DEF Request, SendOK, SendComplete
  <2>2. /\ requests'[t.peer] = Append(requests[t.peer], m)
        /\ responses'[t.peer] = responses[t.peer]
    BY <1>1, <1>6 DEF SendComplete, Post, TypeOK, ChannelsOK
  <2>3. send'[t] = [send[t] EXCEPT !.phase = "complete"]
    BY <1>6 DEF SendComplete, TypeOK, SendsOK
  <2>4. send'[t].phase = "complete" /\ send'[t].hash = send[t].hash
    BY <1>1, <2>3 DEF SendOK
  <2>5. Talking(t) /\ Talking(t)'
    BY <1>6, <2>4 DEF Talking, SendComplete
  <2>6. m.id = send'[t].hash /\ ~Opens(m)
    BY <2>4 DEF Opens
  <2> HIDE DEF m
  <2> QED BY <2>1, <2>2, <2>4, <2>5, <2>6, HonestPosts
<1> QED BY <1>2, <1>3, <1>4, <1>5, <1>6, HonestTakes DEF SenderStep

\* A handler of the receiver, on the send's connection or another one.
LEMMA HonestReceiver ==
  ASSUME TypeOK, NEW t \in Send, Honest(t), placed \subseteq placed',
         NEW p \in Peer, ReceiverStep(p)
  PROVE  Honest(t)'
<1> DEFINE m == Head(requests[p])
<1>1. t.peer \in Peer
  BY QueueTypes
<1>2. send' = send
  BY DEF ReceiverStep, handle_init, handle_chunk, FailChunk, handle_complete, RejectComplete,
         FailComplete
<1>3. CASE p # t.peer
  <2>1. responses'[t.peer] = responses[t.peer] /\ requests'[t.peer] = requests[t.peer]
    BY <1>1, <1>3 DEF ReceiverStep, handle_init, handle_chunk, FailChunk, handle_complete,
       RejectComplete, FailComplete, Answer, NoAnswer, TypeOK, ChannelsOK
  <2> QED BY <1>2, <2>1, HonestStays
<1>4. ASSUME p = t.peer, NEW r \in Response, Answer(p, r), requests[p] # <<>>,
             Opens(r) <=> Opens(m), Opens(r) => r.id = m.id,
             r.type = "TransferCompleteAck" /\ r.verified =>
               m.type = "TransferComplete" /\ InPlaceNext(m.id)
      PROVE  Honest(t)'
  <2>1. /\ requests'[t.peer] = Tail(requests[t.peer])
        /\ responses'[t.peer] = Append(responses[t.peer], r)
    BY <1>1, <1>4 DEF Answer, TypeOK, ChannelsOK
  <2> QED BY <1>2, <1>4, <2>1, HonestAnswers
<1>5. ASSUME p = t.peer, NoAnswer(p), requests[p] # <<>>, ~Opens(m)
      PROVE  Honest(t)'
  <2>1. /\ requests'[t.peer] = Tail(requests[t.peer])
        /\ responses'[t.peer] = responses[t.peer]
    BY <1>1, <1>5 DEF NoAnswer, TypeOK, ChannelsOK
  <2> QED BY <1>2, <1>5, <2>1, HonestDrops
<1>6. CASE p = t.peer /\ handle_init(p)
  <2> DEFINE r == [type |-> "TransferInitAck", id |-> m.id, existing |-> ResumeState(m).done]
  <2>1. requests[p] # <<>> /\ m.type = "TransferInit" /\ m \in Request
    BY <1>6, HandledOK DEF handle_init
  <2>2. r \in Response
    BY <2>1, RequestFields, ResumeStateOK DEF Response, TransferState, TypeOK
  <2>3. Answer(p, r)
    BY <1>6 DEF handle_init
  <2>4. r.type = "TransferInitAck" /\ r.id = m.id
    OBVIOUS
  <2> HIDE DEF r
  <2> QED BY <1>4, <1>6, <2>1, <2>2, <2>3, <2>4 DEF Opens
<1>7. CASE p = t.peer /\ handle_chunk(p)
  <2> DEFINE r == [type |-> "TransferChunkAck", chunk |-> m.chunk]
  <2>1. requests[p] # <<>> /\ m.type = "TransferChunk" /\ m \in Request
    BY <1>7, HandledOK DEF handle_chunk
  <2>2. r \in Response
    BY <2>1, RequestFields DEF Response
  <2>3. Answer(p, r)
    BY <1>7 DEF handle_chunk
  <2>4. r.type = "TransferChunkAck"
    OBVIOUS
  <2> HIDE DEF r
  <2> QED BY <1>4, <1>7, <2>1, <2>2, <2>3, <2>4 DEF Opens
<1>8. ASSUME p = t.peer, NEW id \in DOMAIN partial, handle_complete(p, id)
      PROVE  Honest(t)'
  <2> DEFINE r == [type |-> "TransferCompleteAck", verified |-> TRUE]
  <2>1. /\ requests[p] # <<>> /\ m.type = "TransferComplete" /\ id = m.id
        /\ StateOf(id).dest \in Dest
    BY <1>8, CompletesOK DEF handle_complete, Completes, Handles, TransferState
  <2>2. r \in Response /\ Answer(p, r)
    BY <1>8 DEF Response, handle_complete
  <2>3. InPlaceNext(m.id)
    BY <1>8, <2>1 DEF handle_complete, InPlaceNext
  <2>4. r.type = "TransferCompleteAck"
    OBVIOUS
  <2> HIDE DEF r
  <2> QED BY <1>4, <1>8, <2>1, <2>2, <2>3, <2>4 DEF Opens
<1>9. ASSUME p = t.peer, NEW id \in DOMAIN partial, RejectComplete(p, id)
      PROVE  Honest(t)'
  <2> DEFINE r == [type |-> "TransferCompleteAck", verified |-> FALSE]
  <2>1. requests[p] # <<>> /\ m.type = "TransferComplete"
    BY <1>9 DEF RejectComplete, Completes, Handles
  <2>2. r \in Response /\ Answer(p, r)
    BY <1>9 DEF Response, RejectComplete
  <2>3. r.type = "TransferCompleteAck" /\ ~r.verified
    OBVIOUS
  <2> HIDE DEF r
  <2> QED BY <1>4, <1>9, <2>1, <2>2, <2>3 DEF Opens
<1>10. CASE p = t.peer /\ (FailChunk(p) \/ FailComplete(p))
  BY <1>5, <1>10 DEF FailChunk, FailComplete, Handles, Opens
<1> QED BY <1>3, <1>6, <1>7, <1>8, <1>9, <1>10 DEF ReceiverStep

LEMMA HonestStep ==
  ASSUME TypeOK, OneSendEach, NEW t \in Send, Honest(t), [Next]_vars
  PROVE  Honest(t)'
<1>1. placed \subseteq placed' /\ t.peer \in Peer
  BY PlacedStays, SendFields
<1>2. ASSUME NEW lost, Sever(lost) PROVE Honest(t)'
  <2>1. CASE t.peer \in lost
    <3>1. send'[t].phase = "idle" /\ responses'[t.peer] = <<>> /\ requests'[t.peer] = <<>>
      BY <1>1, <1>2, <2>1 DEF Sever, Idle
    <3> QED BY <3>1, HonestSevered
  <2>2. CASE t.peer \notin lost
    BY <1>1, <1>2, <2>2, HonestStays DEF Sever
  <2> QED BY <2>1, <2>2
<1>3. CASE UNCHANGED vars
  BY <1>1, <1>3, HonestStays DEF vars, channels
<1>4. ASSUME NEW f \in File, NEW c \in Content, EditSource(f, c) PROVE Honest(t)'
  BY <1>1, <1>4, HonestStays DEF EditSource, channels
<1>5. ASSUME NEW p \in Peer, Break(p) \/ CrashStep(p) PROVE Honest(t)'
  BY <1>2, <1>5 DEF Break, CrashStep, CrashInInit, CrashInChunk, CrashInComplete, Crash
<1>6. CASE Restart
  BY <1>2, <1>6 DEF Restart, Crash
<1> QED BY <1>1, <1>3, <1>4, <1>5, <1>6, HonestSender, HonestReceiver DEF Next

LEMMA HonestInit ==
  ASSUME Init, NEW t \in Send
  PROVE  Honest(t)
<1>1. responses[t.peer] = <<>> /\ requests[t.peer] = <<>> /\ send[t].phase = "idle"
  BY SendFields DEF Init, Idle
<1> QED BY <1>1 DEF Honest, AcksInv, CompletesInv, OpensInv, Talking

\* A send that returned success has its content in place, when no other send
\* shares its connection: also when answers come after their timeouts, for
\* each completion is preceded by the opening that names its content.  With
\* two sends on one connection it is false (StolenAck.cfg).
THEOREM SuccessIsPlaced ==
  ASSUME OneSendEach
  PROVE  Spec => []VerifiedIsPlaced
<1> DEFINE AllHonest == \A t \in Send : Honest(t)
<1>1. Init => AllHonest
  BY HonestInit
<1>2. TypeOK /\ AllHonest /\ [Next]_vars => AllHonest'
  BY HonestStep
<1>3. AllHonest => VerifiedIsPlaced
  BY DEF Honest, InPlace, VerifiedIsPlaced
<1> QED BY <1>1, <1>2, <1>3, TypeCorrect, PTL DEF Spec

---------------------------------------------------------------------------
(* What a resumed transfer skips is there, when files do not change and no *)
(* crash comes between the rename of a file and the removal of its state.  *)

\* A chunk of the content it is sent for.
FaithfulChunk(m) ==
  IF m.data = <<>> THEN m.id = <<>> ELSE m.chunk <= Len(m.id) /\ m.data[1] = m.id[m.chunk]

FaithfulRequest == {m \in Request : m.type = "TransferChunk" => FaithfulChunk(m)}

ChunksInv == requests \in [Peer -> Seq(FaithfulRequest)]

\* What a send measured and hashed is what its file still has.
SourcesInv ==
  \A t \in Send :
    /\ send[t].phase # "idle" => send[t].size = Len(source[t.file])
    /\ send[t].phase \notin {"idle", "hashing"} => send[t].hash = source[t.file]

\* Chunk i of content id is in its partial file.
Kept(id, i) ==
  /\ id \in DOMAIN partial
  /\ i <= Len(id) => i <= Len(partial[id]) /\ partial[id][i] = id[i]

KeptNext(id, i) ==
  /\ id \in DOMAIN partial'
  /\ i <= Len(id) => i <= Len(partial'[id]) /\ partial'[id][i] = id[i]

Backed(states) == \A id \in DOMAIN states : \A i \in states[id].done : Kept(id, i)

ResumeInv == SourcesInv /\ ChunksInv /\ Backed(active) /\ Backed(saved)

\* Files do not change, and a rename and the removal of its state are one.
Undisturbed == MaxEdits = 0 /\ "complete" \notin CrashPoints

LEMMA SourceContent ==
  ASSUME TypeOK, NEW t \in Send
  PROVE  source[t.file] \in Content /\ source[t.file] \in Seq(Datum)
  BY SendFields, TransferAssumption DEF TypeOK, SendsOK, TransferAssumption

\* A step of a sender keeps what it measured, and sends faithful chunks.
LEMMA SenderFaithful ==
  ASSUME TypeOK, SourcesInv, ChunksInv, NEW t \in Send, SenderStep(t) \/ TimeoutLate(t)
  PROVE  SourcesInv' /\ ChunksInv'
<1>1. /\ t.peer \in Peer /\ SendOK(send[t]) /\ DOMAIN send = Send
      /\ requests[t.peer] \in Seq(FaithfulRequest) /\ DOMAIN requests = Peer
  BY SendFields DEF TypeOK, SendsOK, ChannelsOK, ChunksInv
<1>2. UNCHANGED source /\ \A s \in Send \ {t} : send'[s] = send[s]
  BY <1>1 DEF SenderStep, Start, SendInit, SendChunk, FailRead, SendComplete, TakeAnswer, GiveUp,
     TimeoutLate
<1>3. ASSUME /\ send'[t].phase # "idle" => send'[t].size = Len(source[t.file])
             /\ send'[t].phase \notin {"idle", "hashing"} => send'[t].hash = source[t.file]
      PROVE  SourcesInv'
  BY <1>2, <1>3 DEF SourcesInv
<1>4. ASSUME NEW m \in FaithfulRequest, Post(t, m) PROVE ChunksInv'
  BY <1>1, <1>4 DEF Post, ChunksInv
<1>5. UNCHANGED requests => ChunksInv'
  BY DEF ChunksInv
<1>6. CASE Start(t)
  <2> DEFINE n == Len(source[t.file])
  <2>1. send'[t] = [Idle EXCEPT !.phase = "hashing", !.size = n]
    BY <1>1, <1>6 DEF Start
  <2>2. send'[t].phase = "hashing" /\ send'[t].size = n
    BY <2>1 DEF Idle
  <2>3. UNCHANGED requests
    BY <1>6 DEF Start, channels
  <2> QED BY <1>3, <1>5, <2>2, <2>3
<1>7. CASE SendInit(t)
  <2> DEFINE c == source[t.file]
             m == [type |-> "TransferInit", id |-> c, dest |-> t.dest, size |-> send[t].size]
  <2>1. m \in Request /\ m.type = "TransferInit"
    <3>1. c \in Content /\ send[t].size \in Nat
      BY <1>1, SourceContent DEF SendOK
    <3> QED BY <3>1, SendFields DEF Request
  <2>2. send'[t] = [[send[t] EXCEPT !.phase = "init"] EXCEPT !.hash = c]
    BY <1>1, <1>7, Zenon DEF SendInit
  <2>3. send'[t].size = send[t].size /\ send'[t].hash = c
    BY <1>1, <2>2 DEF SendOK
  <2>4. SourcesInv'
    BY <1>3, <1>7, <2>3 DEF SendInit, SourcesInv
  <2>5. Post(t, m)
    BY <1>7 DEF SendInit
  <2>6. m \in FaithfulRequest
    BY <2>1 DEF FaithfulRequest
  <2> QED BY <1>4, <2>4, <2>5, <2>6
<1>8. ASSUME NEW i \in Pending(send[t]), SendChunk(t, i)
      PROVE  SourcesInv' /\ ChunksInv'
  <2> DEFINE c == source[t.file]
             m == [type |-> "TransferChunk", id |-> send[t].hash, chunk |-> i,
                   data |-> ChunkData(t, i)]
  <2>1. m \in Request
    BY <1>8, ChunkTyped
  <2>2. send[t].hash = c /\ send[t].size = Len(c) /\ c \in Seq(Datum)
    BY <1>8, SourceContent DEF SourcesInv, SendChunk, NextChunk
  <2>3. send'[t] = [[send[t] EXCEPT !.phase = "chunk_ack"] EXCEPT !.chunk = i]
    BY <1>1, <1>8, Zenon DEF SendChunk
  <2>4. send'[t].size = send[t].size /\ send'[t].hash = send[t].hash
    BY <1>1, <2>3 DEF SendOK
  <2>5. SourcesInv'
    BY <1>3, <2>2, <2>4
  <2>6. FaithfulChunk(m)
    <3>1. CASE Len(c) = 0
      <4>1. c = <<>> /\ m.data = <<>>
        BY <2>2, <3>1 DEF ChunkData
      <4> QED BY <2>2, <4>1 DEF FaithfulChunk
    <3>2. CASE Len(c) # 0
      <4>1. i \in Nat \ {0} /\ i <= Len(c) /\ Len(c) \in Nat
        BY <1>1, <1>8, <2>2, <3>2 DEF SendChunk, ReadFails, Pending, SendOK, Position
      <4>2. m.data = SubSeq(c, i, i)
        BY <2>2, <3>2 DEF ChunkData
      <4>3. Len(m.data) = 1 /\ m.data[1] = c[i]
        BY <2>2, <4>1, <4>2
      <4>4. m.chunk = i /\ m.id = c
        BY <2>2
      <4> HIDE DEF m, c
      <4>5. m.data # <<>>
        BY <4>3
      <4> QED BY <4>1, <4>3, <4>4, <4>5 DEF FaithfulChunk
    <3> QED BY <3>1, <3>2
  <2>7. Post(t, m)
    BY <1>8 DEF SendChunk
  <2> HIDE DEF m
  <2>8. m \in FaithfulRequest
    BY <2>1, <2>6 DEF FaithfulRequest
  <2> QED BY <1>4, <2>5, <2>7, <2>8
<1>9. CASE SendComplete(t)
  <2> DEFINE m == [type |-> "TransferComplete", id |-> send[t].hash]
  <2>1. m \in FaithfulRequest
    BY <1>1, <1>9 DEF Request, FaithfulRequest, SendOK, SendComplete
  <2>2. send'[t] = [send[t] EXCEPT !.phase = "complete"]
    BY <1>1, <1>9 DEF SendComplete
  <2>3. send'[t].size = send[t].size /\ send'[t].hash = send[t].hash
    BY <1>1, <2>2 DEF SendOK
  <2>4. SourcesInv'
    BY <1>3, <1>9, <2>3 DEF SourcesInv, SendComplete
  <2>5. Post(t, m)
    BY <1>9 DEF SendComplete
  <2> QED BY <1>4, <2>1, <2>4, <2>5
<1>10. CASE TakeAnswer(t)
  <2> DEFINE r == Head(responses[t.peer])
  <2>1. send'[t] = IF Expected(t, r) THEN Continued(send[t], r) ELSE Idle
    BY <1>1, <1>10 DEF TakeAnswer
  <2>2. send[t].phase \notin {"idle", "hashing"}
    BY <1>10 DEF TakeAnswer, Waiting
  <2>3. ASSUME Expected(t, r)
        PROVE  send'[t].size = send[t].size /\ send'[t].hash = send[t].hash
    <3>1. CASE send[t].phase = "init"
      <4>1. send'[t] = [[send[t] EXCEPT !.phase = "chunks"] EXCEPT !.existing = r.existing]
        BY <2>1, <2>3, <3>1, Zenon DEF Continued
      <4> HIDE DEF r
      <4> QED BY <1>1, <4>1 DEF SendOK
    <3>2. CASE send[t].phase = "chunk_ack"
      <4>1. send'[t] = [send[t] EXCEPT !.phase = "chunks", !.chunk = @ + 1]
        BY <2>1, <2>3, <3>2 DEF Continued
      <4> QED BY <1>1, <4>1 DEF SendOK
    <3>3. CASE send[t].phase = "complete"
      <4>1. send'[t] = [send[t] EXCEPT !.phase = "verified"]
        BY <2>1, <2>3, <3>3 DEF Continued
      <4> QED BY <1>1, <4>1 DEF SendOK
    <3> QED BY <2>3, <3>1, <3>2, <3>3 DEF Expected
  <2>4. ~Expected(t, r) => send'[t].phase = "idle"
    BY <2>1 DEF Idle
  <2>5. SourcesInv'
    BY <1>3, <2>2, <2>3, <2>4 DEF SourcesInv
  <2> QED BY <1>5, <1>10, <2>5 DEF TakeAnswer
<1>11. CASE GiveUp(t) \/ TimeoutLate(t) \/ \E i \in Pending(send[t]) : FailRead(t, i)
  <2>1. send'[t].phase = "idle" /\ UNCHANGED requests
    BY <1>1, <1>11 DEF GiveUp, TimeoutLate, FailRead, Idle, channels
  <2> QED BY <1>3, <1>5, <2>1
<1> QED BY <1>6, <1>7, <1>8, <1>9, <1>10, <1>11 DEF SenderStep

\* Handled requests, and broken connections, leave faithful ones.
LEMMA TailFaithful ==
  ASSUME ChunksInv, NEW p \in Peer, requests[p] # <<>>,
         requests' = [requests EXCEPT ![p] = Tail(@)]
  PROVE  ChunksInv' /\ Head(requests[p]) \in FaithfulRequest
<1>1. requests[p] \in Seq(FaithfulRequest)
  BY DEF ChunksInv
<1>2. Tail(requests[p]) \in Seq(FaithfulRequest) /\ Head(requests[p]) \in FaithfulRequest
  BY <1>1
<1> QED BY <1>2 DEF ChunksInv

LEMMA SeverFaithful ==
  ASSUME ChunksInv, SourcesInv, UNCHANGED source, NEW lost, Sever(lost)
  PROVE  ChunksInv' /\ SourcesInv'
<1>1. <<>> \in Seq(FaithfulRequest)
  OBVIOUS
<1>2. ChunksInv'
  BY <1>1 DEF Sever, ChunksInv
<1>3. SourcesInv'
  BY DEF Sever, SourcesInv, Idle
<1> QED BY <1>2, <1>3

\* A partial file that exists is not touched by another transfer's opening...
LEMMA AllocatedKeeps ==
  ASSUME NEW m, partial' = Allocated(m) \/ partial' = Created(m)
  PROVE  \A id, i : Kept(id, i) => KeptNext(id, i)
  BY DEF Allocated, Created, Put, Kept, KeptNext

\* ...and a faithful chunk writes what belongs there.
LEMMA WrittenKeeps ==
  ASSUME StagingOK, NEW m \in FaithfulRequest, m.type = "TransferChunk", m.id \in DOMAIN partial,
         partial' = Written(m)
  PROVE  /\ \A id, i : i \in Position /\ Kept(id, i) => KeptNext(id, i)
         /\ KeptNext(m.id, m.chunk)
<1> DEFINE w == WriteChunk(partial[m.id], m.chunk, m.data)
           n == Len(partial[m.id])
<1>1. /\ m.id \in Content /\ m.id \in Seq(Datum) /\ m.chunk \in Position /\ FaithfulChunk(m)
      /\ partial[m.id] \in Bytes
  BY RequestFields, TransferAssumption DEF FaithfulRequest, StagingOK, TransferAssumption
<1>2. n \in Nat /\ Len(m.id) \in Nat
  BY <1>1 DEF Bytes
<1>3. ASSUME NEW i \in Position, i <= Len(m.id), i = m.chunk \/ (i <= n /\ partial[m.id][i] = m.id[i])
      PROVE  i <= Len(w) /\ w[i] = m.id[i]
  <2>1. CASE m.data = <<>>
    <3>1. m.id = <<>>
      BY <1>1, <2>1 DEF FaithfulChunk
    <3> QED BY <1>3, <3>1 DEF Position
  <2>2. CASE m.data # <<>>
    <3> DEFINE k == IF m.chunk > n THEN m.chunk ELSE n
    <3>1. w = [j \in 1..k |-> IF j = m.chunk THEN m.data[1]
                              ELSE IF j <= n THEN partial[m.id][j] ELSE Zero]
      BY <2>2 DEF WriteChunk
    <3>2. k \in Nat /\ i \in 1..k
      BY <1>1, <1>2, <1>3 DEF Position
    <3> HIDE DEF k, w
    <3>3. Len(w) = k
      BY <3>1, <3>2
    <3>4. m.data[1] = m.id[m.chunk]
      BY <1>1, <2>2 DEF FaithfulChunk
    <3>5. w[i] = m.id[i]
      BY <1>3, <3>1, <3>2, <3>4
    <3> QED BY <3>2, <3>3, <3>5
  <2> QED BY <2>1, <2>2
<1>4. /\ DOMAIN partial' = DOMAIN partial /\ partial'[m.id] = w
      /\ \A id \in DOMAIN partial : id # m.id => partial'[id] = partial[id]
  BY DEF Written, Put
<1> HIDE DEF w
<1>5. ASSUME NEW id, NEW i \in Position, Kept(id, i) PROVE KeptNext(id, i)
  <2>1. CASE id = m.id
    BY <1>3, <1>4, <1>5, <2>1 DEF Kept, KeptNext
  <2>2. CASE id # m.id
    BY <1>4, <1>5, <2>2 DEF Kept, KeptNext
  <2> QED BY <2>1, <2>2
<1>6. KeptNext(m.id, m.chunk)
  BY <1>1, <1>3, <1>4 DEF KeptNext
<1> QED BY <1>5, <1>6

\* States keep what they claim while the chunks stay.
LEMMA BackedStays ==
  ASSUME TypeOK, \A id, i : i \in Position /\ Kept(id, i) => KeptNext(id, i)
  PROVE  /\ Backed(active) /\ UNCHANGED active => Backed(active)'
         /\ Backed(saved) /\ UNCHANGED saved => Backed(saved)'
<1>1. /\ \A id \in DOMAIN active : \A i \in active[id].done : i \in Position
      /\ \A id \in DOMAIN saved : \A i \in saved[id].done : i \in Position
  BY DEF TypeOK, StagingOK, StatesOK, TransferState
<1>2. Backed(active) /\ UNCHANGED active => Backed(active)'
  BY <1>1 DEF Backed, Kept, KeptNext
<1>3. Backed(saved) /\ UNCHANGED saved => Backed(saved)'
  BY <1>1 DEF Backed, Kept, KeptNext
<1> QED BY <1>2, <1>3

\* The opening of a transfer: its state is the saved one, or claims nothing.
LEMMA InitBacked ==
  ASSUME TypeOK, Backed(active), Backed(saved), NEW p \in Peer, handle_init(p)
  PROVE  Backed(active)' /\ Backed(saved)'
<1> DEFINE m == Head(requests[p])
           x == ResumeState(m)
<1>1. \A id, i : Kept(id, i) => KeptNext(id, i)
  BY AllocatedKeeps DEF handle_init
<1>2. /\ \A id \in DOMAIN active : \A i \in active[id].done : Kept(id, i)
      /\ \A id \in DOMAIN saved : \A i \in saved[id].done : Kept(id, i)
  BY DEF Backed
<1>3. \A i \in x.done : Kept(m.id, i)
  <2>1. CASE m.id \in DOMAIN saved /\ saved[m.id].size = m.size
    BY <1>2, <2>1 DEF ResumeState
  <2>2. CASE ~(m.id \in DOMAIN saved /\ saved[m.id].size = m.size)
    <3>1. x.done = {}
      BY <2>2 DEF ResumeState
    <3> QED BY <3>1
  <2> QED BY <2>1, <2>2
<1>4. active' = Put(active, m.id, x) /\ saved' = Put(saved, m.id, x)
  BY DEF handle_init
<1> HIDE DEF x, m
<1>5. \A id \in DOMAIN active' : \A i \in active'[id].done : KeptNext(id, i)
  BY <1>1, <1>2, <1>3, <1>4 DEF Put
<1>6. \A id \in DOMAIN saved' : \A i \in saved'[id].done : KeptNext(id, i)
  BY <1>1, <1>2, <1>3, <1>4 DEF Put
<1> QED BY <1>5, <1>6 DEF Backed, Kept, KeptNext

\* A chunk: it is recorded as written.
LEMMA ChunkBacked ==
  ASSUME TypeOK, Backed(active), Backed(saved), NEW p \in Peer, handle_chunk(p),
         Head(requests[p]) \in FaithfulRequest
  PROVE  Backed(active)' /\ Backed(saved)'
<1> DEFINE m == Head(requests[p])
           done == [active[m.id] EXCEPT !.done = @ \cup {m.chunk}]
<1>1. m.type = "TransferChunk" /\ m.id \in DOMAIN partial /\ partial' = Written(m)
  BY DEF handle_chunk, Handles
<1>2. /\ \A id, i : i \in Position /\ Kept(id, i) => KeptNext(id, i)
      /\ KeptNext(m.id, m.chunk)
  BY <1>1, WrittenKeeps DEF TypeOK
<1>3. CASE m.id \notin DOMAIN active
  BY <1>2, <1>3, BackedStays DEF handle_chunk
<1>4. CASE m.id \in DOMAIN active
  <2>1. active' = Put(active, m.id, done) /\ saved' = Put(saved, m.id, done)
    BY <1>4 DEF handle_chunk
  <2>2. done.done = active[m.id].done \cup {m.chunk}
    BY <1>4 DEF TypeOK, StagingOK, StatesOK, TransferState
  <2>3. /\ \A id \in DOMAIN active : \A i \in active[id].done : i \in Position /\ Kept(id, i)
        /\ \A id \in DOMAIN saved : \A i \in saved[id].done : i \in Position /\ Kept(id, i)
    BY DEF Backed, TypeOK, StagingOK, StatesOK, TransferState
  <2> HIDE DEF done, m
  <2>4. \A i \in done.done : KeptNext(m.id, i)
    BY <1>2, <1>4, <2>2, <2>3
  <2>5. \A id \in DOMAIN active' : \A i \in active'[id].done : KeptNext(id, i)
    BY <1>2, <2>1, <2>3, <2>4 DEF Put
  <2>6. \A id \in DOMAIN saved' : \A i \in saved'[id].done : KeptNext(id, i)
    BY <1>2, <2>1, <2>3, <2>4 DEF Put
  <2> QED BY <2>5, <2>6 DEF Backed, Kept, KeptNext
<1> QED BY <1>3, <1>4

\* Every handler.
LEMMA ReceiverBacked ==
  ASSUME TypeOK, ResumeInv, NEW p \in Peer, ReceiverStep(p)
  PROVE  ResumeInv'
<1>1. requests[p] # <<>> /\ requests' = [requests EXCEPT ![p] = Tail(@)]
  BY DEF ReceiverStep, handle_init, handle_chunk, FailChunk, handle_complete, RejectComplete,
         FailComplete, Completes, Handles, Answer, NoAnswer
<1>2. ChunksInv' /\ Head(requests[p]) \in FaithfulRequest
  BY <1>1, TailFaithful DEF ResumeInv
<1>3. SourcesInv'
  BY DEF ReceiverStep, handle_init, handle_chunk, FailChunk, handle_complete, RejectComplete,
         FailComplete, ResumeInv, SourcesInv
<1>4. ASSUME FailChunk(p) PROVE Backed(active)' /\ Backed(saved)'
  BY <1>4 DEF FailChunk, staging, ResumeInv, Backed, Kept
<1>5. ASSUME FailComplete(p) \/ \E id \in DOMAIN partial : RejectComplete(p, id)
      PROVE  Backed(active)' /\ Backed(saved)'
  <2>1. UNCHANGED <<saved, partial>> /\ \E id : active' = Drop(active, id)
    BY <1>5 DEF FailComplete, RejectComplete
  <2>2. Backed(active)'
    BY <2>1 DEF ResumeInv, Backed, Kept, Drop
  <2>3. Backed(saved)'
    BY <2>1 DEF ResumeInv, Backed, Kept
  <2> QED BY <2>2, <2>3
<1>6. ASSUME NEW id \in DOMAIN partial, handle_complete(p, id)
      PROVE  Backed(active)' /\ Backed(saved)'
  <2>1. /\ active' = Drop(active, id) /\ saved' = Drop(saved, id)
        /\ partial' = Drop(partial, id)
    BY <1>6 DEF handle_complete
  <2> QED BY <2>1 DEF ResumeInv, Backed, Kept, Drop
<1> QED BY <1>2, <1>3, <1>4, <1>5, <1>6, InitBacked, ChunkBacked DEF ReceiverStep, ResumeInv

\* A crash forgets the active states; the saved ones stay as they were, or
\* one becomes unreadable.
LEMMA CrashBacked ==
  ASSUME TypeOK, ResumeInv, Undisturbed, NEW p \in Peer, CrashStep(p)
  PROVE  ResumeInv'
<1> DEFINE m == Head(requests[p])
<1>1. Crash /\ ~\E id \in DOMAIN partial : CrashInComplete(p, id)
  BY DEF CrashStep, CrashInInit, CrashInChunk, CrashInComplete, Undisturbed
<1>2. ChunksInv' /\ SourcesInv'
  BY <1>1, SeverFaithful DEF Crash, ResumeInv
<1>3. \A id, i : i \in Position /\ Kept(id, i) => KeptNext(id, i)
  <2>1. CASE CrashInInit(p)
    BY <2>1, AllocatedKeeps DEF CrashInInit
  <2>2. CASE CrashInChunk(p)
    <3>1. m \in FaithfulRequest /\ m.type = "TransferChunk" /\ m.id \in DOMAIN partial
      <4>1. requests[p] \in Seq(FaithfulRequest) /\ requests[p] # <<>>
        BY <2>2 DEF ResumeInv, ChunksInv, CrashInChunk, Handles
      <4> QED BY <2>2, <4>1 DEF CrashInChunk, Handles
    <3>2. partial' = Written(m)
      BY <2>2 DEF CrashInChunk
    <3> HIDE DEF m
    <3> QED BY <3>1, <3>2, WrittenKeeps DEF TypeOK
  <2> QED BY <1>1, <2>1, <2>2 DEF CrashStep
<1>4. Backed(active)'
  <2>1. active' = <<>>
    BY <1>1 DEF Crash
  <2> QED BY <2>1 DEF Backed
<1>5. Backed(saved)'
  <2>1. PICK id : saved' = saved \/ saved' = Drop(saved, id)
    BY <1>1 DEF CrashStep, CrashInInit, CrashInChunk, HalfSaved
  <2>2. \A j \in DOMAIN saved : \A i \in saved[j].done : i \in Position /\ Kept(j, i)
    BY DEF ResumeInv, Backed, TypeOK, StagingOK, StatesOK, TransferState
  <2>3. \A j \in DOMAIN saved' : \A i \in saved'[j].done : KeptNext(j, i)
    BY <1>3, <2>1, <2>2 DEF Drop
  <2> QED BY <2>3 DEF Backed, Kept, KeptNext
<1> QED BY <1>2, <1>4, <1>5 DEF ResumeInv

LEMMA ResumeStep ==
  ASSUME TypeOK, ResumeInv, Undisturbed, [Next]_vars
  PROVE  ResumeInv'
<1>1. CASE UNCHANGED vars
  BY <1>1 DEF vars, channels, staging, ResumeInv, SourcesInv, ChunksInv, Backed, Kept
<1>2. ASSUME NEW t \in Send, SenderStep(t) \/ TimeoutLate(t) PROVE ResumeInv'
  <2>1. UNCHANGED staging
    BY <1>2 DEF SenderStep, Start, SendInit, SendChunk, FailRead, SendComplete, TakeAnswer,
       GiveUp, TimeoutLate
  <2>2. Backed(active)' /\ Backed(saved)'
    BY <2>1 DEF staging, ResumeInv, Backed, Kept
  <2> QED BY <1>2, <2>2, SenderFaithful DEF ResumeInv
<1>3. ~\E f \in File, c \in Content : EditSource(f, c)
  BY DEF EditSource, Undisturbed, TypeOK, BoundsOK
<1>4. ASSUME NEW p \in Peer, Break(p) PROVE ResumeInv'
  <2>1. ChunksInv' /\ SourcesInv'
    BY <1>4, SeverFaithful DEF Break, ResumeInv
  <2> QED BY <1>4, <2>1 DEF Break, staging, ResumeInv, Backed, Kept
<1>5. CASE Restart
  <2>1. ChunksInv' /\ SourcesInv'
    BY <1>5, SeverFaithful DEF Restart, Crash, ResumeInv
  <2> QED BY <1>5, <2>1 DEF Restart, Crash, ResumeInv, Backed, Kept
<1> QED BY <1>1, <1>2, <1>3, <1>4, <1>5, ReceiverBacked, CrashBacked DEF Next

LEMMA ResumeInit == Init => ResumeInv
<1> SUFFICES ASSUME Init PROVE ResumeInv
  OBVIOUS
<1>1. <<>> \in Seq(FaithfulRequest)
  OBVIOUS
<1>2. ChunksInv
  BY <1>1 DEF Init, ChunksInv
<1>3. SourcesInv
  BY DEF Init, SourcesInv, Idle
<1>4. Backed(active) /\ Backed(saved)
  BY DEF Init, Backed
<1> QED BY <1>2, <1>3, <1>4 DEF ResumeInv

\* Every chunk that a resumed transfer will skip is in the partial file and
\* is the content's: whichever senders share the content, and wherever they
\* or the receiver were interrupted.  It is false once a file changes under a
\* send, or a crash leaves the state of a file that is gone
\* (ChangedFile.cfg, CrashAfterRename.cfg).
THEOREM SkippedChunksAreThere ==
  ASSUME Undisturbed
  PROVE  Spec => []ResumeSound
<1>1. ResumeInv => ResumeSound
  BY DEF ResumeInv, Backed, Kept, ResumeSound
<1> QED BY <1>1, ResumeInit, ResumeStep, TypeCorrect, PTL DEF Spec

===========================================================================

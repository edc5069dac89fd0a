----------------------------- MODULE Transfer -----------------------------
(***************************************************************************)
(* Chunked, resumable file transfer (tusher-transfer/src): the senders on  *)
(* the peers of one receiving node, the connections, and the receiver with *)
(* its .staging directory.                                                 *)
(*                                                                         *)
(* A file is a sequence of chunks.  A content hash is represented by the   *)
(* content itself, and the transfer id, a prefix of the hash, too; so two  *)
(* transfers of the same content share their id, their state and their     *)
(* partial file.  The receiver's mutex, and the one task that serves the   *)
(* requests of a connection, make a handler one step; a crash may cut it   *)
(* between its two writes.  A handler that fails answers nothing.          *)
(*                                                                         *)
(* All sends over a connection take their answers from one channel.  They  *)
(* hold its lock while they wait, but the order in which they get it is    *)
(* not the order of their requests: any waiting send may take the next     *)
(* answer.                                                                 *)
(***************************************************************************)
EXTENDS Naturals, Sequences

CONSTANTS
  Peer,        \* the sending nodes, one connection each
  File,        \* files of the sending nodes
  Dest,        \* destinations: a folder and a clean relative path
  Datum,       \* chunks
  Zero,        \* the chunk of a preallocated, unwritten region
  Content,     \* file contents
  Send,        \* sends: [peer, file, dest]
  CrashPoints, \* handlers that a crash may cut between their two writes
  MaxEdits,    \* bound: changes of source files
  MaxLate,     \* bound: timeouts whose answer is still on its way
  MaxFaults    \* bound: lost connections and restarts

ASSUME TransferAssumption ==
  /\ Zero \notin Datum
  /\ Content \subseteq Seq(Datum)
  /\ Send \subseteq [peer : Peer, file : File, dest : Dest]
  /\ CrashPoints \subseteq {"init", "chunk", "complete"}
  /\ MaxEdits \in Nat /\ MaxLate \in Nat /\ MaxFaults \in Nat

VARIABLES
  source,    \* source[f]: the content of file f at its sender
  send,      \* send[t]: the locals of the running send_file_with_target_path
  requests,  \* requests[p]: messages of p not yet handled
  responses, \* responses[p]: answers on p's response channel
  active,    \* active_transfers: states in memory, by transfer id
  saved,     \* <id>.state files
  partial,   \* <id>.partial files
  announced, \* <<destination, content>> pairs that were announced
  placed,    \* <<destination, content>> pairs that were renamed into place
  edits, late, faults

staging == <<active, saved, partial>>

channels == <<requests, responses>>

history == <<announced, placed>>

bounds == <<edits, late, faults>>

vars == <<source, send, channels, staging, history, bounds>>

Put(fcn, k, v) == [j \in DOMAIN fcn \cup {k} |-> IF j = k THEN v ELSE fcn[j]]

Drop(fcn, k) == [j \in DOMAIN fcn \ {k} |-> fcn[j]]

\* chunk is the next chunk to look at, existing what the receiver has.
Idle == [phase |-> "idle", size |-> 0, hash |-> <<>>, existing |-> {}, chunk |-> 1]

\* An empty file is sent as one empty chunk.
TotalChunks(size) == IF size = 0 THEN 1 ELSE size

Init ==
  /\ source \in [File -> Content]
  /\ send = [t \in Send |-> Idle]
  /\ requests = [p \in Peer |-> <<>>] /\ responses = [p \in Peer |-> <<>>]
  /\ active = <<>> /\ saved = <<>> /\ partial = <<>>
  /\ announced = {} /\ placed = {}
  /\ edits = 0 /\ late = 0 /\ faults = 0

---------------------------------------------------------------------------
(* The sender. *)

Post(t, m) ==
  /\ requests' = [requests EXCEPT ![t.peer] = Append(@, m)]
  /\ UNCHANGED responses

\* The size is read before the hash is computed.
Start(t) ==
  /\ send[t].phase \in {"idle", "verified"}
  /\ send' = [send EXCEPT ![t] =
                [Idle EXCEPT !.phase = "hashing", !.size = Len(source[t.file])]]
  /\ UNCHANGED <<source, channels, staging, history, bounds>>

SendInit(t) ==
  /\ send[t].phase = "hashing"
  /\ send' = [send EXCEPT ![t].phase = "init", ![t].hash = source[t.file]]
  /\ Post(t, [type |-> "TransferInit", id |-> source[t.file],
              dest |-> t.dest, size |-> send[t].size])
  /\ announced' = announced \cup {<<t.dest, source[t.file]>>}
  /\ UNCHANGED <<source, staging, placed, bounds>>

\* The chunks the loop still has to send.
Pending(x) == {i \in x.chunk..TotalChunks(x.size) : i \notin x.existing}

NextChunk(t, i) ==
  send[t].phase = "chunks" /\ i \in Pending(send[t]) /\ \A j \in Pending(send[t]) : i <= j

\* Chunk i as the file has it now; the file may be shorter by now.
ChunkData(t, i) == IF send[t].size = 0 THEN <<>> ELSE SubSeq(source[t.file], i, i)

ReadFails(t, i) == send[t].size > 0 /\ i > Len(source[t.file])

SendChunk(t, i) ==
  /\ NextChunk(t, i) /\ ~ReadFails(t, i)
  /\ send' = [send EXCEPT ![t].phase = "chunk_ack", ![t].chunk = i]
  /\ Post(t, [type |-> "TransferChunk", id |-> send[t].hash, chunk |-> i,
              data |-> ChunkData(t, i)])
  /\ UNCHANGED <<source, staging, history, bounds>>

FailRead(t, i) ==
  /\ NextChunk(t, i) /\ ReadFails(t, i)
  /\ send' = [send EXCEPT ![t] = Idle]
  /\ UNCHANGED <<source, channels, staging, history, bounds>>

SendComplete(t) ==
  /\ send[t].phase = "chunks" /\ Pending(send[t]) = {}
  /\ send' = [send EXCEPT ![t].phase = "complete"]
  /\ Post(t, [type |-> "TransferComplete", id |-> send[t].hash])
  /\ UNCHANGED <<source, staging, history, bounds>>

Waiting(t) == send[t].phase \in {"init", "chunk_ack", "complete"}

\* Defect: any completion acknowledgement counts as success.
ExpectedUnverified(t, r) ==
  \/ send[t].phase = "init" /\ r.type = "TransferInitAck" /\ r.id = send[t].hash
  \/ send[t].phase = "chunk_ack" /\ r.type = "TransferChunkAck" /\ r.chunk = send[t].chunk
  \/ send[t].phase = "complete" /\ r.type = "TransferCompleteAck"

\* The answer that send t takes for its own.  The chunk and completion
\* acknowledgements are not compared with the transfer id.
Expected(t, r) ==
  \/ send[t].phase = "init" /\ r.type = "TransferInitAck" /\ r.id = send[t].hash
  \/ send[t].phase = "chunk_ack" /\ r.type = "TransferChunkAck" /\ r.chunk = send[t].chunk
  \/ send[t].phase = "complete" /\ r.type = "TransferCompleteAck" /\ r.verified

\* What send x goes on with after the answer r.
Continued(x, r) ==
  CASE x.phase = "init" -> [x EXCEPT !.phase = "chunks", !.existing = r.existing]
    [] x.phase = "chunk_ack" -> [x EXCEPT !.phase = "chunks", !.chunk = @ + 1]
    [] x.phase = "complete" -> [x EXCEPT !.phase = "verified"]

\* Any other answer ends the send with an error.
TakeAnswer(t) ==
  LET r == Head(responses[t.peer]) IN
  /\ Waiting(t) /\ responses[t.peer] # <<>>
  /\ send' = [send EXCEPT ![t] = IF Expected(t, r) THEN Continued(@, r) ELSE Idle]
  /\ responses' = [responses EXCEPT ![t.peer] = Tail(@)]
  /\ UNCHANGED <<source, requests, staging, history, bounds>>

\* No answer is on its way: the wait times out.
GiveUp(t) ==
  /\ Waiting(t) /\ requests[t.peer] = <<>> /\ responses[t.peer] = <<>>
  /\ send' = [send EXCEPT ![t] = Idle]
  /\ UNCHANGED <<source, channels, staging, history, bounds>>

\* The receiver is slow, for example hashing a large file: the wait times
\* out and the answer comes later.
TimeoutLate(t) ==
  /\ late < MaxLate
  /\ Waiting(t) /\ requests[t.peer] # <<>> /\ responses[t.peer] = <<>>
  /\ send' = [send EXCEPT ![t] = Idle]
  /\ late' = late + 1
  /\ UNCHANGED <<source, channels, staging, history, edits, faults>>

EditSource(f, c) ==
  /\ edits < MaxEdits
  /\ source[f] # c
  /\ source' = [source EXCEPT ![f] = c]
  /\ edits' = edits + 1
  /\ UNCHANGED <<send, channels, staging, history, late, faults>>

---------------------------------------------------------------------------
(* The receiver handles the oldest request of a connection. *)

Handles(p, type) == requests[p] # <<>> /\ Head(requests[p]).type = type

Answer(p, r) ==
  /\ requests' = [requests EXCEPT ![p] = Tail(@)]
  /\ responses' = [responses EXCEPT ![p] = Append(@, r)]

NoAnswer(p) ==
  /\ requests' = [requests EXCEPT ![p] = Tail(@)]
  /\ UNCHANGED responses

\* The saved state, file name and folder included, if there is one for this
\* id and size; otherwise a new one.
ResumeState(m) ==
  IF m.id \in DOMAIN saved /\ saved[m.id].size = m.size
    THEN saved[m.id]
    ELSE [dest |-> m.dest, size |-> m.size, done |-> {}]

Zeros(n) == [i \in 1..n |-> Zero]

\* Defect: the partial file is created anew for every transfer.
AllocatedAnew(m) == Put(partial, m.id, Zeros(m.size))

\* A partial file that exists is kept, whatever its length.
Allocated(m) ==
  IF m.id \in DOMAIN partial THEN partial ELSE Put(partial, m.id, Zeros(m.size))

handle_init(p) ==
  LET m == Head(requests[p]) IN
  /\ Handles(p, "TransferInit")
  /\ partial' = Allocated(m)
  /\ saved' = Put(saved, m.id, ResumeState(m))
  /\ active' = Put(active, m.id, ResumeState(m))
  /\ Answer(p, [type |-> "TransferInitAck", id |-> m.id, existing |-> ResumeState(m).done])
  /\ UNCHANGED <<source, send, history, bounds>>

\* Writing past the end extends the file with zeros.
WriteChunk(file, i, data) ==
  IF data = <<>>
    THEN file
    ELSE [j \in 1..(IF i > Len(file) THEN i ELSE Len(file)) |->
            IF j = i THEN data[1] ELSE IF j <= Len(file) THEN file[j] ELSE Zero]

Written(m) == Put(partial, m.id, WriteChunk(partial[m.id], m.chunk, m.data))

\* Defect: the chunk is recorded under its neighbour's number.
HandleChunkOffByOne(p) ==
  LET m == Head(requests[p])
      done == [active[m.id] EXCEPT !.done = @ \cup {m.chunk - 1}]
  IN
  /\ Handles(p, "TransferChunk") /\ m.id \in DOMAIN partial
  /\ partial' = Written(m)
  /\ IF m.id \in DOMAIN active
       THEN active' = Put(active, m.id, done) /\ saved' = Put(saved, m.id, done)
       ELSE UNCHANGED <<active, saved>>
  /\ Answer(p, [type |-> "TransferChunkAck", chunk |-> m.chunk])
  /\ UNCHANGED <<source, send, history, bounds>>

\* The chunk is recorded only while the transfer is active in memory.
handle_chunk(p) ==
  LET m == Head(requests[p])
      done == [active[m.id] EXCEPT !.done = @ \cup {m.chunk}]
  IN
  /\ Handles(p, "TransferChunk") /\ m.id \in DOMAIN partial
  /\ partial' = Written(m)
  /\ IF m.id \in DOMAIN active
       THEN active' = Put(active, m.id, done) /\ saved' = Put(saved, m.id, done)
       ELSE UNCHANGED <<active, saved>>
  /\ Answer(p, [type |-> "TransferChunkAck", chunk |-> m.chunk])
  /\ UNCHANGED <<source, send, history, bounds>>

\* The partial file cannot be opened.
FailChunk(p) ==
  /\ Handles(p, "TransferChunk") /\ Head(requests[p]).id \notin DOMAIN partial
  /\ NoAnswer(p)
  /\ UNCHANGED <<source, send, staging, history, bounds>>

\* The state of a transfer, from memory or else from its file.
StateOf(id) == IF id \in DOMAIN active THEN active[id] ELSE saved[id]

Completes(p, id) ==
  /\ Handles(p, "TransferComplete") /\ id = Head(requests[p]).id
  /\ id \in DOMAIN active \cup DOMAIN saved
  /\ id \in DOMAIN partial

\* Defect: the file is placed when all chunks are recorded.
HandleCompleteUnverified(p, id) ==
  /\ Completes(p, id) /\ StateOf(id).done = 1..TotalChunks(StateOf(id).size)
  /\ active' = Drop(active, id) /\ saved' = Drop(saved, id) /\ partial' = Drop(partial, id)
  /\ placed' = placed \cup {<<StateOf(id).dest, partial[id]>>}
  /\ Answer(p, [type |-> "TransferCompleteAck", verified |-> TRUE])
  /\ UNCHANGED <<source, send, announced, bounds>>

\* The whole file matches its hash: it is renamed into place.
handle_complete(p, id) ==
  /\ Completes(p, id) /\ partial[id] = id
  /\ active' = Drop(active, id) /\ saved' = Drop(saved, id) /\ partial' = Drop(partial, id)
  /\ placed' = placed \cup {<<StateOf(id).dest, partial[id]>>}
  /\ Answer(p, [type |-> "TransferCompleteAck", verified |-> TRUE])
  /\ UNCHANGED <<source, send, announced, bounds>>

\* It does not: the saved state and the partial file stay as they are.
RejectComplete(p, id) ==
  /\ Completes(p, id) /\ partial[id] # id
  /\ active' = Drop(active, id)
  /\ Answer(p, [type |-> "TransferCompleteAck", verified |-> FALSE])
  /\ UNCHANGED <<source, send, saved, partial, history, bounds>>

\* There is no state, or no partial file to hash.
FailComplete(p) ==
  LET id == Head(requests[p]).id IN
  /\ Handles(p, "TransferComplete")
  /\ id \notin DOMAIN partial \/ id \notin DOMAIN active \cup DOMAIN saved
  /\ active' = Drop(active, id)
  /\ NoAnswer(p)
  /\ UNCHANGED <<source, send, saved, partial, history, bounds>>

---------------------------------------------------------------------------
(* Faults. *)

\* The connections to the peers in lost break; their sends fail.
Sever(lost) ==
  /\ send' = [t \in Send |-> IF t.peer \in lost THEN Idle ELSE send[t]]
  /\ requests' = [p \in Peer |-> IF p \in lost THEN <<>> ELSE requests[p]]
  /\ responses' = [p \in Peer |-> IF p \in lost THEN <<>> ELSE responses[p]]

Break(p) ==
  /\ faults < MaxFaults
  /\ Sever({p})
  /\ faults' = faults + 1
  /\ UNCHANGED <<source, staging, history, edits, late>>

\* The receiving process ends and starts again.
Crash ==
  /\ faults < MaxFaults
  /\ Sever(Peer)
  /\ active' = <<>>
  /\ faults' = faults + 1
  /\ UNCHANGED <<source, announced, edits, late>>

Restart ==
  /\ Crash
  /\ UNCHANGED <<saved, partial, placed>>

\* A crash while a state file is written leaves the old one, or one that
\* cannot be read.
HalfSaved(id) == saved' \in {saved, Drop(saved, id)}

\* A new partial file is still empty.
Created(m) == IF m.id \in DOMAIN partial THEN partial ELSE Put(partial, m.id, <<>>)

CrashInInit(p) ==
  /\ "init" \in CrashPoints /\ Handles(p, "TransferInit")
  /\ Crash
  /\ \/ partial' = Created(Head(requests[p])) /\ UNCHANGED saved
     \/ partial' = Allocated(Head(requests[p])) /\ HalfSaved(Head(requests[p]).id)
  /\ UNCHANGED placed

\* Defect: the chunk is recorded before it is written.
CrashBeforeWrite(p) ==
  LET m == Head(requests[p]) IN
  /\ "chunk" \in CrashPoints /\ Handles(p, "TransferChunk")
  /\ m.id \in DOMAIN partial /\ m.id \in DOMAIN active
  /\ Crash
  /\ saved' = Put(saved, m.id, [active[m.id] EXCEPT !.done = @ \cup {m.chunk}])
  /\ UNCHANGED <<partial, placed>>

CrashInChunk(p) ==
  /\ "chunk" \in CrashPoints /\ Handles(p, "TransferChunk")
  /\ Head(requests[p]).id \in DOMAIN partial
  /\ Crash
  /\ partial' = Written(Head(requests[p]))
  /\ HalfSaved(Head(requests[p]).id)
  /\ UNCHANGED placed

\* Defect: the file is copied into place, not renamed.
CrashInCopy(p, id) ==
  /\ "complete" \in CrashPoints /\ Completes(p, id) /\ partial[id] = id
  /\ Crash
  /\ placed' = placed \cup {<<StateOf(id).dest, SubSeq(partial[id], 1, 1)>>}
  /\ UNCHANGED <<saved, partial>>

\* The file is in place, its state file is not removed yet.
CrashInComplete(p, id) ==
  /\ "complete" \in CrashPoints /\ Completes(p, id) /\ partial[id] = id
  /\ Crash
  /\ partial' = Drop(partial, id)
  /\ placed' = placed \cup {<<StateOf(id).dest, partial[id]>>}
  /\ UNCHANGED saved

---------------------------------------------------------------------------
SenderStep(t) ==
  \/ Start(t)
  \/ SendInit(t)
  \/ \E i \in Pending(send[t]) : SendChunk(t, i) \/ FailRead(t, i)
  \/ SendComplete(t)
  \/ TakeAnswer(t)
  \/ GiveUp(t)

ReceiverStep(p) ==
  \/ handle_init(p)
  \/ handle_chunk(p)
  \/ FailChunk(p)
  \/ \E id \in DOMAIN partial : handle_complete(p, id) \/ RejectComplete(p, id)
  \/ FailComplete(p)

CrashStep(p) ==
  \/ CrashInInit(p)
  \/ CrashInChunk(p)
  \/ \E id \in DOMAIN partial : CrashInComplete(p, id)

Next ==
  \/ \E t \in Send : SenderStep(t) \/ TimeoutLate(t)
  \/ \E f \in File, c \in Content : EditSource(f, c)
  \/ \E p \in Peer : ReceiverStep(p) \/ Break(p) \/ CrashStep(p)
  \/ Restart

Spec == Init /\ [][Next]_vars

\* Sends are retried, and the tasks of both sides run.
Fairness ==
  /\ \A t \in Send : WF_vars(SenderStep(t))
  /\ \A p \in Peer : WF_vars(ReceiverStep(p))

FairSpec == Spec /\ Fairness
---------------------------------------------------------------------------
Phase == {"idle", "hashing", "init", "chunks", "chunk_ack", "complete", "verified"}

Position == Nat \ {0}

TransferState == [dest : Dest, size : Nat, done : SUBSET Position]

SendOK(x) ==
  /\ x \in [phase : Phase, size : Nat, hash : Seq(Datum),
            existing : SUBSET Position, chunk : Position]
  /\ x.phase \notin {"idle", "hashing"} => x.hash \in Content

Bytes == Seq(Datum \cup {Zero})

Request ==
  [type : {"TransferInit"}, id : Content, dest : Dest, size : Nat]
    \cup [type : {"TransferChunk"}, id : Content, chunk : Position, data : Seq(Datum)]
    \cup [type : {"TransferComplete"}, id : Content]

Response ==
  [type : {"TransferInitAck"}, id : Content, existing : SUBSET Position]
    \cup [type : {"TransferChunkAck"}, chunk : Position]
    \cup [type : {"TransferCompleteAck"}, verified : BOOLEAN]

StatesOK(states) ==
  DOMAIN states \subseteq Content /\ \A id \in DOMAIN states : states[id] \in TransferState

SendsOK ==
  /\ source \in [File -> Content]
  /\ DOMAIN send = Send /\ \A t \in Send : SendOK(send[t])

ChannelsOK ==
  /\ requests \in [Peer -> Seq(Request)]
  /\ responses \in [Peer -> Seq(Response)]

StagingOK ==
  /\ StatesOK(active) /\ StatesOK(saved)
  /\ DOMAIN partial \subseteq Content /\ \A id \in DOMAIN partial : partial[id] \in Bytes

HistoryOK == announced \subseteq Dest \X Content /\ placed \subseteq Dest \X Content

BoundsOK == edits \in 0..MaxEdits /\ late \in 0..MaxLate /\ faults \in 0..MaxFaults

TypeOK == SendsOK /\ ChannelsOK /\ StagingOK /\ HistoryOK /\ BoundsOK

AP == INSTANCE AtomicPlacement

\* A destination is only given, in one step, the whole content that some
\* send announced for it: not while chunks arrive from several senders, not
\* when the source changes under way, not after a crash at any point.
ImplementsAtomicPlacement == AP!Spec

\* A send that returned success announced content that the receiver has put
\* in place somewhere.
VerifiedIsPlaced ==
  \A t \in Send : send[t].phase = "verified" =>
    \E d \in Dest : <<d, send[t].hash>> \in placed

\* A send that returned success has filled the destination it was made for.
VerifiedFillsDest ==
  \A t \in Send : send[t].phase = "verified" => <<t.dest, send[t].hash>> \in placed

\* Chunks that a resumed transfer will skip are in the partial file.
ResumeSound ==
  \A id \in DOMAIN saved : \A i \in saved[id].done :
    /\ id \in DOMAIN partial
    /\ i <= Len(id) => i <= Len(partial[id]) /\ partial[id][i] = id[i]

\* A send that is retried until it succeeds does succeed: an interrupted
\* transfer can be resumed and finished.
RetriesSucceed == \A t \in Send : <>(send[t].phase = "verified")
===========================================================================

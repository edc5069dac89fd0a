# T.U.S.H.E.R in TLA+

T.U.S.H.E.R keeps folders in sync between the machines of one user, without a
server: every node keeps a catalog of its shared folders in SQLite, logs every
change as a numbered event, pulls the events of its peers, reconciles them with
its own catalog and fetches the files it lacks. This directory is its
verification project. All paths below are relative to the repository.

Status: the metadata database, the reconciliation engine, the sync sessions
between nodes, the transfer of files, a node's disk and watcher next to its
catalog, the connection between two nodes and the connection manager are
modelled, model-checked and proved about: every safety invariant that a run
checks is also a theorem, some under a hypothesis that the theorem names.

## The system

| Component | Source | State | Operations |
|---|---|---|---|
| Metadata database | `crates/tusher-metadata/src/db.rs` | SQLite tables `shared_folders`, `files`, `sync_events` | add_folder, record_local_upsert/delete, apply_remote_upsert/delete, get_events_since |
| Reconciliation engine, metadata service | `reconciler.rs`, `service.rs` of the same crate | none of its own; one mutex around the database | reconcile_event, apply_reconciliation_action, handle_manifest_request, reconcile_remote_events |
| Sync coordinator | `crates/tusher-sync/src/coordinator.rs` | `last_seen_seqs`, `in_flight_syncs`, `peer_folders`, registered folders | register_folder, initial_scan, handle_peer_message, reconcile_with_peer, the workers of start |
| Folder watcher | `crates/tusher-sync/src/watcher.rs` | pending debounce entries, suppressed paths | suppress_path, run_debouncer |
| File transfer | `crates/tusher-transfer/src` | `.staging` partial files, saved transfer states, active transfers in memory | send_file, handle_init, handle_chunk, handle_complete |
| Peer connection | `crates/tusher-network/src/connection.rs` | one TCP stream, bounded channels per message family | dial, accept, spawn_duplex, send, recv_*, ping |
| Connection manager | `crates/tusher-network/src/manager.rs` | candidates, active connections, missed pings, one request handler | add_candidate, register_active_connection, maintain_connections, attempt_connect_best_candidate |
| Discovery | `discovery.rs`, `tailscale.rs` | a running flag | UDP beacons every 3 s, `tailscale status` (only logged) |
| Pairing, identity, codec | `pairing.rs`, `crates/tusher-core/src` | keys on disk | pure functions and I/O |
| Front ends | `crates/tusher-cli`, `tusher-desktop`, `tusher-ffi`, `android` | none that matters here | call the coordinator |

How they interact. A change on disk reaches the watcher, which debounces it and
hands it to the coordinator's watcher worker; that records it in the database
(`record_local_file`, `record_local_delete`) and broadcasts `SyncNotify` with
the folder's newest `event_seq`. Every 5 seconds the coordinator repeats the
notification for every folder. A node that gets one and has not yet seen that
number starts a session: `ManifestReq` with its cursor, `ManifestResp` with a
page of events and the newest number, one decision per event, then for each
decision a `FilePullReq` or a deletion and a write to the database, and last the
cursor. The peer answers a pull by sending the file in acknowledged chunks; the
receiver assembles it in `.staging`, verifies it, renames it into place and
reports it to the coordinator's completion worker. All of this is multiplexed
over one connection per peer, which the manager dials, checks with pings every
3 s and replaces when a better path appears. Addresses come from beacons, from
the peers that dial, and from users.

### What is hard here

* *Interleaving.* The sessions of one node, its watcher worker and its answers
  to peers run concurrently; the database mutex is held for one call, not for a
  session. A manifest is decided on as a whole before anything is applied.
* *Ordering and delivery.* Answers are matched to requests by their kind only. A
  session that times out after 6 s leaves its answer in the connection, for the
  next session. Connections break and are replaced.
* *Relays.* A node logs what it learns, so an event travels by several routes
  and comes back to its author.
* *Concurrent edits.* Versions are counted per file and clocks are not
  synchronised; the engine must tell a successor from a concurrent change.
* *Restarts.* Cursors are in memory; the database and `.staging` survive.
* *Limits.* Pages of 500 events, bounded channels, `file_id` as a primary key.
* *Two views of one file.* The disk changes first, the catalog follows after
  debouncing; for the peer's changes the catalog comes first and the file later.
  Nothing but suppression and a comparison of hashes keeps a download from
  coming back as a change of this node.
* *Everything over one stream.* One reader task fills all channels of a
  connection, one task answers its requests, and sends wait for room.
* *Many tasks, one map.* Discovery, accepted connections, users and the
  maintenance loop add addresses, dial and replace connections concurrently.

### What makes each component correct

* *Database*: the log accounts for the catalog; nothing is lost from the log;
  every change a user makes is recorded.
* *Engine*: two nodes that judge each other's version reach decisions that fit
  together; content that nobody deleted survives; a deletion stays a deletion;
  what is not concurrent is no conflict, what is concurrent is not overwritten.
* *Coordinator*: a cursor never passes what the node has not handled; a session
  that fails is retried and can succeed; relays and conflict files do not feed
  each other; all nodes catch up.
* *Transfer*: only complete verified content is placed; a resumed transfer
  finishes; a send reported as verified filled its destination.
* *Disk and watcher*: every user change is recorded once it settles; downloads
  are not; the peer's changes arrive on disk; what the catalog shows as live is
  there or on its way; nothing a user wrote is overwritten unseen.
* *Connection*: a ping that succeeds was answered; every ping and every call
  ends, whatever is full and whatever is lost.
* *Manager*: every connection is looked after; addresses lead to the peer they
  are filed under; a peer that can be reached is connected at last, over the
  local network when that is there.

The hazards, each at its line and with the property that would notice it, are
listed in `PROJECT.json`.

## The modules

| Module | Models | Uses |
|---|---|---|
| `MetadataDb` | db.rs: a database is a value, each writing method an operator from a database to the one it commits | |
| `Reconciler` | reconciler.rs, and the application of decisions in service.rs | `MetadataDb` |
| `Exchange` | two replicas that decide on each other's event for one file | `Reconciler` |
| `ExchangeProofs` | the outcomes of two decisions and the theorems | `Exchange` |
| `Replication` | the coordinator's sessions, cursors and manifests over all nodes, with users, timeouts, lost connections and restarts | `Reconciler`, `EventSourcing` |
| `EventSourcing` | the abstract specification: append-only logs of authored and relayed changes, with its theorem | `MetadataDb` |
| `ReconcilerProofs` | what the operations of the database and the decisions preserve: the lemmas both proof modules below rest on | `Reconciler` |
| `ReplicationProofs` | the inductive invariants of `Replication` and the theorems | `Replication`, `EventSourcing`, `ReconcilerProofs` |
| `Transfer` | tusher-transfer: the senders on the peers of one node, their connections, the receiver and its `.staging` directory, crashes of the receiver between two writes | `AtomicPlacement` |
| `AtomicPlacement` | the abstract specification: a destination is given, in one step, the whole content that was announced for it | |
| `TransferProofs` | the invariants of `Transfer` and the theorems | `Transfer` |
| `Watcher` | watcher.rs and the disk: files, reports of the operating system, debouncing, suppression | `MetadataDb` |
| `Sync` | one node: disk, watcher, catalog, initial scan, sessions, pulls and deletions with their rows, the peer's sends, placement and its notices, the end of the process; the peer as its users drive it | `Reconciler`, `Watcher` |
| `SyncProofs` | the inductive invariant of `Sync` and the theorems | `Sync`, `ReconcilerProofs` |
| `Connection` | connection.rs: both ends with their writer, reader and bounded channels, the request loop of manager.rs, tasks that call, pings | |
| `ConnectionProofs` | the inductive invariant of `Connection` and the theorems | `Connection` |
| `Manager` | manager.rs of one node: candidates, connections, attempts, the maintenance loop | |
| `ManagerProofs` | the inductive invariant of `Manager` and the theorems | `Manager` |
| `MCReplication`, `MCExchange`, `MCTransfer`, `MCSync`, `MCConnection`, `MCManager` | the values of the constants for TLC | |

### State and actions of Replication

| Model | Code |
|---|---|
| `db[n]` | the SQLite file of node n |
| `last_seen[<<n, m, f>>]` | `last_seen_seqs[(m, f)]` of n |
| `session[<<n, m, f>>]` | the entry of `in_flight_syncs` and the locals of the running `do_reconcile` |
| `requests[<<n, m>>]`, `manifests[<<n, m>>]` | `ManifestReq`s on the wire; the `manifest_rx` channel of n's connection to m |
| `RegisterFolder` | register_folder |
| `LocalUpsert`, `LocalDelete` | the watcher worker's calls into the database, also made by initial_scan |
| `StartSync` | handle_peer_message on SyncNotify, reconcile_with_peer, do_reconcile up to the request |
| `ServeManifest` | handle_peer_message on ManifestReq |
| `ReceiveManifest` | do_reconcile from the answer to the decisions |
| `ApplyAction`, `AbortOnDbError`, `AbortOnSendError`, `FinishSync` | one round of the loop over the decisions, its two ways to fail, its end |
| `Timeout` | the 6 s timeout of the wait for the manifest |
| `Disconnect` | a connection that breaks and is replaced |
| `Restart` | the process ends and starts again |

Each call into the metadata service holds the mutex of the database and is one
step; nothing else is. The decisions of a manifest are one step because
reconcile_remote_events holds the mutex for all of them, and applying them is
one step each because apply_reconciliation_action takes the mutex for one.

### State and actions of Transfer

| Model | Code |
|---|---|
| `source[f]` | a file on its sender's disk; `EditSource` is any program that changes it |
| `send[t]` | the locals of a running send_file_with_target_path |
| `requests[p]`, `responses[p]` | messages the receiver's request loop has not handled; the transfer response channel of the sender's connection |
| `active`, `saved`, `partial` | `active_transfers`; the `.state` and `.partial` files in `.staging` |
| `announced`, `placed` | history: destinations and contents of the `TransferInit`s sent and of the renames made |
| `Start`, `SendInit` | size, then hash, then `TransferInit` |
| `SendChunk`, `FailRead`, `SendComplete` | one round of the chunk loop, its read error, its end |
| `TakeAnswer` | an answer arrives: expected, or else the send ends with an error |
| `GiveUp`, `TimeoutLate` | a wait times out: no answer will come, or it comes later |
| `handle_init`, `handle_chunk`, `FailChunk` | the handlers of the receiver |
| `handle_complete`, `RejectComplete`, `FailComplete` | verified and renamed; hash mismatch; no state or no partial file |
| `Break` | the connection to a peer is lost and replaced |
| `Restart`, `CrashInInit`, `CrashInChunk`, `CrashInComplete` | the receiving process ends between two handlers, or between two writes of one |

A handler is one step: the receiver's mutex is held for all of it and one task
serves the requests of a connection. The crash actions cut it where it writes
two files one after the other: the partial file and the state, the rename and
the removal of the state. A `FilePullReq` starts a task per send
(coordinator.rs:247), so several sends share the response channel of one
connection. They hold its lock while they wait, in an order that need not be
that of their requests: any waiting send may take the next answer.

### State and actions of Sync and Watcher

| Model | Code |
|---|---|
| `disk` | the files of the shared folders; `UserWrite`, `UserRemove` are users and their programs |
| `raw`, `pending_paths`, `suppressed_paths`, `changes` | reports of the operating system, the two maps of the debouncer, the channel to the watcher worker |
| `db`, `peer_db` | the catalogs of the node and its peer; `PeerChange` is the peer's watcher worker |
| `session[f]`, `last_seen[f]` | the running do_reconcile of a folder, its cursor |
| `pulls` | `FilePullReq`s whose task at the peer (coordinator.rs:249) has not hashed the file yet |
| `sends`, `transfers` | such tasks with a hash and no `TransferInit` taken (sender.rs:76-97); transfers the receiver has accepted and the peer reads from an open file (130-193) |
| `staged`, `spoiled` | the destination in the `.state` file of each content; contents whose partial file may have chunks of other content |
| `notices` | the channel of finished transfers |
| `lost`, `overtaken`, `unrecorded`, `spent` | history: destinations whose last transfers failed, or got older content last; files asked for whose row was not written; what is used of the bounds |
| `StartScan`, `ScanFile`, `StartWatcher` | start: initial_scan file by file, then FolderWatcher::start |
| `Notify`, `Emit`, `Unsuppress` | run_debouncer: a report, a path that is quiet, a suppression that is over |
| `RecordChange` | the watcher worker |
| `StartSync`, `FinishSync` | a session: the decisions on a manifest; the cursor |
| `Download`, `DeleteLocal`, `Branch` | a decision of each kind up to its row: suppress and ask, or remove the file, or find it there (`session[f].phase` is then `"suppressing"` or `"recording"`) |
| `ApplyAction`, `AbortOnSend` | the row is written, or the database refuses it; the connection does not take the request, and the session ends |
| `ServePull`, `OpenTransfer` | the peer's task hashes the file as it is now; handle_init, and the task opens the file |
| `PlaceFile`, `HandleNotice` | handle_complete renames the content and reports; the completion worker suppresses its path |
| `Lose`, `Garble`, `Stop` | a request, send or transfer fails by a fault; sends fail because they cross or because what is staged is damaged; the process ends, catalog, disk and `.staging` remain |

The request for a file and its row are two steps, because the request is awaited
and the catalog has a lock of its own (coordinator.rs:451-459, 498-506): the file
may be placed, a scan may run or the process may end in between. Requests and
sends are bags. Nothing orders the tasks that serve them, so two requests for one
path may both be under way, and the one with older content may be placed last.

### State and actions of Connection

| Model | Code |
|---|---|
| `write_tx[e]`, `wire[e]`, `inbound[e]` | the channel to the writer task; socket buffers and network; `request_rx`, `response_rx`, `manifest_rx`, `pong_rx` |
| `handler[e]` | the request loop of register_active_connection and the answer it is sending |
| `caller[c]` | a transfer, a session or a task that notifies: sending, waiting, or neither |
| `pinger[e]`, `ponged[e]` | the ping of the maintenance loop; history: pings the peer's reader answered |
| `Write`, `Read`, `ReadPing` | the writer task; the reader task, which answers a ping itself |
| `Handle`, `SendAnswer` | one round of the request loop |
| `Begin`, `SendRequest`, `Receive`, `GiveUp` | a call: send, recv_*, its timeout |
| `StartPing`, `SendPing`, `TakePong`, `EndPing` | ping: pongs of earlier pings are skipped; it returns when answered or after 6 s |
| `Cut` | the network carries nothing any more, and nobody is told |

### State and actions of Manager

| Model | Code |
|---|---|
| `candidates[i]` | `candidates`: addresses of a peer, or of the placeholder id `remote`, in the order they are tried |
| `active_connections[p]`, `failed_pings[p]` | the maps of these names; a connection has an address and lives or not |
| `attempt[t]` | attempt_connect_best_candidate in the maintenance loop, the discovery task, a front end, the accept task |
| `maint` | where maintain_connections is: peers to do, the peer at hand, the connection it looked up |
| `up` | the addresses that lead to their peer |
| `Discover`, `AddManually`, `Accept`, `AddAccepted` | a beacon; `connect` of a front end; a connection that is accepted, and the address it adds |
| `StartAttempt`, `DialFails`, `DialSucceeds` | an attempt: is there a connection already; the next candidate; handing the placeholder's candidate on and registering |
| `StartRound`, `TakeConnection`, `Pong`, `Miss`, `RemoveConnection`, `AttemptOver`, `Restore`, `EndRound` | maintain_connections |
| `AddressGoesDown`, `AddressComesUp` | the network; connections over an address die with it, without a word |

### Abstractions

In `Sync` and `Watcher`:

* Reports of one path that wait together are one. The periods are delays of
  unknown length, but a suppression (5 s or 10 s) outlasts the debouncing
  (300 ms) of a change it was made for: `EndSuppression` waits for it.
* A transfer places whole content or fails: that is `Transfer`. Of a transfer
  there is its opening and its end; between them the peer's file may change, the
  node may stop, and other transfers may be opened and placed in any order.
* Transfers of one content share what is staged, and its first destination, as in
  receiver.rs:81-112; they all end with the first that completes. A change of the
  peer's file during a transfer makes it `spoiled`: the transfer may still
  complete, as when the file was replaced and the old one is still open, or fail.
* Sends that run at the same time may fail without a fault, because they take
  each other's acknowledgements (`StolenAck.cfg`): that is `Garble`.
* `suppress_path` and what follows it up to the row are not separated by the end
  of the suppression: its 10 s outlast one call of the database.
* A manifest holds all events after the cursor and is not lost: pages and
  timeouts are in `Replication`. The peer's own reconciliation is not modelled;
  its files are as its catalog says.
* Users make no copies of files: the catalog rejects those, which is
  `CopiedFile.cfg` of `Replication`.
* A node starts, with nothing, or with files it recorded, pulled, or does not
  know yet; a name may have different files on both sides. What is there at the
  start was made at clock reading 1.
* `Gone`, the content of a path without a file, is no content.

In `Connection`:

* A message is its kind; only pings and pongs have numbers. Whose answer is
  whose is in `Transfer` and `Replication`.
* Timeouts are possible as soon as a task waits, which covers slow networks.
* A call stands for one round of a transfer, one session, or one notice.

In `Manager`:

* A dial and both handshakes succeed together when the address is up, and fail
  together when it is not; what follows a successful dial is one step.
* An address leads to one node for good. Dialling a known peer at an address that
  another node has been given since (manager.rs:430-432) is left out.
* A connection dies when its address goes down, and pings then miss. A ping of a
  living connection may miss too, which is counted as an event.
* Connections that are replaced stay open in the code, because their request
  loop holds them (manager.rs:282-297); the model forgets them.
* Attempts of the accept task, one per connection in the code, follow each
  other; a peer is dialled by one of them at a time.
* The stable sort of candidates (manager.rs:133) is given by what defines it: a
  permutation, in the order of priorities, that keeps the order of equals.
  `MCManager` has TLC check, in `SortIsStable`, that there is one such list: the
  local addresses as they were, then the others.

In `Transfer`:

* A content is a sequence of chunks and is its own hash. The transfer id, a
  prefix of the hash, is the content too: collisions of prefixes are left out.
  A chunk is one datum; the short last chunk is one like the others.
* A destination is a folder and a clean path. The fallback to the default
  directory for an unregistered folder is a destination like any other.
* A chunk carries the hash of its own data, computed from the same buffer, over
  a reliable stream: its check cannot fail and has no action.
* The state file is written in place (state.rs:48-53), so a crash may leave it
  unreadable; an unreadable state counts as none, as in the code. What a process
  wrote survives its crash: power loss is not modelled.
* Only the disk error of a missing partial file is modelled.
* The notice to the completion worker (receiver.rs:237) is in `Sync`.

In `Replication` and the modules below it:

* A hash stands for a file's content and size. A path is a name with the marks
  that conflict resolution added to it. The mark has the whole origin and time;
  the code prints the first 8 characters of the origin.
* `file_id` is what the code makes of it: a function of the content the file
  was first seen with, plus one `_conflict` per branching. It is the primary key
  of the table over all folders, and this is modelled. SQLite resolves the
  clash named in ON CONFLICT first and fails the statement on the other one.
* A clock reading is any member of `Time` at any step: clocks of different
  nodes are not comparable, and seconds tie.
* The watcher compares a file's hash with the catalog before it records it
  (coordinator.rs:624); comparison and recording are one step.
* A `SyncNotify` is not a message of the model. It is repeated every 5 s and may
  be stale, so `StartSync` may happen whenever the cursor is behind.
* On restart the registered folders are read from the database again, as the
  command line and the desktop program do (their `main.rs`). The FFI does not.
* A conflict branch keeps the node's own row and adds a row for the peer's
  content, as service.rs does.
* File data is not part of this model: a row is written when its pull request is
  sent, which is the code's order too (coordinator.rs:451-459). `Sync` has it.

## The runs

Model values stand for nodes, folders, names, hashes, peers and chunks.
`replication` and `transfer`, which check safety only, use symmetry: nodes and
contents, none of which has a special role, in the first; the two peers with
all that is theirs, and the two chunks, in the second.

| Run | Bounds | Shows |
|---|---|---|
| `replication` | 2 nodes, 1 folder, 1 name, 2 contents, 3 changes, 1 fault, 265 thousand states | all invariants and the refinement of `EventSourcing`, with conflicts, branches, failing transactions, late manifests, relays |
| `catch_up` | 2 changes without faults, or 1 change and 2 faults; 2 clock readings, 52 thousand states | under fairness all cursors reach the end of the peers' logs and stay there, with timeouts, lost connections, restarts and the late answers they leave |
| `exchange` | all pairs of reports with versions 1..3, 2 contents, 2 authors, 2 clock readings | decisions made independently fit together and lose nothing |
| `transfer` | 2 peers, 2 files of 2 chunks, 1 change of a file, 324 thousand states | types and the refinement of `AtomicPlacement` while two peers send the same content, different ones, or a file that changes under way |
| `transfer_faults` | 1 send, contents of 1 and 2 chunks, 1 change, 2 late answers, 1 crash or lost connection | a send reports success only for content in place, and nothing but whole content is placed |
| `resume` | contents of 0, 1 and 2 chunks, 2 crashes or lost connections | chunks a resumed transfer skips are in the partial file, and a send that is retried succeeds |
| `sync` | 1 file of this node's users, 1 of the peer's, 1 change of each, 2 ends of the process, refused requests or failed transfers, channels of 1, 468 thousand states | downloads with a row are not recorded as changes, changes are, the peer's changes arrive unless a transfer failed or an older one came last, and rows without their content are accounted for |
| `connection` | 1 transfer, 1 session, 2 pings, channels of 1, 3 messages to write, the network lost at any moment, 34 thousand states | pings tell the truth; pings and calls end |
| `manager` | 1 peer, 2 local addresses and 1 of Tailscale, 1 of them added by hand, 2 events, 292 thousand states | every connection is looked after, candidates lead to their peer, and a peer that can be reached is connected, over its first local address when that answers |

These bounds let the interesting cases happen. Three changes are two authors
plus one successor, the least that makes a conflict, a branch of the branch and
a rejected row. Two contents tell equal from different. Two clock readings make
every order of two changes and the tie. Versions are only compared, and 1..3
has every order of two with a gap. One fault at any moment meets every phase of
a session; the second one in `catch_up` meets what the first left behind.
`Budget` is the set of pairs of changes and faults that may be spent together.
`MaxRequests` bounds late answers, `MaxMarks` the marks on one path: a decision
that would exceed it is not taken (`ApplyAction`), and the liveness runs set it
high enough that this does not happen. The page is larger than any backlog
except in `PageLimit.cfg`.

In `sync` a change of each side with two faults is enough for a restart between
any two steps of a download - request, row, hash, opening, placement, notice - and
a second fault before its scan. One change of the peer makes two versions of a
file, so two transfers to one path cross when both are branched off. `FirstHash`
is what files contain at the start and `LaterHash` what users write later. Channels of one
message are full as soon as a second comes, which is when notices are dropped.
The initial states hold what earlier changes left. One clock reading is enough
where no conflict is decided by clocks. In `connection` a channel of one
message fills as one of 128 does, with fewer messages; the write channel of
three has room for all that one end sends at once, which is the case the code is
made for, and `blocked_connection` is the other one. In `manager` two events are
the least that a connection that is lost and one that comes back, or a
connection accepted while another dies, need. Three were run once, with the
first two addresses alone (421 thousand states).

Two chunks are the least of which one can be there and the other not, or belong
to another content: the contents `<<u, v>>` and `<<v, u>>` differ everywhere, so
every mixture is wrong. A third content, one chunk long, makes files shrink and
grow. The empty content is the one-empty-chunk case of sender.rs:78-82. Two
peers are needed for two handlers to alternate on one partial file. Retries are
unbounded; `MaxLate` bounds the timeouts whose answer comes later.

Fairness of `Replication`. `WF` on each session's next step and on each answer
of a peer. The peers repeat their notification every 5 s
(coordinator.rs:689-710), so a session that can start is asked to again and
again, and the runtime schedules every task that can run. Users, timeouts,
breaks and restarts have no fairness. A step of a session that waits for a
manifest is not enabled, so nothing is assumed of it but that the peer answers.

Fairness of `Transfer`. `WF` on the next step of each send and on the next
request of each connection: both are tasks of the runtime. It includes `Start`:
`RetriesSucceed` says that a send that is asked for again and again succeeds.
The code does not repeat a failed pull by itself; that is a matter of the
coordinator. `GiveUp` is the send's own timeout when no answer can come any
more. Changes, late answers, breaks and crashes have no fairness.

Fairness of `Sync`. `WF` on `Tasks`, which is everything the runtime does: start
and scan, debouncer, watcher worker, sessions, the peer's sends, placement and the
completion worker. It only says that some task runs while one can; as all of them
come to an end when users and failures do, this is enough, and it is less than the
runtime gives each task. `StartScan` is among them because a node that is down is
started again some time. Users, failures and ends have none.

Fairness of `Connection`. `WF` on writer, reader, request loop and what a task
does once it has begun, its timeout included; none on the beginning of calls and
pings, nor on the loss of the network. A reader or a send that waits for room is
not enabled and owes nothing.

Fairness of `Manager`. `WF` on the maintenance loop, on each task's attempt, on
`AddAccepted`, and on `Discover` of each address: beacons are sent every 3 s
(discovery.rs:168-190). The network, peers that dial and users have none.

### Where the code and its documents disagree

Each of these runs states what a document or comment says and TLC finds a
behaviour of the code that contradicts it.

| Run | Property | What happens |
|---|---|---|
| `wedge` | `EventuallyCaughtUp` | both nodes branch the other's version under the same `file_id`; each then rejects the other's conflict row and every later session fails at that event |
| `lost_edit` | `OverwrittenWasRecorded` | a session decides by the catalog while a user's file is on disk and not recorded yet: the peer's file of the same path is downloaded over it, and the suppression of the path drops the pending report |
| `blocked_connection` | `SessionsEnd` | acknowledgements that come after their timeouts fill a channel nobody drains; both readers and both request loops wait, and a session's request waits for room for ever |

`CursorCoversFiles` is true with backlogs within one page, which is what
`replication` checks, and false otherwise (`PageLimit.cfg`). `EventuallyCaughtUp` is true of two
changes without faults and of one change with two. Three changes wedge two
nodes; so do two changes and a restart between them, after which a node takes
the old version in its peer's log for a concurrent edit. `CallsEnd` and `PingsEnd`
are true while no more requests are under way than the channels hold, which is
what `connection` checks.

### Further configurations

Behaviours found in the same way, kept as configurations to run by hand
(`tlc -config <cfg> <module>`): TLC reports a violation in each.

| Configuration | Module | Property | What happens |
|---|---|---|---|
| `Resurrection.cfg` | `MCReplication` | `DeletionsRespected` | a file created and deleted before the first pull arrives in one manifest; the deletion is judged against a catalog without the file and ignored |
| `StaleDecision.cfg` | `MCReplication` | `VersionsMonotone` | a change between a decision and its application is overwritten with a lower version |
| `PageLimit.cfg` | `MCReplication` | `CursorCoversFiles` | the cursor jumps to the newest number although the page did not reach it |
| `LateAck.cfg` | `MCTransfer` | `RetriesSucceed` | an answer that arrives after its timeout is taken by the next send, which fails and leaves its own answer to the one after it |
| `FalseConflict.cfg` | `MCReplication` | `ConflictsAreConcurrent` | a node reads its own old version back from its peer and branches a conflict file for it |
| `ConcurrentOverwrite.cfg` | `MCReplication` | `NoConcurrentOverwrite` | a higher version with a later clock reading replaces content its author never saw |
| `CopiedFile.cfg` | `MCReplication` | `ChangesAreRecorded` | a second file with the same content has the same `file_id` and is rejected by the primary key |
| `TwoFolders.cfg` | `MCReplication` | `CursorCoversFiles` | a late manifest of one folder moves the cursor of another |
| `StolenAck.cfg` | `MCTransfer` | `VerifiedIsPlaced` | of two sends on one connection, one takes the completion acknowledgement of the other (sender.rs:202 compares no id) |
| `ResumedElsewhere.cfg` | `MCTransfer` | `VerifiedFillsDest` | the same content sent to a second destination resumes the first transfer and is placed there |
| `ChangedFile.cfg` | `MCTransfer` | `RetriesSucceed` | a chunk of a changed file counts as complete and is skipped ever after, although the content failed its check |
| `ShrinkingFile.cfg` | `MCTransfer` | `RetriesSucceed` | the size is read before the hash; a file that shrinks in between leaves a partial file that is too long for good |
| `CrashAfterRename.cfg` | `MCTransfer` | `ResumeSound` | a crash between rename and removal of the state leaves a state that claims every chunk of a file that is gone |
| `EchoOnStart.cfg` | `MCSync` | `NoEcho` | sessions run before the initial scan is over (coordinator.rs:541-557); the scan records the old content of a file whose newer content was just decided on |
| `LatePlacement.cfg` | `MCSync` | `PeerChangesArrive` | a file that the peer removed while it was on its way is placed after the deletion, and stays |
| `LostPull.cfg` | `MCSync` | `AllPeerChangesArrive` | a transfer that fails is not asked for again: the catalog has the row, and the cursor has passed it |
| `Overtaken.cfg` | `MCSync` | `AlwaysAccountedFor` | both versions of a file that differs on the two sides are branched off to one conflict path; the send of the older one was opened before the peer changed the file, ends after the newer one, and its content is renamed over the newer and stays |
| `EchoAfterCrash.cfg` | `MCSync` | `NoDownloadRecorded` | a file is placed and the process ends before its row is written (coordinator.rs:451-459); the scan of the next start records it as a change of this node |
| `ScanGap.cfg` | `MCSync` | `EditsAreRecorded` | a file written after it was scanned and before the watcher starts is not recorded until the next start |
| `RemovedWhileDown.cfg` | `MCSync` | `EditsAreRecorded` | a file removed while the node is down stays live in the catalog, because the scan only looks at files that exist |
| `AnyLan.cfg` | `MCManager` | `AnyLanRestored` | only the first local address of a peer is tried when it is connected over Tailscale (manager.rs:374-377); a peer that moved to another one stays on Tailscale |
| `LiveRemoved.cfg` | `MCManager` | `OnlyDeadRemoved` | a peer dials between the lookup and the removal of its dead connection (manager.rs:309-360), and the new connection is removed |

Met while modelling, and visible in the models without a property of their own:

* With two clock readings a conflict branch whose path clashes in `file_id` is
  rejected and its session repeated, pulling the same file each time: the pull is
  sent before the catalog is written (coordinator.rs:492-506).
* The branch of a conflict pulls the original path, and the peer sends what is
  there by then; the row of the conflict file may thus lag behind its content.
* When the peer behind an address added by hand is known, the placeholder is
  removed with all its candidates (manager.rs:432), and only the one that
  answered is handed on, behind the others, unsorted (436).
* One send that waits for room in the ping of a peer stalls the maintenance of
  all peers (manager.rs:308-329).

## The proofs

`tlapm` checks these for all constants that satisfy `DbAssumption` ("remote" is
no node id, the empty hash is no content, times are numbers) and
`ReplicationAssumption` (the budget is pairs of numbers, a page holds
something): any number of nodes, folders, names and contents, changes and faults.

| Theorem | States |
|---|---|
| `TypeCorrect` | `TypeOK`: what is downloaded or branched is always an upsert with content and a real author, so the placeholders of an applied deletion never become content |
| `LogAlwaysCovers` | `LogCoversCatalog`: every row is backed by an event of the node's own log, although the append is skipped when the event seems to be there |
| `CursorsStayInLogs` | `CursorWithinLog`: no cursor is past the end of its peer's log |
| `RefinesEventSourcing` | every behaviour of `Replication` is one of `EventSourcing` |
| `ChangesHaveAuthors` | in `EventSourcing`, every event goes back to its author |
| `ChangesGoBackToUsers` | hence every event of every node's log does |
| `CursorsPassNoFile` | `CursorCoversFiles`: no cursor passes an event of a file that the node has no row of, with one shared folder and as long as no manifest is cut off by its limit (`PagesSuffice`) |

None of the invariants is inductive alone. That a relayed event quotes the
peer's log depends on what the session decided, that on the manifest it took,
and that on the log when the manifest was made. `IInv` follows this path:
`DbsInv` (databases are well-typed and their logs cover them), `ChannelsInv`
(the events of a waiting manifest are those of the sender's log at their
numbers, and its newest number is within that log), `SessionsInv` (each pending
decision reports an event of the peer's log, and the session's newest number is
within it), `CursorsInv` and `CountersInv`. Logs only grow, so each of these is
stable under a step of anyone else; that is the lemma the steps share. The proof
has one lemma per action, then `IInv` as an invariant, and each theorem from it.
For the refinement each step is an `Author`, a `Relay` or leaves the logs alone.
`ChangesHaveAuthors` needs no more than transitivity of `Reports`.

`CursorsPassNoFile` follows the same path with what each station must cover. The
node has rows of all files up to its cursor, so also up to the number a request
names; a manifest has every event up to its newest number or the node knew its
file when it asked; a session holds the download that will make the row, or the
row is there. Rows are never removed (`StepKeeps`), so this holds of answers
however late, of sessions of a lost connection, and after a restart. Both
hypotheses are needed: the code moves the cursor to the newest number although
the page ended before it (`PageLimit.cfg`), and takes one folder's answer for
another's (`TwoFolders.cfg`).

For `Transfer`, under `TransferAssumption` (contents are sequences of chunks, the
chunk of unwritten regions is none of them, a send has a peer, a file and a
destination, the bounds are numbers), for any number of peers, sends, files,
contents of any length, changes, timeouts and crashes:

| Theorem | States |
|---|---|
| `TypeCorrect` | `TypeOK` |
| `StatesGoBackToAnnouncements` | every state of a transfer, active or saved, has a destination that its content was announced for |
| `PlacesAtomically` | `ImplementsAtomicPlacement`: every behaviour of `Transfer` is one of `AtomicPlacement` |
| `SuccessIsPlaced` | `VerifiedIsPlaced`, when no two sends share a connection (`OneSendEach`): a send that reports success has its content in place |
| `SkippedChunksAreThere` | `ResumeSound`, when no file changes and no process ends between the rename and the removal of the state (`Undisturbed`): chunks that a resumed transfer skips are in the partial file |

The receiver renames to the destination in its state, not to one in the message
that completes the transfer. So the refinement needs `Announced`: the
`TransferInit`s on their way and the states in memory and on disk all belong to
announcements. A resumed state keeps the destination of an earlier announcement
of the same content, a recorded chunk does not touch it, and a crash only
forgets. The content placed is its transfer id because the whole file was
hashed; this alone keeps mixtures out, whoever wrote the chunks.

Nothing compares the id of an acknowledgement, so `SuccessIsPlaced` has to go by
the order of messages on a connection. Before each `TransferComplete` on its way
comes the `TransferInit` of the same content, and before each acknowledgement of
completion that of the opening; a send that waits for the opening takes what is
first and ends with an error when that is no opening. So a send that got as far
as to wait for completion has only its own ahead of it, whatever earlier sends
left behind, and late answers make it fail rather than succeed. With two sends
on one connection one of them takes the other's (`StolenAck.cfg`).

`SkippedChunksAreThere` needs to know of every chunk on its way that it is its
content's (`ChunksInv`), which it is when files do not change after they were
hashed (`SourcesInv`), and of every state, active or saved, that the chunks it
claims are in the partial file (`Backed`). Senders that share a content share
the file, and only ever write the same data to the same place. A file that
changes breaks the first, a crash after the rename the second
(`ChangedFile.cfg`, `CrashAfterRename.cfg`).

For `Sync`, under `DbAssumption` and `SyncAssumption` (a node and its peer, whose
users write different contents, and bounds that are numbers), for any names,
folders, contents, clock readings, channel sizes, changes and failures, and from
every initial state:

| Theorem | States |
|---|---|
| `TypeCorrect` | `TypeOK`: also that both bounded channels keep their capacity and pending decisions are well formed |
| `DownloadsAccountedFor` | `DownloadAccountedFor`: a row that shows content of the peer's has it or newer content on disk, asked for or on its way, or a transfer to it failed, or an older one was placed last, or the peer removed the file since |

Several transfers to one path may be on their way, in no order. So `IInv` cannot say
which of them stays; it says of each thing claimed that it is settled. A path is
claimed (`Claimed`) by a row that shows the peer's content, and already by a session
that has asked for that content and not written the row. What is claimed is a
version that the peer's users wrote (`Written`), and it is settled (`Settled`): the
content or a later one of the file's is on disk, or in a send or transfer to the
path; or a request for the path has not been served; or the path is `lost` or
`overtaken`, or the file was removed later. Four facts keep this:

* What the peer has when it serves a request is the claimed content or later, and
  if it has no file it removed it later (`PeerLatest`), because versions in its log
  increase (`PeerLogOK`) and the row is the last of them.
* Content placed over content that settles a claim settles it too, or is older, and
  then the path is `overtaken` (`PlacedOver`).
* Whatever ends without being placed is `lost`, and transfers of one content to
  another path than the one in the state file with it.
* The peer's log only grows, so nothing that settles a claim ceases to
  (`LogStays`).

A deletion that a session is to carry out has a later version than the row
(`DeletesInv`), because decisions are applied in the order of the log; so the claim
whose file it removes from the disk is settled by the peer's removal.

The exception for `overtaken` is needed (`Overtaken.cfg`), and so is that for `lost`
(`LostPull.cfg`): nobody compares the content of a placed file with the catalog.

For `Manager`, under `ManagerAssumption` (an address has an owner and a
transport, the placeholder is no peer), for any peers, addresses, attempts and
events:

| Theorem | States |
|---|---|
| `TypeCorrect` | `TypeOK`: also that a peer is never given more than three misses |
| `ConnectionsAreMaintained` | `ActiveIsMaintained`: a connection's peer has a candidate, so the maintenance loop visits it, or its accepted address is about to be added |
| `CandidatesAreOwn` | `OwnCandidates`: a list has no address twice and none of another peer, and a connection leads to the peer it is filed under |

`IInv` adds to these that an attempt dials addresses of its peer, which has one
(`AttemptsInv`) and that the third miss is there only while the loop removes the
connection (`MissesInv`). A list of a peer only grows (`ListsGrow`), and by its
own addresses, so a copy stays right however long its dials take and a peer that
once had a candidate keeps one; only the placeholder's list is ever removed, and
what it is handed on to is the peer that answered. An accepted connection is in
`active_connections` before its address is a candidate; `AcceptedBecomeCandidates`
is that step.

For `Connection`, under `ConnectionAssumption` and `LimitAssumption` (two ends, a
task has an end and a kind, capacities are positive), for any number of tasks,
calls and pings and any capacities:

| Theorem | States |
|---|---|
| `TypeCorrect` | `TypeOK`: the channels keep their capacities and hold messages of their kind |
| `PingsAreHonest` | `SuccessIsFresh`: a ping that succeeds was answered by the peer's reader |

A pong is taken from a channel that the reader filled from the wire, where the
other end's writer put it. `IInv` therefore says of each of these queues that
its messages are of `Sent(e)`: what end e may have sent by now, its pings up to
the current number and pongs of pings it answered. `Sent(e)` only grows
(`SentGrows`), so queues that a step leaves alone stay right, and each action
has only the one queue it changes to account for.

For `Exchange`, under `DbAssumption` and `ExchangeAssumption` (two different
nodes, one key, "never heard of the file" is no event), for all contents,
versions, authors and clock readings and either order of the two sides:

| Theorem | States |
|---|---|
| `DecisionsAlwaysAgree` | `DecisionsAgree`: both sides end without the file, with one content, or each with its own and the other's in a conflict file |
| `NothingIsLost` | `NothingLost`: what one side replaces, the other keeps or branches |

`IInv` says that each replica has the database it started with or the `Outcome`
of its decision on the manifest it fetched. `Outcomes` restates a decision in
terms of the two last events only, so that the two sides can be compared: two
events cannot supersede each other (their versions are compared strictly), a
deletion applies to one side exactly when the other does not resurrect the
file, and a branch is always inserted, because its path has one mark more and
its file id one suffix more than the file's.

Only model-checked: the action property `DownloadsNotRecorded` of `Sync`, and all
liveness (`EventuallyCaughtUp`, `RetriesSucceed`, `EditsAreRecorded`,
`PeerChangesArrive`, `PingsEnd`, `CallsEnd`, `Reconnects`, `LanRestored`). Liveness
under fairness and ENABLED are out of the prover's reach, and so is induction
over data: that the sort of candidates has one result is checked by TLC, the
proofs use only its contract.

## Not modelled

The encoding of beacons, the Tailscale query, pairing, identity and the codec are
I/O or pure functions that no property here tells apart. The front ends call the
coordinator and the manager and keep no state of the mesh. The remote folder
list (`peer_folders`) is only displayed. `folder_members` is a table that nothing
writes. Handshakes that fail half way, disk errors, power loss and collisions of
hashes or of their prefixes are left out. Integers are 64 bit and count changes
of a user; they do not overflow.

## Plan

Done: `MetadataDb`, `Reconciler`, `Exchange`, `Replication`, `EventSourcing`,
`Transfer`, `AtomicPlacement`, `Watcher`, `Sync`, `Connection`, `Manager`; proofs
of every safety invariant and both refinements.

Left: a proof of `DownloadsNotRecorded`. It needs an invariant that ties the disk,
the debouncer, the transfers on their way, the sessions and the catalog of a file
together, and a hypothesis that the peer's users copy no files: a download whose
`file_id` is taken is asked for without a row (coordinator.rs:451-459), and then
recorded.

\* A pull that failed.
SPECIFICATION FairSpec
CONSTANTS
  Node = {self, peer}
  Self = self
  Peer = peer
  Folder = {f}
  Name = {y}
  Edited = {}
  PeerEdited = {y}
  Hash = {u1, u2, p1, p2}
  UserHash = {u1, u2}
  PeerHash = {p1, p2}
  FirstHash = {u1, p1}
  LaterHash = {u2, p2}
  Time <- OneTime
  Remote = remote
  EmptyHash = empty
  WritePhases = {"down", "running"}
  RemovePhases = {"running"}
  SyncPhases = {"running"}
  ChangeLimit = 1
  NoticeLimit = 1
  MaxEdits = 1
  MaxPeerEdits = 1
  MaxFaults = 1
PROPERTY AllPeerChangesArrive
\* Users and failures are bounded, so the node may come to rest.
CHECK_DEADLOCK FALSE

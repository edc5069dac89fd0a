\* The process ends between the placement of a file and its row.
SPECIFICATION Spec
CONSTANTS
  Node = {self, peer}
  Self = self
  Peer = peer
  Folder = {f}
  Name = {y}
  Edited = {}
  PeerEdited = {y}
  Hash = {u1, p1, p2}
  UserHash = {u1}
  PeerHash = {p1, p2}
  FirstHash = {u1, p1}
  LaterHash = {p2}
  Time <- OneTime
  Remote = remote
  EmptyHash = empty
  WritePhases = {}
  RemovePhases = {}
  SyncPhases = {"running"}
  ChangeLimit = 1
  NoticeLimit = 1
  MaxEdits = 0
  MaxPeerEdits = 1
  MaxFaults = 1
PROPERTY NoDownloadRecorded
\* Users and failures are bounded, so the node may come to rest.
CHECK_DEADLOCK FALSE

\* A file is created and deleted before the peer first asks.
SPECIFICATION Spec
CONSTANTS
  Node = {a, b}
  Folder = {f}
  Name = {x}
  Hash = {h1, h2}
  Time <- OneTime
  Remote = remote
  EmptyHash = empty
  PageLimit = 9
  Budget <- TwoEdits
  MaxRequests = 1
  MaxMarks = 1
INVARIANTS
  DeletionsRespected
\* Users and faults are bounded, so the mesh may come to rest.
CHECK_DEADLOCK FALSE

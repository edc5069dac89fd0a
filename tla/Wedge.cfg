\* A file that both nodes have is changed on both.
SPECIFICATION FairSpec
CONSTANTS
  Node = {a, b}
  Folder = {f}
  Name = {x}
  Hash = {h1, h2}
  Time <- OneTime
  Remote = remote
  EmptyHash = empty
  PageLimit = 9
  Budget <- ThreeEdits
  MaxRequests = 1
  MaxMarks = 3
PROPERTIES
  EventuallyCaughtUp
\* Users and faults are bounded, so the mesh may come to rest.
CHECK_DEADLOCK FALSE

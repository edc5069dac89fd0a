\* Successive changes of one node, relayed back to it.
SPECIFICATION Spec
CONSTANTS
  Node = {a, b}
  Folder = {f}
  Name = {x}
  Hash = {h1, h2}
  Time <- OneTime
  Remote = remote
  EmptyHash = empty
  PageLimit = 9
  Budget <- TwoEdits
  MaxRequests = 1
  MaxMarks = 1
PROPERTIES
  ConflictsAreConcurrent
\* Users and faults are bounded, so the mesh may come to rest.
CHECK_DEADLOCK FALSE

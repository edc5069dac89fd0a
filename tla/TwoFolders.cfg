\* Two folders pulled over one connection.
SPECIFICATION Spec
CONSTANTS
  Node = {a, b}
  Folder = {f, g}
  Name = {x}
  Hash = {h1, h2}
  Time <- OneTime
  Remote = remote
  EmptyHash = empty
  PageLimit = 9
  Budget <- TwoEdits
  MaxRequests = 2
  MaxMarks = 1
INVARIANTS
  CursorCoversFiles
\* Users and faults are bounded, so the mesh may come to rest.
CHECK_DEADLOCK FALSE

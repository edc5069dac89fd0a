\* Changes on both nodes before either pulls.
SPECIFICATION Spec
CONSTANTS
  Node = {a, b}
  Folder = {f}
  Name = {x}
  Hash = {h1, h2}
  Time <- MCTime
  Remote = remote
  EmptyHash = empty
  PageLimit = 9
  Budget <- FourEdits
  MaxRequests = 1
  MaxMarks = 1
PROPERTIES
  NoConcurrentOverwrite
\* Users and faults are bounded, so the mesh may come to rest.
CHECK_DEADLOCK FALSE

\* A local change between a decision and its application.
SPECIFICATION Spec
CONSTANTS
  Node = {a, b}
  Folder = {f}
  Name = {x}
  Hash = {h1, h2}
  Time <- OneTime
  Remote = remote
  EmptyHash = empty
  PageLimit = 9
  Budget <- ThreeEdits
  MaxRequests = 1
  MaxMarks = 1
PROPERTIES
  VersionsMonotone
\* Users and faults are bounded, so the mesh may come to rest.
CHECK_DEADLOCK FALSE

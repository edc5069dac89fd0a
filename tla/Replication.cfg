\* Three changes and one fault anywhere, in every order.
SPECIFICATION Spec
CONSTANTS
  Node = {a, b}
  Folder = {f}
  Name = {x}
  Hash = {h1, h2}
  Time <- OneTime
  Remote = remote
  EmptyHash = empty
  PageLimit = 9
  Budget <- ThreeEditsOneFault
  MaxRequests = 2
  MaxMarks = 1
SYMMETRY Symmetry
INVARIANTS
  TypeOK
  LogCoversCatalog
  EventProvenance
  CursorCoversFiles
  CursorWithinLog
PROPERTIES
  ImplementsEventSourcing
\* Users and faults are bounded, so the mesh may come to rest.
CHECK_DEADLOCK FALSE

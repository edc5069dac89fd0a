\* Two changes, or one change and two faults; two clock readings.
SPECIFICATION FairSpec
CONSTANTS
  Node = {a, b}
  Folder = {f}
  Name = {x}
  Hash = {h1, h2}
  Time <- MCTime
  Remote = remote
  EmptyHash = empty
  PageLimit = 9
  Budget <- TwoEditsOrTwoFaults
  MaxRequests = 3
  MaxMarks = 3
PROPERTIES
  EventuallyCaughtUp
\* Users and faults are bounded, so the mesh may come to rest.
CHECK_DEADLOCK FALSE

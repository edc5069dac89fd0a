\* No more requests than the channels hold, and the network may be lost.
SPECIFICATION FairSpec
CONSTANTS
  End <- MCEnd
  Caller <- Ordinary
  EndOf <- MCEndOf
  Kind <- MCKind
  WriteLimit = 3
  WireLimit = 1
  InboundLimit <- AllOne
  MaxCalls = 1
  MaxPings <- PingsOfA
  MayCut = TRUE
INVARIANTS
  TypeOK
  SuccessIsFresh
PROPERTIES
  PingsEnd
  CallsEnd
\* Calls and pings are bounded, so the connection may come to rest.
CHECK_DEADLOCK FALSE

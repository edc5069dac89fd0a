\* More transfers of one end than the channels hold, and a session of the other.
SPECIFICATION FairSpec
CONSTANTS
  End <- MCEnd
  Caller <- Overload
  EndOf <- MCEndOf
  Kind <- MCKind
  WriteLimit = 1
  WireLimit = 1
  InboundLimit <- AllOne
  MaxCalls = 1
  MaxPings <- NoPings
  MayCut = FALSE
PROPERTY SessionsEnd
CHECK_DEADLOCK FALSE

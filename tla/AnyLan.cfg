\* The peer may have moved to another local address.
SPECIFICATION FairSpec
CONSTANTS
  Peer = {"p"}
  Placeholder = "remote"
  Address <- Three
  Owner <- MCOwner
  Transport <- MCTransport
  Heard <- Three
  Manual = {}
  MaxEvents = 1
PROPERTIES
  AnyLanRestored

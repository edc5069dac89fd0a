\* A peer with a local address that beacons tell, one that a user adds, and one of
\* Tailscale.
SPECIFICATION FairSpec
CONSTANTS
  Peer = {"p"}
  Placeholder = "remote"
  Address <- Three
  Owner <- MCOwner
  Transport <- MCTransport
  Heard <- Firsts
  Manual <- Seconds
  MaxEvents = 2
INVARIANTS
  TypeOK
  ActiveIsMaintained
  OwnCandidates
PROPERTIES
  Reconnects
  LanRestored

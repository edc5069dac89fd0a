\* A peer dials while the maintenance loop is about to drop its connection.
SPECIFICATION Spec
CONSTANTS
  Peer = {"p"}
  Placeholder = "remote"
  Address <- Three
  Owner <- MCOwner
  Transport <- MCTransport
  Heard <- Firsts
  Manual <- Seconds
  MaxEvents = 2
PROPERTIES
  OnlyDeadRemoved

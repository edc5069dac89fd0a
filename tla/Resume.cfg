\* One send, stable source, two lost connections or crashes.
SPECIFICATION FairSpec
CONSTANTS
  p = p
  q = q
  f = f
  g = g
  d = d
  e = e
  u = u
  v = v
  Peer = {p}
  File = {f}
  Dest = {d, e}
  Datum = {u, v}
  Zero = zero
  Content <- Lengths
  Send <- OneSend
  CrashPoints = {"init", "chunk"}
  MaxEdits = 0
  MaxLate = 0
  MaxFaults = 2
INVARIANTS
  ResumeSound
PROPERTIES
  RetriesSucceed

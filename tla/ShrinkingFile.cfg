\* The file shrinks between the reading of its size and of its content.
SPECIFICATION FairSpec
CONSTANTS
  p = p
  q = q
  f = f
  g = g
  d = d
  e = e
  u = u
  v = v
  Peer = {p}
  File = {f}
  Dest = {d, e}
  Datum = {u, v}
  Zero = zero
  Content <- Lengths
  Send <- OneSend
  CrashPoints = {}
  MaxEdits = 1
  MaxLate = 0
  MaxFaults = 0
PROPERTIES
  RetriesSucceed

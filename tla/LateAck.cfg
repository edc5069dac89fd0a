\* One answer arrives after its timeout.
SPECIFICATION FairSpec
CONSTANTS
  p = p
  q = q
  f = f
  g = g
  d = d
  e = e
  u = u
  v = v
  Peer = {p}
  File = {f}
  Dest = {d, e}
  Datum = {u, v}
  Zero = zero
  Content <- OneChunk
  Send <- OneSend
  CrashPoints = {}
  MaxEdits = 0
  MaxLate = 1
  MaxFaults = 0
PROPERTIES
  RetriesSucceed

\* The file changes while it is sent, and changes back.
SPECIFICATION FairSpec
CONSTANTS
  p = p
  q = q
  f = f
  g = g
  d = d
  e = e
  u = u
  v = v
  Peer = {p}
  File = {f}
  Dest = {d, e}
  Datum = {u, v}
  Zero = zero
  Content <- TwoContents
  Send <- OneSend
  CrashPoints = {}
  MaxEdits = 2
  MaxLate = 0
  MaxFaults = 0
PROPERTIES
  RetriesSucceed

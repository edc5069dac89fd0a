\* The same content is sent to two destinations.
SPECIFICATION Spec
CONSTANTS
  p = p
  q = q
  f = f
  g = g
  d = d
  e = e
  u = u
  v = v
  Peer = {p}
  File = {f, g}
  Dest = {d, e}
  Datum = {u, v}
  Zero = zero
  Content <- OneChunk
  Send <- OnePeer
  CrashPoints = {}
  MaxEdits = 0
  MaxLate = 0
  MaxFaults = 1
INVARIANTS
  VerifiedFillsDest

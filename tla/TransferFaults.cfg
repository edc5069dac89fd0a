\* One send with late answers, a changing file and a crash anywhere.
SPECIFICATION Spec
CONSTANTS
  p = p
  q = q
  f = f
  g = g
  d = d
  e = e
  u = u
  v = v
  Peer = {p}
  File = {f}
  Dest = {d, e}
  Datum = {u, v}
  Zero = zero
  Content <- ThreeContents
  Send <- OneSend
  CrashPoints = {"init", "chunk", "complete"}
  MaxEdits = 1
  MaxLate = 2
  MaxFaults = 1
INVARIANTS
  VerifiedIsPlaced
PROPERTIES
  ImplementsAtomicPlacement

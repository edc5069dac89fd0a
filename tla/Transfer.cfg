\* Two peers send to one node; a changing file, a broken connection or a crash.
SPECIFICATION Spec
CONSTANTS
  p = p
  q = q
  f = f
  g = g
  d = d
  e = e
  u = u
  v = v
  Peer = {p, q}
  File = {f, g}
  Dest = {d, e}
  Datum = {u, v}
  Zero = zero
  Content <- TwoContents
  Send <- TwoPeers
  CrashPoints = {"init", "chunk", "complete"}
  MaxEdits = 1
  MaxLate = 0
  MaxFaults = 0
SYMMETRY Symmetry
INVARIANTS
  TypeOK
PROPERTIES
  ImplementsAtomicPlacement

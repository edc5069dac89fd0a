\* The receiver crashes between the rename and the removal of the state.
SPECIFICATION Spec
CONSTANTS
  p = p
  q = q
  f = f
  g = g
  d = d
  e = e
  u = u
  v = v
  Peer = {p}
  File = {f}
  Dest = {d, e}
  Datum = {u, v}
  Zero = zero
  Content <- OneChunk
  Send <- OneSend
  CrashPoints = {"complete"}
  MaxEdits = 0
  MaxLate = 0
  MaxFaults = 1
INVARIANTS
  ResumeSound

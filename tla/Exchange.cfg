SPECIFICATION Spec
CONSTANTS
  A = a
  B = b
  f = f
  x = x
  Node = {a, b}
  Folder = {f}
  Name = {x}
  Hash = {h1, h2}
  Time <- MCTime
  Remote = remote
  EmptyHash = empty
  K <- MCKey
  Version <- MCVersion
  NoEvent = noevent
INVARIANTS
  DecisionsAgree
  NothingLost
CHECK_DEADLOCK FALSE

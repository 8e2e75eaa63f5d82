\* three nodes, every order of their events
SPECIFICATION Spec
CONSTANTS
  Nodes <- ThreeNodes
  Versions <- OneVersion
  Pings <- TwoPings
  Lossy = FALSE
  Ordered = FALSE
  Bounds <- Once
  NoPlayer = NoPlayer
  NoInput = NoInput
INVARIANTS
  OwnersAgree
\* every bound can be used up
CHECK_DEADLOCK FALSE

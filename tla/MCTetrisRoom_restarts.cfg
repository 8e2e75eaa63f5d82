\* two nodes that may be restarted, two versions and pings, events lost
SPECIFICATION Spec
CONSTANTS
  Nodes <- TwoNodes
  Versions <- TwoVersions
  Pings <- TwoPings
  Lossy = TRUE
  Ordered = FALSE
  Bounds <- Again
  NoPlayer = NoPlayer
  NoInput = NoInput
INVARIANTS
  SeatedIsSettled
  SeatedTogether
\* every bound can be used up
CHECK_DEADLOCK FALSE

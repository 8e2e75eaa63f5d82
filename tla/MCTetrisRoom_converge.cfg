\* two nodes, no event lost, two clients that submit snapshots
SPECIFICATION FairSpec
CONSTANTS
  Nodes <- TwoNodes
  Versions <- OneVersion
  Pings <- AroundPing
  Lossy = FALSE
  Ordered = TRUE
  Bounds <- Watched
  NoPlayer = NoPlayer
  NoInput = NoInput
INVARIANTS
  TypeOK
PROPERTIES
  PairsUp
  SnapshotsConverge
\* every bound can be used up
CHECK_DEADLOCK FALSE

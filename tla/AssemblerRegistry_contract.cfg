\* three accounts, two bootnodes, two requests
SPECIFICATION Spec
CONSTANTS
  Address = {d, a1, a2}
  Deployer = d
  BootnodeId = {b1, b2}
  Multiaddr = {m1}
  NoEntry = NoEntry
  NoReviewer = NoReviewer
  MaxRequests = 2
INVARIANTS
  TypeOK
  ListsAgree
  PendingIsOpen
  OpenIsUnreviewed
PROPERTIES
  ImplementsBook
  ClosedIsFinal

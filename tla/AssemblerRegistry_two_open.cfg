\* an applicant is made a contact, removed, and applies again
SPECIFICATION Spec
CONSTANTS
  Address = {d, a1}
  Deployer = d
  BootnodeId = {}
  Multiaddr = {m1}
  NoEntry = NoEntry
  NoReviewer = NoReviewer
  MaxRequests = 2
INVARIANTS
  OneOpenRequest

\* liveness: b asks, a answers and writes; b crashes and its writes fail or tear
SPECIFICATION FairSpec
CONSTANTS
  a = a
  b = b
  Users = {a, b}
  Crashing = {b}
  NoUser = NoUser
  ReqId <- OtherWay
  DmId <- OneWay
  Invite <- NoIds
  MaxCopies = 1
  MaxRestarts = 2
  MaxPresence = 1
  PublishMayFail = FALSE
  SaveMayFail = {b}
INVARIANTS
  CommittedIsDurable
PROPERTIES
  FileOnlyGrows
  InboxDrains
  AcceptanceLands
\* every bound can be used up
CHECK_DEADLOCK FALSE

\* crashes, redelivery and failed publishes: a asks b, a writes to b
SPECIFICATION Spec
CONSTANTS
  a = a
  b = b
  Users = {a, b}
  Crashing = {b}
  NoUser = NoUser
  ReqId <- OneWay
  DmId <- OneWay
  Invite <- NoIds
  MaxCopies = 2
  MaxRestarts = 1
  MaxPresence = 1
  PublishMayFail = TRUE
  SaveMayFail = {}
INVARIANTS
  TypeOK
  OneCopyPerLife
PROPERTIES
  DecisionStands
\* every bound can be used up
CHECK_DEADLOCK FALSE

\* crossing requests and an invite, failed publishes, no crash
SPECIFICATION Spec
CONSTANTS
  a = a
  b = b
  Users = {a, b}
  Crashing = {a, b}
  NoUser = NoUser
  ReqId <- BothWays
  DmId <- NoIds
  Invite <- InviteOfB
  MaxCopies = 1
  MaxRestarts = 0
  MaxPresence = 1
  PublishMayFail = TRUE
  SaveMayFail = {}
PROPERTIES
  ImplementsFriendRequests
\* every bound can be used up
CHECK_DEADLOCK FALSE

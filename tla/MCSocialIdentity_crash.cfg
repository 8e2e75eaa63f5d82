\* logins, inits, crashes between any two writes, failed and torn writes
SPECIFICATION Spec
CONSTANTS
  Wallets = {w1, w2}
  Absent = Absent
  Torn = Torn
  Flows <- EveryWay
  MaxIds = 3
  MaxRestarts = 3
  WritesTear = TRUE
  WritesFail = TRUE
INVARIANTS
  TypeOK
  SameUser
  ProfileHasKeys
  OneUser
PROPERTIES
  SignsAsOne
\* every bound can be used up
CHECK_DEADLOCK FALSE

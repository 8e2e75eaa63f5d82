\* two players for one seat, two requests at a time, two streams
SPECIFICATION FairSpec
CONSTANTS
  Players = {p1, p2}
  Clients = {c1, c2}
  Streams = {s1, s2}
  Cap = 2
  None = None
INVARIANTS
  TypeOK
  SeatOwnsStates
  SendersSafe
PROPERTIES
  HandlersReturn

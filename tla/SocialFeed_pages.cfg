\* two topics, three records each, a crash, one page
SPECIFICATION FairSpec
CONSTANTS
  Presence = Presence
  Inbox = Inbox
  None = None
  MaxRecords = 3
  MaxCrashes = 1
  MaxForgets = 1
  SavesFail = TRUE
  Streams = {s1}
  Cap = 1
INVARIANTS
  TypeOK
  NothingSkipped
  KnownIsNewest
  StreamsAreCurrent
PROPERTIES
  FeedDrains
  StreamShows

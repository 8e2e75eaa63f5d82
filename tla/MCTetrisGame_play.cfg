\* a small board, two frames and two timers at a time
SPECIFICATION FairSpec
CONSTANTS
  ROWS = 3
  COLS = 4
  SHAPES <- TwoShapes
  MaxFrames = 2
  MaxTimers = 2
INVARIANTS
  TypeOK
  InPlay
  FrameDue
PROPERTIES
  RowsCollapse
  KeptAlive

SPECIFICATION RxSpec
CONSTANTS
  RxPort = {"p0", "p1"}
  RxBurst = 2
  MaxClock = 4
CHECK_DEADLOCK FALSE
INVARIANT FlushedNotProcessed

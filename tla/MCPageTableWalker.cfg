SPECIFICATION Spec
CONSTANTS
  Levels = 3
  Offsets = {0, 1}
  Pages <- FourPages
  DRAM_PAGES = 7
  PTW_RQ_SIZE = 2
  PTW_PQ_SIZE = 1
  PSCL_SET <- Sets
  PSCL_WAY <- Ways
  None = None
  Dropped = Dropped
  MaxRequests = 4
INVARIANTS TypeOK MMUCachesCoherent ReadsItsTable FramesUnshared CurrentUntilReplaced
PROPERTIES ImplementsPort EveryWalkEnds
CHECK_DEADLOCK FALSE

\* Prefetchers of L1D and L2C, page walks and a translation fill at once.
SPECIFICATION Spec
CONSTANTS
  Blocks = {1, 2}
  Code = {1}
  TableBlocks = {3}
  Stored = {1}
  Prefetchers = {"L1D", "L2C"}
  L1I_SET = 1
  L1I_WAY = 1
  L1D_SET = 1
  L1D_WAY = 1
  L2C_SET = 1
  L2C_WAY = 1
  LLC_SET = 1
  LLC_WAY = 1
  L1I_MSHR_SIZE = 1
  L1D_MSHR_SIZE = 1
  PTW_MSHR_SIZE = 1
  L2C_MSHR_SIZE = 2
  LLC_MSHR_SIZE = 2
  L2C_RQ_SIZE = 3
  L2C_WQ_SIZE = 1
  L2C_PQ_SIZE = 2
  LLC_RQ_SIZE = 2
  LLC_WQ_SIZE = 1
  LLC_PQ_SIZE = 1
  DRAM_RQ_SIZE = 2
  DRAM_WQ_SIZE = 1
  MaxRequests = 4
  MaxTranslations = 1
CHECK_DEADLOCK FALSE
INVARIANT MissesCarried
PROPERTY EveryMissAnswered

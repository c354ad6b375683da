SPECIFICATION Spec
CONSTANTS
  Addrs = {2, 3, 4}
  DRAM_BANKS = 2
  DRAM_COLUMNS = 1
  DRAM_ROWS = 2
  DRAM_RQ_SIZE = 2
  DRAM_WQ_SIZE = 2
  DRAM_WRITE_HIGH_WM = 2
  DRAM_WRITE_LOW_WM = 2
  tRP = 1
  tRCD = 1
  tCAS = 1
  DRAM_DBUS_RETURN_TIME = 2
  DRAM_DBUS_TURN_AROUND_TIME = 1
  UINT64_MAX = 34
  MaxQueueing = 0
  MaxReads = 3
  MaxWrites = 2
  IdleHorizon = 0
INVARIANTS TypeOK BankBookkeeping CountersExact CachedIndicesFresh QueuesExact
PROPERTIES TransfersSpaced ImplementsPort EveryRequestServed

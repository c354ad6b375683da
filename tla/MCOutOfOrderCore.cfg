SPECIFICATION Spec
CONSTANTS
  Blocks = {0, 1}
  Registers = {1, 2}
  Addresses = {1, 2}
  Programs <- AllPrograms
  IFETCH_BUFFER_SIZE = 2
  DECODE_BUFFER_SIZE = 1
  ROB_SIZE = 3
  LQ_SIZE = 2
  SQ_SIZE = 2
  SCHEDULER_SIZE = 2
  L1D_WQ_SIZE = 2
INVARIANTS TypeOK ProducersFirst LoadsSeeStores OperandsCounted StoresInOrder ReadyQueuesExact OneStallingBranch WakesItsOwn
PROPERTY EveryInstructionRetires
CHECK_DEADLOCK FALSE

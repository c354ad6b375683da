SPECIFICATION Spec
CONSTANTS
  Blocks = {0, 1}
  Registers = {1, 2}
  Addresses = {1, 2}
  Programs <- Waits
  IFETCH_BUFFER_SIZE = 2
  DECODE_BUFFER_SIZE = 1
  ROB_SIZE = 4
  LQ_SIZE = 2
  SQ_SIZE = 2
  SCHEDULER_SIZE = 4
  L1D_WQ_SIZE = 1
PROPERTY EveryInstructionRetires
CHECK_DEADLOCK FALSE

CONSTANTS
  WordSize = 65536
  IO_BASE = 65280
  IO_STDOUT = 65280
  IO_STDIN = 65281
  IO_TIMER = 65282
  STACK_BASE = 65279
  ByteSize = 256
  Decode <- Fields
  Ticks <- MCTicks
  Programs <- MCPrograms
  Inputs <- MCInputs
  MaxCycles = 500
  MAX_TOKENS_PER_LINE = 16
  MAX_TOKEN_LEN = 127
  INT32 = 1073741824
  LONG_MAX = 1073741823
SPECIFICATION FairSpec
CHECK_DEADLOCK FALSE
INVARIANTS ProgramResult EchoInOrder
PROPERTIES ProgramsHalt

CONSTANTS
  WordSize = 32
  IO_BASE = 28
  IO_STDOUT = 28
  IO_STDIN = 29
  IO_TIMER = 30
  STACK_BASE = 27
  ByteSize = 8
  Decode <- MCDecode
  Ticks <- MCTicks
  Programs <- MCPrograms
  Inputs <- MCInputs
  MaxCycles = 32
SPECIFICATION BSpec
CHECK_DEADLOCK FALSE
INVARIANTS TypeOK FlagsRemember HaltPoint
PROPERTIES BranchAgrees IoPageFixed CallsNest

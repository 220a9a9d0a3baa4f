CONSTANTS
  WordSize = 32
  IO_BASE = 28
  IO_STDOUT = 28
  IO_STDIN = 29
  IO_TIMER = 30
  STACK_BASE = 27
  ByteSize = 8
  Decode <- MCDecode
  Ticks <- MCTicks
  Programs <- NoPrograms
  Inputs <- MCInputs
  MaxCycles = 12
  DUMP_WORDS = 8
  DUMP_ROW = 4
  CommandLines <- MCCommandLines
  HexAddr <- MCHexAddr
  IsOption <- MCIsOption
  NoPath = NoPath
  Files <- MCFiles
SPECIFICATION ESpec
CHECK_DEADLOCK FALSE
INVARIANTS ImageLoaded

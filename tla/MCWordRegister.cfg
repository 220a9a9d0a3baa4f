CONSTANTS
  MAX_TOKENS_PER_LINE = 5
  MAX_TOKEN_LEN = 3
  INT32 = 1048576
  LONG_MAX = 1048590
  Name <- MCNames
  Cut <- Whole
  hash_name <- MCHash
  HashSize = 4
  SYM_CAPACITY = 2
  Addr <- MCAddr
  SYM_NOT_FOUND = SYM_NOT_FOUND
  Path <- MCPath
  NoPath = NoPath
  Setups <- RegisterSetups
  BUFSIZ = 2
SPECIFICATION MSpec
CHECK_DEADLOCK FALSE
INVARIANT ValuesAsDocumented

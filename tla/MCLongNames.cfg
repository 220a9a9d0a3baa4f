CONSTANTS
  Name <- LongNames
  Cut <- MCCut
  hash_name <- MCHash
  HashSize = 8
  SYM_CAPACITY = 4
  Addr <- MCAddr
  SYM_NOT_FOUND = SYM_NOT_FOUND
SPECIFICATION Spec
INVARIANT AcceptedIsFound

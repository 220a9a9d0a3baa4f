CONSTANTS
  WordSize = 65536
  Ops <- MCOps
  Inputs <- MCInputs
  Mnemonics <- MCMnemonics
  Operands <- MCOperands
  Addresses <- MCAddresses
  Name <- ShortNames
  Cut <- Whole
  hash_name <- MCHash
  HashSize = 8
  SYM_CAPACITY = 4
  Addr <- MCAddr
  SYM_NOT_FOUND = SYM_NOT_FOUND
SPECIFICATION UnitsSpec
CHECK_DEADLOCK FALSE
INVARIANTS
  SignedOverflow CarryMeansInexact BitwiseIdentities
  RoundTrip JumpLands AcceptedIfFits
  TableInv
PROPERTIES LogicKeepsCarry IsNameMap

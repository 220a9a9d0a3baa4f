--------------------------------- MODULE Alu ---------------------------------
(* The arithmetic-logic unit (emulator/alu.c).  Words are the numbers       *)
(* 0 .. WordSize - 1; the program has WordSize = 2^16, a model may be       *)
(* smaller.  The flag register is the set of the flags that are up.         *)
EXTENDS Isa

CONSTANT WordSize

(* Even, so that half the words have the sign bit, and at most the uint16_t *)
(* of the program, whose bits AND, OR and XOR work on.                      *)
ASSUME WordSizeAssumption == WordSize \in Nat \ {0} /\ WordSize % 2 = 0

ASSUME WidthAssumption == WordSize <= 65536

Word == 0 .. WordSize - 1
Half == WordSize \div 2
Flag == {"ZF", "NF", "CF", "OF"}

(* The cast to uint16_t, and a word read as a signed number. *)
U16(x) == x % WordSize
Val(x) == Signed(x, Half)

Negative(x) == x >= Half

-----------------------------------------------------------------------------
(* Bitwise operations: P on each pair of bits, nibble by nibble.            *)
Bit(P(_, _), a, b, weight) ==
  IF P((a \div weight) % 2 = 1, (b \div weight) % 2 = 1) THEN weight ELSE 0

Nibble(P(_, _), a, b, weight) ==
  Bit(P, a, b, weight) + Bit(P, a, b, 2 * weight)
    + Bit(P, a, b, 4 * weight) + Bit(P, a, b, 8 * weight)

BitByBit(P(_, _), a, b) ==
  Nibble(P, a, b, 1) + Nibble(P, a, b, 16)
    + Nibble(P, a, b, 256) + Nibble(P, a, b, 4096)

-----------------------------------------------------------------------------
SetFlag(flags, flag, on) == IF on THEN flags \cup {flag} ELSE flags \ {flag}

UpdateZN(flags, result) ==
  SetFlag(SetFlag(flags, "ZF", result = 0), "NF", Negative(result))

AddLike  == {OP_ADD, OP_ADDI}
SubLike  == {OP_SUB, OP_CMP}
WideOps  == AddLike \cup SubLike \cup {OP_SHL}
LogicOps == {OP_AND, OP_OR, OP_XOR, OP_NOT, OP_SHR}

(* The shift amount is the low four bits of the operand; shifting by it     *)
(* multiplies or divides by that power of two.                              *)
PowersOfTwo == <<1, 2, 4, 8, 16, 32, 64, 128, 256,
                 512, 1024, 2048, 4096, 8192, 16384, 32768>>
Shift(b) == PowersOfTwo[(b % 16) + 1]

\* Mutant: the difference taken by adding the complement, carry not inverted.
Wide_AddComplement(op, a, b) ==
  IF op \in AddLike THEN a + b
  ELSE IF op \in SubLike THEN a + (WordSize - b)
  ELSE a * Shift(b)

(* The uint32_t intermediate: a difference below zero stands for the value  *)
(* near 2^32 it wraps to, which like a sum above the words raises CF.       *)
Wide(op, a, b) ==
  IF op \in AddLike THEN a + b
  ELSE IF op \in SubLike THEN a - b
  ELSE a * Shift(b)

\* Mutant: inclusive or used for XOR.
Logic_XorAsOr(op, a, b) ==
  IF op = OP_AND THEN BitByBit(LAMBDA p, q : p /\ q, a, b)
  ELSE IF op = OP_OR THEN BitByBit(LAMBDA p, q : p \/ q, a, b)
  ELSE IF op = OP_XOR THEN BitByBit(LAMBDA p, q : p \/ q, a, b)
  ELSE IF op = OP_NOT THEN WordSize - 1 - a
  ELSE a \div Shift(b)

Logic(op, a, b) ==
  IF op = OP_AND THEN BitByBit(LAMBDA p, q : p /\ q, a, b)
  ELSE IF op = OP_OR THEN BitByBit(LAMBDA p, q : p \/ q, a, b)
  ELSE IF op = OP_XOR THEN BitByBit(LAMBDA p, q : p # q, a, b)
  ELSE IF op = OP_NOT THEN WordSize - 1 - a
  ELSE a \div Shift(b)

AluResult(op, a, b) ==
  IF op \in WideOps THEN U16(Wide(op, a, b))
  ELSE IF op \in LogicOps THEN U16(Logic(op, a, b))
  ELSE a

\* Mutant: any change of sign counts, even when the operands' signs differ.
Overflows_SignChange(op, a, b) ==
  op \in AddLike /\ Negative(AluResult(op, a, b)) # Negative(a)

Overflows(op, a, b) ==
  /\ op \in AddLike
  /\ Negative(a) = Negative(b)
  /\ Negative(AluResult(op, a, b)) # Negative(a)

\* Mutant: the logic operations clear CF and OF too.
AluFlags_LogicClears(op, a, b, flags) ==
  LET carried == SetFlag(SetFlag(flags, "CF", Wide(op, a, b) \notin Word),
                         "OF", Overflows(op, a, b))
  IN  IF op \in WideOps THEN UpdateZN(carried, AluResult(op, a, b))
      ELSE IF op \in LogicOps THEN UpdateZN({}, AluResult(op, a, b))
      ELSE flags

AluFlags(op, a, b, flags) ==
  LET carried == SetFlag(SetFlag(flags, "CF", Wide(op, a, b) \notin Word),
                         "OF", Overflows(op, a, b))
  IN  IF op \in WideOps THEN UpdateZN(carried, AluResult(op, a, b))
      ELSE IF op \in LogicOps THEN UpdateZN(flags, AluResult(op, a, b))
      ELSE flags
==============================================================================

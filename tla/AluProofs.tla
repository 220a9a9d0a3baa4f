------------------------------ MODULE AluProofs ------------------------------
(* What the flags mean, for every even word size and all operands.          *)
EXTENDS AluUnit, TLAPS

LEMMA HalfWords == Half \in Nat \ {0} /\ WordSize = 2 * Half
BY WordSizeAssumption DEF Half

LEMMA IsWord == \A x : x \in Word <=> x \in Nat /\ x < WordSize
BY HalfWords DEF Word

LEMMA OneWrap ==
  ASSUME NEW x \in Int
  PROVE  /\ U16(x) \in Word
         /\ x \in Word => U16(x) = x
         /\ x \in WordSize .. 2 * WordSize - 1 => U16(x) = x - WordSize
         /\ x \in -WordSize .. -1 => U16(x) = x + WordSize
BY HalfWords, IsWord DEF U16

LEMMA SignedValue ==
  ASSUME NEW x \in Word
  PROVE  Val(x) = IF Negative(x) THEN x - WordSize ELSE x
BY HalfWords, IsWord DEF Val, Signed, Negative

(* A shift multiplies or divides by a positive number.                      *)
LEMMA ShiftIsPositive == \A b \in Nat : Shift(b) \in Nat \ {0}
<1> SUFFICES ASSUME NEW b \in Nat PROVE Shift(b) \in Nat \ {0}
  OBVIOUS
<1>1. (b % 16) + 1 \in 1 .. 16
  OBVIOUS
<1>2. \A k \in 1 .. 16 : PowersOfTwo[k] \in Nat \ {0}
  BY DEF PowersOfTwo
<1> QED
  BY <1>1, <1>2 DEF Shift

LEMMA LogicIsInt ==
  ASSUME NEW op \in Opcode, NEW a \in Word, NEW b \in Word
  PROVE  Logic(op, a, b) \in Int
<1>1. Shift(b) \in Nat \ {0} /\ a \in Nat
  BY ShiftIsPositive, IsWord
<1>2. a \div Shift(b) \in Int /\ WordSize - 1 - a \in Int
  BY <1>1, HalfWords
<1>3. BitByBit(LAMBDA p, q : p /\ q, a, b) \in Int
  BY DEF BitByBit, Nibble, Bit
<1>4. BitByBit(LAMBDA p, q : p \/ q, a, b) \in Int
  BY DEF BitByBit, Nibble, Bit
<1>5. BitByBit(LAMBDA p, q : p # q, a, b) \in Int
  BY DEF BitByBit, Nibble, Bit
<1> QED
  BY <1>2, <1>3, <1>4, <1>5 DEF Logic

LEMMA OpsDiffer ==
  /\ AddLike \cap SubLike = {} /\ OP_SHL \notin AddLike \cup SubLike
  /\ LogicOps \cap WideOps = {} /\ 0 \notin WideOps
BY DEF AddLike, SubLike, WideOps, LogicOps, OP_ADD, OP_ADDI, OP_SUB, OP_CMP, OP_SHL,
       OP_AND, OP_OR, OP_XOR, OP_NOT, OP_SHR

-----------------------------------------------------------------------------
(* The flags are those of the last call, if it was one that sets them. *)
Carried ==
  call.op \in WideOps =>
    /\ "CF" \in flags <=> Wide(call.op, call.a, call.b) \notin Word
    /\ "OF" \in flags <=> Overflows(call.op, call.a, call.b)

AluInv ==
  /\ call.a \in Word /\ call.b \in Word
  /\ call.result = AluResult(call.op, call.a, call.b)
  /\ Carried

LEMMA Raised ==
  ASSUME NEW f, NEW flag, NEW on \in BOOLEAN, NEW other
  PROVE  other \in SetFlag(f, flag, on) <=> IF other = flag THEN on ELSE other \in f
BY DEF SetFlag

LEMMA ZNSparesOthers ==
  ASSUME NEW f, NEW r, NEW flag \in {"CF", "OF"}
  PROVE  flag \in UpdateZN(f, r) <=> flag \in f
BY DEF UpdateZN, SetFlag

LEMMA FlagsOfWide ==
  ASSUME NEW op \in WideOps, NEW a, NEW b, NEW f
  PROVE  /\ "CF" \in AluFlags(op, a, b, f) <=> Wide(op, a, b) \notin Word
         /\ "OF" \in AluFlags(op, a, b, f) <=> Overflows(op, a, b)
<1> DEFINE carry == Wide(op, a, b) \notin Word
           over  == Overflows(op, a, b)
           carried == SetFlag(SetFlag(f, "CF", carry), "OF", over)
<1>1. carry \in BOOLEAN /\ over \in BOOLEAN
  BY DEF Overflows
<1>2. AluFlags(op, a, b, f) = UpdateZN(carried, AluResult(op, a, b))
  BY DEF AluFlags
<1> HIDE DEF carry, over
<1>3. ("CF" \in carried <=> carry) /\ ("OF" \in carried <=> over)
  BY <1>1, Raised
<1> HIDE DEF carried
<1>4. /\ "CF" \in AluFlags(op, a, b, f) <=> carry
      /\ "OF" \in AluFlags(op, a, b, f) <=> over
  BY <1>2, <1>3, ZNSparesOthers
<1> QED
  BY <1>4 DEF carry, over

LEMMA AluInvHolds == AluSpec => []AluInv
<1>1. AluInit => AluInv
  BY OpsDiffer, IsWord, HalfWords DEF AluInit, AluInv, Carried, AluResult, LogicOps, OP_AND, OP_OR, OP_XOR, OP_NOT, OP_SHR
<1>2. AluInv /\ [AluNext]_aluVars => AluInv'
  <2> SUFFICES ASSUME AluInv, [AluNext]_aluVars PROVE AluInv'
    OBVIOUS
  <2>1. CASE UNCHANGED aluVars
    BY <2>1 DEF aluVars, AluInv, Carried
  <2>2. ASSUME NEW op \in Ops, NEW a \in Inputs, NEW b \in Inputs, alu_execute(op, a, b)
        PROVE  AluInv'
    <3>1. a \in Word /\ b \in Word
      BY CallsAssumption
    <3>2. call' = [op |-> op, a |-> a, b |-> b, result |-> AluResult(op, a, b)]
      BY <2>2 DEF alu_execute
    <3>3. Carried'
      <4>1. call'.op = op /\ call'.a = a /\ call'.b = b
        BY <3>2
      <4>2. flags' = AluFlags(op, a, b, flags)
        BY <2>2 DEF alu_execute
      <4> QED
        BY <4>1, <4>2, FlagsOfWide DEF Carried
    <3> QED
      BY <3>1, <3>2, <3>3 DEF AluInv
  <2> QED
    BY <2>1, <2>2 DEF AluNext
<1> QED
  BY <1>1, <1>2, PTL DEF AluSpec

-----------------------------------------------------------------------------
(* The sum of two words, and its sign.                                      *)
LEMMA SignOfSum ==
  ASSUME NEW a \in Word, NEW b \in Word
  PROVE  (Negative(a) = Negative(b) /\ Negative(U16(a + b)) # Negative(a))
         <=> Val(a) + Val(b) \notin -Half .. Half - 1
<1>1. a \in Nat /\ b \in Nat /\ a < WordSize /\ b < WordSize
  BY IsWord
<1>2. Half \in Nat \ {0} /\ WordSize = 2 * Half
  BY HalfWords
<1>3. /\ Val(a) = IF Negative(a) THEN a - WordSize ELSE a
      /\ Val(b) = IF Negative(b) THEN b - WordSize ELSE b
  BY SignedValue
<1>4. U16(a + b) = IF a + b < WordSize THEN a + b ELSE a + b - WordSize
  <2>1. a + b \in Word \/ a + b \in WordSize .. 2 * WordSize - 1
    BY <1>1, <1>2, IsWord
  <2> QED
    BY <1>1, <1>2, <2>1, OneWrap, IsWord
<1> QED
  BY <1>1, <1>2, <1>3, <1>4 DEF Negative

(* OF after an addition is signed overflow, for every word size.            *)
THEOREM OverflowIsSigned == AluSpec => []SignedOverflow
<1>1. AluInv => SignedOverflow
  <2> SUFFICES ASSUME AluInv, call.op \in AddLike
               PROVE  "OF" \in flags <=> Val(call.a) + Val(call.b) \notin -Half .. Half - 1
    BY DEF SignedOverflow
  <2>1. call.op \in WideOps
    BY DEF WideOps
  <2>2. AluResult(call.op, call.a, call.b) = U16(call.a + call.b)
    BY <2>1 DEF AluResult, Wide
  <2>3. "OF" \in flags <=> Overflows(call.op, call.a, call.b)
    BY <2>1 DEF AluInv, Carried
  <2>4. Overflows(call.op, call.a, call.b) <=>
          /\ Negative(call.a) = Negative(call.b)
          /\ Negative(U16(call.a + call.b)) # Negative(call.a)
    BY <2>2 DEF Overflows
  <2> QED
    BY <2>3, <2>4, SignOfSum DEF AluInv
<1> QED
  BY <1>1, AluInvHolds, PTL

-----------------------------------------------------------------------------
(* What is left of a product that does not fit is less than the factor.     *)
LEMMA ShiftedOut ==
  ASSUME NEW a \in Word, NEW s \in Nat \ {0}
  PROVE  a * s \notin Word <=> U16(a * s) \div s # a
<1>1. a \in Nat /\ a * s \in Nat
  BY IsWord
<1>2. CASE a * s \in Word
  <2>1. U16(a * s) = a * s
    BY <1>1, <1>2, OneWrap
  <2>2. (a * s) \div s = a
    BY <1>1
  <2> QED
    BY <1>2, <2>1, <2>2
<1>3. CASE a * s \notin Word
  <2> DEFINE r == U16(a * s)
  <2>1. r \in Nat /\ r < a * s
    <3>1. r \in Word
      BY <1>1, OneWrap
    <3> QED
      BY <1>1, <1>3, <3>1, IsWord, HalfWords
  <2> HIDE DEF r
  <2>2. r \div s < a
    BY <1>1, <2>1
  <2>3. r \div s # a
    BY <1>1, <2>1, <2>2
  <2> QED
    BY <1>3, <2>3 DEF r
<1> QED
  BY <1>2, <1>3

(* CF is up exactly when the word returned is not the result of unbounded   *)
(* arithmetic: a carry, a borrow or a one shifted out, for every word size. *)
THEOREM CarryIsInexact == AluSpec => []CarryMeansInexact
<1>1. AluInv => CarryMeansInexact
  <2> SUFFICES ASSUME AluInv PROVE CarryMeansInexact
    OBVIOUS
  <2> DEFINE op == call.op
             a  == call.a
             b  == call.b
  <2>1. a \in Word /\ b \in Word /\ a \in Nat /\ b \in Nat
    BY IsWord DEF AluInv
  <2>2. ASSUME op \in WideOps
        PROVE  /\ "CF" \in flags <=> Wide(op, a, b) \notin Word
               /\ call.result = U16(Wide(op, a, b))
    BY <2>2 DEF AluInv, Carried, AluResult
  <2>3. ASSUME NEW x \in Int PROVE x \notin Word <=> U16(x) # x
    BY OneWrap
  <2>4. CASE op \in AddLike
    <3>1. op \in WideOps /\ Wide(op, a, b) = a + b /\ a + b \in Int
      BY <2>1, <2>4 DEF WideOps, Wide
    <3>2. "CF" \in flags <=> call.result # a + b
      BY <2>2, <2>3, <3>1
    <3> QED
      BY <2>4, <3>2, OpsDiffer DEF CarryMeansInexact
  <2>5. CASE op \in SubLike
    <3>1. op \in WideOps /\ Wide(op, a, b) = a - b /\ a - b \in Int
      BY <2>1, <2>5, OpsDiffer DEF WideOps, Wide
    <3>2. "CF" \in flags <=> call.result # a - b
      BY <2>2, <2>3, <3>1
    <3> QED
      BY <2>5, <3>2, OpsDiffer DEF CarryMeansInexact
  <2>6. CASE op = OP_SHL
    <3>1. op \in WideOps /\ Wide(op, a, b) = a * Shift(b)
      BY <2>6, OpsDiffer DEF WideOps, Wide
    <3>2. "CF" \in flags <=> call.result \div Shift(b) # a
      BY <2>1, <2>2, <3>1, ShiftIsPositive, ShiftedOut
    <3> QED
      BY <2>6, <3>2, OpsDiffer DEF CarryMeansInexact
  <2> QED
    BY <2>4, <2>5, <2>6 DEF CarryMeansInexact
<1> QED
  BY <1>1, AluInvHolds, PTL

-----------------------------------------------------------------------------
(* Sixteen bits: a word as the sum of its bits, and AND, OR and XOR bit by  *)
(* bit.                                                                     *)
OneBit(a, w)    == IF (a \div w) % 2 = 1 THEN w ELSE 0
AndBit(a, b, w) == IF (a \div w) % 2 = 1 /\ (b \div w) % 2 = 1 THEN w ELSE 0
OrBit(a, b, w)  == IF (a \div w) % 2 = 1 \/ (b \div w) % 2 = 1 THEN w ELSE 0
XorBit(a, b, w) == IF ((a \div w) % 2 = 1) # ((b \div w) % 2 = 1) THEN w ELSE 0

OneNibble(a, w) ==
  OneBit(a, w) + OneBit(a, 2 * w) + OneBit(a, 4 * w) + OneBit(a, 8 * w)
One16(a) ==
  OneNibble(a, 1) + OneNibble(a, 16) + OneNibble(a, 256) + OneNibble(a, 4096)

AndNibble(a, b, w) ==
  AndBit(a, b, w) + AndBit(a, b, 2 * w) + AndBit(a, b, 4 * w) + AndBit(a, b, 8 * w)
And16(a, b) ==
  AndNibble(a, b, 1) + AndNibble(a, b, 16) + AndNibble(a, b, 256) + AndNibble(a, b, 4096)

OrNibble(a, b, w) ==
  OrBit(a, b, w) + OrBit(a, b, 2 * w) + OrBit(a, b, 4 * w) + OrBit(a, b, 8 * w)
Or16(a, b) ==
  OrNibble(a, b, 1) + OrNibble(a, b, 16) + OrNibble(a, b, 256) + OrNibble(a, b, 4096)

XorNibble(a, b, w) ==
  XorBit(a, b, w) + XorBit(a, b, 2 * w) + XorBit(a, b, 4 * w) + XorBit(a, b, 8 * w)
Xor16(a, b) ==
  XorNibble(a, b, 1) + XorNibble(a, b, 16) + XorNibble(a, b, 256) + XorNibble(a, b, 4096)

(* A bit is what halving drops.                                             *)
Weights == {1, 2, 4, 8, 16, 32, 64, 128, 256, 512, 1024, 2048, 4096, 8192, 16384, 32768}

LEMMA Halving ==
  ASSUME NEW q \in Nat
  PROVE  /\ q \div 2 \in Nat
         /\ q % 2 = 1 => q = 2 * (q \div 2) + 1
         /\ q % 2 # 1 => q = 2 * (q \div 2)
OBVIOUS

LEMMA DivideTwice ==
  ASSUME NEW a \in Nat
  PROVE  /\ a \div 2 = (a \div 1) \div 2
         /\ a \div 4 = (a \div 2) \div 2
         /\ a \div 8 = (a \div 4) \div 2
         /\ a \div 16 = (a \div 8) \div 2
         /\ a \div 32 = (a \div 16) \div 2
         /\ a \div 64 = (a \div 32) \div 2
         /\ a \div 128 = (a \div 64) \div 2
         /\ a \div 256 = (a \div 128) \div 2
         /\ a \div 512 = (a \div 256) \div 2
         /\ a \div 1024 = (a \div 512) \div 2
         /\ a \div 2048 = (a \div 1024) \div 2
         /\ a \div 4096 = (a \div 2048) \div 2
         /\ a \div 8192 = (a \div 4096) \div 2
         /\ a \div 16384 = (a \div 8192) \div 2
         /\ a \div 32768 = (a \div 16384) \div 2
         /\ a \div 65536 = (a \div 32768) \div 2
OBVIOUS

LEMMA BitsOfWord ==
  ASSUME NEW a \in Nat, a < 65536
  PROVE  One16(a) = a
<1> DEFINE q(w) == a \div w
<1>1. /\ q(1) \in Nat
      /\ q(2) \in Nat
      /\ q(4) \in Nat
      /\ q(8) \in Nat
      /\ q(16) \in Nat
      /\ q(32) \in Nat
      /\ q(64) \in Nat
      /\ q(128) \in Nat
      /\ q(256) \in Nat
      /\ q(512) \in Nat
      /\ q(1024) \in Nat
      /\ q(2048) \in Nat
      /\ q(4096) \in Nat
      /\ q(8192) \in Nat
      /\ q(16384) \in Nat
      /\ q(32768) \in Nat
  OBVIOUS
<1>2. /\ q(2) = q(1) \div 2
      /\ q(4) = q(2) \div 2
      /\ q(8) = q(4) \div 2
      /\ q(16) = q(8) \div 2
      /\ q(32) = q(16) \div 2
      /\ q(64) = q(32) \div 2
      /\ q(128) = q(64) \div 2
      /\ q(256) = q(128) \div 2
      /\ q(512) = q(256) \div 2
      /\ q(1024) = q(512) \div 2
      /\ q(2048) = q(1024) \div 2
      /\ q(4096) = q(2048) \div 2
      /\ q(8192) = q(4096) \div 2
      /\ q(16384) = q(8192) \div 2
      /\ q(32768) = q(16384) \div 2
      /\ q(65536) = q(32768) \div 2
  BY DivideTwice
<1>3. q(1) = a /\ q(65536) = 0
  OBVIOUS
<1>4. /\ OneBit(a, 1) = 1 * q(1) - 2 * q(2)
      /\ OneBit(a, 2) = 2 * q(2) - 4 * q(4)
      /\ OneBit(a, 4) = 4 * q(4) - 8 * q(8)
      /\ OneBit(a, 8) = 8 * q(8) - 16 * q(16)
      /\ OneBit(a, 16) = 16 * q(16) - 32 * q(32)
      /\ OneBit(a, 32) = 32 * q(32) - 64 * q(64)
      /\ OneBit(a, 64) = 64 * q(64) - 128 * q(128)
      /\ OneBit(a, 128) = 128 * q(128) - 256 * q(256)
      /\ OneBit(a, 256) = 256 * q(256) - 512 * q(512)
      /\ OneBit(a, 512) = 512 * q(512) - 1024 * q(1024)
      /\ OneBit(a, 1024) = 1024 * q(1024) - 2048 * q(2048)
      /\ OneBit(a, 2048) = 2048 * q(2048) - 4096 * q(4096)
      /\ OneBit(a, 4096) = 4096 * q(4096) - 8192 * q(8192)
      /\ OneBit(a, 8192) = 8192 * q(8192) - 16384 * q(16384)
      /\ OneBit(a, 16384) = 16384 * q(16384) - 32768 * q(32768)
      /\ OneBit(a, 32768) = 32768 * q(32768) - 65536 * q(65536)
  <2> HIDE DEF q
  <2>1. OneBit(a, 1) = 1 * q(1) - 2 * q(2)
    BY <1>1, <1>2, Halving DEF OneBit, q
  <2>2. OneBit(a, 2) = 2 * q(2) - 4 * q(4)
    BY <1>1, <1>2, Halving DEF OneBit, q
  <2>3. OneBit(a, 4) = 4 * q(4) - 8 * q(8)
    BY <1>1, <1>2, Halving DEF OneBit, q
  <2>4. OneBit(a, 8) = 8 * q(8) - 16 * q(16)
    BY <1>1, <1>2, Halving DEF OneBit, q
  <2>5. OneBit(a, 16) = 16 * q(16) - 32 * q(32)
    BY <1>1, <1>2, Halving DEF OneBit, q
  <2>6. OneBit(a, 32) = 32 * q(32) - 64 * q(64)
    BY <1>1, <1>2, Halving DEF OneBit, q
  <2>7. OneBit(a, 64) = 64 * q(64) - 128 * q(128)
    BY <1>1, <1>2, Halving DEF OneBit, q
  <2>8. OneBit(a, 128) = 128 * q(128) - 256 * q(256)
    BY <1>1, <1>2, Halving DEF OneBit, q
  <2>9. OneBit(a, 256) = 256 * q(256) - 512 * q(512)
    BY <1>1, <1>2, Halving DEF OneBit, q
  <2>10. OneBit(a, 512) = 512 * q(512) - 1024 * q(1024)
    BY <1>1, <1>2, Halving DEF OneBit, q
  <2>11. OneBit(a, 1024) = 1024 * q(1024) - 2048 * q(2048)
    BY <1>1, <1>2, Halving DEF OneBit, q
  <2>12. OneBit(a, 2048) = 2048 * q(2048) - 4096 * q(4096)
    BY <1>1, <1>2, Halving DEF OneBit, q
  <2>13. OneBit(a, 4096) = 4096 * q(4096) - 8192 * q(8192)
    BY <1>1, <1>2, Halving DEF OneBit, q
  <2>14. OneBit(a, 8192) = 8192 * q(8192) - 16384 * q(16384)
    BY <1>1, <1>2, Halving DEF OneBit, q
  <2>15. OneBit(a, 16384) = 16384 * q(16384) - 32768 * q(32768)
    BY <1>1, <1>2, Halving DEF OneBit, q
  <2>16. OneBit(a, 32768) = 32768 * q(32768) - 65536 * q(65536)
    BY <1>1, <1>2, Halving DEF OneBit, q
  <2> QED
    BY <2>1, <2>2, <2>3, <2>4, <2>5, <2>6, <2>7, <2>8, <2>9, <2>10, <2>11, <2>12, <2>13, <2>14, <2>15, <2>16
<1> HIDE DEF q
<1> QED
  BY <1>1, <1>3, <1>4 DEF One16, OneNibble

BitLaws(a, b, w) ==
  /\ OneBit(a, w) \in Nat /\ OneBit(b, w) \in Nat
  /\ AndBit(a, b, w) \in Nat /\ OrBit(a, b, w) \in Nat /\ OrBit(a, b, w) <= w
  /\ AndBit(a, b, w) <= OrBit(a, b, w)
  /\ AndBit(a, b, w) + OrBit(a, b, w) = OneBit(a, w) + OneBit(b, w)
  /\ XorBit(a, b, w) = OrBit(a, b, w) - AndBit(a, b, w)

LEMMA BitIdentities ==
  ASSUME NEW a, NEW b, NEW w \in Nat
  PROVE  BitLaws(a, b, w)
BY DEF BitLaws, OneBit, AndBit, OrBit, XorBit

NibbleLaws(a, b, w) ==
  /\ OneNibble(a, w) \in Nat /\ OneNibble(b, w) \in Nat
  /\ AndNibble(a, b, w) \in Nat /\ OrNibble(a, b, w) \in Nat
  /\ OrNibble(a, b, w) <= 15 * w
  /\ AndNibble(a, b, w) <= OrNibble(a, b, w)
  /\ AndNibble(a, b, w) + OrNibble(a, b, w) = OneNibble(a, w) + OneNibble(b, w)
  /\ XorNibble(a, b, w) = OrNibble(a, b, w) - AndNibble(a, b, w)

LEMMA NibbleIdentities ==
  ASSUME NEW a, NEW b, NEW w \in Nat
  PROVE  NibbleLaws(a, b, w)
<1>1. 2 * w \in Nat /\ 4 * w \in Nat /\ 8 * w \in Nat
  OBVIOUS
<1>2. BitLaws(a, b, w) /\ BitLaws(a, b, 2 * w) /\ BitLaws(a, b, 4 * w) /\ BitLaws(a, b, 8 * w)
  BY <1>1, BitIdentities
<1> QED
  BY <1>2 DEF BitLaws, NibbleLaws, OneNibble, AndNibble, OrNibble, XorNibble

LEMMA WordIdentities ==
  ASSUME NEW a \in Nat, NEW b \in Nat, a < 65536, b < 65536
  PROVE  /\ And16(a, b) \in Nat /\ Or16(a, b) \in Nat
         /\ And16(a, b) <= Or16(a, b) /\ Or16(a, b) < 65536
         /\ And16(a, b) + Or16(a, b) = a + b
         /\ Xor16(a, b) = Or16(a, b) - And16(a, b)
<1>1. NibbleLaws(a, b, 1) /\ NibbleLaws(a, b, 16) /\ NibbleLaws(a, b, 256) /\ NibbleLaws(a, b, 4096)
  BY NibbleIdentities
<1>2. One16(a) = a /\ One16(b) = b
  BY BitsOfWord
<1> QED
  BY <1>1, <1>2 DEF NibbleLaws, One16, And16, Or16, Xor16

LEMMA LogicIsBitwise ==
  ASSUME NEW a, NEW b
  PROVE  /\ Logic(OP_AND, a, b) = And16(a, b)
         /\ Logic(OP_OR, a, b) = Or16(a, b)
         /\ Logic(OP_XOR, a, b) = Xor16(a, b)
         /\ Logic(OP_NOT, a, b) = WordSize - 1 - a
<1>1. BitByBit(LAMBDA p, q : p /\ q, a, b) = And16(a, b)
  <2> DEFINE word == BitByBit(LAMBDA p, q : p /\ q, a, b)
             N(w) == Nibble(LAMBDA p, q : p /\ q, a, b, w)
  <2>1. word = N(1) + N(16) + N(256) + N(4096)
    BY Zenon DEF BitByBit
  <2>2. /\ N(1) = AndNibble(a, b, 1) /\ N(16) = AndNibble(a, b, 16)
        /\ N(256) = AndNibble(a, b, 256) /\ N(4096) = AndNibble(a, b, 4096)
    BY DEF Nibble, Bit, AndNibble, AndBit
  <2> HIDE DEF word, N
  <2>3. word = And16(a, b)
    BY <2>1, <2>2 DEF And16
  <2> QED
    BY Zenon, <2>3 DEF word
<1>2. BitByBit(LAMBDA p, q : p \/ q, a, b) = Or16(a, b)
  <2> DEFINE word == BitByBit(LAMBDA p, q : p \/ q, a, b)
             N(w) == Nibble(LAMBDA p, q : p \/ q, a, b, w)
  <2>1. word = N(1) + N(16) + N(256) + N(4096)
    BY Zenon DEF BitByBit
  <2>2. /\ N(1) = OrNibble(a, b, 1) /\ N(16) = OrNibble(a, b, 16)
        /\ N(256) = OrNibble(a, b, 256) /\ N(4096) = OrNibble(a, b, 4096)
    BY DEF Nibble, Bit, OrNibble, OrBit
  <2> HIDE DEF word, N
  <2>3. word = Or16(a, b)
    BY <2>1, <2>2 DEF Or16
  <2> QED
    BY Zenon, <2>3 DEF word
<1>3. BitByBit(LAMBDA p, q : p # q, a, b) = Xor16(a, b)
  <2> DEFINE word == BitByBit(LAMBDA p, q : p # q, a, b)
             N(w) == Nibble(LAMBDA p, q : p # q, a, b, w)
  <2>1. word = N(1) + N(16) + N(256) + N(4096)
    BY Zenon DEF BitByBit
  <2>2. /\ N(1) = XorNibble(a, b, 1) /\ N(16) = XorNibble(a, b, 16)
        /\ N(256) = XorNibble(a, b, 256) /\ N(4096) = XorNibble(a, b, 4096)
    BY DEF Nibble, Bit, XorNibble, XorBit
  <2> HIDE DEF word, N
  <2>3. word = Xor16(a, b)
    BY <2>1, <2>2 DEF Xor16
  <2> QED
    BY Zenon, <2>3 DEF word
<1>4. /\ Logic(OP_AND, a, b) = BitByBit(LAMBDA p, q : p /\ q, a, b)
      /\ Logic(OP_OR, a, b) = BitByBit(LAMBDA p, q : p \/ q, a, b)
      /\ Logic(OP_XOR, a, b) = BitByBit(LAMBDA p, q : p # q, a, b)
      /\ Logic(OP_NOT, a, b) = WordSize - 1 - a
  BY DEF Logic, OP_AND, OP_OR, OP_XOR, OP_NOT
<1> QED
  BY <1>1, <1>2, <1>3, <1>4

LEMMA WordIsItself == \A x \in Nat : x < 65536 => x % 65536 = x
OBVIOUS

(* The bitwise results and the adder agree on every pair of uint16_t.       *)
THEOREM BitwiseIsArithmetic == WordSize = 65536 => (AluSpec => []BitwiseIdentities)
<1> SUFFICES ASSUME WordSize = 65536 PROVE AluSpec => []BitwiseIdentities
  OBVIOUS
<1>1. AluInv => BitwiseIdentities
  <2> SUFFICES ASSUME AluInv PROVE BitwiseIdentities
    OBVIOUS
  <2> DEFINE a == call.a
             b == call.b
  <2>1. a \in Nat /\ b \in Nat /\ a < 65536 /\ b < 65536
    BY IsWord DEF AluInv
  <2>2. \A op \in LogicOps : AluResult(op, a, b) = U16(Logic(op, a, b))
    BY OpsDiffer DEF AluResult
  <2>3. call.result = AluResult(call.op, a, b)
    BY DEF AluInv
  <2> HIDE DEF a, b
  <2>4. /\ AluResult(OP_AND, a, b) = And16(a, b) % 65536
        /\ AluResult(OP_OR, a, b) = Or16(a, b) % 65536
        /\ AluResult(OP_XOR, a, b) = Xor16(a, b) % 65536
        /\ AluResult(OP_NOT, a, b) = (65535 - a) % 65536
    <3>1. WordSize - 1 - a = 65535 - a
      BY <2>1
    <3> QED
      BY <2>2, <3>1, LogicIsBitwise DEF LogicOps, U16
  <2>5. /\ And16(a, b) \in Nat /\ Or16(a, b) \in Nat
        /\ And16(a, b) <= Or16(a, b) /\ Or16(a, b) < 65536
        /\ And16(a, b) + Or16(a, b) = a + b
        /\ Xor16(a, b) = Or16(a, b) - And16(a, b)
    BY <2>1, WordIdentities
  <2>6. /\ AluResult(OP_AND, a, b) = And16(a, b) /\ AluResult(OP_OR, a, b) = Or16(a, b)
        /\ AluResult(OP_XOR, a, b) = Or16(a, b) - And16(a, b)
    <3>1. And16(a, b) < 65536 /\ Xor16(a, b) \in Nat /\ Xor16(a, b) < 65536
      BY <2>5
    <3> QED
      BY <2>4, <2>5, <3>1, WordIsItself
  <2>7. /\ 65535 - a \in Nat /\ 65535 - a < 65536
        /\ a + (65535 - a) + 1 = 65536
    BY <2>1
  <2>8. AluResult(OP_NOT, a, b) = 65535 - a
    BY <2>4, <2>7, WordIsItself
  <2>9. call.op = OP_AND => call.result + AluResult(OP_OR, a, b) = a + b
    BY <2>3, <2>5, <2>6
  <2>10. call.op = OP_XOR => call.result = AluResult(OP_OR, a, b) - AluResult(OP_AND, a, b)
    BY <2>3, <2>6
  <2>11. call.op = OP_NOT => U16(a + call.result + 1) = 0
    BY <2>3, <2>7, <2>8 DEF U16
  <2> QED
    BY <2>9, <2>10, <2>11 DEF BitwiseIdentities, a, b
<1> QED
  BY <1>1, AluInvHolds, PTL

(* A carry or overflow outlives any number of logic operations, and ZF and  *)
(* NF follow them, for every word size.                                     *)
THEOREM LogicAlwaysKeepsCarry == AluSpec => LogicKeepsCarry
<1>1. AluInv /\ AluInv' /\ [AluNext]_aluVars =>
        [call'.op \in LogicOps =>
           /\ flags' \cap {"CF", "OF"} = flags \cap {"CF", "OF"}
           /\ "ZF" \in flags' <=> call'.result = 0
           /\ "NF" \in flags' <=> Val(call'.result) < 0]_aluVars
  <2> SUFFICES ASSUME NEW op \in Ops, NEW a \in Inputs, NEW b \in Inputs,
                      alu_execute(op, a, b), AluInv, op \in LogicOps
               PROVE  /\ flags' \cap {"CF", "OF"} = flags \cap {"CF", "OF"}
                      /\ "ZF" \in flags' <=> call'.result = 0
                      /\ "NF" \in flags' <=> Val(call'.result) < 0
    <3>1. \A op \in Ops, a \in Inputs, b \in Inputs :
            alu_execute(op, a, b) => call'.op = op
      BY DEF alu_execute
    <3> QED
      BY <3>1 DEF AluNext
  <2> DEFINE r == AluResult(op, a, b)
  <2>1. op \notin WideOps /\ call'.result = r /\ flags' = UpdateZN(flags, r)
    BY OpsDiffer DEF alu_execute, AluFlags
  <2>2. r \in Word
    <3>1. a \in Word /\ b \in Word /\ op \in Opcode
      BY CallsAssumption
    <3>2. Logic(op, a, b) \in Int
      BY <3>1, LogicIsInt
    <3> QED
      BY <2>1, <3>2, OneWrap DEF AluResult
  <2> HIDE DEF r
  <2>3. Val(r) < 0 <=> Negative(r)
    BY <2>2, SignedValue, IsWord, HalfWords DEF Negative
  <2>4. /\ flags' \cap {"CF", "OF"} = flags \cap {"CF", "OF"}
        /\ "ZF" \in flags' <=> r = 0
        /\ "NF" \in flags' <=> Negative(r)
    BY <2>1 DEF UpdateZN, SetFlag
  <2> QED
    BY <2>1, <2>3, <2>4
<1> QED
  BY <1>1, AluInvHolds, PTL DEF AluSpec, LogicKeepsCarry
=============================================================================

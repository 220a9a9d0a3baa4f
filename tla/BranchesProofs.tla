--------------------------- MODULE BranchesProofs ---------------------------
(* Theorems about the conditional jumps and the call stack.                 *)
EXTENDS Branches, MachineProofs

(* The observed processor is the processor. *)
LEMMA ObservedIsMachine == BSpec => Spec
<1>1. BInit => Init
  BY DEF BInit
<1>2. [BNext]_bvars => [Next]_vars
  BY DEF BNext, Next, bvars, vars
<1> QED
  BY <1>1, <1>2, PTL DEF BSpec, Spec

LEMMA ObservedTypes == BSpec => []TypeOK
BY ObservedIsMachine, MachineTypes, PTL

-----------------------------------------------------------------------------
(* What a difference of words, cast back to a word, says of the words. *)
LEMMA DifferenceIsZero ==
  ASSUME NEW a \in Word, NEW b \in Word
  PROVE  U16(a - b) = 0 <=> a = b
<1>1. a \in 0 .. WordSize - 1 /\ b \in 0 .. WordSize - 1 /\ a - b \in Int
  BY WordSizeFacts DEF Word
<1>2. CASE a >= b
  <2>1. a - b \in 0 .. WordSize - 1
    BY <1>1, <1>2, WordSizeFacts
  <2> QED
    BY <1>1, <2>1, U16Cases, WordSizeFacts
<1>3. CASE ~(a >= b)
  <2>1. a - b \in -WordSize .. -1 /\ a - b > -WordSize
    BY <1>1, <1>3, WordSizeFacts
  <2>2. U16(a - b) = a - b + WordSize
    BY <1>1, <2>1, U16Cases
  <2> QED
    BY <1>1, <1>3, <2>1, <2>2, WordSizeFacts
<1> QED
  BY <1>2, <1>3

LEMMA DifferenceIsNegative ==
  ASSUME NEW a \in Word, NEW b \in Word, Val(a) - Val(b) \in -Half .. Half - 1
  PROVE  /\ Negative(U16(a - b)) <=> Val(a) < Val(b)
         /\ a = b <=> Val(a) = Val(b)
         /\ Val(a) \in Int /\ Val(b) \in Int
<1>1. a \in 0 .. WordSize - 1 /\ b \in 0 .. WordSize - 1 /\ a - b \in Int
  BY WordSizeFacts DEF Word
<1>2. Val(a) = IF a >= Half THEN a - WordSize ELSE a
  BY <1>1, WordSizeFacts DEF Val, Signed
<1>3. Val(b) = IF b >= Half THEN b - WordSize ELSE b
  BY <1>1, WordSizeFacts DEF Val, Signed
<1>4. CASE a >= b
  <2>1. U16(a - b) = a - b
    BY <1>1, <1>4, U16Cases, WordSizeFacts
  <2> QED
    BY <1>1, <1>2, <1>3, <1>4, <2>1, WordSizeFacts DEF Negative
<1>5. CASE ~(a >= b)
  <2>1. U16(a - b) = a - b + WordSize
    BY <1>1, <1>5, U16Cases, WordSizeFacts
  <2> QED
    BY <1>1, <1>2, <1>3, <1>5, <2>1, WordSizeFacts DEF Negative
<1> QED
  BY <1>4, <1>5

(* The flags CMP leaves. *)
LEMMA CompareFlags ==
  ASSUME NEW a \in Word, NEW b \in Word, NEW f
  PROVE  /\ "ZF" \in AluFlags(OP_CMP, a, b, f) <=> a = b
         /\ "NF" \in AluFlags(OP_CMP, a, b, f) <=> Negative(U16(a - b))
<1>1. OP_CMP \in WideOps /\ OP_CMP \in SubLike /\ OP_CMP \notin AddLike
  BY DEF WideOps, SubLike, AddLike, OP_CMP, OP_ADD, OP_ADDI
<1>2. AluResult(OP_CMP, a, b) = U16(a - b)
  BY <1>1 DEF AluResult, Wide
<1> QED
  BY <1>1, <1>2, DifferenceIsZero DEF AluFlags, UpdateZN, SetFlag

-----------------------------------------------------------------------------
(* The flags remember the last compare. *)
LEMMA InitRemembers == BInit => FlagsRemember
BY DEF BInit, FlagsRemember

LEMMA StepRemembers == TypeOK /\ FlagsRemember /\ [BNext]_bvars => FlagsRemember'
<1> SUFFICES ASSUME TypeOK, FlagsRemember, [BNext]_bvars PROVE FlagsRemember'
  OBVIOUS
<1>1. CASE UNCHANGED bvars
  BY <1>1 DEF FlagsRemember, bvars
<1>2. CASE BNext
  <2>1. pc \in Word /\ stdin \in Seq(Byte)
    BY DEF TypeOK, Byte
  <2>2. PICK fetched \in mem_read(pc, stdin) :
          ir' = fetched.val /\ Execute(Decode(fetched.val), U16(pc + 1), fetched.in)
    BY <1>2 DEF BNext, cpu_step
  <2> DEFINE i == Decode(fetched.val)
  <2>3. i.rs1 \in Reg /\ i.rs2 \in Reg
    BY <2>1, <2>2, ReadTypes, DecodeTypes
  <2>4. regs[i.rs1] \in Word /\ regs[i.rs2] \in Word
    BY <2>3 DEF TypeOK
  <2>5. CASE i.op = OP_CMP
    <3>1. compared' = <<regs[i.rs1], regs[i.rs2]>>
      BY <1>2, <2>2, <2>5 DEF BNext, Observe
    <3>2. Compute(i, U16(pc + 1), fetched.in)
      BY <2>2, <2>5 DEF Execute, LoadWord, StoreWord, Jump, Call, Return, Stop,
           KnownOps, JumpOps, OP_CMP, OP_LW, OP_SW, OP_JMP, OP_JEQ, OP_JNE,
           OP_JLT, OP_JGT, OP_CALL, OP_RET
    <3>3. AluOperands(i) = <<OP_CMP, regs[i.rs1], regs[i.rs2]>>
      BY <2>5 DEF AluOperands, OP_CMP, OP_NOT, OP_ADDI, OP_MOV
    <3>4. flags' = AluFlags(OP_CMP, regs[i.rs1], regs[i.rs2], flags)
      BY <3>2, <3>3 DEF Compute
    <3> QED
      BY <2>4, <3>1, <3>4, CompareFlags DEF FlagsRemember
  <2>6. CASE i.op # OP_CMP /\ i.op \in InstrWithResult
    BY <1>2, <2>2, <2>6 DEF BNext, Observe, FlagsRemember
  <2>7. CASE i.op # OP_CMP /\ i.op \notin InstrWithResult
    <3>1. compared' = compared
      BY <1>2, <2>2, <2>7 DEF BNext, Observe
    <3>2. flags' = flags
      BY <2>2, <2>7 DEF Execute, Compute, LoadWord, StoreWord, Jump, Call, Return, Stop
    <3> QED
      BY <3>1, <3>2 DEF FlagsRemember
  <2> QED
    BY <2>5, <2>6, <2>7
<1> QED
  BY <1>1, <1>2

(* ZF and NF always describe the last compare still in force. *)
THEOREM FlagsAlwaysRemember == BSpec => []FlagsRemember
<1> QED
  BY InitRemembers, StepRemembers, ObservedTypes, PTL DEF BSpec

-----------------------------------------------------------------------------
(* A jump decided by those flags goes the way of the signed order. *)
LEMMA StepBranches ==
  ASSUME TypeOK, FlagsRemember, [BNext]_bvars,
         compared # NoCompare, cycle_count' # cycle_count,
         Decode(ir').op \in JumpOps \ {OP_JMP},
         Val(compared[1]) - Val(compared[2]) \in -Half .. Half - 1
  PROVE  pc' = IF SignedOrder(Decode(ir').op, Val(compared[1]), Val(compared[2]))
                 THEN U16(U16(pc + 1) + Decode(ir').off) ELSE U16(pc + 1)
<1> DEFINE i == Decode(ir')
           a == compared[1]
           b == compared[2]
<1>1. cpu_step
  BY DEF BNext, bvars
<1>2. PICK fetched \in mem_read(pc, stdin) :
        ir' = fetched.val /\ Execute(Decode(fetched.val), U16(pc + 1), fetched.in)
  BY <1>1 DEF cpu_step
<1>3. Jump(i, U16(pc + 1), fetched.in)
  <2>1. i.op \in JumpOps
    OBVIOUS
  <2> QED
    BY <1>2, <2>1 DEF Execute, Compute, LoadWord, StoreWord, Call, Return, Stop,
         InstrWithResult, KnownOps, LogicOps, AddLike, JumpOps, OP_ADD, OP_ADDI,
         OP_SUB, OP_SHL, OP_MOV, OP_AND, OP_OR, OP_XOR, OP_NOT, OP_SHR, OP_CMP,
         OP_LW, OP_SW, OP_CALL, OP_RET, OP_JMP, OP_JEQ, OP_JNE, OP_JLT, OP_JGT
<1>4. a \in Word /\ b \in Word
  BY DEF FlagsRemember
<1>5. "ZF" \in flags <=> Val(a) = Val(b)
  BY <1>4, DifferenceIsNegative DEF FlagsRemember
<1>6. "NF" \in flags <=> Val(a) < Val(b)
  BY <1>4, DifferenceIsNegative DEF FlagsRemember
<1>7. Val(a) \in Int /\ Val(b) \in Int
  BY <1>4, DifferenceIsNegative
<1>8. Taken(i.op) <=> SignedOrder(i.op, Val(a), Val(b))
  <2> HIDE DEF i, a, b
  <2>1. i.op \in {OP_JEQ, OP_JNE, OP_JLT, OP_JGT}
    BY DEF JumpOps, i
  <2>2. CASE i.op = OP_JEQ
    BY <2>2, <1>5 DEF Taken, SignedOrder, OP_JMP, OP_JEQ, OP_JNE, OP_JLT, OP_JGT
  <2>3. CASE i.op = OP_JNE
    BY <2>3, <1>5 DEF Taken, SignedOrder, OP_JMP, OP_JEQ, OP_JNE, OP_JLT, OP_JGT
  <2>4. CASE i.op = OP_JLT
    BY <2>4, <1>6 DEF Taken, SignedOrder, OP_JMP, OP_JEQ, OP_JNE, OP_JLT, OP_JGT
  <2>5. CASE i.op = OP_JGT
    <3>1. Taken(i.op) <=> ("ZF" \notin flags /\ "NF" \notin flags)
      BY <2>5 DEF Taken, OP_JMP, OP_JEQ, OP_JNE, OP_JLT, OP_JGT
    <3>2. SignedOrder(i.op, Val(a), Val(b)) <=> Val(a) > Val(b)
      BY <2>5 DEF SignedOrder, OP_JMP, OP_JEQ, OP_JNE, OP_JLT, OP_JGT
    <3>3. Val(a) > Val(b) <=> (Val(a) # Val(b) /\ ~(Val(a) < Val(b)))
      BY <1>7
    <3> QED
      BY <1>5, <1>6, <3>1, <3>2, <3>3
  <2> QED
    BY <2>1, <2>2, <2>3, <2>4, <2>5
<1> QED
  BY <1>3, <1>8 DEF Jump

(* Conditional jumps agree with the signed order of the compared words. *)
THEOREM BranchesAgree == BSpec => BranchAgrees
<1>1. TypeOK /\ FlagsRemember /\ [BNext]_bvars =>
        [LET i == Decode(ir')
             a == Val(compared[1])
             b == Val(compared[2])
             next == U16(pc + 1)
         IN  (/\ compared # NoCompare
              /\ cycle_count' # cycle_count
              /\ i.op \in JumpOps \ {OP_JMP}
              /\ a - b \in -Half .. Half - 1)
             => pc' = IF SignedOrder(i.op, a, b) THEN U16(next + i.off) ELSE next
        ]_bvars
  BY StepBranches
<1> QED
  BY <1>1, ObservedTypes, FlagsAlwaysRemember, PTL DEF BSpec, BranchAgrees
-----------------------------------------------------------------------------
(* The processor implements the call stack: the refinement of Branches,     *)
(* for every word size, memory map, instruction table, program and input.   *)

LEMMA MapFacts ==
  /\ STACK_BASE \in 0 .. WordSize - 2 /\ IO_BASE \in 0 .. WordSize - 1
  /\ STACK_BASE < IO_BASE /\ STACK_BASE \in Word /\ WordSize \in Nat
  /\ IO_STDIN \in Int /\ IO_STDIN >= IO_BASE
  /\ IO_TIMER \in Int /\ IO_TIMER >= IO_BASE
BY MapAssumption, WordSizeFacts DEF Word

(* The frames of a memory m below a stack pointer s in RAM: a sequence with *)
(* one word for each address from s + 1 to STACK_BASE.                      *)
LEMMA FramesInRam ==
  ASSUME NEW m, IsMemory(m), NEW s \in Word, s <= STACK_BASE
  PROVE  /\ FramesOf(m, s) \in Seq(Word)
         /\ Len(FramesOf(m, s)) = STACK_BASE - s
         /\ \A k \in 1 .. STACK_BASE - s : FramesOf(m, s)[k] = Cell(m, STACK_BASE + 1 - k)
<1> DEFINE n == STACK_BASE - s
<1>1. n \in Nat /\ s \in Int
  BY MapFacts DEF Word
<1>2. \A k \in 1 .. n : STACK_BASE + 1 - k \in Word
  BY <1>1, MapFacts DEF Word
<1>3. FramesOf(m, s) \in [1 .. n -> Word]
  BY <1>2, CellIsWord DEF FramesOf
<1> QED
  BY <1>1, <1>3 DEF FramesOf

(* Outside RAM, and at its bottom, there are none. *)
LEMMA NoFrames ==
  ASSUME NEW m, NEW s \in Word, s >= STACK_BASE
  PROVE  FramesOf(m, s) = <<>>
<1>1. 1 .. STACK_BASE - s = {}
  BY MapFacts DEF Word
<1> QED
  BY <1>1 DEF FramesOf

(* A push below the frames appends. *)
LEMMA PushAppends ==
  ASSUME NEW m, IsMemory(m), NEW s \in Word, NEW v \in Word,
         s <= STACK_BASE, s > 0
  PROVE  FramesOf(Stored(m, s, v), s - 1) = Append(FramesOf(m, s), v)
<1> DEFINE m2 == Stored(m, s, v)
           old == FramesOf(m, s)
           new == FramesOf(m2, s - 1)
           n == STACK_BASE - s
<1>1. IsMemory(m2) /\ s - 1 \in Word /\ s - 1 <= STACK_BASE /\ n \in Nat
  BY MapFacts, StoredCells DEF Word
<1>2. /\ new \in Seq(Word) /\ Len(new) = n + 1
      /\ \A k \in 1 .. n + 1 : new[k] = Cell(m2, STACK_BASE + 1 - k)
  <2>1. STACK_BASE - (s - 1) = n + 1
    BY MapFacts DEF Word
  <2> HIDE DEF m2, n
  <2> QED
    BY <1>1, <2>1, FramesInRam
<1>3. /\ old \in Seq(Word) /\ Len(old) = n
      /\ \A k \in 1 .. n : old[k] = Cell(m, STACK_BASE + 1 - k)
  BY FramesInRam
<1> HIDE DEF old, new
<1>4. /\ Append(old, v) \in Seq(Word) /\ Len(Append(old, v)) = n + 1
      /\ Append(old, v)[n + 1] = v
      /\ \A k \in 1 .. n : Append(old, v)[k] = old[k]
  BY <1>1, <1>3
<1>5. \A c : Cell(m2, c) = IF c = s THEN v ELSE Cell(m, c)
  BY StoredCells
<1>6. ASSUME NEW k \in 1 .. n + 1 PROVE new[k] = Append(old, v)[k]
  <2>1. CASE k = n + 1
    <3>1. STACK_BASE + 1 - k = s
      BY <2>1, MapFacts DEF Word
    <3> QED
      BY <1>2, <1>4, <1>5, <2>1, <3>1
  <2>2. CASE k \in 1 .. n
    <3>1. STACK_BASE + 1 - k \in Word /\ STACK_BASE + 1 - k # s
      BY <2>2, MapFacts DEF Word
    <3> QED
      BY <1>2, <1>3, <1>4, <1>5, <2>2, <3>1
  <2>3. k = n + 1 \/ k \in 1 .. n
    <3> HIDE DEF n
    <3> QED
      BY <1>1
  <2> QED
    BY <2>1, <2>2, <2>3
<1>7. new = Append(old, v)
  <2> HIDE DEF n, m2
  <2> QED
    BY <1>1, <1>2, <1>4, <1>6
<1> QED
  BY <1>7 DEF old, new

(* A pop drops the newest. *)
LEMMA PopDrops ==
  ASSUME NEW m, IsMemory(m), NEW s \in Word, s < STACK_BASE
  PROVE  /\ FramesOf(m, s + 1) = SubSeq(FramesOf(m, s), 1, Len(FramesOf(m, s)) - 1)
         /\ FramesOf(m, s)[Len(FramesOf(m, s))] = Cell(m, s + 1)
         /\ FramesOf(m, s) # <<>>
<1> DEFINE old == FramesOf(m, s)
           new == FramesOf(m, s + 1)
           n == STACK_BASE - s
<1>1. s + 1 \in Word /\ s + 1 <= STACK_BASE /\ s <= STACK_BASE /\ n \in Nat /\ n > 0
  BY MapFacts DEF Word
<1>2. /\ old \in Seq(Word) /\ Len(old) = n
      /\ \A k \in 1 .. n : old[k] = Cell(m, STACK_BASE + 1 - k)
  BY <1>1, FramesInRam
<1>3. /\ new \in Seq(Word) /\ Len(new) = n - 1
      /\ \A k \in 1 .. n - 1 : new[k] = Cell(m, STACK_BASE + 1 - k)
  <2>1. STACK_BASE - (s + 1) = n - 1
    BY MapFacts DEF Word
  <2> QED
    BY <1>1, <2>1, FramesInRam
<1> HIDE DEF old, new
<1>4. /\ SubSeq(old, 1, n - 1) \in Seq(Word) /\ Len(SubSeq(old, 1, n - 1)) = n - 1
      /\ \A k \in 1 .. n - 1 : SubSeq(old, 1, n - 1)[k] = old[k]
  BY <1>1, <1>2
<1>5. new = SubSeq(old, 1, n - 1)
  BY <1>1, <1>2, <1>3, <1>4
<1>6. old[n] = Cell(m, s + 1)
  <2>1. STACK_BASE + 1 - n = s + 1
    BY MapFacts DEF Word
  <2> QED
    BY <1>1, <1>2, <2>1
<1> QED
  BY <1>1, <1>2, <1>5, <1>6 DEF old, new

(* A store elsewhere leaves the frames. *)
LEMMA StoreOutside ==
  ASSUME NEW m, IsMemory(m), NEW s \in Word, NEW addr \in Word, NEW v \in Word,
         s <= STACK_BASE, addr \notin s + 1 .. STACK_BASE
  PROVE  FramesOf(Stored(m, addr, v), s) = FramesOf(m, s)
<1> DEFINE n == STACK_BASE - s
<1>1. \A k \in 1 .. n : STACK_BASE + 1 - k \in s + 1 .. STACK_BASE
                        /\ STACK_BASE + 1 - k \in Word
  BY MapFacts DEF Word
<1>2. \A k \in 1 .. n : Cell(Stored(m, addr, v), STACK_BASE + 1 - k) = Cell(m, STACK_BASE + 1 - k)
  BY <1>1, StoredCells
<1> QED
  BY <1>2 DEF FramesOf

-----------------------------------------------------------------------------
StackOps == {OP_CALL, OP_RET}

(* The machine starts with the empty stack. *)
LEMMA InitRefines == BInit => Stack!Init
<1> SUFFICES ASSUME BInit PROVE Stack!Init
  OBVIOUS
<1>1. regs[SP] = STACK_BASE /\ pc = 0 /\ ir = 0
  BY DEF BInit, Init, cpu_reset, SP, Reg, NUM_REGS
<1>2. FramesOf(mem, sp) = <<>>
  BY <1>1, NoFrames, MapFacts DEF sp, Word
<1>3. StackEffect = "other"
  BY <1>1, DecodeAssumption DEF StackEffect, TouchesStack, InstrWithResult, LogicOps,
     AddLike, OP_ADD, OP_ADDI, OP_SUB, OP_SHL, OP_MOV, OP_AND, OP_OR, OP_XOR, OP_NOT,
     OP_SHR, OP_LW, OP_SW, OP_CALL, OP_RET
<1> QED
  BY <1>1, <1>2, <1>3, MapFacts DEF Stack!Init, sp

(* What a step leaves of the stack pointer and of memory, by instruction. *)
LEMMA OrdinaryStep ==
  ASSUME TypeOK, NEW w \in Word, ir' = w, NEW next, NEW in,
         Execute(Decode(w), next, in),
         Decode(w).op \notin StackOps, ~TouchesStack(Decode(w))',
         sp <= STACK_BASE
  PROVE  sp' = sp /\ FramesOf(mem', sp') = FramesOf(mem, sp)
<1> DEFINE i == Decode(w)
<1>1. i.rd \in Reg /\ i.rs1 \in Reg /\ i.imm \in Int /\ SP \in Reg
  BY DecodeTypes DEF SP, Reg, NUM_REGS
<1>2. CASE Compute(i, next, in)
  <2>1. mem' = mem
    BY <1>2 DEF Compute
  <2>2. i.op # OP_CMP => i.op \in InstrWithResult
    BY <1>2 DEF Compute
  <2>3. regs'[SP] = regs[SP]
    <3>1. CASE i.op = OP_CMP
      BY <1>2, <3>1 DEF Compute
    <3>2. CASE i.op # OP_CMP
      <4>1. i.rd # SP
        BY <2>2, <3>2 DEF TouchesStack
      <4> QED
        BY <1>1, <1>2, <3>2, <4>1 DEF Compute, TypeOK
    <3> QED
      BY <3>1, <3>2
  <2> QED
    BY <2>1, <2>3 DEF sp
<1>3. CASE LoadWord(i, next, in)
  <2>1. mem' = mem /\ i.rd # SP
    BY <1>3 DEF LoadWord, TouchesStack
  <2>2. regs'[SP] = regs[SP]
    BY <1>1, <1>3, <2>1 DEF LoadWord, TypeOK
  <2> QED
    BY <2>1, <2>2 DEF sp
<1>4. CASE StoreWord(i, next, in)
  <2> DEFINE addr == EffectiveAddress(i)
  <2>1. regs' = regs /\ i.op = OP_SW /\ mem_write(addr, regs[i.rd])
    BY <1>4 DEF StoreWord
  <2>2. addr \notin sp + 1 .. STACK_BASE
    BY <2>1 DEF TouchesStack, EffectiveAddress, sp
  <2>3. addr \in Word /\ regs[i.rd] \in Word /\ sp \in Word
    <3>1. regs[i.rs1] \in Word /\ regs[i.rd] \in Word /\ sp \in Word
      BY <1>1 DEF TypeOK, sp
    <3>2. U16(i.imm) \in Int
      BY <1>1, U16IsWord, WordSizeFacts DEF Word
    <3> QED
      BY <3>1, <3>2, WordArithmetic DEF EffectiveAddress
  <2>4. sp' = sp
    BY <2>1 DEF sp
  <2>5. mem' = mem \/ mem' = Stored(mem, addr, regs[i.rd])
    BY <2>1 DEF mem_write
  <2> HIDE DEF addr
  <2>6. FramesOf(mem', sp) = FramesOf(mem, sp)
    BY <2>2, <2>3, <2>5, StoreOutside DEF TypeOK
  <2> QED
    BY <2>4, <2>6
<1>5. CASE Jump(i, next, in) \/ Stop(i, next, in)
  BY <1>5 DEF Jump, Stop, sp
<1> QED
  BY <1>2, <1>3, <1>4, <1>5 DEF Execute, Call, Return, StackOps

(* Every step of the processor is a step of the stack, or leaves it.        *)
LEMMA StepRefines == TypeOK /\ [BNext]_bvars => [Stack!Next]_(Stack!vars)
<1> SUFFICES ASSUME TypeOK, [BNext]_bvars PROVE [Stack!Next]_(Stack!vars)
  OBVIOUS
<1>1. CASE UNCHANGED bvars
  BY <1>1 DEF bvars, Stack!vars, sp, StackEffect, TouchesStack, EffectiveAddress
<1>2. CASE BNext
  <2>1. pc \in Word /\ stdin \in Seq(Byte) /\ sp \in Word /\ IsMemory(mem)
    BY DEF TypeOK, Byte, sp, SP, Reg, NUM_REGS
  <2>2. PICK fetched \in mem_read(pc, stdin) :
          ir' = fetched.val /\ Execute(Decode(fetched.val), U16(pc + 1), fetched.in)
    BY <1>2 DEF BNext, cpu_step
  <2> DEFINE w == fetched.val
             i == Decode(w)
             next == U16(pc + 1)
             in == fetched.in
  <2>3. w \in Word /\ next \in Word
    <3>1. w \in Word
      BY <2>1, ReadTypes
    <3> QED
      BY <2>1, <3>1, WordArithmetic
  <2>4. pc' \in Stack!Address
    <3>1. TypeOK'
      BY <1>2, StepTypes DEF BNext, Next
    <3> QED
      BY <3>1 DEF TypeOK, Stack!Address, Word
  <2>5. next = (pc + 1) % WordSize
    BY DEF U16
  <2>6. CASE ~(sp <= STACK_BASE)
    BY <2>4, <2>6 DEF Stack!Next, Stack!Unpromised
  <2>7. CASE sp <= STACK_BASE /\ i.op = OP_CALL
    <3>1. Call(i, next, in)
      BY <2>2, <2>7 DEF Execute, Compute, LoadWord, StoreWord, Jump, Return, Stop,
           InstrWithResult, LogicOps, AddLike, JumpOps, KnownOps, OP_ADD, OP_ADDI,
           OP_SUB, OP_SHL, OP_MOV, OP_AND, OP_OR, OP_XOR, OP_NOT, OP_SHR, OP_CMP,
           OP_LW, OP_SW, OP_CALL, OP_RET, OP_JMP, OP_JEQ, OP_JNE, OP_JLT, OP_JGT
    <3>2. StackEffect' = "call"
      BY <2>2, <2>7 DEF StackEffect
    <3>3. sp' = U16(sp - 1)
      BY <3>1 DEF Call, sp, TypeOK, SP, Reg, NUM_REGS
    <3>4. mem' = Stored(mem, sp, next)
      BY <2>1, <2>7, <3>1, MapFacts DEF Call, mem_write, sp, Word
    <3>5. CASE sp = 0
      <4>1. sp' = WordSize - 1
        BY <3>3, <3>5, U16Cases, WordSizeFacts
      <4>2. ~(sp' <= STACK_BASE) /\ sp' \in Word /\ sp' >= STACK_BASE
        BY <4>1, MapFacts, WordSizeFacts DEF Word
      <4>3. FramesOf(mem', sp') = <<>>
        BY <4>2, NoFrames
      <4>4. Len(FramesOf(mem, sp)) = STACK_BASE
        BY <2>1, <2>7, <3>5, FramesInRam, MapFacts
      <4> QED
        BY <2>4, <2>7, <3>2, <4>2, <4>3, <4>4 DEF Stack!Next, Stack!Overflow
    <3>6. CASE sp # 0
      <4>1. sp > 0 /\ sp - 1 \in 0 .. WordSize - 1
        BY <2>1, <3>6, WordSizeFacts DEF Word
      <4>2. sp' = sp - 1
        BY <3>3, <4>1, U16Cases
      <4>3. FramesOf(mem', sp') = Append(FramesOf(mem, sp), next)
        BY <2>1, <2>3, <2>7, <3>4, <4>1, <4>2, PushAppends
      <4>4. Len(FramesOf(mem, sp)) < STACK_BASE /\ sp' <= STACK_BASE
        <5>1. Len(FramesOf(mem, sp)) = STACK_BASE - sp
          BY <2>1, <2>7, FramesInRam
        <5> QED
          BY <2>1, <2>7, <4>1, <4>2, <5>1, MapFacts DEF Word
      <4> QED
        BY <2>4, <2>5, <2>7, <3>2, <4>3, <4>4 DEF Stack!Next, Stack!Call
    <3> QED
      BY <3>5, <3>6
  <2>8. CASE sp <= STACK_BASE /\ i.op = OP_RET
    <3>1. Return(i, in)
      BY <2>2, <2>8 DEF Execute, Compute, LoadWord, StoreWord, Jump, Call, Stop,
           InstrWithResult, LogicOps, AddLike, JumpOps, KnownOps, OP_ADD, OP_ADDI,
           OP_SUB, OP_SHL, OP_MOV, OP_AND, OP_OR, OP_XOR, OP_NOT, OP_SHR, OP_CMP,
           OP_LW, OP_SW, OP_CALL, OP_RET, OP_JMP, OP_JEQ, OP_JNE, OP_JLT, OP_JGT
    <3>2. StackEffect' = "ret"
      BY <2>2, <2>8 DEF StackEffect, OP_CALL, OP_RET
    <3>3. sp' = U16(sp + 1) /\ mem' = mem
      BY <3>1 DEF Return, sp, TypeOK, SP, Reg, NUM_REGS
    <3>4. sp + 1 \in 0 .. WordSize - 1
      BY <2>1, <2>8, MapFacts DEF Word
    <3>5. sp' = sp + 1
      BY <3>3, <3>4, U16Cases
    <3>6. CASE sp = STACK_BASE
      <4>1. ~(sp' <= STACK_BASE) /\ sp' \in Word /\ sp' >= STACK_BASE /\ sp >= STACK_BASE
        BY <3>4, <3>5, <3>6, MapFacts DEF Word
      <4>2. FramesOf(mem', sp') = <<>> /\ FramesOf(mem, sp) = <<>>
        BY <2>1, <4>1, NoFrames
      <4> QED
        BY <2>4, <2>8, <3>2, <4>1, <4>2 DEF Stack!Next, Stack!Underflow
    <3>7. CASE sp # STACK_BASE
      <4>1. sp < STACK_BASE /\ sp' <= STACK_BASE
        BY <2>1, <2>8, <3>5, <3>7, MapFacts DEF Word
      <4>2. sp + 1 # IO_STDIN /\ sp + 1 # IO_TIMER
        BY <2>1, <4>1, MapFacts DEF Word
      <4>3. pc' = Cell(mem, sp + 1)
        BY <3>1, <3>3, <3>5, <4>2 DEF Return, mem_read, sp
      <4>4. /\ FramesOf(mem', sp')
                 = SubSeq(FramesOf(mem, sp), 1, Len(FramesOf(mem, sp)) - 1)
            /\ FramesOf(mem, sp)[Len(FramesOf(mem, sp))] = pc'
            /\ FramesOf(mem, sp) # <<>>
        BY <2>1, <3>3, <3>5, <4>1, <4>3, PopDrops
      <4> QED
        BY <2>8, <3>2, <4>1, <4>4 DEF Stack!Next, Stack!Return
    <3> QED
      BY <3>6, <3>7
  <2>9. CASE sp <= STACK_BASE /\ i.op \notin StackOps
    <3>1. CASE TouchesStack(i)'
      <4>1. StackEffect' = "user"
        BY <2>2, <2>9, <3>1 DEF StackEffect, StackOps
      <4> QED
        BY <2>4, <2>9, <4>1 DEF Stack!Next, Stack!User
    <3>2. CASE ~TouchesStack(i)'
      <4>1. StackEffect' = "other"
        BY <2>2, <2>9, <3>2 DEF StackEffect, StackOps
      <4>2. sp' = sp /\ FramesOf(mem', sp') = FramesOf(mem, sp)
        BY <2>2, <2>3, <2>9, <3>2, OrdinaryStep
      <4> QED
        BY <2>4, <2>9, <4>1, <4>2 DEF Stack!Next, Stack!Other
    <3> QED
      BY <3>1, <3>2
  <2> QED
    BY <2>6, <2>7, <2>8, <2>9 DEF StackOps
<1> QED
  BY <1>1, <1>2

(* CALL and RET nest: the processor implements the abstract call stack.     *)
THEOREM ProcessorImplementsCallStack == BSpec => CallsNest
<1> QED
  BY InitRefines, StepRefines, ObservedTypes, PTL DEF BSpec, CallsNest, Stack!Spec
=============================================================================

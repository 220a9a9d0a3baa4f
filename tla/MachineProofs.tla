--------------------------- MODULE MachineProofs ----------------------------
(* Theorems about the processor, for every even word size, memory map,      *)
(* instruction table, program and input.                                    *)
EXTENDS Machine, TLAPS

(* The word size as a number, for the arithmetic of the leaves below. *)
LEMMA WordSizeFacts ==
  /\ WordSize \in Nat /\ WordSize >= 2
  /\ Half \in Nat /\ WordSize = 2 * Half
<1>1. WordSize \in Nat \ {0} /\ WordSize % 2 = 0
  BY WordSizeAssumption
<1>2. Half \in Nat /\ WordSize = 2 * Half
  BY <1>1 DEF Half
<1> QED
  BY <1>1, <1>2

(* The cast to uint16_t: always a word, and within one word size of the     *)
(* range it adds or subtracts that size.                                    *)
LEMMA U16IsWord == \A x \in Int : U16(x) \in Word
BY WordSizeFacts DEF U16, Word

LEMMA WordArithmetic ==
  ASSUME NEW a \in Word, NEW k \in Int
  PROVE  a + k \in Int /\ U16(a + k) \in Word /\ U16(a - k) \in Word
<1>1. a \in Int
  BY WordSizeFacts DEF Word
<1>2. a + k \in Int /\ a - k \in Int
  BY <1>1
<1> QED
  BY <1>2, U16IsWord

LEMMA U16Cases ==
  ASSUME NEW x \in Int
  PROVE  /\ x \in 0 .. WordSize - 1 => U16(x) = x
         /\ x \in WordSize .. 2 * WordSize - 1 => U16(x) = x - WordSize
         /\ x \in -WordSize .. -1 => U16(x) = x + WordSize
BY WordSizeFacts DEF U16

(* The instruction set: registers and immediates of a decoded word. *)
LEMMA DecodeTypes ==
  ASSUME NEW w \in Word
  PROVE  /\ Decode(w).op \in Opcode
         /\ Decode(w).rd \in Reg /\ Decode(w).rs1 \in Reg /\ Decode(w).rs2 \in Reg
         /\ Decode(w).imm \in Int /\ Decode(w).off \in Int
BY SMTT(60), DecodeAssumption DEF Instruction, IMM5_MIN, IMM5_MAX, JUMP_MIN, JUMP_MAX

(* Bitwise operations give a number, whatever the bit predicate. *)
LEMMA LogicIsInt ==
  ASSUME NEW op \in Opcode, NEW a \in Word, NEW b \in Word
  PROVE  Logic(op, a, b) \in Int
<1>1. Shift(b) \in Nat \ {0}
  <2>1. b % 16 \in 0 .. 15
    BY WordSizeFacts DEF Word
  <2> QED
    BY <2>1 DEF Shift, PowersOfTwo
<1>2. a \div Shift(b) \in Int
  BY <1>1, WordSizeFacts DEF Word
<1>3. WordSize - 1 - a \in Int
  BY WordSizeFacts DEF Word
<1>4. BitByBit(LAMBDA p, q : p /\ q, a, b) \in Int
  BY DEF BitByBit, Nibble, Bit
<1>5. BitByBit(LAMBDA p, q : p \/ q, a, b) \in Int
  BY DEF BitByBit, Nibble, Bit
<1>6. BitByBit(LAMBDA p, q : p # q, a, b) \in Int
  BY DEF BitByBit, Nibble, Bit
<1> QED
  BY <1>2, <1>3, <1>4, <1>5, <1>6 DEF Logic

(* alu_execute returns a word and leaves a set of flags. *)
LEMMA AluTypes ==
  ASSUME NEW op \in Opcode, NEW a \in Word, NEW b \in Word,
         NEW f \in SUBSET Flag
  PROVE  /\ AluResult(op, a, b) \in Word
         /\ AluFlags(op, a, b, f) \in SUBSET Flag
<1>1. op \in WideOps => Wide(op, a, b) \in Int
  <2>1. Shift(b) \in Int
    <3>1. b % 16 \in 0 .. 15
      BY WordSizeFacts DEF Word
    <3> QED
      BY <3>1 DEF Shift, PowersOfTwo
  <2>2. a * Shift(b) \in Int
    BY <2>1, WordSizeFacts DEF Word
  <2>3. a + b \in Int /\ a - b \in Int
    BY WordSizeFacts DEF Word
  <2> QED
    BY <2>2, <2>3 DEF Wide
<1>2. AluResult(op, a, b) \in Word
  BY <1>1, LogicIsInt, U16IsWord DEF AluResult
<1>3. AluFlags(op, a, b, f) \in SUBSET Flag
  BY DEF AluFlags, UpdateZN, SetFlag, Flag
<1> QED
  BY <1>2, <1>3

-----------------------------------------------------------------------------
Byte == 0 .. ByteSize - 1

(* A memory reads as words, and a store changes the one cell it names. *)
LEMMA CellIsWord ==
  ASSUME NEW m, IsMemory(m), NEW a
  PROVE  Cell(m, a) \in Word
BY WordSizeFacts DEF IsMemory, Cell, Word

LEMMA StoredCells ==
  ASSUME NEW m, IsMemory(m), NEW a \in Word, NEW val \in Word
  PROVE  /\ IsMemory(Stored(m, a, val))
         /\ \A c : Cell(Stored(m, a, val), c) = IF c = a THEN val ELSE Cell(m, c)
BY DEF IsMemory, Cell, Stored

(* mem_read gives a word and a shorter or equal input. *)
LEMMA ReadTypes ==
  ASSUME TypeOK, NEW addr \in Word, NEW in \in Seq(Byte),
         NEW read \in mem_read(addr, in)
  PROVE  read.val \in Word /\ read.in \in Seq(Byte)
<1>1. Byte \subseteq Word /\ 0 \in Word /\ Ticks \subseteq Word
  BY DataAssumption, WordSizeFacts DEF Byte, Word
<1>2. CASE addr = IO_STDIN /\ in = <<>>
  <2>1. read = [val |-> 0, in |-> in]
    BY <1>2 DEF mem_read
  <2> QED
    BY <1>1, <2>1
<1>3. CASE addr = IO_STDIN /\ in # <<>>
  <2>1. read = [val |-> Head(in), in |-> Tail(in)]
    BY <1>3 DEF mem_read
  <2>2. Head(in) \in Byte /\ Tail(in) \in Seq(Byte)
    BY <1>3
  <2> QED
    BY <1>1, <2>1, <2>2
<1>4. CASE addr # IO_STDIN
  BY <1>1, <1>4, CellIsWord DEF mem_read, TypeOK
<1> QED
  BY <1>2, <1>3, <1>4

(* mem_write keeps memory and output in their types. *)
LEMMA WriteTypes ==
  ASSUME TypeOK, NEW addr \in Word, NEW val \in Word, mem_write(addr, val)
  PROVE  IsMemory(mem') /\ stdout' \in Seq(Byte)
<1>1. val % ByteSize \in Byte
  BY DataAssumption, WordSizeFacts DEF Byte, Word
<1>2. stdout \in Seq(Byte)
  BY DEF TypeOK, Byte
<1>3. Append(stdout, val % ByteSize) \in Seq(Byte)
  BY <1>1, <1>2
<1> QED
  BY <1>2, <1>3, StoredCells DEF mem_write, TypeOK

(* The operands handed to the ALU are an opcode and two words. *)
LEMMA OperandTypes ==
  ASSUME TypeOK, NEW w \in Word
  PROVE  LET o == AluOperands(Decode(w))
         IN  o[1] \in Opcode /\ o[2] \in Word /\ o[3] \in Word
<1> DEFINE i == Decode(w)
<1>1. i.op \in Opcode /\ i.rs1 \in Reg /\ i.rs2 \in Reg /\ i.imm \in Int
  BY DecodeTypes
<1>2. regs[i.rs1] \in Word /\ regs[i.rs2] \in Word /\ U16(i.imm) \in Word
  BY <1>1, U16IsWord DEF TypeOK
<1>3. OP_ADD \in Opcode /\ 0 \in Word
  BY WordSizeFacts DEF OP_ADD, Opcode, Word
<1> HIDE DEF i
<1>4. AluOperands(i) \in Opcode \X Word \X Word
  BY <1>1, <1>2, <1>3 DEF AluOperands
<1> QED
  BY <1>4 DEF i

-----------------------------------------------------------------------------
(* The loaded memory is a memory. *)
LEMMA LoadTypes ==
  ASSUME NEW image \in Seq(Word), Len(image) <= WordSize
  PROVE  IsMemory(mem_load(image, 0))
<1>1. image \in Seq(Word) /\ Len(image) \in 0 .. WordSize
  BY WordSizeFacts
<1>2. ASSUME NEW k \in 0 .. Len(image) - 1
      PROVE  U16(0 + k) = k /\ U16(k - 0) = k /\ k \in Word /\ image[k + 1] \in Word
  <2>1. k \in 0 .. WordSize - 1 /\ k + 1 \in 1 .. Len(image)
    BY <1>1, WordSizeFacts
  <2>2. 0 + k = k /\ k - 0 = k
    BY <2>1
  <2>3. U16(k) = k
    BY <2>1, U16Cases, WordSizeFacts
  <2>4. image[k + 1] \in Word
    BY <1>1, <2>1
  <2> QED
    BY <2>1, <2>2, <2>3, <2>4 DEF Word
<1> QED
  BY <1>2 DEF mem_load, IsMemory

LEMMA InitTypes == Init => TypeOK
<1> SUFFICES ASSUME Init PROVE TypeOK
  OBVIOUS
<1>1. IsMemory(mem)
  BY DataAssumption, LoadTypes DEF Init
<1>2. 0 \in Word /\ STACK_BASE \in Word /\ MaxCycles \in Nat
  BY WordSizeFacts, MapAssumption, DataAssumption DEF Word
<1>3. stdin \in Seq(0 .. ByteSize - 1) /\ stdout \in Seq(0 .. ByteSize - 1)
  BY DataAssumption DEF Init
<1>4. regs \in [Reg -> Word]
  BY <1>2 DEF Init, cpu_reset
<1>5. pc \in Word /\ ir \in Word /\ flags \subseteq Flag /\ halted \in BOOLEAN
  BY <1>2 DEF Init, cpu_reset
<1>6. cycle_count \in 0 .. MaxCycles
  BY <1>2 DEF Init, cpu_reset
<1> QED
  BY <1>1, <1>3, <1>4, <1>5, <1>6 DEF TypeOK

(* One step keeps the types: one case per kind of instruction. *)
LEMMA StepTypes == TypeOK /\ [Next]_vars => TypeOK'
<1> SUFFICES ASSUME TypeOK, [Next]_vars PROVE TypeOK'
  OBVIOUS
<1>1. CASE UNCHANGED vars
  BY <1>1 DEF TypeOK, vars
<1>2. CASE cpu_step
  <2>1. pc \in Word /\ stdin \in Seq(Byte)
    BY DEF TypeOK, Byte
  <2>2. PICK fetched \in mem_read(pc, stdin) :
          ir' = fetched.val /\ Execute(Decode(fetched.val), U16(pc + 1), fetched.in)
    BY <1>2 DEF cpu_step
  <2> DEFINE w == fetched.val
             i == Decode(w)
             next == U16(pc + 1)
             in == fetched.in
  <2>3. w \in Word /\ in \in Seq(Byte)
    BY <2>1, ReadTypes
  <2>4. /\ i.op \in Opcode /\ i.rd \in Reg /\ i.rs1 \in Reg /\ i.rs2 \in Reg
        /\ i.imm \in Int /\ i.off \in Int
    BY <2>3, DecodeTypes
  <2>5. next \in Word /\ U16(next + i.off) \in Word
    <3>1. next \in Word
      BY <2>1, WordArithmetic
    <3> QED
      BY <3>1, <2>4, WordArithmetic
  <2>6. cycle_count' \in 0 .. MaxCycles /\ ir' \in Word
    BY <1>2, <2>2, <2>3, DataAssumption DEF cpu_step, TypeOK
  <2>7. EffectiveAddress(i) \in Word
    <3>1. regs[i.rs1] \in Word /\ U16(i.imm) \in Int
      <4>1. regs[i.rs1] \in Word
        BY <2>4 DEF TypeOK
      <4>2. U16(i.imm) \in Word
        BY <2>4, U16IsWord
      <4> QED
        BY <4>1, <4>2, WordSizeFacts DEF Word
    <3> QED
      BY <3>1, WordArithmetic DEF EffectiveAddress
  <2>8. SP \in Reg /\ U16(regs[SP] - 1) \in Word /\ U16(regs[SP] + 1) \in Word
    <3>1. SP \in Reg /\ regs[SP] \in Word
      BY DEF SP, Reg, NUM_REGS, TypeOK
    <3> QED
      BY <3>1, WordArithmetic
  <2>9. stdin' \in Seq(Byte) /\ pc' \in Word /\ flags' \subseteq Flag
        /\ halted' \in BOOLEAN /\ regs' \in [Reg -> Word]
        /\ IsMemory(mem') /\ stdout' \in Seq(Byte)
    <3>1. CASE Compute(i, next, in)
      <4> DEFINE o == AluOperands(i)
      <4>1. o[1] \in Opcode /\ o[2] \in Word /\ o[3] \in Word
        BY <2>3, OperandTypes
      <4>2. AluResult(o[1], o[2], o[3]) \in Word
            /\ AluFlags(o[1], o[2], o[3], flags) \in SUBSET Flag
        BY <4>1, AluTypes DEF TypeOK
      <4>3. regs' \in [Reg -> Word] /\ flags' \subseteq Flag
        BY <3>1, <4>2, <2>4 DEF Compute, TypeOK
      <4> QED
        BY <3>1, <4>3, <2>3, <2>5 DEF Compute, TypeOK, Byte
    <3>2. CASE LoadWord(i, next, in)
      <4>1. PICK read \in mem_read(EffectiveAddress(i), in) :
              regs' = [regs EXCEPT ![i.rd] = read.val] /\ stdin' = read.in
        BY <3>2 DEF LoadWord
      <4>2. read.val \in Word /\ read.in \in Seq(Byte)
        BY <2>3, <2>7, ReadTypes
      <4> QED
        BY <3>2, <4>1, <4>2, <2>4, <2>5 DEF LoadWord, TypeOK, Byte
    <3>3. CASE StoreWord(i, next, in)
      <4>1. regs[i.rd] \in Word
        BY <2>4 DEF TypeOK
      <4>2. IsMemory(mem') /\ stdout' \in Seq(Byte)
        BY <3>3, <4>1, <2>7, WriteTypes DEF StoreWord
      <4> QED
        BY <3>3, <4>2, <2>3, <2>5 DEF StoreWord, TypeOK
    <3>4. CASE Jump(i, next, in)
      BY <3>4, <2>3, <2>5 DEF Jump, TypeOK, Byte
    <3>5. CASE Call(i, next, in)
      <4>1. regs[SP] \in Word
        BY <2>8 DEF TypeOK
      <4>2. IsMemory(mem') /\ stdout' \in Seq(Byte)
        BY <3>5, <4>1, <2>5, WriteTypes DEF Call
      <4> QED
        BY <3>5, <4>2, <2>3, <2>5, <2>8 DEF Call, TypeOK
    <3>6. CASE Return(i, in)
      <4>1. PICK read \in mem_read(U16(regs[SP] + 1), in) :
              pc' = read.val /\ stdin' = read.in
        BY <3>6 DEF Return
      <4>2. read.val \in Word /\ read.in \in Seq(Byte)
        BY <2>3, <2>8, ReadTypes
      <4> QED
        BY <3>6, <4>1, <4>2, <2>8 DEF Return, TypeOK, Byte
    <3>7. CASE Stop(i, next, in)
      BY <3>7, <2>3, <2>5 DEF Stop, TypeOK, Byte
    <3> QED
      BY <2>2, <3>1, <3>2, <3>3, <3>4, <3>5, <3>6, <3>7 DEF Execute
  <2> QED
    BY <2>6, <2>9 DEF TypeOK, Byte
<1> QED
  BY <1>1, <1>2 DEF Next

(* The processor state keeps its types, whatever runs on it. *)
THEOREM MachineTypes == Spec => []TypeOK
<1> QED
  BY InitTypes, StepTypes, PTL DEF Spec

-----------------------------------------------------------------------------
(* A store, by SW or by the push of CALL, leaves the I/O page alone. *)
LEMMA WriteSparesIoPage ==
  ASSUME TypeOK, NEW addr \in Word, NEW val \in Word, mem_write(addr, val),
         NEW a \in IO_BASE .. WordSize - 1
  PROVE  Cell(mem', a) = Cell(mem, a)
<1>1. addr \in Int /\ IO_BASE \in Int /\ a \in Word
  BY MapAssumption, WordSizeFacts DEF Word
<1>2. CASE addr >= IO_BASE
  BY <1>2 DEF mem_write
<1>3. CASE ~(addr >= IO_BASE)
  <2>1. addr # a
    BY <1>1, <1>3
  <2> QED
    BY <1>1, <1>3, <2>1, StoredCells DEF mem_write, TypeOK
<1> QED
  BY <1>2, <1>3

(* Every step leaves the I/O page as the loader filled it. *)
LEMMA StepSparesIoPage ==
  ASSUME TypeOK, [Next]_vars, NEW a \in IO_BASE .. WordSize - 1
  PROVE  Cell(mem', a) = Cell(mem, a)
<1>1. CASE UNCHANGED vars
  BY <1>1 DEF vars
<1>2. CASE cpu_step
  <2>1. pc \in Word /\ stdin \in Seq(Byte)
    BY DEF TypeOK, Byte
  <2>2. PICK fetched \in mem_read(pc, stdin) :
          Execute(Decode(fetched.val), U16(pc + 1), fetched.in)
    BY <1>2 DEF cpu_step
  <2> DEFINE i == Decode(fetched.val)
             next == U16(pc + 1)
             in == fetched.in
  <2>3. fetched.val \in Word
    BY <2>1, ReadTypes
  <2>4. i.rd \in Reg /\ i.rs1 \in Reg /\ i.imm \in Int
    BY <2>3, DecodeTypes
  <2>5. regs[i.rd] \in Word /\ regs[i.rs1] \in Word /\ regs[SP] \in Word
    BY <2>4 DEF TypeOK, SP, Reg, NUM_REGS
  <2>6. next \in Word
    BY <2>1, WordArithmetic
  <2>7. CASE StoreWord(i, next, in)
    <3>1. U16(i.imm) \in Int
      BY <2>4, U16IsWord, WordSizeFacts DEF Word
    <3>2. EffectiveAddress(i) \in Word
      BY <2>5, <3>1, WordArithmetic DEF EffectiveAddress
    <3> QED
      BY <2>5, <2>7, <3>2, WriteSparesIoPage DEF StoreWord
  <2>8. CASE Call(i, next, in)
    BY <2>5, <2>6, <2>8, WriteSparesIoPage DEF Call
  <2>9. CASE Compute(i, next, in) \/ LoadWord(i, next, in) \/ Jump(i, next, in)
               \/ Return(i, in) \/ Stop(i, next, in)
    BY <2>9 DEF Compute, LoadWord, Jump, Return, Stop
  <2> QED
    BY <2>2, <2>7, <2>8, <2>9 DEF Execute
<1> QED
  BY <1>1, <1>2 DEF Next

(* No program can change what lies in the I/O page. *)
THEOREM IoPageIsFixed == Spec => IoPageFixed
<1>1. TypeOK /\ [Next]_vars => [\A a \in IO_BASE .. WordSize - 1 : Cell(mem', a) = Cell(mem, a)]_vars
  BY StepSparesIoPage
<1> QED
  BY <1>1, MachineTypes, PTL DEF Spec, IoPageFixed

-----------------------------------------------------------------------------
(* A processor that has stopped stays where it stopped. *)
LEMMA InitHaltPoint == Init => HaltPoint
BY DEF Init, cpu_reset, HaltPoint

LEMMA StepHaltPoint == TypeOK /\ HaltPoint /\ [Next]_vars => HaltPoint'
<1> SUFFICES ASSUME TypeOK, HaltPoint, [Next]_vars PROVE HaltPoint'
  OBVIOUS
<1>1. CASE UNCHANGED vars
  BY <1>1 DEF HaltPoint, vars
<1>2. CASE cpu_step
  <2>1. pc \in Word /\ stdin \in Seq(Byte) /\ ~halted
    BY <1>2 DEF TypeOK, Byte, cpu_step
  <2>2. PICK fetched \in mem_read(pc, stdin) :
          ir' = fetched.val /\ Execute(Decode(fetched.val), U16(pc + 1), fetched.in)
    BY <1>2 DEF cpu_step
  <2> DEFINE i == Decode(fetched.val)
             next == U16(pc + 1)
             in == fetched.in
  <2>3. CASE Stop(i, next, in)
    <3>1. pc' = next /\ mem' = mem /\ i.op \notin KnownOps
      BY <2>3 DEF Stop
    <3>2. U16(pc' - 1) = pc
      <4>1. pc \in 0 .. WordSize - 1 /\ pc + 1 \in Int
        BY <2>1, WordSizeFacts DEF Word
      <4>2. CASE pc = WordSize - 1
        <5>1. U16(pc + 1) = 0
          BY <4>1, <4>2, U16Cases, WordSizeFacts
        <5>2. U16(-1) = WordSize - 1
          BY U16Cases, WordSizeFacts
        <5> QED
          BY <3>1, <4>2, <5>1, <5>2
      <4>3. CASE pc # WordSize - 1
        <5>1. pc + 1 \in 0 .. WordSize - 1
          BY <4>1, <4>3, WordSizeFacts
        <5>2. U16(pc + 1) = pc + 1 /\ U16(pc) = pc
          BY <4>1, <5>1, U16Cases
        <5> QED
          BY <3>1, <4>1, <5>2
      <4> QED
        BY <4>2, <4>3
    <3>3. pc \notin {IO_STDIN, IO_TIMER} => fetched.val = Cell(mem, pc)
      BY <2>2 DEF mem_read
    <3> QED
      BY <2>2, <3>1, <3>2, <3>3 DEF HaltPoint
  <2>4. CASE ~Stop(i, next, in)
    <3>1. halted' = halted
      BY <2>2, <2>4 DEF Execute, Compute, LoadWord, StoreWord, Jump, Call, Return
    <3> QED
      BY <2>1, <3>1 DEF HaltPoint
  <2> QED
    BY <2>3, <2>4
<1> QED
  BY <1>1, <1>2 DEF Next

(* The processor stops only on HALT or an unassigned opcode, just past it. *)
THEOREM HaltPointHolds == Spec => []HaltPoint
<1> QED
  BY InitHaltPoint, StepHaltPoint, MachineTypes, PTL DEF Spec
=============================================================================

------------------------------- MODULE Machine -------------------------------
(* The processor and its memory: cpu_step (emulator/control.c) on the CPU   *)
(* record of emulator/cpu.h, with the memory and the memory-mapped ports of *)
(* emulator/memory.c.  One step of the specification is one call of         *)
(* cpu_step: fetch, decode and execute of one instruction.                  *)
EXTENDS Alu, Sequences, FiniteSets

CONSTANTS
  IO_BASE,      \* first word of the I/O page; stores above it are dropped
  IO_STDOUT,    \* a store prints its low byte
  IO_STDIN,     \* a load takes one byte of the input
  IO_TIMER,     \* a load reads the clock
  STACK_BASE,   \* initial stack pointer
  ByteSize,     \* 2^8: putchar and getchar carry bytes
  Decode(_),    \* the instruction a word stands for: Fields in the program
  Ticks,        \* the values the clock may show
  Programs,     \* the images that may be loaded at address 0
  Inputs,       \* the byte sequences standard input may hold
  MaxCycles     \* bound on cycle_count (uint64_t in the program)

ASSUME MapAssumption ==
  /\ IO_BASE \in Word /\ IO_STDOUT \in IO_BASE .. WordSize - 1
  /\ IO_STDIN \in IO_BASE .. WordSize - 1 /\ IO_TIMER \in IO_BASE .. WordSize - 1
  /\ Cardinality({IO_STDOUT, IO_STDIN, IO_TIMER}) = 3
  /\ STACK_BASE \in Word /\ STACK_BASE < IO_BASE

ASSUME DecodeAssumption ==
  /\ \A w \in Word : Decode(w) \in Instruction
  /\ Decode(0).op = 0

ASSUME DataAssumption ==
  /\ ByteSize \in 1 .. WordSize
  /\ Ticks \subseteq Word
  /\ \A image \in Programs : image \in Seq(Word) /\ Len(image) <= WordSize
  /\ \A input \in Inputs : input \in Seq(0 .. ByteSize - 1)
  /\ MaxCycles \in Nat

VARIABLES
  regs, pc, ir, flags, cycle_count, halted,  \* struct CPU
  mem,                                       \* static uint16_t mem[MEM_SIZE]:
                                             \* the cells loaded or stored to
  stdin,                                     \* the input not yet consumed
  stdout                                     \* the bytes printed so far

cpu  == <<regs, pc, ir, flags, cycle_count, halted>>
vars == <<regs, pc, ir, flags, cycle_count, halted, mem, stdin, stdout>>

SP == 7  \* regs[7] is the stack pointer
-----------------------------------------------------------------------------
(* Memory *)

(* The array is static, so a cell nothing was loaded into or stored to is   *)
(* zero.                                                                    *)
IsMemory(m) == DOMAIN m \subseteq Word /\ m \in [DOMAIN m -> Word]

Cell(m, a) == IF a \in DOMAIN m THEN m[a] ELSE 0

Stored(m, a, val) ==
  [c \in DOMAIN m \cup {a} |-> IF c = a THEN val ELSE m[c]]

Blank == [a \in {} |-> 0]

(* mem_load on the blank array: program at base, wrapping at the top. *)
mem_load(image, base) ==
  [a \in {U16(base + i) : i \in 0 .. Len(image) - 1} |-> image[U16(a - base) + 1]]

\* Mutant: the byte is looked at and not consumed.
mem_read_Peek(addr, in) ==
  IF addr = IO_STDIN
    THEN {[val |-> IF in = <<>> THEN 0 ELSE Head(in), in |-> in]}
  ELSE IF addr = IO_TIMER THEN {[val |-> tick, in |-> in] : tick \in Ticks}
  ELSE {[val |-> Cell(mem, addr), in |-> in]}

(* The outcomes of mem_read when the input still holds in: the value, and   *)
(* what is left of the input.  At end of file getchar keeps failing and     *)
(* the read gives 0.                                                        *)
mem_read(addr, in) ==
  IF addr = IO_STDIN
    THEN {IF in = <<>> THEN [val |-> 0, in |-> in]
                       ELSE [val |-> Head(in), in |-> Tail(in)]}
  ELSE IF addr = IO_TIMER THEN {[val |-> tick, in |-> in] : tick \in Ticks}
  ELSE {[val |-> Cell(mem, addr), in |-> in]}

\* Mutant: the guard of the I/O page is off by one.
mem_write_OffByOne(addr, val) ==
  /\ mem' = IF addr > IO_BASE THEN mem ELSE Stored(mem, addr, val)
  /\ stdout' = IF addr = IO_STDOUT THEN Append(stdout, val % ByteSize)
                                   ELSE stdout

mem_write(addr, val) ==
  /\ mem' = IF addr >= IO_BASE THEN mem ELSE Stored(mem, addr, val)
  /\ stdout' = IF addr = IO_STDOUT THEN Append(stdout, val % ByteSize)
                                   ELSE stdout
-----------------------------------------------------------------------------
(* Execution.  Each action takes the decoded instruction i, the program     *)
(* counter next already moved past it, and the input in left by the fetch.  *)

InstrWithResult == (LogicOps \cup AddLike \cup {OP_SUB, OP_SHL, OP_MOV})

\* Mutant: ADDI takes its five bits as an unsigned number.
AluOperands_ZeroExtended(i) ==
  CASE i.op = OP_NOT  -> <<i.op, regs[i.rs1], 0>>
    [] i.op = OP_ADDI -> <<i.op, regs[i.rs1], i.imm % 32>>
    [] i.op = OP_MOV  -> <<OP_ADD, 0, U16(i.imm)>>
    [] OTHER          -> <<i.op, regs[i.rs1], regs[i.rs2]>>

(* ADD .. SHR, NOT, ADDI, MOV and CMP all go through alu_execute; MOV adds  *)
(* its immediate to 0, so it sets all four flags like an ADD; CMP drops the *)
(* result.                                                                  *)
AluOperands(i) ==
  CASE i.op = OP_NOT  -> <<i.op, regs[i.rs1], 0>>
    [] i.op = OP_ADDI -> <<i.op, regs[i.rs1], U16(i.imm)>>
    [] i.op = OP_MOV  -> <<OP_ADD, 0, U16(i.imm)>>
    [] OTHER          -> <<i.op, regs[i.rs1], regs[i.rs2]>>

Compute(i, next, in) ==
  LET o == AluOperands(i) IN
  /\ i.op \in InstrWithResult \cup {OP_CMP}
  /\ flags' = AluFlags(o[1], o[2], o[3], flags)
  /\ regs' = IF i.op = OP_CMP THEN regs
             ELSE [regs EXCEPT ![i.rd] = AluResult(o[1], o[2], o[3])]
  /\ pc' = next
  /\ stdin' = in
  /\ UNCHANGED <<halted, mem, stdout>>

EffectiveAddress(i) == U16(regs[i.rs1] + U16(i.imm))

\* Mutant: a load sets ZF and NF from the loaded word.
LoadWord_SetsFlags(i, next, in) ==
  /\ i.op = OP_LW
  /\ \E read \in mem_read(EffectiveAddress(i), in) :
       /\ regs' = [regs EXCEPT ![i.rd] = read.val]
       /\ flags' = UpdateZN(flags, read.val)
       /\ stdin' = read.in
  /\ pc' = next
  /\ UNCHANGED <<halted, mem, stdout>>

LoadWord(i, next, in) ==
  /\ i.op = OP_LW
  /\ \E read \in mem_read(EffectiveAddress(i), in) :
       /\ regs' = [regs EXCEPT ![i.rd] = read.val]
       /\ stdin' = read.in
  /\ pc' = next
  /\ UNCHANGED <<flags, halted, mem, stdout>>

StoreWord(i, next, in) ==
  /\ i.op = OP_SW
  /\ mem_write(EffectiveAddress(i), regs[i.rd])
  /\ pc' = next
  /\ stdin' = in
  /\ UNCHANGED <<regs, flags, halted>>

JumpOps == {OP_JMP, OP_JEQ, OP_JNE, OP_JLT, OP_JGT}

\* Mutant: JGT forgets that equal is not greater.
Taken_JgtAsGe(op) ==
  CASE op = OP_JMP -> TRUE
    [] op = OP_JEQ -> "ZF" \in flags
    [] op = OP_JNE -> "ZF" \notin flags
    [] op = OP_JLT -> "NF" \in flags
    [] op = OP_JGT -> "NF" \notin flags

Taken(op) ==
  CASE op = OP_JMP -> TRUE
    [] op = OP_JEQ -> "ZF" \in flags
    [] op = OP_JNE -> "ZF" \notin flags
    [] op = OP_JLT -> "NF" \in flags
    [] op = OP_JGT -> "ZF" \notin flags /\ "NF" \notin flags

\* Mutant: the offset counts from the jump itself.
Jump_FromItself(i, next, in) ==
  /\ i.op \in JumpOps
  /\ pc' = IF Taken(i.op) THEN U16(next - 1 + i.off) ELSE next
  /\ stdin' = in
  /\ UNCHANGED <<regs, flags, halted, mem, stdout>>

Jump(i, next, in) ==
  /\ i.op \in JumpOps
  /\ pc' = IF Taken(i.op) THEN U16(next + i.off) ELSE next
  /\ stdin' = in
  /\ UNCHANGED <<regs, flags, halted, mem, stdout>>

\* Mutant: the stack pointer is not cast back to uint16_t.
Call_NoWrap(i, next, in) ==
  /\ i.op = OP_CALL
  /\ mem_write(regs[SP], next)
  /\ regs' = [regs EXCEPT ![SP] = @ - 1]
  /\ pc' = U16(next + i.off)
  /\ stdin' = in
  /\ UNCHANGED <<flags, halted>>

\* Mutant: decrement first, push after, against the order RET undoes.
Call_DecrementFirst(i, next, in) ==
  /\ i.op = OP_CALL
  /\ mem_write(U16(regs[SP] - 1), next)
  /\ regs' = [regs EXCEPT ![SP] = U16(@ - 1)]
  /\ pc' = U16(next + i.off)
  /\ stdin' = in
  /\ UNCHANGED <<flags, halted>>

Call(i, next, in) ==
  /\ i.op = OP_CALL
  /\ mem_write(regs[SP], next)
  /\ regs' = [regs EXCEPT ![SP] = U16(@ - 1)]
  /\ pc' = U16(next + i.off)
  /\ stdin' = in
  /\ UNCHANGED <<flags, halted>>

Return(i, in) ==
  LET top == U16(regs[SP] + 1) IN
  /\ i.op = OP_RET
  /\ regs' = [regs EXCEPT ![SP] = top]
  /\ \E read \in mem_read(top, in) : pc' = read.val /\ stdin' = read.in
  /\ UNCHANGED <<flags, halted, mem, stdout>>

KnownOps ==
  InstrWithResult \cup JumpOps \cup {OP_CMP, OP_LW, OP_SW, OP_CALL, OP_RET}

\* Mutant: PC stays on the instruction that stopped the processor.
Stop_OnInstruction(i, next, in) ==
  /\ i.op \notin KnownOps
  /\ halted' = TRUE
  /\ pc' = U16(next - 1)
  /\ stdin' = in
  /\ UNCHANGED <<regs, flags, mem, stdout>>

(* HALT, and any opcode that is not assigned, stop the processor. *)
Stop(i, next, in) ==
  /\ i.op \notin KnownOps
  /\ halted' = TRUE
  /\ pc' = next
  /\ stdin' = in
  /\ UNCHANGED <<regs, flags, mem, stdout>>

Execute(i, next, in) ==
  \/ Compute(i, next, in)
  \/ LoadWord(i, next, in)
  \/ StoreWord(i, next, in)
  \/ Jump(i, next, in)
  \/ Call(i, next, in)
  \/ Return(i, in)
  \/ Stop(i, next, in)

cpu_step ==
  /\ ~halted
  /\ cycle_count < MaxCycles
  /\ cycle_count' = cycle_count + 1
  /\ \E fetched \in mem_read(pc, stdin) :
       /\ ir' = fetched.val
       /\ Execute(Decode(fetched.val), U16(pc + 1), fetched.in)
-----------------------------------------------------------------------------
(* cpu_init and cpu_reset, then the program at address 0. *)
cpu_reset ==
  /\ regs = [r \in Reg |-> IF r = SP THEN STACK_BASE ELSE 0]
  /\ pc = 0 /\ ir = 0 /\ flags = {}
  /\ cycle_count = 0 /\ halted = FALSE

Init ==
  /\ cpu_reset
  /\ \E image \in Programs : mem = mem_load(image, 0)
  /\ stdin \in Inputs
  /\ stdout = <<>>

Next == cpu_step

Spec == Init /\ [][Next]_vars

(* cpu_run calls cpu_step until the processor halts. *)
FairSpec == Spec /\ WF_vars(Next)
-----------------------------------------------------------------------------
(* The state keeps its C types: words in registers and memory, bytes in the *)
(* streams, and no counter past its bound (cpu.h 14-21, memory.c 6).        *)
TypeOK ==
  /\ regs \in [Reg -> Word] /\ pc \in Word /\ ir \in Word
  /\ flags \subseteq Flag /\ halted \in BOOLEAN
  /\ cycle_count \in 0 .. MaxCycles
  /\ IsMemory(mem)
  /\ stdin \in Seq(0 .. ByteSize - 1) /\ stdout \in Seq(0 .. ByteSize - 1)

(* No sequence of stores, pushes and self-modifying code ever changes a     *)
(* cell of the I/O page: whatever the loaded image put under the ports      *)
(* stays there, unseen at the ports and readable at IO_STATUS (memory.c     *)
(* 24-35 against the push of control.c 101, which goes through it too).     *)
IoPageFixed == [][\A a \in IO_BASE .. WordSize - 1 : Cell(mem', a) = Cell(mem, a)]_vars

(* The processor only stops on a word that is HALT or unassigned, and then  *)
(* PC is just past that word: unless it was fetched from a port, memory     *)
(* still holds it there (control.c 21-24 and 111-119; "PC points just past  *)
(* final HALT" in test_integration.c).                                      *)
HaltPoint ==
  halted =>
    LET at == U16(pc - 1)
    IN  /\ Decode(ir).op \notin KnownOps
        /\ at \notin {IO_STDIN, IO_TIMER} => Cell(mem, at) = ir
==============================================================================

--------------------------------- MODULE Isa ---------------------------------
(* The instruction set shared by the assembler and the emulator             *)
(* (assembler/isa.h): opcode numbers, field widths, immediate and jump      *)
(* bounds, and the field-extraction macros.                                 *)
EXTENDS Integers

MEM_SIZE == 65536   \* the words there are addresses for

NUM_REGS == 8
Reg == 0 .. NUM_REGS - 1

OP_ADD  == 1
OP_SUB  == 2
OP_AND  == 3
OP_OR   == 4
OP_XOR  == 5
OP_NOT  == 6
OP_SHL  == 7
OP_SHR  == 8
OP_ADDI == 9
OP_LW   == 10
OP_SW   == 11
OP_MOV  == 12
OP_CMP  == 13
OP_JMP  == 14
OP_JEQ  == 15
OP_JNE  == 16
OP_JLT  == 17
OP_JGT  == 18
OP_CALL == 19
OP_RET  == 20
OP_HALT == 31

Opcode == 0 .. 31

IMM5_MIN == -16
IMM5_MAX == 15
JUMP_MIN == -1024
JUMP_MAX == 1023

(* Two's-complement reading of an unsigned field whose sign bit weighs half. *)
Signed(field, half) == IF field >= half THEN field - 2 * half ELSE field

INSTR_OPCODE(w) == (w \div 2048) % 32
INSTR_RD(w)     == (w \div 256) % 8
INSTR_RS1(w)    == (w \div 32) % 8
INSTR_RS2(w)    == (w \div 4) % 8
INSTR_IMM5(w)   == Signed(w % 32, 16)
INSTR_OFFSET(w) == Signed(w % 2048, 1024)

(* A decoded instruction: cpu_step extracts every field of every word and   *)
(* lets the opcode decide which of them it uses.                            *)
Instruction == [op : Opcode, rd : Reg, rs1 : Reg, rs2 : Reg,
                imm : IMM5_MIN .. IMM5_MAX, off : JUMP_MIN .. JUMP_MAX]

Fields(w) == [op  |-> INSTR_OPCODE(w), rd  |-> INSTR_RD(w),
              rs1 |-> INSTR_RS1(w),    rs2 |-> INSTR_RS2(w),
              imm |-> INSTR_IMM5(w),   off |-> INSTR_OFFSET(w)]
==============================================================================

------------------------------- MODULE Encoder -------------------------------
(* The instruction encoder of the assembler (assembler/encoder.c): three    *)
(* word formats, the mnemonic table, and encode_instr, which checks the     *)
(* operands of a parsed instruction and turns it into a word.               *)
EXTENDS Isa, Sequences

uint16_t == {w \in Nat : w < 65536}

(* What an encoder returns: a code and, when it is ERR_OK, the word it has  *)
(* stored through out.                                                      *)
Ok(w)      == [rc |-> "ERR_OK", word |-> w]
Fail(code) == [rc |-> code, word |-> 0]

(* R- and I-format share their three high fields; low is the five bits      *)
(* under them.  The fields do not overlap, so or-ing them adds them.        *)
Layout(op, rd, rs1, low) == op * 2048 + rd * 256 + rs1 * 32 + low
JumpLayout(op, offset) == op * 2048 + (offset % 2048)

\* Mutant: rs2 lands in the func2 bits.
encode_R_Rs2Unshifted(op, rd, rs1, rs2) ==
  IF op > 31 THEN Fail("ERR_INTERNAL")
  ELSE IF rd >= NUM_REGS \/ rs1 >= NUM_REGS \/ rs2 >= NUM_REGS
    THEN Fail("ERR_INVALID_REGISTER")
  ELSE Ok(Layout(op, rd, rs1, rs2))

encode_R(op, rd, rs1, rs2) ==
  IF op > 31 THEN Fail("ERR_INTERNAL")
  ELSE IF rd >= NUM_REGS \/ rs1 >= NUM_REGS \/ rs2 >= NUM_REGS
    THEN Fail("ERR_INVALID_REGISTER")
  ELSE Ok(Layout(op, rd, rs1, rs2 * 4))

\* Mutant: the upper bound of imm5 is off by one.
encode_I_OffByOne(op, rd, rs1, imm) ==
  IF op > 31 THEN Fail("ERR_INTERNAL")
  ELSE IF rd >= NUM_REGS \/ rs1 >= NUM_REGS THEN Fail("ERR_INVALID_REGISTER")
  ELSE IF imm < IMM5_MIN \/ imm > IMM5_MAX + 1 THEN Fail("ERR_IMM_OVERFLOW")
  ELSE Ok(Layout(op, rd, rs1, imm % 32))

(* imm % 32 is the two's-complement imm & 0x1F, offset % 2048 likewise. *)
encode_I(op, rd, rs1, imm) ==
  IF op > 31 THEN Fail("ERR_INTERNAL")
  ELSE IF rd >= NUM_REGS \/ rs1 >= NUM_REGS THEN Fail("ERR_INVALID_REGISTER")
  ELSE IF imm < IMM5_MIN \/ imm > IMM5_MAX THEN Fail("ERR_IMM_OVERFLOW")
  ELSE Ok(Layout(op, rd, rs1, imm % 32))

encode_J(op, offset) ==
  IF op > 31 THEN Fail("ERR_INTERNAL")
  ELSE IF offset < JUMP_MIN \/ offset > JUMP_MAX THEN Fail("ERR_JUMP_OVERFLOW")
  ELSE Ok(JumpLayout(op, offset))

-----------------------------------------------------------------------------
(* op_defs: the opcode and the operand shape of each mnemonic.  The lookup  *)
(* ignores case; a mnemonic stands here for all its spellings.              *)
FMT_R3    == {"ADD", "SUB", "AND", "OR", "XOR", "SHL", "SHR"}
FMT_R2    == {"NOT"}
FMT_R_CMP == {"CMP"}
FMT_I3    == {"ADDI", "LW", "SW"}
FMT_I_MOV == {"MOV"}
FMT_J     == {"JMP", "JEQ", "JNE", "JLT", "JGT", "CALL"}
FMT_NONE  == {"RET", "HALT"}

op_defs == [
  ADD |-> OP_ADD, SUB |-> OP_SUB, AND |-> OP_AND, OR |-> OP_OR, XOR |-> OP_XOR,
  NOT |-> OP_NOT, SHL |-> OP_SHL, SHR |-> OP_SHR, ADDI |-> OP_ADDI,
  LW |-> OP_LW, SW |-> OP_SW, MOV |-> OP_MOV, CMP |-> OP_CMP, JMP |-> OP_JMP,
  JEQ |-> OP_JEQ, JNE |-> OP_JNE, JLT |-> OP_JLT, JGT |-> OP_JGT,
  CALL |-> OP_CALL, RET |-> OP_RET, HALT |-> OP_HALT ]

Mnemonic == DOMAIN op_defs

nops(mnemonic) ==
  IF mnemonic \in FMT_R3 \cup FMT_I3 THEN 3
  ELSE IF mnemonic \in FMT_R2 \cup FMT_R_CMP \cup FMT_I_MOV THEN 2
  ELSE IF mnemonic \in FMT_J THEN 1
  ELSE 0

(* An operand is a register, a number or a label not yet resolved; val is   *)
(* its register or number.                                                  *)
Operand(kind, val) == [kind |-> kind, val |-> val]

(* The kinds encode_instr wants, left to right; the first that is missing   *)
(* decides the error.                                                       *)
Wants(mnemonic) ==
  IF mnemonic \in FMT_R3 THEN <<"OPD_REG", "OPD_REG", "OPD_REG">>
  ELSE IF mnemonic \in FMT_I3 THEN <<"OPD_REG", "OPD_REG", "OPD_IMM">>
  ELSE IF mnemonic \in FMT_I_MOV THEN <<"OPD_REG", "OPD_IMM">>
  ELSE IF mnemonic \in FMT_J THEN <<"OPD_IMM">>
  ELSE IF mnemonic \in FMT_NONE THEN <<>>
  ELSE <<"OPD_REG", "OPD_REG">>

Unwanted(mnemonic, ops) ==
  {k \in 1 .. Len(ops) : ops[k].kind # Wants(mnemonic)[k]}

WrongKind(mnemonic, ops) ==
  LET k == CHOOSE j \in Unwanted(mnemonic, ops) :
             \A l \in Unwanted(mnemonic, ops) : j <= l
  IN  IF mnemonic \notin FMT_J
        THEN IF Wants(mnemonic)[k] = "OPD_REG" THEN "ERR_INVALID_REGISTER"
                                               ELSE "ERR_INVALID_NUMBER"
      ELSE IF ops[k].kind = "OPD_LABEL" THEN "ERR_UNDEFINED_LABEL"
      ELSE "ERR_WRONG_OPERAND_COUNT"

\* Mutant: relative to the jump itself.
Distance_FromJump(target, pc) == target - pc

(* A jump to an absolute target, relative to the next instruction. *)
Distance(target, pc) == target - (pc + 1)

Encoded(mnemonic, ops, pc) ==
  LET op == op_defs[mnemonic]
      v(k) == ops[k].val
  IN  IF mnemonic \in FMT_R3 THEN encode_R(op, v(1), v(2), v(3))
      ELSE IF mnemonic \in FMT_R2 THEN encode_R(op, v(1), v(2), 0)
      ELSE IF mnemonic \in FMT_R_CMP THEN encode_R(op, 0, v(1), v(2))
      ELSE IF mnemonic \in FMT_I3 THEN encode_I(op, v(1), v(2), v(3))
      ELSE IF mnemonic \in FMT_I_MOV THEN encode_I(op, v(1), 0, v(2))
      ELSE IF mnemonic \in FMT_J THEN encode_J(op, Distance(v(1), pc))
      ELSE encode_R(op, 0, 0, 0)

encode_instr(mnemonic, ops, pc) ==
  IF mnemonic \notin Mnemonic THEN Fail("ERR_UNKNOWN_MNEMONIC")
  ELSE IF Len(ops) # nops(mnemonic) THEN Fail("ERR_WRONG_OPERAND_COUNT")
  ELSE IF Unwanted(mnemonic, ops) # {} THEN Fail(WrongKind(mnemonic, ops))
  ELSE Encoded(mnemonic, ops, pc)
-----------------------------------------------------------------------------
(* Instruction i carries the opcode of m, and each operand in the field     *)
(* from which cpu_step takes it.                                            *)
Carries(i, m, ops) ==
  /\ i.op = op_defs[m]
  /\ m \in FMT_R3 \cup FMT_R2 \cup FMT_I3 => i.rd = ops[1].val /\ i.rs1 = ops[2].val
  /\ m \in FMT_R3 => i.rs2 = ops[3].val
  /\ m \in FMT_R_CMP => i.rs1 = ops[1].val /\ i.rs2 = ops[2].val
  /\ m \in FMT_I3 => i.imm = ops[3].val
  /\ m \in FMT_I_MOV => i.rd = ops[1].val /\ i.imm = ops[2].val
==============================================================================

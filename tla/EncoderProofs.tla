---------------------------- MODULE EncoderProofs ----------------------------
(* What encode_instr accepts comes back out of its word, for any operands   *)
(* and any address.                                                         *)
EXTENDS Encoder, TLAPS

LEMMA Uint16 == \A w \in Nat : w < 65536 => w \in uint16_t
  BY DEF uint16_t

LEMMA Divide ==
  ASSUME NEW k \in Nat \ {0}, NEW q \in Nat, NEW rem \in 0 .. k - 1
  PROVE  (q * k + rem) \div k = q /\ (q * k + rem) % k = rem
  BY SMT

(* What w reads back as in the fields that R- and I-format share, and in    *)
(* the five bits under them.                                                *)
HighRead(w, o, rd, rs1, low) ==
  /\ w \in uint16_t /\ w % 32 = low
  /\ INSTR_OPCODE(w) = o /\ INSTR_RD(w) = rd /\ INSTR_RS1(w) = rs1

LEMMA HighFields ==
  ASSUME NEW o \in 0 .. 31, NEW rd \in 0 .. 7, NEW rs1 \in 0 .. 7, NEW low \in 0 .. 31
  PROVE  HighRead(Layout(o, rd, rs1, low), o, rd, rs1, low)
<1> DEFINE w   == Layout(o, rd, rs1, low)
           top == o * 8 + rd
<1>1. top \in Nat /\ top % 8 = rd /\ o % 32 = o
  BY SMT
<1>2. w \in uint16_t
  <2>1. w \in Nat /\ w < 65536
    BY SMT DEF Layout
  <2> QED BY <2>1, Uint16
<1>3. w \div 2048 = o
  <2>1. rd * 256 + rs1 * 32 + low \in 0 .. 2048 - 1
    BY SMT
  <2>2. w = o * 2048 + (rd * 256 + rs1 * 32 + low)
    BY SMT DEF Layout
  <2> QED BY <2>1, <2>2, Divide, SMT
<1>4. w \div 256 = top
  <2>1. rs1 * 32 + low \in 0 .. 256 - 1 /\ w = top * 256 + (rs1 * 32 + low)
    BY SMT DEF Layout
  <2> QED BY <2>1, <1>1, Divide, SMT
<1>5. w \div 32 = top * 8 + rs1 /\ w % 32 = low
  <2>1. top * 8 + rs1 \in Nat /\ w = (top * 8 + rs1) * 32 + low
    BY SMT DEF Layout
  <2> QED BY <2>1, Divide, SMT
<1>6. (top * 8 + rs1) % 8 = rs1
  BY <1>1, Divide, SMT
<1>7. INSTR_OPCODE(w) = o
  BY <1>1, <1>3 DEF INSTR_OPCODE
<1>8. INSTR_RD(w) = rd
  BY <1>1, <1>4 DEF INSTR_RD
<1>9. INSTR_RS1(w) = rs1
  BY <1>5, <1>6 DEF INSTR_RS1
<1> HIDE DEF w
<1> QED
  BY <1>2, <1>5, <1>7, <1>8, <1>9 DEF w, HighRead

(* rs2 sits in the upper three of the low five bits.                        *)
LEMMA Rs2Field ==
  ASSUME NEW o \in 0 .. 31, NEW rd \in 0 .. 7, NEW rs1 \in 0 .. 7, NEW rs2 \in 0 .. 7
  PROVE  INSTR_RS2(Layout(o, rd, rs1, rs2 * 4)) = rs2
<1> DEFINE w     == Layout(o, rd, rs1, rs2 * 4)
           above == (o * 8 + rd) * 8 + rs1
<1>1. w \div 4 = above * 8 + rs2
  <2>1. above * 8 + rs2 \in Nat /\ w = (above * 8 + rs2) * 4 + 0
    BY SMT DEF Layout
  <2> QED BY <2>1, Divide, SMT
<1>2. (above * 8 + rs2) % 8 = rs2
  <2>1. above \in Nat
    BY SMT
  <2> QED BY <2>1, Divide, SMT
<1> QED
  BY <1>1, <1>2 DEF INSTR_RS2

(* The two's-complement bits of a small immediate are sign-extended back.   *)
LEMMA Imm5 ==
  ASSUME NEW imm \in IMM5_MIN .. IMM5_MAX
  PROVE  imm % 32 \in 0 .. 31 /\ Signed(imm % 32, 16) = imm
  BY SMT DEF Signed, IMM5_MIN, IMM5_MAX

(* The same for J-format.                                                   *)
JumpRead(w, o, off) ==
  w \in uint16_t /\ INSTR_OPCODE(w) = o /\ INSTR_OFFSET(w) = off

LEMMA JFields ==
  ASSUME NEW o \in 0 .. 31, NEW off \in JUMP_MIN .. JUMP_MAX
  PROVE  JumpRead(JumpLayout(o, off), o, off)
<1> DEFINE w == JumpLayout(o, off)
<1>1. off % 2048 \in 0 .. 2048 - 1 /\ Signed(off % 2048, 1024) = off
  BY SMTT(60) DEF Signed, JUMP_MIN, JUMP_MAX
<1>2. w \div 2048 = o /\ w % 2048 = off % 2048
  BY <1>1, Divide, SMT DEF JumpLayout
<1>3. w \in uint16_t
  <2>1. w \in Nat /\ w < 65536
    BY <1>1, SMT DEF JumpLayout
  <2> QED BY <2>1, Uint16
<1>4. o % 32 = o
  BY SMT
<1> HIDE DEF w
<1>5. INSTR_OPCODE(w) = o /\ INSTR_OFFSET(w) = off
  BY <1>1, <1>2, <1>4 DEF INSTR_OPCODE, INSTR_OFFSET
<1> QED
  BY <1>3, <1>5 DEF JumpRead, w

LEMMA Opcodes == \A m \in Mnemonic : op_defs[m] \in 0 .. 31
  BY DEF Mnemonic, op_defs, OP_ADD, OP_SUB, OP_AND, OP_OR, OP_XOR, OP_NOT,
     OP_SHL, OP_SHR, OP_ADDI, OP_LW, OP_SW, OP_MOV, OP_CMP, OP_JMP, OP_JEQ,
     OP_JNE, OP_JLT, OP_JGT, OP_CALL, OP_RET, OP_HALT

LEMMA FieldsOf ==
  ASSUME NEW w
  PROVE  /\ Fields(w).op = INSTR_OPCODE(w) /\ Fields(w).rd = INSTR_RD(w)
         /\ Fields(w).rs1 = INSTR_RS1(w) /\ Fields(w).rs2 = INSTR_RS2(w)
         /\ Fields(w).imm = INSTR_IMM5(w) /\ Fields(w).off = INSTR_OFFSET(w)
  BY DEF Fields

-----------------------------------------------------------------------------
(* What a successful call of each encoder says about its arguments and its  *)
(* word.                                                                    *)
RWord(w, o, rd, rs1, rs2) ==
  /\ w \in uint16_t
  /\ Fields(w).op = o /\ Fields(w).rd = rd
  /\ Fields(w).rs1 = rs1 /\ Fields(w).rs2 = rs2

IWord(w, o, rd, rs1, imm) ==
  /\ w \in uint16_t
  /\ Fields(w).op = o /\ Fields(w).rd = rd
  /\ Fields(w).rs1 = rs1 /\ Fields(w).imm = imm

JWord(w, o, off) ==
  /\ w \in uint16_t
  /\ Fields(w).op = o /\ Fields(w).off = off
  /\ off \in JUMP_MIN .. JUMP_MAX

LEMMA encode_R_Fields ==
  ASSUME NEW o \in 0 .. 31, NEW rd \in Nat, NEW rs1 \in Nat, NEW rs2 \in Nat,
         NEW w, encode_R(o, rd, rs1, rs2) = Ok(w)
  PROVE  RWord(w, o, rd, rs1, rs2)
<1>1. rd \in 0 .. 7 /\ rs1 \in 0 .. 7 /\ rs2 \in 0 .. 7 /\ rs2 * 4 \in 0 .. 31
  BY DEF encode_R, Fail, Ok, NUM_REGS
<1>2. w = Layout(o, rd, rs1, rs2 * 4)
  BY DEF encode_R, Fail, Ok
<1>3. /\ w \in uint16_t
      /\ INSTR_OPCODE(w) = o /\ INSTR_RD(w) = rd /\ INSTR_RS1(w) = rs1
  <2>1. HighRead(w, o, rd, rs1, rs2 * 4)
    BY <1>1, <1>2, HighFields, Zenon
  <2> QED BY <2>1 DEF HighRead
<1>4. INSTR_RS2(w) = rs2
  BY <1>1, <1>2, Rs2Field
<1> QED
  BY <1>3, <1>4, FieldsOf DEF RWord

LEMMA encode_I_Fields ==
  ASSUME NEW o \in 0 .. 31, NEW rd \in Nat, NEW rs1 \in Nat, NEW imm \in Int,
         NEW w, encode_I(o, rd, rs1, imm) = Ok(w)
  PROVE  IWord(w, o, rd, rs1, imm)
<1>1. rd \in 0 .. 7 /\ rs1 \in 0 .. 7 /\ imm \in IMM5_MIN .. IMM5_MAX
  BY DEF encode_I, Fail, Ok, NUM_REGS, IMM5_MIN, IMM5_MAX
<1>2. w = Layout(o, rd, rs1, imm % 32)
  BY DEF encode_I, Fail, Ok
<1>3. imm % 32 \in 0 .. 31 /\ Signed(imm % 32, 16) = imm
  BY <1>1, Imm5
<1>4. /\ w \in uint16_t /\ w % 32 = imm % 32
      /\ INSTR_OPCODE(w) = o /\ INSTR_RD(w) = rd /\ INSTR_RS1(w) = rs1
  <2>1. HighRead(w, o, rd, rs1, imm % 32)
    BY <1>1, <1>2, <1>3, HighFields, Zenon
  <2> QED BY <2>1 DEF HighRead
<1>5. INSTR_IMM5(w) = imm
  BY <1>3, <1>4 DEF INSTR_IMM5
<1> QED
  BY <1>4, <1>5, FieldsOf DEF IWord

LEMMA encode_J_Fields ==
  ASSUME NEW o \in 0 .. 31, NEW off \in Int, NEW w, encode_J(o, off) = Ok(w)
  PROVE  JWord(w, o, off)
<1>1. off \in JUMP_MIN .. JUMP_MAX
  BY DEF encode_J, Fail, Ok, JUMP_MIN, JUMP_MAX
<1>2. w = JumpLayout(o, off)
  BY DEF encode_J, Fail, Ok
<1>3. JumpRead(w, o, off)
  BY <1>1, <1>2, JFields, Zenon
<1> QED
  BY <1>1, <1>3, FieldsOf DEF JumpRead, JWord
-----------------------------------------------------------------------------
(* What is known of a request whose encoding succeeded.                     *)
(* Operands as the parser and the resolver make them. *)
Typed(ops) ==
  \A k \in 1 .. Len(ops) :
    /\ ops[k].kind = "OPD_REG" => ops[k].val \in Nat
    /\ ops[k].kind = "OPD_IMM" => ops[k].val \in Int

Asked(m, ops, pc) ==
  /\ m \in Mnemonic
  /\ Typed(ops) /\ Len(ops) = nops(m)
  /\ \A k \in 1 .. Len(ops) : ops[k].kind = Wants(m)[k]
  /\ pc \in Nat

LEMMA Accepted ==
  ASSUME NEW m, NEW ops, Typed(ops), NEW pc \in Nat,
         encode_instr(m, ops, pc).rc \in {"ERR_OK", "ERR_JUMP_OVERFLOW"}
  PROVE  Asked(m, ops, pc) /\ encode_instr(m, ops, pc) = Encoded(m, ops, pc)
<1>1. m \in Mnemonic /\ Len(ops) = nops(m)
  BY DEF encode_instr, Fail
<1>2. Unwanted(m, ops) = {}
  <2>1. \A c : Fail(c).rc = c
    BY DEF Fail
  <2>2. WrongKind(m, ops) \notin {"ERR_OK", "ERR_JUMP_OVERFLOW"}
    BY DEF WrongKind
  <2> QED BY <1>1, <2>1, <2>2 DEF encode_instr
<1> QED
  BY <1>1, <1>2 DEF encode_instr, Unwanted, Asked

LEMMA Values ==
  ASSUME NEW m, NEW ops, NEW pc, Asked(m, ops, pc), NEW k \in 1 .. Len(ops)
  PROVE  /\ ops[k].kind = "OPD_REG" => ops[k].val \in Nat
         /\ ops[k].kind = "OPD_IMM" => ops[k].val \in Int
  BY DEF Asked, Typed

(* A mnemonic has one format.                                               *)
LEMMA Disjoint ==
  ASSUME NEW m \in Mnemonic
  PROVE  \/ m \in FMT_R3 /\ m \notin FMT_R2 \cup FMT_R_CMP \cup FMT_I3 \cup FMT_I_MOV \cup FMT_J
         \/ m \in FMT_R2 /\ m \notin FMT_R3 \cup FMT_R_CMP \cup FMT_I3 \cup FMT_I_MOV \cup FMT_J
         \/ m \in FMT_R_CMP /\ m \notin FMT_R3 \cup FMT_R2 \cup FMT_I3 \cup FMT_I_MOV \cup FMT_J
         \/ m \in FMT_I3 /\ m \notin FMT_R3 \cup FMT_R2 \cup FMT_R_CMP \cup FMT_I_MOV \cup FMT_J
         \/ m \in FMT_I_MOV /\ m \notin FMT_R3 \cup FMT_R2 \cup FMT_R_CMP \cup FMT_I3 \cup FMT_J
         \/ m \in FMT_J /\ m \notin FMT_R3 \cup FMT_R2 \cup FMT_R_CMP \cup FMT_I3 \cup FMT_I_MOV
         \/ m \in FMT_NONE /\ m \notin FMT_R3 \cup FMT_R2 \cup FMT_R_CMP \cup FMT_I3 \cup FMT_I_MOV \cup FMT_J
  BY DEF Mnemonic, op_defs, FMT_R3, FMT_R2, FMT_R_CMP, FMT_I3, FMT_I_MOV, FMT_J, FMT_NONE

LEMMA EncodedCarries ==
  ASSUME NEW m, NEW ops, NEW pc, Asked(m, ops, pc),
         NEW w, Encoded(m, ops, pc) = Ok(w)
  PROVE  w \in uint16_t /\ Carries(Fields(w), m, ops)
<1> DEFINE o == op_defs[m]
<1>1. m \in Mnemonic /\ o \in 0 .. 31
  BY Opcodes DEF Asked
<1> HIDE DEF o
<1>2. CASE m \in FMT_R3 /\ m \notin FMT_R2 \cup FMT_R_CMP \cup FMT_I3 \cup FMT_I_MOV \cup FMT_J
  <2>1. Len(ops) = 3 /\ Wants(m) = <<"OPD_REG", "OPD_REG", "OPD_REG">>
    BY <1>2 DEF Asked, nops, Wants
  <2>2. ops[1].kind = "OPD_REG" /\ ops[2].kind = "OPD_REG" /\ ops[3].kind = "OPD_REG"
    BY <2>1 DEF Asked
  <2>3. ops[1].val \in Nat /\ ops[2].val \in Nat /\ ops[3].val \in Nat
    BY <2>1, <2>2, Values, SMTT(60)
  <2>4. encode_R(o, ops[1].val, ops[2].val, ops[3].val) = Ok(w)
    BY <1>2 DEF Encoded, o
  <2>6. RWord(w, o, ops[1].val, ops[2].val, ops[3].val)
    BY <1>1, <2>3, <2>4, encode_R_Fields
  <2> QED BY <1>2, <2>6 DEF RWord, Carries, o
<1>3. CASE m \in FMT_R2 /\ m \notin FMT_R3 \cup FMT_R_CMP \cup FMT_I3 \cup FMT_I_MOV \cup FMT_J
  <2>1. Len(ops) = 2 /\ Wants(m) = <<"OPD_REG", "OPD_REG">>
    BY <1>3 DEF Asked, nops, Wants, FMT_R2, FMT_NONE
  <2>2. ops[1].kind = "OPD_REG" /\ ops[2].kind = "OPD_REG"
    BY <2>1 DEF Asked
  <2>3. ops[1].val \in Nat /\ ops[2].val \in Nat
    BY <2>1, <2>2, Values, SMTT(60)
  <2>4. encode_R(o, ops[1].val, ops[2].val, 0) = Ok(w)
    BY <1>3 DEF Encoded, o
  <2>6. RWord(w, o, ops[1].val, ops[2].val, 0)
    BY <1>1, <2>3, <2>4, encode_R_Fields
  <2> QED BY <1>3, <2>6 DEF RWord, Carries, o
<1>4. CASE m \in FMT_R_CMP /\ m \notin FMT_R3 \cup FMT_R2 \cup FMT_I3 \cup FMT_I_MOV \cup FMT_J
  <2>1. Len(ops) = 2 /\ Wants(m) = <<"OPD_REG", "OPD_REG">>
    BY <1>4 DEF Asked, nops, Wants, FMT_R_CMP, FMT_NONE
  <2>2. ops[1].kind = "OPD_REG" /\ ops[2].kind = "OPD_REG"
    BY <2>1 DEF Asked
  <2>3. ops[1].val \in Nat /\ ops[2].val \in Nat
    BY <2>1, <2>2, Values, SMTT(60)
  <2>4. encode_R(o, 0, ops[1].val, ops[2].val) = Ok(w)
    BY <1>4 DEF Encoded, o
  <2>6. RWord(w, o, 0, ops[1].val, ops[2].val)
    BY <1>1, <2>3, <2>4, encode_R_Fields
  <2> QED BY <1>4, <2>6 DEF RWord, Carries, o
<1>5. CASE m \in FMT_I3 /\ m \notin FMT_R3 \cup FMT_R2 \cup FMT_R_CMP \cup FMT_I_MOV \cup FMT_J
  <2>1. Len(ops) = 3 /\ Wants(m) = <<"OPD_REG", "OPD_REG", "OPD_IMM">>
    BY <1>5 DEF Asked, nops, Wants
  <2>2. ops[1].kind = "OPD_REG" /\ ops[2].kind = "OPD_REG" /\ ops[3].kind = "OPD_IMM"
    BY <2>1 DEF Asked
  <2>3. ops[1].val \in Nat /\ ops[2].val \in Nat /\ ops[3].val \in Int
    BY <2>1, <2>2, Values, SMTT(60)
  <2>4. encode_I(o, ops[1].val, ops[2].val, ops[3].val) = Ok(w)
    BY <1>5 DEF Encoded, o
  <2>6. IWord(w, o, ops[1].val, ops[2].val, ops[3].val)
    BY <1>1, <2>3, <2>4, encode_I_Fields
  <2> QED BY <1>5, <2>6 DEF IWord, Carries, o
<1>6. CASE m \in FMT_I_MOV /\ m \notin FMT_R3 \cup FMT_R2 \cup FMT_R_CMP \cup FMT_I3 \cup FMT_J
  <2>1. Len(ops) = 2 /\ Wants(m) = <<"OPD_REG", "OPD_IMM">>
    BY <1>6 DEF Asked, nops, Wants
  <2>2. ops[1].kind = "OPD_REG" /\ ops[2].kind = "OPD_IMM"
    BY <2>1 DEF Asked
  <2>3. ops[1].val \in Nat /\ ops[2].val \in Int
    BY <2>1, <2>2, Values, SMTT(60)
  <2>4. encode_I(o, ops[1].val, 0, ops[2].val) = Ok(w)
    BY <1>6 DEF Encoded, o
  <2>6. IWord(w, o, ops[1].val, 0, ops[2].val)
    BY <1>1, <2>3, <2>4, encode_I_Fields
  <2> QED BY <1>6, <2>6 DEF IWord, Carries, o
<1>7. CASE m \in FMT_J /\ m \notin FMT_R3 \cup FMT_R2 \cup FMT_R_CMP \cup FMT_I3 \cup FMT_I_MOV
  <2>1. Len(ops) = 1 /\ Wants(m) = <<"OPD_IMM">>
    BY <1>7 DEF Asked, nops, Wants
  <2>2. ops[1].kind = "OPD_IMM"
    BY <2>1 DEF Asked
  <2>3. ops[1].val \in Int
    BY <2>1, <2>2, Values, SMTT(60)
  <2>4. encode_J(o, Distance(ops[1].val, pc)) = Ok(w)
    BY <1>7 DEF Encoded, o
  <2>5. Distance(ops[1].val, pc) \in Int
    BY <2>3 DEF Distance, Asked
  <2>6. JWord(w, o, Distance(ops[1].val, pc))
    BY <1>1, <2>3, <2>4, <2>5, encode_J_Fields
  <2> QED BY <1>7, <2>6 DEF JWord, Carries, o
<1>8. CASE m \in FMT_NONE /\ m \notin FMT_R3 \cup FMT_R2 \cup FMT_R_CMP \cup FMT_I3 \cup FMT_I_MOV \cup FMT_J
  <2>4. encode_R(o, 0, 0, 0) = Ok(w)
    BY <1>8 DEF Encoded, o
  <2>6. RWord(w, o, 0, 0, 0)
    BY <1>1, <2>4, encode_R_Fields
  <2> QED BY <1>8, <2>6 DEF RWord, Carries, o
<1> QED
  BY <1>1, <1>2, <1>3, <1>4, <1>5, <1>6, <1>7, <1>8, Disjoint

LEMMA EncodedOk ==
  ASSUME NEW m, NEW ops, NEW pc, Encoded(m, ops, pc).rc = "ERR_OK"
  PROVE  Encoded(m, ops, pc) = Ok(Encoded(m, ops, pc).word)
<1>1. \A c : Fail(c).rc = c
  BY DEF Fail
<1>2. \A w : Ok(w) = Ok(Ok(w).word)
  BY DEF Ok
<1> QED
  BY <1>1, <1>2 DEF Encoded, encode_R, encode_I, encode_J

LEMMA JumpOk ==
  ASSUME NEW o, NEW d, encode_J(o, d).rc = "ERR_OK"
  PROVE  encode_J(o, d) = Ok(encode_J(o, d).word)
BY DEF encode_J, Ok, Fail
=============================================================================

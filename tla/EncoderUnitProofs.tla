-------------------------- MODULE EncoderUnitProofs --------------------------
(* Theorems about calls of encode_instr: what is accepted, what comes back  *)
(* out of the word, and where a jump lands.                                 *)
EXTENDS EncoderUnit, EncoderProofs

-----------------------------------------------------------------------------
(* The invariant: the call is a legal one, and its result, once there, is   *)
(* what encode_instr returned for it.                                       *)
Answer == encode_instr(request.mnemonic, request.ops, request.pc)

EncoderInv ==
  /\ request.ops \in Seq(Operands) /\ request.pc \in Nat
  /\ result = Pending \/ result = Answer

LEMMA OperandsTyped == ASSUME NEW ops \in Seq(Operands) PROVE Typed(ops)
BY OperandsAssumption DEF Typed

LEMMA EncoderInvHolds == EncoderSpec => []EncoderInv
<1>1. EncoderInit => EncoderInv
  <2>1. \A n \in 0 .. 3 : [1 .. n -> Operands] \subseteq Seq(Operands)
    OBVIOUS
  <2>2. Addresses \subseteq Nat
    BY AddressesAssumption DEF uint16_t
  <2> QED BY <2>1, <2>2 DEF EncoderInit, Requests, EncoderInv
<1>2. EncoderInv /\ [EncoderNext]_encoderVars => EncoderInv'
  BY DEF EncoderInv, EncoderNext, encode, encoderVars, Answer
<1> QED
  BY <1>1, <1>2, PTL DEF EncoderSpec

(* A result with either code is the word of the format encoders.            *)
LEMMA Answered ==
  ASSUME EncoderInv, result.rc \in {"ERR_OK", "ERR_JUMP_OVERFLOW"}
  PROVE  /\ Asked(request.mnemonic, request.ops, request.pc)
         /\ result = Encoded(request.mnemonic, request.ops, request.pc)
<1>1. result = Answer
  BY DEF EncoderInv, Pending
<1> QED
  BY <1>1, Accepted, OperandsTyped DEF EncoderInv, Answer

(* Whatever the operands, their number and the address: what the assembler  *)
(* accepts, the emulator decodes to the same opcode and operands, but for   *)
(* the bits that extend the immediate of MOV.                               *)
THEOREM EncodingRoundTrips == EncoderSpec => []RoundTrip
<1>1. EncoderInv => RoundTrip
  <2> DEFINE i == Fields(result.word)
             m == request.mnemonic
  <2> SUFFICES ASSUME EncoderInv, result.rc = "ERR_OK"
               PROVE  /\ result.word \in uint16_t
                      /\ m \notin FMT_I_MOV => Carries(i, m, request.ops)
                      /\ m \in FMT_I_MOV => /\ i.op = op_defs[m] /\ i.rd = op(1).val
                                            /\ result.word % 32 = op(2).val % 32
    BY DEF RoundTrip
  <2>1. result.word \in uint16_t /\ Carries(i, m, request.ops)
    BY Answered, EncodedOk, EncodedCarries
  <2>2. ASSUME m \in FMT_I_MOV
        PROVE  i.op = op_defs[m] /\ i.rd = op(1).val /\ i.imm = op(2).val
    BY <2>1, <2>2 DEF Carries, op
  <2>3. i.imm = IF result.word % 32 >= 16 THEN (result.word % 32) - 32 ELSE result.word % 32
    BY DEF Fields, INSTR_IMM5, Signed
  <2>4. i.imm % 32 = result.word % 32
    BY <2>1, <2>3 DEF uint16_t
  <2> QED BY <2>1, <2>2, <2>4
<1> QED
  BY <1>1, EncoderInvHolds, PTL

(* An accepted jump takes the processor to the target the line names, for   *)
(* every target and address.                                                *)
THEOREM JumpsLand == EncoderSpec => []JumpLands
<1>1. EncoderInv => JumpLands
  <2> DEFINE m == request.mnemonic
             target == op(1).val
             d == Distance(target, request.pc)
  <2> SUFFICES ASSUME EncoderInv, m \in FMT_J, result.rc = "ERR_OK"
               PROVE  (request.pc + 1 + Fields(result.word).off) % 65536 = target % 65536
    BY DEF JumpLands
  <2>1. Asked(m, request.ops, request.pc) /\ result = Encoded(m, request.ops, request.pc)
    BY Answered
  <2>2. op_defs[m] \in 0 .. 31 /\ request.pc \in Nat
    BY <2>1, Opcodes DEF Asked
  <2>3. m \notin FMT_R3 \cup FMT_R2 \cup FMT_R_CMP \cup FMT_I3 \cup FMT_I_MOV /\ m \in FMT_J
    BY DEF FMT_R3, FMT_R2, FMT_R_CMP, FMT_I3, FMT_I_MOV, FMT_J
  <2>4. result = encode_J(op_defs[m], d)
    BY <2>1, <2>3 DEF Encoded, op
  <2>5. target \in Int
    <3>1. Wants(m) = <<"OPD_IMM">>
      BY <2>3 DEF Wants
    <3>2. Len(request.ops) = 1 /\ op(1).kind = "OPD_IMM"
      BY <2>1, <2>3, <3>1 DEF Asked, op, nops
    <3> QED BY <2>1, <3>2, Values DEF op
  <2>6. d = target - (request.pc + 1) /\ d \in Int
    BY <2>2, <2>5 DEF Distance
  <2>7. encode_J(op_defs[m], d) = Ok(result.word)
    BY <2>4, JumpOk
  <2>8. JWord(result.word, op_defs[m], d)
    BY <2>2, <2>6, <2>7, encode_J_Fields
  <2>9. request.pc + 1 + Fields(result.word).off = target
    BY <2>2, <2>5, <2>6, <2>8 DEF JWord
  <2> QED BY <2>9
<1> QED
  BY <1>1, EncoderInvHolds, PTL

-----------------------------------------------------------------------------
(* Acceptance *)

(* The parser makes registers of R0 to R7 only (parser.c 18-26).            *)
RegistersExist == \A o \in Operands : o.kind = "OPD_REG" => o.val \in Reg

LEMMA RcOfR ==
  ASSUME NEW o \in 0 .. 31, NEW rd \in Reg, NEW rs1 \in Reg, NEW rs2 \in Reg
  PROVE  encode_R(o, rd, rs1, rs2).rc = "ERR_OK"
BY DEF encode_R, Ok, Fail, Reg, NUM_REGS

LEMMA RcOfI ==
  ASSUME NEW o \in 0 .. 31, NEW rd \in Reg, NEW rs1 \in Reg, NEW imm \in Int
  PROVE  encode_I(o, rd, rs1, imm).rc =
           IF -16 <= imm /\ imm <= 15 THEN "ERR_OK" ELSE "ERR_IMM_OVERFLOW"
BY DEF encode_I, Ok, Fail, Reg, NUM_REGS, IMM5_MIN, IMM5_MAX

LEMMA RcOfJ ==
  ASSUME NEW o \in 0 .. 31, NEW d \in Int
  PROVE  encode_J(o, d).rc =
           IF -1024 <= d /\ d <= 1023 THEN "ERR_OK" ELSE "ERR_JUMP_OVERFLOW"
BY DEF encode_J, Ok, Fail, JUMP_MIN, JUMP_MAX

(* The operands are as many as the mnemonic takes, and of the kinds it      *)
(* takes.                                                                   *)
Shaped(m, ops) ==
  /\ m \in Mnemonic /\ Len(ops) = nops(m)
  /\ \A k \in 1 .. Len(ops) : ops[k].kind = Wants(m)[k]

SmallImm(v) == -16 <= v /\ v <= 15

InReach(target, pc) == -1024 <= target - pc - 1 /\ target - pc - 1 <= 1023

(* The three shapes whose numbers have to fit.                              *)
NumbersFit(m, ops, pc) ==
  /\ m \in FMT_I3 => SmallImm(ops[3].val)
  /\ m \in FMT_I_MOV => SmallImm(ops[2].val)
  /\ m \in FMT_J => InReach(ops[1].val, pc)

(* The shape of each format, spelled out.                                   *)
KindsAre(ops, kinds) == Len(ops) = Len(kinds) /\ \A k \in 1 .. Len(ops) : ops[k].kind = kinds[k]

LEMMA ShapeIs ==
  ASSUME NEW m \in Mnemonic, NEW ops
  PROVE  Shaped(m, ops) <=> KindsAre(ops, Wants(m))
<1> USE Disjoint
<1>1. CASE m \in FMT_R3 /\ m \notin FMT_R2 \cup FMT_R_CMP \cup FMT_I3 \cup FMT_I_MOV \cup FMT_J
  <2>1. nops(m) = 3 /\ Wants(m) = <<"OPD_REG", "OPD_REG", "OPD_REG">>
    BY <1>1 DEF nops, Wants
  <2>2. Len(Wants(m)) = nops(m)
    BY <2>1
  <2> QED
    BY <2>2 DEF Shaped, KindsAre
<1>2. CASE m \in FMT_R2 /\ m \notin FMT_R3 \cup FMT_R_CMP \cup FMT_I3 \cup FMT_I_MOV \cup FMT_J
  <2>1. nops(m) = 2 /\ Wants(m) = <<"OPD_REG", "OPD_REG">>
    BY <1>2 DEF nops, Wants, FMT_R2, FMT_R_CMP, FMT_NONE
  <2>2. Len(Wants(m)) = nops(m)
    BY <2>1
  <2> QED
    BY <2>2 DEF Shaped, KindsAre
<1>3. CASE m \in FMT_R_CMP /\ m \notin FMT_R3 \cup FMT_R2 \cup FMT_I3 \cup FMT_I_MOV \cup FMT_J
  <2>1. nops(m) = 2 /\ Wants(m) = <<"OPD_REG", "OPD_REG">>
    BY <1>3 DEF nops, Wants, FMT_R2, FMT_R_CMP, FMT_NONE
  <2>2. Len(Wants(m)) = nops(m)
    BY <2>1
  <2> QED
    BY <2>2 DEF Shaped, KindsAre
<1>4. CASE m \in FMT_I3 /\ m \notin FMT_R3 \cup FMT_R2 \cup FMT_R_CMP \cup FMT_I_MOV \cup FMT_J
  <2>1. nops(m) = 3 /\ Wants(m) = <<"OPD_REG", "OPD_REG", "OPD_IMM">>
    BY <1>4 DEF nops, Wants
  <2>2. Len(Wants(m)) = nops(m)
    BY <2>1
  <2> QED
    BY <2>2 DEF Shaped, KindsAre
<1>5. CASE m \in FMT_I_MOV /\ m \notin FMT_R3 \cup FMT_R2 \cup FMT_R_CMP \cup FMT_I3 \cup FMT_J
  <2>1. nops(m) = 2 /\ Wants(m) = <<"OPD_REG", "OPD_IMM">>
    BY <1>5 DEF nops, Wants
  <2>2. Len(Wants(m)) = nops(m)
    BY <2>1
  <2> QED
    BY <2>2 DEF Shaped, KindsAre
<1>6. CASE m \in FMT_J /\ m \notin FMT_R3 \cup FMT_R2 \cup FMT_R_CMP \cup FMT_I3 \cup FMT_I_MOV
  <2>1. nops(m) = 1 /\ Wants(m) = <<"OPD_IMM">>
    BY <1>6 DEF nops, Wants
  <2>2. Len(Wants(m)) = nops(m)
    BY <2>1
  <2> QED
    BY <2>2 DEF Shaped, KindsAre
<1>7. CASE m \in FMT_NONE /\ m \notin FMT_R3 \cup FMT_R2 \cup FMT_R_CMP \cup FMT_I3 \cup FMT_I_MOV \cup FMT_J
  <2>1. nops(m) = 0 /\ Wants(m) = <<>>
    BY <1>7 DEF nops, Wants
  <2>2. Len(Wants(m)) = nops(m)
    BY <2>1
  <2> QED
    BY <2>2 DEF Shaped, KindsAre
<1> QED
  BY <1>1, <1>2, <1>3, <1>4, <1>5, <1>6, <1>7, Disjoint

LEMMA KindsSpelled ==
  ASSUME NEW ops \in Seq(Operands)
  PROVE  /\ \A a, b, c : KindsAre(ops, <<a, b, c>>) <=>
              Len(ops) = 3 /\ ops[1].kind = a /\ ops[2].kind = b /\ ops[3].kind = c
         /\ \A a, b : KindsAre(ops, <<a, b>>) <=>
              Len(ops) = 2 /\ ops[1].kind = a /\ ops[2].kind = b
         /\ \A a : KindsAre(ops, <<a>>) <=> Len(ops) = 1 /\ ops[1].kind = a
         /\ KindsAre(ops, <<>>) <=> Len(ops) = 0
BY DEF KindsAre

LEMMA ShapedValues ==
  ASSUME RegistersExist, NEW m, NEW ops \in Seq(Operands), Shaped(m, ops), NEW k \in 1 .. Len(ops)
  PROVE  /\ Wants(m)[k] = "OPD_REG" => ops[k].val \in Reg
         /\ Wants(m)[k] = "OPD_IMM" => ops[k].val \in Int
<1>1. ops[k] \in Operands /\ ops[k].kind = Wants(m)[k]
  BY DEF Shaped
<1> QED
  BY <1>1, OperandsAssumption DEF RegistersExist

(* What the format encoders say of operands of the right kinds.             *)
LEMMA EncodedCode ==
  ASSUME RegistersExist, NEW m, NEW ops \in Seq(Operands), NEW pc \in Nat, Shaped(m, ops)
  PROVE  Encoded(m, ops, pc).rc = "ERR_OK" <=> NumbersFit(m, ops, pc)
<1> DEFINE o == op_defs[m]
           v(k) == ops[k].val
<1>1. m \in Mnemonic /\ o \in 0 .. 31 /\ 0 \in Reg
  BY Opcodes DEF Shaped, Reg, NUM_REGS
<1> HIDE DEF o
<1>2. CASE m \in FMT_R3 /\ m \notin FMT_R2 \cup FMT_R_CMP \cup FMT_I3 \cup FMT_I_MOV \cup FMT_J
  <2>1. Len(ops) = 3 /\ Wants(m) = <<"OPD_REG", "OPD_REG", "OPD_REG">>
    BY <1>2 DEF Shaped, nops, Wants
  <2>2. v(1) \in Reg /\ v(2) \in Reg /\ v(3) \in Reg
    BY <2>1, ShapedValues, SMTT(60)
  <2>3. Encoded(m, ops, pc) = encode_R(o, v(1), v(2), v(3))
    BY <1>2 DEF Encoded, o
  <2>5. NumbersFit(m, ops, pc)
    BY <1>2 DEF NumbersFit
  <2> HIDE DEF v
  <2> QED
    BY <1>1, <2>2, <2>3, <2>5, RcOfR
<1>3. CASE m \in FMT_R2 /\ m \notin FMT_R3 \cup FMT_R_CMP \cup FMT_I3 \cup FMT_I_MOV \cup FMT_J
  <2>1. Len(ops) = 2 /\ Wants(m) = <<"OPD_REG", "OPD_REG">>
    BY <1>3 DEF Shaped, nops, Wants, FMT_R2, FMT_R_CMP, FMT_NONE
  <2>2. v(1) \in Reg /\ v(2) \in Reg
    BY <2>1, ShapedValues, SMTT(60)
  <2>3. Encoded(m, ops, pc) = encode_R(o, v(1), v(2), 0)
    BY <1>3 DEF Encoded, o
  <2>5. NumbersFit(m, ops, pc)
    BY <1>3 DEF NumbersFit
  <2> HIDE DEF v
  <2> QED
    BY <1>1, <2>2, <2>3, <2>5, RcOfR
<1>4. CASE m \in FMT_R_CMP /\ m \notin FMT_R3 \cup FMT_R2 \cup FMT_I3 \cup FMT_I_MOV \cup FMT_J
  <2>1. Len(ops) = 2 /\ Wants(m) = <<"OPD_REG", "OPD_REG">>
    BY <1>4 DEF Shaped, nops, Wants, FMT_R2, FMT_R_CMP, FMT_NONE
  <2>2. v(1) \in Reg /\ v(2) \in Reg
    BY <2>1, ShapedValues, SMTT(60)
  <2>3. Encoded(m, ops, pc) = encode_R(o, 0, v(1), v(2))
    BY <1>4 DEF Encoded, o
  <2>5. NumbersFit(m, ops, pc)
    BY <1>4 DEF NumbersFit
  <2> HIDE DEF v
  <2> QED
    BY <1>1, <2>2, <2>3, <2>5, RcOfR
<1>5. CASE m \in FMT_I3 /\ m \notin FMT_R3 \cup FMT_R2 \cup FMT_R_CMP \cup FMT_I_MOV \cup FMT_J
  <2>1. Len(ops) = 3 /\ Wants(m) = <<"OPD_REG", "OPD_REG", "OPD_IMM">>
    BY <1>5 DEF Shaped, nops, Wants
  <2>2. v(1) \in Reg /\ v(2) \in Reg /\ v(3) \in Int
    BY <2>1, ShapedValues, SMTT(60)
  <2>3. Encoded(m, ops, pc) = encode_I(o, v(1), v(2), v(3))
    BY <1>5 DEF Encoded, o
  <2>5. NumbersFit(m, ops, pc) <=> SmallImm(v(3))
    BY <1>5 DEF NumbersFit
  <2> HIDE DEF v
  <2>6. encode_I(o, v(1), v(2), v(3)).rc = "ERR_OK" <=> -16 <= v(3) /\ v(3) <= 15
    <3>1. encode_I(o, v(1), v(2), v(3)).rc =
            IF -16 <= v(3) /\ v(3) <= 15 THEN "ERR_OK" ELSE "ERR_IMM_OVERFLOW"
      BY <1>1, <2>2, RcOfI, Zenon
    <3> QED
      BY <3>1
  <2>7. SmallImm(v(3)) <=> -16 <= v(3) /\ v(3) <= 15
    BY DEF SmallImm
  <2> QED
    BY <2>3, <2>5, <2>6, <2>7
<1>6. CASE m \in FMT_I_MOV /\ m \notin FMT_R3 \cup FMT_R2 \cup FMT_R_CMP \cup FMT_I3 \cup FMT_J
  <2>1. Len(ops) = 2 /\ Wants(m) = <<"OPD_REG", "OPD_IMM">>
    BY <1>6 DEF Shaped, nops, Wants
  <2>2. v(1) \in Reg /\ v(2) \in Int
    BY <2>1, ShapedValues, SMTT(60)
  <2>3. Encoded(m, ops, pc) = encode_I(o, v(1), 0, v(2))
    BY <1>6 DEF Encoded, o
  <2>5. NumbersFit(m, ops, pc) <=> SmallImm(v(2))
    BY <1>6 DEF NumbersFit
  <2> HIDE DEF v
  <2> QED
    BY <1>1, <2>2, <2>3, <2>5, RcOfI DEF SmallImm
<1>7. CASE m \in FMT_J /\ m \notin FMT_R3 \cup FMT_R2 \cup FMT_R_CMP \cup FMT_I3 \cup FMT_I_MOV
  <2>1. Len(ops) = 1 /\ Wants(m) = <<"OPD_IMM">>
    BY <1>7 DEF Shaped, nops, Wants
  <2>2. v(1) \in Int
    BY <2>1, ShapedValues, SMTT(60)
  <2>3. Encoded(m, ops, pc) = encode_J(o, Distance(v(1), pc))
    BY <1>7 DEF Encoded, o
  <2>4. Distance(v(1), pc) \in Int /\ Distance(v(1), pc) = v(1) - pc - 1
    BY <2>2 DEF Distance
  <2>5. NumbersFit(m, ops, pc) <=> InReach(v(1), pc)
    BY <1>7 DEF NumbersFit
  <2> DEFINE d == Distance(v(1), pc)
  <2> HIDE DEF v, d
  <2>6. d \in Int
    BY <2>4 DEF d
  <2>7. encode_J(o, d).rc = "ERR_OK" <=> -1024 <= d /\ d <= 1023
    <3>1. encode_J(o, d).rc = IF -1024 <= d /\ d <= 1023 THEN "ERR_OK" ELSE "ERR_JUMP_OVERFLOW"
      BY <1>1, <2>6, RcOfJ, Zenon
    <3> QED
      BY <3>1
  <2>8. InReach(v(1), pc) <=> -1024 <= d /\ d <= 1023
    BY <2>4 DEF InReach, d
  <2> QED
    BY <2>3, <2>5, <2>7, <2>8 DEF d
<1>8. CASE m \in FMT_NONE /\ m \notin FMT_R3 \cup FMT_R2 \cup FMT_R_CMP \cup FMT_I3 \cup FMT_I_MOV \cup FMT_J
  <2>3. Encoded(m, ops, pc) = encode_R(o, 0, 0, 0)
    BY <1>8 DEF Encoded, o
  <2>5. NumbersFit(m, ops, pc)
    BY <1>8 DEF NumbersFit
  <2> HIDE DEF v
  <2> QED
    BY <1>1, <2>3, <2>5, RcOfR
<1> QED
  BY <1>1, <1>2, <1>3, <1>4, <1>5, <1>6, <1>7, <1>8, Disjoint

LEMMA AcceptedCode ==
  ASSUME RegistersExist, NEW m, NEW ops \in Seq(Operands), NEW pc \in Nat
  PROVE  encode_instr(m, ops, pc).rc = "ERR_OK" <=> Shaped(m, ops) /\ NumbersFit(m, ops, pc)
<1>1. CASE ~Shaped(m, ops)
  <2>1. \A c : Fail(c).rc = c
    BY DEF Fail
  <2>2. WrongKind(m, ops) # "ERR_OK"
    BY DEF WrongKind
  <2> QED
    BY <1>1, <2>1, <2>2 DEF Shaped, encode_instr, Unwanted
<1>2. CASE Shaped(m, ops)
  <2>1. encode_instr(m, ops, pc) = Encoded(m, ops, pc)
    BY <1>2 DEF Shaped, encode_instr, Unwanted
  <2> QED
    BY <1>2, <2>1, EncodedCode
<1> QED
  BY <1>1, <1>2

LEMMA FitsIs ==
  ASSUME request.ops \in Seq(Operands)
  PROVE  Fits <=> /\ Shaped(request.mnemonic, request.ops)
                  /\ NumbersFit(request.mnemonic, request.ops, request.pc)
<1> DEFINE m   == request.mnemonic
           ops == request.ops
<1>1. CASE m \notin Mnemonic
  BY <1>1 DEF Fits, Shaped, Mnemonic, op_defs, FMT_R3, FMT_R2, FMT_R_CMP, FMT_I3, FMT_I_MOV, FMT_J, FMT_NONE
<1>2. CASE m \in Mnemonic /\ m \in FMT_R3 /\ m \notin FMT_R2 \cup FMT_R_CMP \cup FMT_I3 \cup FMT_I_MOV \cup FMT_J
  <2>1. m \in Mnemonic /\ Wants(m) = <<"OPD_REG", "OPD_REG", "OPD_REG">>
    BY <1>2 DEF Wants, FMT_R3, FMT_R2, FMT_R_CMP, FMT_I3, FMT_I_MOV, FMT_J, FMT_NONE
  <2>2. Shaped(m, ops) <=> Len(ops) = 3 /\ ops[1].kind = "OPD_REG" /\ ops[2].kind = "OPD_REG" /\ ops[3].kind = "OPD_REG"
    BY <2>1, ShapeIs, KindsSpelled
  <2>3. m \notin FMT_NONE
    BY <1>2 DEF FMT_NONE, FMT_R3
  <2> QED
    BY <1>2, <2>2, <2>3 DEF Fits, op, NumbersFit, SmallImm, InReach
<1>3. CASE m \in Mnemonic /\ m \in FMT_R2 /\ m \notin FMT_R3 \cup FMT_R_CMP \cup FMT_I3 \cup FMT_I_MOV \cup FMT_J
  <2>1. m \in Mnemonic /\ Wants(m) = <<"OPD_REG", "OPD_REG">>
    BY <1>3 DEF Wants, FMT_R3, FMT_R2, FMT_R_CMP, FMT_I3, FMT_I_MOV, FMT_J, FMT_NONE
  <2>2. Shaped(m, ops) <=> Len(ops) = 2 /\ ops[1].kind = "OPD_REG" /\ ops[2].kind = "OPD_REG"
    BY <2>1, ShapeIs, KindsSpelled
  <2>3. m \notin FMT_NONE
    BY <1>3 DEF FMT_NONE, FMT_R2
  <2> QED
    BY <1>3, <2>2, <2>3 DEF Fits, op, NumbersFit, SmallImm, InReach
<1>4. CASE m \in Mnemonic /\ m \in FMT_R_CMP /\ m \notin FMT_R3 \cup FMT_R2 \cup FMT_I3 \cup FMT_I_MOV \cup FMT_J
  <2>1. m \in Mnemonic /\ Wants(m) = <<"OPD_REG", "OPD_REG">>
    BY <1>4 DEF Wants, FMT_R3, FMT_R2, FMT_R_CMP, FMT_I3, FMT_I_MOV, FMT_J, FMT_NONE
  <2>2. Shaped(m, ops) <=> Len(ops) = 2 /\ ops[1].kind = "OPD_REG" /\ ops[2].kind = "OPD_REG"
    BY <2>1, ShapeIs, KindsSpelled
  <2>3. m \notin FMT_NONE
    BY <1>4 DEF FMT_NONE, FMT_R_CMP
  <2> QED
    BY <1>4, <2>2, <2>3 DEF Fits, op, NumbersFit, SmallImm, InReach
<1>5. CASE m \in Mnemonic /\ m \in FMT_I3 /\ m \notin FMT_R3 \cup FMT_R2 \cup FMT_R_CMP \cup FMT_I_MOV \cup FMT_J
  <2>1. m \in Mnemonic /\ Wants(m) = <<"OPD_REG", "OPD_REG", "OPD_IMM">>
    BY <1>5 DEF Wants, FMT_R3, FMT_R2, FMT_R_CMP, FMT_I3, FMT_I_MOV, FMT_J, FMT_NONE
  <2>2. Shaped(m, ops) <=> Len(ops) = 3 /\ ops[1].kind = "OPD_REG" /\ ops[2].kind = "OPD_REG" /\ ops[3].kind = "OPD_IMM"
    BY <2>1, ShapeIs, KindsSpelled
  <2>3. m \notin FMT_NONE
    BY <1>5 DEF FMT_NONE, FMT_I3
  <2> QED
    BY <1>5, <2>2, <2>3 DEF Fits, op, NumbersFit, SmallImm, InReach
<1>6. CASE m \in Mnemonic /\ m \in FMT_I_MOV /\ m \notin FMT_R3 \cup FMT_R2 \cup FMT_R_CMP \cup FMT_I3 \cup FMT_J
  <2>1. m \in Mnemonic /\ Wants(m) = <<"OPD_REG", "OPD_IMM">>
    BY <1>6 DEF Wants, FMT_R3, FMT_R2, FMT_R_CMP, FMT_I3, FMT_I_MOV, FMT_J, FMT_NONE
  <2>2. Shaped(m, ops) <=> Len(ops) = 2 /\ ops[1].kind = "OPD_REG" /\ ops[2].kind = "OPD_IMM"
    BY <2>1, ShapeIs, KindsSpelled
  <2>3. m \notin FMT_NONE
    BY <1>6 DEF FMT_NONE, FMT_I_MOV
  <2> QED
    BY <1>6, <2>2, <2>3 DEF Fits, op, NumbersFit, SmallImm, InReach
<1>7. CASE m \in Mnemonic /\ m \in FMT_J /\ m \notin FMT_R3 \cup FMT_R2 \cup FMT_R_CMP \cup FMT_I3 \cup FMT_I_MOV
  <2>1. m \in Mnemonic /\ Wants(m) = <<"OPD_IMM">>
    BY <1>7 DEF Wants, FMT_R3, FMT_R2, FMT_R_CMP, FMT_I3, FMT_I_MOV, FMT_J, FMT_NONE
  <2>2. Shaped(m, ops) <=> Len(ops) = 1 /\ ops[1].kind = "OPD_IMM"
    BY <2>1, ShapeIs, KindsSpelled
  <2>3. m \notin FMT_NONE
    BY <1>7 DEF FMT_NONE, FMT_J
  <2> QED
    BY <1>7, <2>2, <2>3 DEF Fits, op, NumbersFit, SmallImm, InReach
<1>8. CASE m \in Mnemonic /\ m \in FMT_NONE /\ m \notin FMT_R3 \cup FMT_R2 \cup FMT_R_CMP \cup FMT_I3 \cup FMT_I_MOV \cup FMT_J
  <2>1. m \in Mnemonic /\ Wants(m) = <<>>
    BY <1>8 DEF Wants, FMT_R3, FMT_R2, FMT_R_CMP, FMT_I3, FMT_I_MOV, FMT_J, FMT_NONE
  <2>2. Shaped(m, ops) <=> Len(ops) = 0
    BY <2>1, ShapeIs, KindsSpelled
  <2> QED
    BY <1>8, <2>2 DEF Fits, op, NumbersFit, SmallImm, InReach
<1> QED
  BY <1>1, <1>2, <1>3, <1>4, <1>5, <1>6, <1>7, <1>8, Disjoint

(* A jump has one operand, so the one that is wrong is that one.            *)
LEMMA WrongJump ==
  ASSUME NEW m \in FMT_J, NEW ops, Len(ops) = nops(m), Unwanted(m, ops) # {}
  PROVE  WrongKind(m, ops) = "ERR_UNDEFINED_LABEL" => \E k \in 1 .. Len(ops) : ops[k].kind = "OPD_LABEL"
<1>1. nops(m) = 1
  BY DEF nops, FMT_J, FMT_R3, FMT_I3, FMT_R2, FMT_R_CMP, FMT_I_MOV
<1>2. Unwanted(m, ops) = {1}
  BY <1>1 DEF Unwanted
<1> DEFINE k == CHOOSE j \in Unwanted(m, ops) : \A l \in Unwanted(m, ops) : j <= l
<1>3. k \in Unwanted(m, ops)
  BY <1>2
<1>4. k \in 1 .. Len(ops)
  BY <1>3 DEF Unwanted
<1>5. WrongKind(m, ops) = IF ops[k].kind = "OPD_LABEL" THEN "ERR_UNDEFINED_LABEL"
                          ELSE "ERR_WRONG_OPERAND_COUNT"
  BY DEF WrongKind
<1> HIDE DEF k
<1> QED
  BY <1>4, <1>5

(* What is refused for a label has one; what is refused for the number of   *)
(* its operands, jumps aside, has another.                                  *)
LEMMA RefusedCode ==
  ASSUME NEW m, NEW ops \in Seq(Operands), NEW pc \in Nat,
         NEW code, code = encode_instr(m, ops, pc).rc
  PROVE  /\ code = "ERR_UNDEFINED_LABEL" => \E k \in 1 .. Len(ops) : ops[k].kind = "OPD_LABEL"
         /\ code = "ERR_WRONG_OPERAND_COUNT" /\ m \notin FMT_J => Len(ops) # nops(m)
<1>1. \A c : Fail(c).rc = c
  BY DEF Fail
<1>2. CASE m \notin Mnemonic \/ Len(ops) # nops(m)
  BY <1>1, <1>2 DEF encode_instr
<1>3. CASE m \in Mnemonic /\ Len(ops) = nops(m) /\ Unwanted(m, ops) # {}
  <2>1. code = WrongKind(m, ops)
    BY <1>1, <1>3 DEF encode_instr
  <2>2. m \notin FMT_J => code \in {"ERR_INVALID_REGISTER", "ERR_INVALID_NUMBER"}
    BY <2>1 DEF WrongKind
  <2> QED
    BY <1>3, <2>1, <2>2, WrongJump
<1>4. CASE m \in Mnemonic /\ Len(ops) = nops(m) /\ Unwanted(m, ops) = {}
  <2>1. code = Encoded(m, ops, pc).rc
    BY <1>4 DEF encode_instr
  <2>2. \A w : Ok(w).rc = "ERR_OK"
    BY DEF Ok
  <2>3. code \notin {"ERR_UNDEFINED_LABEL", "ERR_WRONG_OPERAND_COUNT"}
    BY <1>1, <2>1, <2>2 DEF Encoded, encode_R, encode_I, encode_J
  <2> QED
    BY <2>3
<1> QED
  BY <1>2, <1>3, <1>4

(* Exactly the instructions that fit are accepted, for all operands the     *)
(* parser makes and every address, and a refusal names a cause.             *)
THEOREM AcceptanceIsFitting == RegistersExist => (EncoderSpec => []AcceptedIfFits)
<1> SUFFICES ASSUME RegistersExist PROVE EncoderSpec => []AcceptedIfFits
  OBVIOUS
<1>1. EncoderInv => AcceptedIfFits
  <2> SUFFICES ASSUME EncoderInv, result # Pending PROVE AcceptedIfFits
    BY DEF AcceptedIfFits
  <2>1. /\ request.ops \in Seq(Operands) /\ request.pc \in Nat
        /\ result.rc = encode_instr(request.mnemonic, request.ops, request.pc).rc
    BY DEF EncoderInv, Answer
  <2>2. result.rc = "ERR_OK" <=> Fits
    BY <2>1, AcceptedCode, FitsIs
  <2> QED
    BY <2>1, <2>2, RefusedCode DEF AcceptedIfFits, op
<1> QED
  BY <1>1, EncoderInvHolds, PTL
=============================================================================

----------------------------- MODULE EncoderUnit -----------------------------
(* Calls of encode_instr, read back the way cpu_step reads a word.          *)
EXTENDS Encoder

CONSTANTS Mnemonics,  \* mnemonics asked for, known or not
          Operands,   \* operands the parser and the resolver may hand over
          Addresses   \* addresses instructions are placed at

ASSUME AddressesAssumption == Addresses \subseteq uint16_t

ASSUME OperandsAssumption ==
  \A o \in Operands :
    \/ o.kind = "OPD_REG" /\ o.val \in Nat
    \/ o.kind = "OPD_IMM" /\ o.val \in Int
    \/ o.kind = "OPD_LABEL"

VARIABLES request,    \* the call: mnemonic, operands and address
          result      \* what it returns, Pending before it has

encoderVars == <<request, result>>

Pending == [rc |-> "PENDING", word |-> 0]

(* The calls that may be made: at most three operands (parse_instruction). *)
Requests == [mnemonic : Mnemonics, pc : Addresses,
             ops : UNION {[1 .. n -> Operands] : n \in 0 .. 3}]

EncoderInit == request \in Requests /\ result = Pending

encode ==
  /\ result = Pending
  /\ result' = encode_instr(request.mnemonic, request.ops, request.pc)
  /\ UNCHANGED request

EncoderNext == encode

EncoderSpec == EncoderInit /\ [][EncoderNext]_encoderVars

-----------------------------------------------------------------------------
op(k) == request.ops[k]

(* What the emulator decodes is what the assembly line said: the opcode and *)
(* every operand of an accepted instruction come back out of its word       *)
(* (encoder.c 22-56 and 136-190 against isa.h 59-68 and control.c 27-32).   *)
(* The immediate of MOV comes back in its five bits: of what extends them,  *)
(* encoder.c 168 says zeros and control.c 64 the sign, so a negative one is *)
(* not promised to come back as it was written.                             *)
RoundTrip ==
  LET i == Fields(result.word)
      m == request.mnemonic
  IN  result.rc = "ERR_OK" =>
        /\ result.word \in uint16_t
        /\ m \notin FMT_I_MOV => Carries(i, m, request.ops)
        /\ m \in FMT_I_MOV => /\ i.op = op_defs[m] /\ i.rd = op(1).val
                              /\ result.word % 32 = op(2).val % 32

(* A jump that is accepted takes the processor from the instruction's       *)
(* address to the target the line names (encoder.c 174-176 against          *)
(* control.c 23 and 72-103).                                                *)
JumpLands ==
  request.mnemonic \in FMT_J /\ result.rc = "ERR_OK" =>
    (request.pc + 1 + Fields(result.word).off) % 65536 = op(1).val % 65536

(* An instruction is accepted exactly when its operands are of the shape of *)
(* its mnemonic and every one of them fits its field, and every rejection   *)
(* names a cause the line really has.                                       *)
Fits ==
  LET m == request.mnemonic
      n == Len(request.ops)
      kinds == [k \in 1 .. n |-> op(k).kind]
      reg(k) == kinds[k] = "OPD_REG"
      imm(k) == kinds[k] = "OPD_IMM"
      small(v) == -16 <= v /\ v <= 15
  IN  \/ m \in FMT_NONE /\ n = 0
      \/ m \in FMT_J /\ n = 1 /\ imm(1)
           /\ -1024 <= op(1).val - request.pc - 1
           /\ op(1).val - request.pc - 1 <= 1023
      \/ m \in FMT_R2 \cup FMT_R_CMP /\ n = 2 /\ reg(1) /\ reg(2)
      \/ m \in FMT_I_MOV /\ n = 2 /\ reg(1) /\ imm(2) /\ small(op(2).val)
      \/ m \in FMT_R3 /\ n = 3 /\ reg(1) /\ reg(2) /\ reg(3)
      \/ m \in FMT_I3 /\ n = 3 /\ reg(1) /\ reg(2) /\ imm(3) /\ small(op(3).val)

AcceptedIfFits ==
  result # Pending =>
  /\ result.rc = "ERR_OK" <=> Fits
  /\ result.rc = "ERR_UNDEFINED_LABEL" => \E k \in 1 .. Len(request.ops) : op(k).kind = "OPD_LABEL"
  /\ result.rc = "ERR_WRONG_OPERAND_COUNT" /\ request.mnemonic \notin FMT_J =>
       Len(request.ops) # nops(request.mnemonic)
==============================================================================

------------------------------- MODULE AluUnit -------------------------------
(* Calls of alu_execute one after the other on the same CPU, as the unit    *)
(* tests make them (tests_emulator/test_alu.c) and as cpu_step does: the    *)
(* only thing a call leaves for the next one is the flag register.          *)
EXTENDS Alu

CONSTANTS Ops,      \* the opcodes passed to alu_execute
          Inputs  \* the words passed as a and b

ASSUME CallsAssumption == Ops \subseteq Opcode /\ Inputs \subseteq Word

VARIABLES flags,    \* CPU.flags
          call      \* the last call and what it returned

aluVars == <<flags, call>>

AluInit ==
  /\ flags = {}
  /\ call = [op |-> 0, a |-> 0, b |-> 0, result |-> 0]

alu_execute(op, a, b) ==
  /\ call' = [op |-> op, a |-> a, b |-> b, result |-> AluResult(op, a, b)]
  /\ flags' = AluFlags(op, a, b, flags)

AluNext == \E op \in Ops, a, b \in Inputs : alu_execute(op, a, b)

AluSpec == AluInit /\ [][AluNext]_aluVars

-----------------------------------------------------------------------------
(* After ADD or ADDI, OF is up exactly when the sum of the operands read as *)
(* signed numbers does not fit a word: the sign-bit formula of alu.c 65-69. *)
SignedOverflow ==
  call.op \in AddLike =>
    ("OF" \in flags <=> Val(call.a) + Val(call.b) \notin -Half .. Half - 1)

(* After ADD, SUB, CMP or SHL, CF is up exactly when the returned word is   *)
(* not the unbounded result: a carry out, a borrow, or a one shifted out    *)
(* (alu.c 59-62, where a borrow shows as a wrapped uint32_t).               *)
CarryMeansInexact ==
  /\ call.op \in AddLike => ("CF" \in flags <=> call.result # call.a + call.b)
  /\ call.op \in SubLike => ("CF" \in flags <=> call.result # call.a - call.b)
  /\ call.op = OP_SHL =>
       ("CF" \in flags <=> call.result \div Shift(call.b) # call.a)

(* The bitwise results obey the identities that tie them to the adder:      *)
(* and + or = a + b, xor = or - and, not a = 0 - a - 1 (alu.c 37-48).       *)
BitwiseIdentities ==
  LET or  == AluResult(OP_OR, call.a, call.b)
      and == AluResult(OP_AND, call.a, call.b)
  IN  /\ call.op = OP_AND => call.result + or = call.a + call.b
      /\ call.op = OP_XOR => call.result = or - and
      /\ call.op = OP_NOT => U16(call.a + call.result + 1) = 0

(* A carry or overflow noted by one operation is still there after any      *)
(* logic operation or right shift, whatever the operands, and ZF and NF     *)
(* then describe that operation's own result (alu.c 37-57 and 74-76, and    *)
(* the "preserves CF and OF" tests).                                        *)
LogicKeepsCarry ==
  [][call'.op \in LogicOps =>
       /\ flags' \cap {"CF", "OF"} = flags \cap {"CF", "OF"}
       /\ "ZF" \in flags' <=> call'.result = 0
       /\ "NF" \in flags' <=> Val(call'.result) < 0]_aluVars
==============================================================================

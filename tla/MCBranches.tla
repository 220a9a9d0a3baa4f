----------------------------- MODULE MCBranches ------------------------------
(* A 32-word world for the processor: 28 words of RAM, a four-word I/O page *)
(* and a table of instructions short enough that every program of a few     *)
(* words over a part of the table can be run.                               *)
EXTENDS Branches

R(op, rd, rs1, rs2) ==
  [op |-> op, rd |-> rd, rs1 |-> rs1, rs2 |-> rs2, imm |-> 0, off |-> 0]
I(op, rd, rs1, imm) ==
  [op |-> op, rd |-> rd, rs1 |-> rs1, rs2 |-> 0, imm |-> imm, off |-> 0]
J(op, off) ==
  [op |-> op, rd |-> 0, rs1 |-> 0, rs2 |-> 0, imm |-> 0, off |-> off]

(* R0 is 0, so R0 - 4, R0 - 3, R0 - 2 are the ports and R0 - 1 IO_STATUS. *)
Table == <<
  J(OP_CALL, 1), J(OP_CALL, -1), R(OP_RET, 0, 0, 0), I(OP_ADDI, 7, 7, -1),
  I(OP_ADDI, 7, 7, 1), I(OP_SW, 1, 7, 1), I(OP_MOV, 1, 0, 3), J(OP_JMP, -3),
  I(OP_LW, 1, 0, -2), I(OP_LW, 2, 0, -2), R(OP_CMP, 0, 1, 2), J(OP_JLT, 1),
  J(OP_JGT, 1), J(OP_JEQ, 1), J(OP_JNE, 1), I(OP_LW, 2, 0, -3),
  I(OP_SW, 2, 0, -4), R(OP_SUB, 1, 1, 2), R(OP_XOR, 1, 1, 2),
  R(OP_SHL, 1, 1, 2), R(OP_SHR, 1, 1, 2), R(OP_NOT, 1, 2, 0),
  R(OP_HALT, 0, 0, 0), R(OP_AND, 1, 1, 2), R(OP_OR, 1, 1, 2),
  R(OP_ADD, 1, 1, 2), J(OP_CALL, -3), I(OP_SW, 1, 0, 1), I(OP_SW, 2, 0, -1),
  J(OP_JMP, -4), I(OP_LW, 1, 0, -1) >>

MCDecode(w) == IF w = 0 THEN R(0, 0, 0, 0) ELSE Table[w]

Words(S, n) == [1 .. n -> S]

(* Calls, returns and what a program may do to its own stack. *)
CallPrograms == Words({1, 3, 6, 27}, 5) \cup Words({1, 2, 3, 4, 5, 7, 8}, 3)

(* Two clock values compared, then any three instructions. *)
ComparePrograms ==
  {<<9, 10, 11>> \o p : p \in Words({12, 13, 14, 15, 16, 18, 22}, 3)}

(* Ports read, written and executed, and code that stores into itself. *)
PortPrograms == Words({3, 16, 17, 28, 29, 30, 31}, 3)

AluPrograms == {<<9, 10, op, 14, 23>> : op \in 18 .. 26}

MCPrograms == CallPrograms \cup ComparePrograms \cup PortPrograms \cup AluPrograms
MCInputs   == {<<>>, <<3, 1>>}
MCTicks    == {0, 15, 16, 31}
==============================================================================

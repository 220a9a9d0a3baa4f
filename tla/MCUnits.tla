------------------------------- MODULE MCUnits -------------------------------
(* The three routines that can be called on their own: alu_execute,         *)
(* encode_instr and the symbol table.  They have no state in common, and    *)
(* each behaviour calls one of them, as the unit tests do.                  *)
(*                                                                          *)
(* The ALU: every opcode cpu_step hands to it and an unassigned one, on the *)
(* sixteen-bit words where carries, signs and shift counts turn.  The       *)
(* encoder: every format, an unknown mnemonic, and operands at and past the *)
(* edges of their fields, at addresses where a jump reaches or misses them. *)
(* The table: as in MCSymTable.                                             *)
EXTENDS AluUnit, EncoderUnit, MCSymTable

MCOps == {0, OP_CMP} \cup OP_ADD .. OP_ADDI
MCInputs == {0, 1, 8, 15, 255, 32767, 32768, 43690, 65535}

MCMnemonics == {"ADD", "NOT", "CMP", "ADDI", "MOV", "JMP", "CALL", "RET", "FOO"}
MCOperands ==
  {Operand("OPD_REG", r) : r \in {0, 5, 7}}
    \cup {Operand("OPD_IMM", v) : v \in {-17, -16, -1, 0, 15, 16, 1024, 1025, 65535}}
    \cup {Operand("OPD_LABEL", 0)}
MCAddresses == {0, 1, 1023, 1024, 65534, 65535}

VARIABLE unit  \* the one that is called

RetAt0 == [mnemonic |-> "RET", ops |-> <<>>, pc |-> 0]

UnitsInit ==
  /\ unit \in {"alu", "encoder", "table"}
  /\ AluInit /\ EncoderInit /\ Init
  /\ unit # "encoder" => request = RetAt0

UnitsNext ==
  /\ \/ unit = "alu" /\ AluNext /\ UNCHANGED <<encoderVars, vars>>
     \/ unit = "encoder" /\ EncoderNext /\ UNCHANGED <<aluVars, vars>>
     \/ unit = "table" /\ Next /\ UNCHANGED <<aluVars, encoderVars>>
  /\ UNCHANGED unit

UnitsSpec == UnitsInit /\ [][UnitsNext]_<<unit, aluVars, encoderVars, vars>>
==============================================================================

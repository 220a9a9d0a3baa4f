----------------------------- MODULE MCEmulator ------------------------------
(* The emulator over a 32-word memory with a window of eight words dumped   *)
(* in rows of four: every command line of up to three arguments and the     *)
(* dumps from every kind of start, on a few binaries good and bad.          *)
EXTENDS Emulator

I(op, rd, rs1, imm) ==
  [op |-> op, rd |-> rd, rs1 |-> rs1, rs2 |-> 0, imm |-> imm, off |-> 0]

(* R0 is 0: R0 - 3 is the input port and R0 - 4 the output port. *)
Table == <<
  I(OP_HALT, 0, 0, 0), I(OP_LW, 1, 0, -3), I(OP_SW, 1, 0, -4),
  [I(OP_JNE, 0, 0, 0) EXCEPT !.off = -4], I(OP_CMP, 0, 0, 0), I(OP_CALL, 0, 0, 0) >>

MCDecode(w) == IF w \in 1 .. Len(Table) THEN Table[w] ELSE I(0, 0, 0, 0)

MCHexAddr(text) ==
  CASE text = "0" -> {0}  [] text = "12" -> {18} [] text = "17" -> {23}
    [] text = "18" -> {24} [] text = "1b" -> {27} [] text = "1f" -> {31}
    [] OTHER -> {}

MCIsOption(text) == text \in Switches \cup {"--addr", "-x"}

Texts == Switches \cup {"--addr", "-x", "f", "12"}

MCCommandLines ==
  UNION {[1 .. n -> Texts] : n \in 0 .. 3}
    \cup {<<"f", "--dump", "--addr", hex>> : hex \in {"0", "12", "17", "18", "1b", "1f", "g"}}
    \cup {<<"--addr", "12", "--dump", "--addr", "0", mode, "12">> : mode \in Switches}

Good(words) == [readable |-> TRUE, odd |-> FALSE, words |-> words]

EchoTwice == <<2, 3, 2, 3, 1>>  \* reads and prints two bytes, then halts
EchoAll   == <<6, 2, 3, 4, 1>>  \* no flag is ever set: it never halts
Full      == [k \in 1 .. WordSize |-> IF k = 1 THEN 5 ELSE 1]

MCFiles == {
  Good(<<>>), Good(EchoTwice), Good(EchoAll), Good(Full), Good(Full \o <<1>>),
  [Good(<<1>>) EXCEPT !.odd = TRUE], [Good(<<1>>) EXCEPT !.readable = FALSE] }

MCInputs == {<<>>, <<1, 2, 3, 4>>}
MCTicks  == {0}
NoPrograms == {}
==============================================================================

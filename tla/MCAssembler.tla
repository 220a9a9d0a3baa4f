----------------------------- MODULE MCAssembler -----------------------------
(* The assembler over a table of two symbols, lines of five tokens, strings *)
(* of three characters and 20-bit ints: every source of up to two lines     *)
(* from a pool of all kinds of line, up to four of the lines that work      *)
(* together, every command line of up to three arguments on a short source, *)
(* and every way the host may fail on a few of them.                        *)
EXTENDS AssemblerMain

Num(v)    == Numeral(Number(IF v < 0 THEN -1 ELSE 1, IF v < 0 THEN -v ELSE v))
Reg1      == Ident("R1")
Org(v)    == <<Directive(".org"), Num(v)>>
Halt      == <<Ident("HALT")>>
Jump(to)  == <<Ident("JMP"), Ident(to)>>
Move(x)   == <<Ident("MOV"), Reg1, x>>
Fill(x) == <<Directive(".word"), x>>
Ascii(x)  == <<Directive(".ascii"), x>>
Equ(name, v) == <<Directive(".equ"), Ident(name), Num(v)>>
At(name, x)  == <<Label(name)>> \o x

(* Lines that are good, or may be. *)
GoodLines == {
  At("a", <<>>), At("a", Halt), At("b", Jump("a")), Jump("b"),
  Move(Ident("b")), Fill(Ident("a")), Equ("b", 5), Equ("a", 65541),
  Org(0), Org(3), At("a", Org(1100)), Org(65535),
  Ascii(String(<<72, 105>>)), At("b", Ascii(String(<<72, 0, 105>>))),
  <<Ident("ADD"), Reg1, Ident("R2"), Ident("R3"), Comment, Unknown>> }

(* Lines with something odd: digits after a directive's own, a number too   *)
(* wide; and lines with an error.                                           *)
OddLines == {
  <<Comment>>, At("b", Fill(Num(7))), Fill(Num(1)) \o <<Num(2), Num(3)>>,
  Move(Num(1048577)), Move(Num(1048600)), Move(Num(16)) }

BadLines == {
  Org(65536), <<Directive(".org"), Ident("a")>>, <<Directive(".org")>>,
  <<Directive(".word"), Numeral(Malformed)>>, <<Directive(".ascii"), Num(1)>>,
  <<Directive(".equ"), Ident("a"), Numeral(Malformed)>>, <<Directive(".foo")>>,
  Ascii(Unclosed(<<72>>)), Ascii(String(<<1, 2, 3, 4>>)), At("a", At("b", Halt)),
  Halt \o <<Num(1)>>, <<Ident("ADD"), Reg1, Reg1, Reg1, Reg1>>,
  Halt \o [k \in 1 .. 5 |-> Reg1], Halt \o <<Unknown>>, <<Num(1)>>, <<Ident("FOO")>> }

Lines == GoodLines \cup OddLines \cup BadLines

(* Lines that define, use, place and fill. *)
Core == { At("a", <<>>), At("b", Jump("a")), Move(Ident("b")), Equ("b", 5), Org(2),
          Ascii(String(<<72, 105>>)) }

Texts ==
  UNION {[1 .. n -> Lines] : n \in 0 .. 2}
    \cup [1 .. 3 -> Core \cup {Fill(Ident("a")), Org(0), <<Comment>>}] \cup [1 .. 4 -> Core]
    \cup { <<Equ("a", 1), Equ("b", 2), Equ("c", 3)>>,
           <<At("c", Halt), At("b", Jump("c")), At("a", Move(Ident("b")))>>,
           <<Org(65535), Ascii(String(<<72, 105>>)), Halt, Org(2), Halt>>,
           <<Halt, Halt \o <<Num(1)>>, Halt \o [k \in 1 .. 4 |-> Reg1], At("a", Jump("a"))>>,
           <<At("a", Move(Num(7))), Ascii(String(<<>>)), Ascii(String(<<72>>)), Jump("a"),
             At("b", Org(9)), Jump("a"), Fill(Ident("b"))>> }
-----------------------------------------------------------------------------
Asm == Text("p", ".asm")
Bin == Text("p", ".bin")

Arguments ==
  Helps \cup Switches \cup {Option("-o"), Option("-x"), Asm, Bin, Text("out", "")}

MCPath == Arguments \cup {Text("out", ".bin")}

NoFile == [kind |-> "none"]

Disk(lines) ==
  [x \in MCPath |-> IF x = Asm THEN [kind |-> "text", lines |-> lines] ELSE NoFile]

Fine == [memory |-> "enough", writable |-> TRUE, room |-> 100000]

Setup(lines, host1, args) == [files |-> Disk(lines), host |-> host1, line |-> args]

Few == { <<>>, <<At("a", Jump("a"))>>, <<Org(4), Halt>>, <<Halt, Halt \o <<Num(1)>>>> }

Hosts ==
  {[Fine EXCEPT !.memory = what] : what \in {"path", "source", "parsed", "image"}}
    \cup [memory : {"enough"}, writable : BOOLEAN, room : {0, 1, 3, 4, 5}]

CommandLines ==
  UNION {[1 .. n -> Arguments] : n \in 0 .. 3}
    \cup {<<Asm, Option("-o"), Bin, Option("--listing")>>,
          <<Option("-o"), Bin, Asm, Option("-o"), Option("-o")>>}

MCSetups ==
  {Setup(lines, Fine, <<Asm>>) : lines \in Texts}
    \cup {Setup(lines, host1, args) : lines \in Few, host1 \in Hosts,
             args \in {<<Asm>>, <<Option("-o"), Bin, Asm>>, <<Option("-o"), Asm, Asm>>}}
    \cup {Setup(<<Move(Num(1))>>, Fine, args) : args \in CommandLines}
(* A register where the parser's header has a number or a label.            *)
RegisterSetups == {Setup(<<Fill(Reg1), Halt>>, Fine, <<Asm>>)}
-----------------------------------------------------------------------------
(* Every name on a line, and the three that are labels or constants.        *)
MCNames ==
  {"a", "b", "c", ".org", ".word", ".ascii", ".equ", ".foo", "FOO", "R1", "R2", "R3",
   "ADD", "MOV", "JMP", "HALT"}
MCHash(name) == IF name = "b" THEN 3 ELSE 1
Whole(name) == name
MCAddr == 0 .. 65535
==============================================================================

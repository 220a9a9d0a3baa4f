------------------------------- MODULE Parser --------------------------------
(* The parser of the assembler (assembler/parser.c): the tokens of a line   *)
(* to a label and an instruction or directive.                              *)
EXTENDS Lexer, Encoder

CONSTANTS INT32,     \* the number of values of an int32_t: 2^32
          LONG_MAX   \* the largest long: 2^63 - 1

(* A long is at least as wide as an int32_t. *)
ASSUME IntAssumption ==
  /\ INT32 \in Nat \ {0} /\ INT32 % 131072 = 0
  /\ LONG_MAX \in Nat /\ LONG_MAX >= INT32 \div 2 - 1

NoName    == ""
NoOperand == Operand("OPD_NONE", 0)

(* A ParsedLine, zeroed. *)
Zeroed == [kind |-> "PL_EMPTY", address |-> 0, label |-> NoName,
           mnemonic |-> NoName, ops |-> <<>>,
           dir |-> "DIR_ORG", value |-> NoOperand, str |-> <<>>, name |-> NoName]

(* The lookup ignores case, as do those of mnemonics and directives: the    *)
(* name of each stands for all its spellings.  Labels keep theirs.          *)
registers == [R0 |-> 0, R1 |-> 1, R2 |-> 2, R3 |-> 3, R4 |-> 4, R5 |-> 5,
              R6 |-> 6, R7 |-> 7]

(* A numeral is a sign and digits; digits that are no number in their base  *)
(* are not well formed.                                                     *)
Number(sign, digits) == [sign |-> sign, wellformed |-> TRUE, digits |-> digits]
Malformed == [sign |-> 1, wellformed |-> FALSE, digits |-> 0]

Int32(v) == ((v + INT32 \div 2) % INT32) - INT32 \div 2

(* strtol stops at LONG_MAX, and the cast keeps the low 32 bits. *)
parse_number(n) ==
  Int32(n.sign * (IF n.digits > LONG_MAX THEN LONG_MAX ELSE n.digits))

(* fill_value_operand succeeds. *)
IsValue(t) ==
  \/ t.kind = "TOK_NUMBER" /\ t.text.wellformed
  \/ t.kind = "TOK_IDENT"

fill_value_operand(t) ==
  IF t.kind = "TOK_NUMBER" THEN Operand("OPD_IMM", parse_number(t.text))
  ELSE IF t.text \in DOMAIN registers THEN Operand("OPD_REG", registers[t.text])
  ELSE Operand("OPD_LABEL", t.text)

(* What parse_line returns, and the line it leaves: on failure as far as it *)
(* was filled in.                                                           *)
Parsed(line)  == [ok |-> TRUE, line |-> line]
Refused(line) == [ok |-> FALSE, line |-> line]

(* The tokens behind those a directive looks at are ignored. *)
parse_directive(name, args, line) ==
  LET is(k, kind) == Len(args) >= k /\ args[k].kind = kind
      dir(d)      == [line EXCEPT !.kind = "PL_DIRECTIVE", !.dir = d]
      filled(d)   == [dir(d) EXCEPT !.value = fill_value_operand(args[1])]
      defined     == [dir("DIR_EQU") EXCEPT !.name = args[1].text]
  IN  IF name = ".org" /\ is(1, "TOK_NUMBER") /\ IsValue(args[1])
        THEN Parsed(filled("DIR_ORG"))
      ELSE IF name = ".org" /\ is(1, "TOK_IDENT") THEN Refused(filled("DIR_ORG"))
      ELSE IF name = ".word" /\ args # <<>>
        THEN IF IsValue(args[1]) THEN Parsed(filled("DIR_WORD")) ELSE Refused(dir("DIR_WORD"))
      ELSE IF name = ".ascii" /\ is(1, "TOK_STRING")
        THEN Parsed([dir("DIR_ASCII") EXCEPT !.str = args[1].text])
      ELSE IF name = ".equ" /\ is(1, "TOK_IDENT") /\ is(2, "TOK_NUMBER")
        THEN IF IsValue(args[2])
               THEN Parsed([defined EXCEPT !.value = fill_value_operand(args[2])])
               ELSE Refused(defined)
      ELSE Refused(dir("DIR_ORG"))

\* Mutant: a fourth operand is dropped in silence.
parse_instruction_DropsFourth(name, args, line) ==
  LET instr == [line EXCEPT !.kind = "PL_INSTR", !.mnemonic = name]
      n     == IF Len(args) > 3 THEN 3 ELSE Len(args)
  IN  IF \A k \in 1 .. n : IsValue(args[k])
        THEN Parsed([instr EXCEPT !.ops = [k \in 1 .. n |-> fill_value_operand(args[k])]])
        ELSE Refused(instr)

parse_instruction(name, args, line) ==
  LET instr == [line EXCEPT !.kind = "PL_INSTR", !.mnemonic = name]
  IN  IF Len(args) <= 3 /\ \A k \in 1 .. Len(args) : IsValue(args[k])
        THEN Parsed([instr EXCEPT !.ops =
                       [k \in 1 .. Len(args) |-> fill_value_operand(args[k])]])
        ELSE Refused(instr)

parse_line(tokens) ==
  LET labelled == tokens # <<>> /\ tokens[1].kind = "TOK_LABEL"
      rest == IF labelled THEN Tail(tokens) ELSE tokens
      line == IF labelled THEN [Zeroed EXCEPT !.label = tokens[1].text] ELSE Zeroed
  IN  IF rest = <<>>
        THEN Parsed([line EXCEPT !.kind = IF labelled THEN "PL_LABEL" ELSE "PL_EMPTY"])
      ELSE IF rest[1].kind = "TOK_DIRECTIVE"
        THEN parse_directive(rest[1].text, Tail(rest), line)
      ELSE IF rest[1].kind = "TOK_IDENT"
        THEN parse_instruction(rest[1].text, Tail(rest), line)
      ELSE Refused(line)
==============================================================================

----------------------------- MODULE SourceCode ------------------------------
(* What a source text means, without passes: the address of every line, the *)
(* value of every name, known from the start, the texts that are programs,  *)
(* and their memory image and binary.                                       *)
EXTENDS Parser, FiniteSets
-----------------------------------------------------------------------------
(* Lines *)

Line(x) == parse_line(lex_line(x).tokens).line

Readable(x) == lex_line(x).ok /\ parse_line(lex_line(x).tokens).ok

IsInstr(pl)  == pl.kind = "PL_INSTR"
Is(pl, dir)  == pl.kind = "PL_DIRECTIVE" /\ pl.dir = dir

(* Two characters to a word, the first one in its low byte, and a NUL. *)
CharAt(str, b) == IF b < Len(str) THEN str[b + 1] ELSE 0

PackedWords(str) == Len(str) \div 2 + 1

Packed(str) == [k \in 1 .. PackedWords(str) |->
                  CharAt(str, 2 * k - 2) + 256 * CharAt(str, 2 * k - 1)]

Size(pl) ==
  IF IsInstr(pl) \/ Is(pl, "DIR_WORD") THEN 1
  ELSE IF Is(pl, "DIR_ASCII") THEN Len(Packed(pl.str))
  ELSE 0

OrgInRange(pl) == Is(pl, "DIR_ORG") => pl.value.val \in uint16_t

NextAddress(pl, addr) ==
  IF Is(pl, "DIR_ORG") THEN pl.value.val ELSE (addr + Size(pl)) % 65536

(* The address of every line, and of the place behind the last one. *)
Addresses(s) ==
  LET at[k \in 1 .. Len(s) + 1] ==
        IF k = 1 THEN 0 ELSE NextAddress(Line(s[k - 1]), at[k - 1])
  IN  at
-----------------------------------------------------------------------------
(* Names: a line may define two of them, its label and that of its .equ.    *)

Definitions(s) ==
  {<<k, "label">> : k \in {j \in 1 .. Len(s) : Line(s[j]).label # NoName}}
    \cup {<<k, "equ">> : k \in {j \in 1 .. Len(s) : Is(Line(s[j]), "DIR_EQU")}}

NameOf(s, d) == IF d[2] = "label" THEN Line(s[d[1]]).label ELSE Line(s[d[1]]).name

ValueOf(s, d) == IF d[2] = "label" THEN Addresses(s)[d[1]]
                 ELSE Line(s[d[1]]).value.val % 65536

DefinedNames(s) == {NameOf(s, d) : d \in Definitions(s)}

Meaning(s, name) == ValueOf(s, CHOOSE d \in Definitions(s) : NameOf(s, d) = name)

Resolved(s, o) ==
  IF o.kind = "OPD_LABEL" THEN Operand("OPD_IMM", Meaning(s, o.val)) ELSE o

(* The words of a line. *)
Encoding(s, k) ==
  LET ops == Line(s[k]).ops
  IN  encode_instr(Line(s[k]).mnemonic, [j \in 1 .. Len(ops) |-> Resolved(s, ops[j])],
                   Addresses(s)[k])

(* A register is no value for a word (ValuesAllowed); the parser takes it   *)
(* all the same, and its cleared record gives a zero.                       *)
WordOf(s, o) == IF o.kind = "OPD_REG" THEN 0 ELSE Resolved(s, o).val % 65536

Words(s, k) ==
  IF IsInstr(Line(s[k])) THEN <<Encoding(s, k).word>>
  ELSE IF Is(Line(s[k]), "DIR_WORD") THEN <<WordOf(s, Line(s[k]).value)>>
  ELSE IF Is(Line(s[k]), "DIR_ASCII") THEN Packed(Line(s[k]).str)
  ELSE <<>>

(* The names a line refers to. *)
References(pl) ==
  {pl.ops[k].val : k \in {j \in 1 .. Len(pl.ops) : pl.ops[j].kind = "OPD_LABEL"}}
    \cup (IF Is(pl, "DIR_WORD") /\ pl.value.kind = "OPD_LABEL" THEN {pl.value.val} ELSE {})

(* A text that can be assembled, and defines no more names than there is    *)
(* room for.                                                                *)
Assemblable(s, capacity) ==
  /\ \A k \in 1 .. Len(s) : Readable(s[k]) /\ OrgInRange(Line(s[k]))
  /\ \A d, e \in Definitions(s) : NameOf(s, d) = NameOf(s, e) => d = e
  /\ Cardinality(Definitions(s)) <= capacity
  /\ \A k \in 1 .. Len(s) : References(Line(s[k])) \subseteq DefinedNames(s)
  /\ \A k \in 1 .. Len(s) : IsInstr(Line(s[k])) => Encoding(s, k).rc = "ERR_OK"

(* A word is "a number or label" (parser.c 107; parser.h 53). *)
ValuesAllowed(s) ==
  \A k \in 1 .. Len(s) : Is(Line(s[k]), "DIR_WORD") => Line(s[k]).value.kind # "OPD_REG"

WellFormed(s, capacity) == Assemblable(s, capacity) /\ ValuesAllowed(s)
-----------------------------------------------------------------------------
(* The memory image: where lines overlap, the later one stays. *)

WordAt(s, k, a) == Words(s, k)[((a - Addresses(s)[k]) % 65536) + 1]

Covers(s, k, a) == (a - Addresses(s)[k]) % 65536 < Len(Words(s, k))

Emitted(s) == UNION {{(Addresses(s)[k] + j) % 65536 : j \in 0 .. Len(Words(s, k)) - 1}
                      : k \in 1 .. Len(s)}

Image(s) ==
  [a \in Emitted(s) |->
     WordAt(s, CHOOSE k \in 1 .. Len(s) :
                 /\ Covers(s, k, a)
                 /\ \A j \in k + 1 .. Len(s) : ~Covers(s, j, a), a)]

(* A binary holds the words from 0 to the last address reached, at least    *)
(* one; words outside cells are zero.                                       *)
Binary(n, cells) ==
  [kind |-> "binary", words |-> n, cells |-> [a \in {x \in DOMAIN cells : x < n} |-> cells[a]]]

BinaryWords(s) ==
  LET last == Addresses(s)[Len(s) + 1] IN IF last = 0 THEN 1 ELSE last
==============================================================================

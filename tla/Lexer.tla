-------------------------------- MODULE Lexer --------------------------------
(* The tokeniser of the assembler (assembler/lexer.c).  A source line is    *)
(* the sequence of what the rounds of the loop in lex_line stop at, once    *)
(* blanks and commas are skipped.  A name or numeral of more than           *)
(* MAX_TOKEN_LEN characters is several of them: a round ends at the limit   *)
(* and the next one begins in the middle of the word (lexer.c 101, 119).    *)
EXTENDS Integers, Sequences

CONSTANTS MAX_TOKENS_PER_LINE, MAX_TOKEN_LEN

ASSUME TokenAssumption == MAX_TOKENS_PER_LINE \in Nat /\ MAX_TOKEN_LEN \in Nat

(* The texts of a line: a name, a numeral, or the characters of a string    *)
(* after its escapes; a name may begin with '.' and be followed by ':'.     *)
Named(name, d, c) == [class |-> "ident", text |-> name, dot |-> d, colon |-> c]
Ident(name)     == Named(name, FALSE, FALSE)
Label(name)     == Named(name, FALSE, TRUE)
Directive(name) == Named(name, TRUE, FALSE)
Numeral(number) == [class |-> "number", text |-> number]
String(chars)   == [class |-> "string", text |-> chars, closed |-> TRUE]
Unclosed(chars) == [String(chars) EXCEPT !.closed = FALSE]
Comment         == [class |-> "comment"]
Unknown         == [class |-> "unknown"]

(* What may stand on a line, its names from a set of names. *)
Lexemes(names) ==
  [class : {"ident"}, text : names, dot : BOOLEAN, colon : BOOLEAN]
    \cup [class : {"number"},
          text : [sign : {1, -1}, wellformed : BOOLEAN, digits : Nat]]
    \cup [class : {"string"}, text : Seq(Nat), closed : BOOLEAN]
    \cup {Comment, Unknown}

(* strlen: what a NUL cuts off. *)
UpToNul(chars) ==
  LET nuls == {k \in 1 .. Len(chars) : chars[k] = 0}
  IN  IF nuls = {} THEN chars
      ELSE SubSeq(chars, 1, (CHOOSE k \in nuls : \A j \in nuls : k <= j) - 1)

Token(kind, text) == [kind |-> kind, text |-> text]

TokenOf(x) ==
  IF x.class = "string" THEN Token("TOK_STRING", UpToNul(x.text))
  ELSE IF x.class = "number" THEN Token("TOK_NUMBER", x.text)
  ELSE IF x.class = "ident" /\ x.colon THEN Token("TOK_LABEL", x.text)
  ELSE IF x.class = "ident" /\ x.dot THEN Token("TOK_DIRECTIVE", x.text)
  ELSE Token("TOK_IDENT", x.text)

(* The round that does not push a token: it ends the line or refuses it. *)
Stops(src, k) ==
  \/ k > MAX_TOKENS_PER_LINE
  \/ src[k].class \in {"comment", "unknown"}
  \/ src[k].class = "string" /\ (~src[k].closed \/ Len(src[k].text) > MAX_TOKEN_LEN)

(* The tokens before the first such round; only a comment ends a line well. *)
lex_line(src) ==
  LET stops == {k \in 1 .. Len(src) : Stops(src, k)}
      end   == CHOOSE k \in stops : \A j \in stops : k <= j
      n     == IF stops = {} THEN Len(src) ELSE end - 1
  IN  [ok     |-> stops = {} \/ src[end].class = "comment",
       tokens |-> [k \in 1 .. n |-> TokenOf(src[k])]]
==============================================================================

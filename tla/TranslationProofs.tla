-------------------------- MODULE TranslationProofs --------------------------
(* The two passes of the assembler implement the one-step translation, and  *)
(* the words they write say what the source says, for every source, symbol  *)
(* table, host and command line.                                            *)
EXTENDS AssemblerProofs, EncoderProofs, FiniteSetTheorems

-----------------------------------------------------------------------------
(* The addresses of a source *)

LEMMA AllByStep ==
  ASSUME NEW S, 0 \in S, \A n \in Nat : n \in S => n + 1 \in S
  PROVE  \A n \in Nat : n \in S
<1> DEFINE C == {n \in Nat : n \notin S}
<1>1. CASE C = {}
  BY <1>1
<1>2. CASE C # {}
  <2> DEFINE m == CHOOSE k \in C : \A j \in C : k <= j
  <2>1. C \in SUBSET Nat
    OBVIOUS
  <2>2. m \in C /\ \A j \in C : m <= j
    BY <1>2, <2>1, Least
  <2> HIDE DEF m
  <2>3. m \in Nat /\ m \notin S /\ m # 0
    BY <2>2
  <2>4. m - 1 \in Nat /\ (m - 1) + 1 = m /\ ~(m <= m - 1)
    BY <2>3
  <2>5. m - 1 \in S
    BY <2>2, <2>4
  <2> QED
    BY <2>3, <2>4, <2>5
<1> QED
  BY <1>1, <1>2

(* The equation of Addresses, for n lines. *)
Located(s, at, n) ==
  at = [k \in 1 .. n + 1 |-> IF k = 1 THEN 0 ELSE NextAddress(Line(s[k - 1]), at[k - 1])]

(* A function satisfies it, however many lines there are. *)
LEMMA LocationExists == ASSUME NEW s PROVE \A n \in Nat : \E at : Located(s, at, n)
<1> DEFINE S == {n \in Nat : \E at : Located(s, at, n)}
           Next1(k, at) == IF k = 1 THEN 0 ELSE NextAddress(Line(s[k - 1]), at[k - 1])
<1>1. 0 \in S
  <2> DEFINE at == [k \in 1 .. 0 + 1 |-> 0]
             f  == [k \in 1 .. 0 + 1 |-> Next1(k, at)]
  <2>1. \A k \in 1 .. 0 + 1 : k = 1
    OBVIOUS
  <2>2. \A k \in 1 .. 0 + 1 : 0 = Next1(k, at)
    BY <2>1, Zenon
  <2>3. at = f
    <3> HIDE DEF Next1
    <3> QED
      BY <2>2, Zenon
  <2>4. Located(s, at, 0)
    BY <2>3, Zenon DEF Located
  <2> QED
    BY <2>4
<1>2. ASSUME NEW n \in Nat, n \in S PROVE n + 1 \in S
  <2>1. PICK at : Located(s, at, n)
    BY <1>2
  <2> DEFINE D == 1 .. (n + 1) + 1
             h == [k \in D |-> Next1(k, at)]
             f == [k \in D |-> Next1(k, h)]
  <2>2. \A k \in D : k # 1 => k - 1 \in 1 .. n + 1
    OBVIOUS
  <2>3. 1 .. n + 1 \subseteq D
    OBVIOUS
  <2>4. \A k \in 1 .. n + 1 : h[k] = at[k]
    <3>1. \A k \in 1 .. n + 1 : at[k] = Next1(k, at)
      BY <2>1, Zenon DEF Located
    <3> HIDE DEF D, Next1
    <3> QED
      BY <2>3, <3>1
  <2> HIDE DEF D, h
  <2>5. \A k \in D : Next1(k, at) = Next1(k, h)
    BY <2>2, <2>4, Zenon
  <2>6. h = f
    <3> HIDE DEF Next1
    <3> QED
      BY <2>5, Zenon DEF h
  <2>7. Located(s, h, n + 1)
    BY <2>6, Zenon DEF Located, D
  <2> QED
    BY <2>7
<1> HIDE DEF S
<1>3. \A n \in Nat : n \in S
  BY <1>1, <1>2, AllByStep
<1> QED
  BY <1>3 DEF S

(* Every line begins where the one before it ends, or where its .org says.  *)
LEMMA AddressesFollow ==
  ASSUME NEW s, Len(s) \in Nat
  PROVE  /\ Addresses(s)[1] = 0
         /\ \A k \in 1 .. Len(s) :
              Addresses(s)[k + 1] = NextAddress(Line(s[k]), Addresses(s)[k])
<1> DEFINE at == Addresses(s)
           n  == Len(s)
<1>1. \E f : Located(s, f, n)
  BY LocationExists
<1>2. at = CHOOSE f : Located(s, f, n)
  BY DEF Addresses, Located
<1>3. Located(s, at, n)
  BY <1>1, <1>2
<1> HIDE DEF at, n
<1>4. n \in Nat
  BY DEF n
<1>5. /\ 1 \in 1 .. n + 1
      /\ \A k \in 1 .. n : k + 1 \in 1 .. n + 1 /\ k + 1 # 1 /\ (k + 1) - 1 = k
  BY <1>4
<1>6. \A k \in 1 .. n + 1 : at[k] = IF k = 1 THEN 0 ELSE NextAddress(Line(s[k - 1]), at[k - 1])
  BY <1>3, Zenon DEF Located
<1>7. at[1] = 0
  BY <1>5, <1>6, Zenon
<1>8. ASSUME NEW k \in 1 .. n PROVE at[k + 1] = NextAddress(Line(s[k]), at[k])
  <2>1. at[k + 1] = NextAddress(Line(s[(k + 1) - 1]), at[(k + 1) - 1])
    BY <1>5, <1>6, Zenon
  <2> QED
    BY <1>5, <2>1
<1> QED
  BY <1>7, <1>8 DEF at, n

-----------------------------------------------------------------------------
(* The lines of a source *)

(* Only an instruction has operands, their labels are names, and a .word    *)
(* that is no error has a value.                                            *)
SoundLine(l) ==
  /\ Len(l.ops) \in Nat /\ l.kind # "PL_INSTR" => l.ops = <<>>
  /\ \A j \in 1 .. Len(l.ops) : l.ops[j].kind = "OPD_LABEL" => l.ops[j].val \in Name
  /\ l.value.kind = "OPD_LABEL" => l.value.val \in Name

HasValue(l) == Is(l, "DIR_WORD") => l.value.kind \in {"OPD_IMM", "OPD_REG", "OPD_LABEL"}

LEMMA ValueIsSound ==
  ASSUME NEW t, IsValue(t), GoodToken(t)
  PROVE  /\ fill_value_operand(t).kind \in {"OPD_IMM", "OPD_REG", "OPD_LABEL"}
         /\ fill_value_operand(t).kind = "OPD_LABEL" => fill_value_operand(t).val \in Name
BY DEF IsValue, GoodToken, fill_value_operand, Operand

(* Whatever .org refuses, its name is one. *)
LEMMA IdentIsSound ==
  ASSUME NEW t, t.kind = "TOK_IDENT", GoodToken(t)
  PROVE  fill_value_operand(t).kind = "OPD_LABEL" => fill_value_operand(t).val \in Name
BY DEF GoodToken, fill_value_operand, Operand

LEMMA InstructionIsSound ==
  ASSUME NEW l, LabelOnly(l), NEW name, NEW args, GoodTokens(args)
  PROVE  /\ SoundLine(parse_instruction(name, args, l).line)
         /\ HasValue(parse_instruction(name, args, l).line)
<1> DEFINE m   == [l EXCEPT !.kind = "PL_INSTR", !.mnemonic = name]
           ops == [k \in 1 .. Len(args) |-> fill_value_operand(args[k])]
<1>1. /\ m.kind = "PL_INSTR" /\ m.ops = <<>> /\ m.value.kind = "OPD_NONE"
      /\ \A f : /\ [m EXCEPT !.ops = f].kind = "PL_INSTR" /\ [m EXCEPT !.ops = f].ops = f
                /\ [m EXCEPT !.ops = f].value.kind = "OPD_NONE"
  BY DEF LabelOnly, Zeroed, NoOperand, Operand
<1> HIDE DEF m
<1>2. Len(args) \in Nat /\ \A k \in 1 .. Len(args) : GoodToken(args[k])
  BY DEF GoodTokens
<1>3. ops = [k \in 1 .. Len(args) |-> ops[k]]
  OBVIOUS
<1>4. Len(ops) = Len(args)
  <2> HIDE DEF ops
  <2> QED
    BY <1>2, <1>3, LengthOf
<1>5. CASE \A k \in 1 .. Len(args) : IsValue(args[k])
  <2>1. \A k \in 1 .. Len(args) : ops[k].kind = "OPD_LABEL" => ops[k].val \in Name
    BY <1>2, <1>5, ValueIsSound
  <2> HIDE DEF ops
  <2>2. SoundLine([m EXCEPT !.ops = ops]) /\ HasValue([m EXCEPT !.ops = ops])
    BY <1>1, <1>2, <1>4, <2>1 DEF SoundLine, HasValue, Is
  <2>3. SoundLine(m) /\ HasValue(m)
    BY <1>1 DEF SoundLine, HasValue, Is
  <2> QED
    BY <2>2, <2>3 DEF parse_instruction, Parsed, Refused, m, ops
<1>6. CASE ~ \A k \in 1 .. Len(args) : IsValue(args[k])
  <2>1. SoundLine(m) /\ HasValue(m)
    BY <1>1 DEF SoundLine, HasValue, Is
  <2> QED
    BY <1>6, <2>1 DEF parse_instruction, Parsed, Refused, m
<1> QED
  BY <1>5, <1>6

LEMMA DirectiveIsSound ==
  ASSUME NEW l, LabelOnly(l), NEW name, NEW args, GoodTokens(args)
  PROVE  LET parsing == parse_directive(name, args, l)
         IN  SoundLine(parsing.line) /\ (parsing.ok => HasValue(parsing.line))
<1> DEFINE dir(d)    == [l EXCEPT !.kind = "PL_DIRECTIVE", !.dir = d]
           filled(d) == [dir(d) EXCEPT !.value = fill_value_operand(args[1])]
           defined   == [dir("DIR_EQU") EXCEPT !.name = args[1].text]
           is(k, kind) == Len(args) >= k /\ args[k].kind = kind
           parsing   == parse_directive(name, args, l)
<1>1. \A d : /\ dir(d).kind = "PL_DIRECTIVE" /\ dir(d).ops = <<>> /\ dir(d).dir = d
             /\ dir(d).value.kind = "OPD_NONE"
             /\ \A v : /\ [dir(d) EXCEPT !.value = v].kind = "PL_DIRECTIVE"
                       /\ [dir(d) EXCEPT !.value = v].ops = <<>>
                       /\ [dir(d) EXCEPT !.value = v].dir = d
                       /\ [dir(d) EXCEPT !.value = v].value = v
             /\ \A str : /\ [dir(d) EXCEPT !.str = str].kind = "PL_DIRECTIVE"
                         /\ [dir(d) EXCEPT !.str = str].ops = <<>>
                         /\ [dir(d) EXCEPT !.str = str].dir = d
                         /\ [dir(d) EXCEPT !.str = str].value.kind = "OPD_NONE"
  BY DEF LabelOnly, Zeroed, NoOperand, Operand
<1>2. /\ defined.kind = "PL_DIRECTIVE" /\ defined.ops = <<>> /\ defined.dir = "DIR_EQU"
      /\ defined.value.kind = "OPD_NONE"
      /\ \A v : /\ [defined EXCEPT !.value = v].kind = "PL_DIRECTIVE"
                /\ [defined EXCEPT !.value = v].ops = <<>>
                /\ [defined EXCEPT !.value = v].dir = "DIR_EQU"
                /\ [defined EXCEPT !.value = v].value = v
  BY DEF LabelOnly, Zeroed, NoOperand, Operand
<1>3. \A k \in {1, 2} : Len(args) >= k => GoodToken(args[k])
  BY DEF GoodTokens
<1>4. args # <<>> => Len(args) >= 1
  <2>1. PICK S : args \in Seq(S)
    BY DEF GoodTokens
  <2> QED
    BY <2>1, EmptySeq
<1> HIDE DEF dir, filled, defined, is
<1>5. \/ /\ is(1, "TOK_NUMBER") /\ IsValue(args[1])
         /\ parsing.line = filled("DIR_ORG")
      \/ /\ is(1, "TOK_IDENT")
         /\ parsing.line = filled("DIR_ORG")
      \/ /\ args # <<>> /\ IsValue(args[1])
         /\ parsing.line = filled("DIR_WORD")
      \/ ~parsing.ok /\ parsing.line \in {dir("DIR_WORD"), dir("DIR_ORG")}
      \/ parsing.line = [dir("DIR_ASCII") EXCEPT !.str = args[1].text]
      \/ /\ is(2, "TOK_NUMBER")
         /\ parsing.line = [defined EXCEPT !.value = fill_value_operand(args[2])]
      \/ parsing.line = defined
  BY DEF parse_directive, Parsed, Refused, dir, filled, defined, is
<1> HIDE DEF parsing
<1>6. \A d : args # <<>> /\ IsValue(args[1]) => SoundLine(filled(d)) /\ HasValue(filled(d))
  BY <1>1, <1>3, <1>4, ValueIsSound DEF SoundLine, HasValue, Is, filled
<1>7. is(1, "TOK_NUMBER") /\ IsValue(args[1]) =>
        SoundLine(filled("DIR_ORG")) /\ HasValue(filled("DIR_ORG"))
  BY <1>1, <1>3, ValueIsSound DEF SoundLine, HasValue, Is, filled, is
<1>8. is(1, "TOK_IDENT") => SoundLine(filled("DIR_ORG")) /\ HasValue(filled("DIR_ORG"))
  BY <1>1, <1>3, IdentIsSound DEF SoundLine, HasValue, Is, filled, is
<1>9. \A d : /\ SoundLine(dir(d)) /\ (d # "DIR_WORD" => HasValue(dir(d)))
             /\ \A str : /\ SoundLine([dir(d) EXCEPT !.str = str])
                         /\ d # "DIR_WORD" => HasValue([dir(d) EXCEPT !.str = str])
  BY <1>1 DEF SoundLine, HasValue, Is
<1>10. is(2, "TOK_NUMBER") =>
         /\ SoundLine([defined EXCEPT !.value = fill_value_operand(args[2])])
         /\ HasValue([defined EXCEPT !.value = fill_value_operand(args[2])])
  BY <1>2 DEF SoundLine, HasValue, Is, is, fill_value_operand, Operand
<1>11. SoundLine(defined) /\ HasValue(defined)
  BY <1>2 DEF SoundLine, HasValue, Is
<1>12. SoundLine(parsing.line) /\ (parsing.ok => HasValue(parsing.line))
  <2>1. CASE args # <<>> /\ IsValue(args[1]) /\ parsing.line = filled("DIR_WORD")
    BY <1>6, <2>1
  <2>2. CASE ~parsing.ok /\ parsing.line \in {dir("DIR_WORD"), dir("DIR_ORG")}
    BY <1>9, <2>2
  <2>3. CASE parsing.line = [dir("DIR_ASCII") EXCEPT !.str = args[1].text]
    BY <1>9, <2>3
  <2>4. CASE /\ parsing.line = filled("DIR_ORG")
             /\ \/ is(1, "TOK_IDENT")
                \/ is(1, "TOK_NUMBER") /\ IsValue(args[1])
    BY <1>7, <1>8, <2>4
  <2>5. CASE \/ parsing.line = defined
             \/ /\ is(2, "TOK_NUMBER")
                /\ parsing.line = [defined EXCEPT !.value = fill_value_operand(args[2])]
    BY <1>10, <1>11, <2>5
  <2> QED
    BY <1>5, <2>1, <2>2, <2>3, <2>4, <2>5
<1> QED
  BY <1>12 DEF parsing

LEMMA ParsedIsSound ==
  ASSUME NEW tokens, GoodTokens(tokens)
  PROVE  LET parsing == parse_line(tokens)
         IN  SoundLine(parsing.line) /\ (parsing.ok => HasValue(parsing.line))
<1> DEFINE labelled == tokens # <<>> /\ tokens[1].kind = "TOK_LABEL"
           rest == IF labelled THEN Tail(tokens) ELSE tokens
           l    == IF labelled THEN [Zeroed EXCEPT !.label = tokens[1].text] ELSE Zeroed
           kind == IF labelled THEN "PL_LABEL" ELSE "PL_EMPTY"
<1>1. GoodTokens(rest)
  BY TailIsGood
<1>2. LabelOnly(l)
  <2>1. CASE labelled
    <3>1. tokens[1].text \in Name
      BY <2>1, TailIsGood DEF GoodToken
    <3> QED
      BY <2>1, <3>1 DEF LabelOnly, Zeroed
  <2>2. CASE ~labelled
    BY <2>2, ZeroedIsLabelOnly
  <2> QED
    BY <2>1, <2>2
<1>3. Len(<<>>) \in Nat /\ 1 .. Len(<<>>) = {}
  OBVIOUS
<1> HIDE DEF rest, l
<1>4. /\ SoundLine(l) /\ HasValue(l)
      /\ \A k \in {"PL_LABEL", "PL_EMPTY"} :
           SoundLine([l EXCEPT !.kind = k]) /\ HasValue([l EXCEPT !.kind = k])
  BY <1>2, <1>3 DEF LabelOnly, SoundLine, HasValue, Is, Zeroed, NoOperand, Operand
<1>5. rest # <<>> => GoodTokens(Tail(rest))
  BY <1>1, TailIsGood
<1>6. CASE rest = <<>>
  BY <1>4, <1>6 DEF parse_line, Parsed, rest, l
<1>7. CASE rest # <<>> /\ rest[1].kind = "TOK_DIRECTIVE"
  <2>1. parse_line(tokens) = parse_directive(rest[1].text, Tail(rest), l)
    BY <1>7 DEF parse_line, rest, l
  <2> QED
    BY <1>2, <1>5, <1>7, <2>1, DirectiveIsSound
<1>8. CASE rest # <<>> /\ rest[1].kind = "TOK_IDENT"
  <2>1. parse_line(tokens) = parse_instruction(rest[1].text, Tail(rest), l)
    BY <1>8 DEF parse_line, rest, l
  <2> QED
    BY <1>2, <1>5, <1>8, <2>1, InstructionIsSound
<1>9. CASE rest # <<>> /\ rest[1].kind \notin {"TOK_DIRECTIVE", "TOK_IDENT"}
  BY <1>4, <1>9 DEF parse_line, Refused, rest, l
<1> QED
  BY <1>6, <1>7, <1>8, <1>9

(* What is known of every line of a source. *)
LEMMA LineIsSound ==
  ASSUME NEW x \in Seq(Lexemes(Name))
  PROVE  /\ GoodLine(Line(x)) /\ SoundLine(Line(x))
         /\ Readable(x) => HasValue(Line(x))
<1>1. GoodTokens(lex_line(x).tokens)
  BY LexedIsGood
<1> QED
  BY <1>1, ParsedIsGood, ParsedIsSound DEF Line, Readable

LEMMA TextIsLines ==
  ASSUME AssemblerInv
  PROVE  /\ Len(sf) \in Nat /\ DOMAIN sf = 1 .. Len(sf)
         /\ \A k \in 1 .. Len(sf) : sf[k] \in Seq(Lexemes(Name))
         /\ i \in 1 .. Len(sf) + 1 /\ DOMAIN parsed = 1 .. Len(sf)
<1>1. sf \in Seq(Seq(Lexemes(Name)))
  BY DEF AssemblerInv, LinesInv
<1>2. Len(sf) \in Nat /\ DOMAIN sf = 1 .. Len(sf)
  BY <1>1, LenProperties
<1>3. \A k \in 1 .. Len(sf) : sf[k] \in Seq(Lexemes(Name))
  BY <1>1, ElementOfSeq
<1> QED
  BY <1>2, <1>3 DEF AssemblerInv, AssemblerTypeOK

-----------------------------------------------------------------------------
(* The room of a line *)

LEMMA PackedLength ==
  ASSUME NEW str, Len(str) \in Nat
  PROVE  /\ Len(Packed(str)) = Len(str) \div 2 + 1
         /\ Len(Packed(str)) \in Nat /\ Len(Packed(str)) = (Len(str) + 1 + 1) \div 2
<1>1. \A n \in Nat : n \div 2 + 1 \in Nat /\ n \div 2 + 1 = (n + 1 + 1) \div 2
  OBVIOUS
<1>2. PackedWords(str) \in Nat /\ PackedWords(str) = Len(str) \div 2 + 1
  BY <1>1 DEF PackedWords
<1>3. Packed(str) = [k \in 1 .. PackedWords(str) |-> Packed(str)[k]]
  BY DEF Packed
<1>4. Len(Packed(str)) = PackedWords(str)
  BY <1>2, <1>3, LengthOf
<1> QED
  BY <1>1, <1>2, <1>4

(* The two passes agree on it, and so does the source's own account.        *)
LEMMA SizeIsCounted ==
  ASSUME NEW l, GoodLine(l)
  PROVE  line_size(l) = Size(l) /\ Size(l) \in Nat
<1>1. Len(l.str) \in Nat
  BY DEF GoodLine
<1>2. Len(Packed(l.str)) \in Nat /\ Len(Packed(l.str)) = (Len(l.str) + 1 + 1) \div 2
  BY <1>1, PackedLength
<1> QED
  BY <1>2 DEF line_size, Size

LEMMA OneWordLong == \A w : Len(<<w>>) = 1 /\ <<w>>[1] = w
OBVIOUS

LEMMA NoWordsLong == Len(<<>>) = 0
OBVIOUS

LEMMA WordsFillSize ==
  ASSUME NEW s, NEW k
  PROVE  Len(Words(s, k)) = Size(Line(s[k]))
BY OneWordLong, NoWordsLong DEF Words, Size, IsInstr, Is

(* The addresses of n words from b on. *)
Room(b, n) == {(b + j) % 65536 : j \in 0 .. n - 1}

LEMMA WithinReach ==
  ASSUME NEW M \in Nat \ {0}, NEW b \in 0 .. M - 1, NEW a \in 0 .. M - 1, NEW n \in Nat
  PROVE  (\E j \in 0 .. n - 1 : a = (b + j) % M) <=> (a - b) % M < n
<1>1. a \in 0 .. M - 1 /\ b \in 0 .. M - 1 /\ M \in Nat \ {0}
  OBVIOUS
<1>3. ASSUME (a - b) % M < n PROVE \E j \in 0 .. n - 1 : a = (b + j) % M
  <2> DEFINE q == (a - b) \div M
             j == (a - b) % M
  <2>1. q \in Int /\ j \in 0 .. M - 1 /\ a - b = M * q + j
    <3>1. a - b \in Int
      BY <1>1
    <3> QED
      BY <1>1, <3>1, Division
  <2>2. j < n
    BY <1>3
  <2> HIDE DEF q, j
  <2>3. 0 - q \in Int /\ b + j = M * (0 - q) + a /\ j \in 0 .. n - 1
    <3>1. M * (0 - q) = 0 - M * q
      BY <1>1, <2>1
    <3>2. M * q \in Int
      BY <1>1, <2>1
    <3> QED
      BY <1>1, <2>1, <2>2, <3>1, <3>2
  <2>4. (b + j) % M = a
    BY <1>1, <2>3, RemainderUnique
  <2> QED
    BY <2>3, <2>4
<1>4. ASSUME NEW j \in 0 .. n - 1, a = (b + j) % M PROVE (a - b) % M < n
  <2> DEFINE q == (b + j) \div M
             r == j % M
             p == j \div M
  <2>1. q \in Int /\ b + j = M * q + a
    <3>1. b + j \in Int
      BY <1>1
    <3> QED
      BY <1>1, <1>4, <3>1, Division
  <2>2. p \in Int /\ r \in 0 .. M - 1 /\ j = M * p + r
    <3>1. j \in Int
      OBVIOUS
    <3> QED
      BY <1>1, <3>1, Division
  <2> HIDE DEF q, r, p
  <2>3. p - q \in Int /\ a - b = M * (p - q) + r
    <3>1. M * (p - q) = M * p - M * q
      BY <1>1, <2>1, <2>2
    <3>2. M * p \in Int /\ M * q \in Int
      BY <1>1, <2>1, <2>2
    <3> QED
      BY <1>1, <2>1, <2>2, <3>1, <3>2
  <2>4. (a - b) % M = r
    BY <1>1, <2>2, <2>3, RemainderUnique
  <2>5. r <= j
    <3>1. CASE p >= 0
      <4>1. M * p >= 0 /\ M * p \in Int
        BY <1>1, <2>2, <3>1
      <4> QED
        BY <2>2, <4>1
    <3>2. CASE p < 0
      <4>1. M * p <= 0 - M /\ M * p \in Int
        BY <1>1, <2>2, <3>2
      <4> QED
        BY <1>1, <2>2, <4>1
    <3> QED
      BY <2>2, <3>1, <3>2
  <2> QED
    BY <2>2, <2>4, <2>5
<1> QED
  BY <1>3, <1>4

LEMMA RoomIsCovered ==
  ASSUME NEW b \in uint16_t, NEW n \in Nat, NEW a \in uint16_t
  PROVE  a \in Room(b, n) <=> (a - b) % 65536 < n
<1> DEFINE M == 65536
<1>1. M \in Nat \ {0} /\ \A w \in uint16_t : w \in Nat /\ w < M
  BY DEF uint16_t
<1>2. Room(b, n) = {(b + j) % M : j \in 0 .. n - 1}
  BY DEF Room
<1> HIDE DEF M
<1>3. a \in 0 .. M - 1 /\ b \in 0 .. M - 1
  BY <1>1
<1>4. (\E j \in 0 .. n - 1 : a = (b + j) % M) <=> (a - b) % M < n
  BY <1>1, <1>3, WithinReach
<1> QED
  BY <1>2, <1>4 DEF M

LEMMA RoomInMemory ==
  ASSUME NEW b \in uint16_t, NEW n \in Nat
  PROVE  Room(b, n) \subseteq uint16_t
<1>1. b \in Int /\ \A j \in 0 .. n - 1 : b + j \in Int
  BY Uint16Nat
<1> QED
  BY <1>1, Mod16 DEF Room

(* Room that does not reach the top of memory does not wrap.                *)
LEMMA RoomForward ==
  ASSUME NEW b \in uint16_t, NEW n \in Nat, b + n < 65536
  PROVE  Room(b, n) = b .. b + n - 1
<1> DEFINE M == 65536
<1>1. /\ b \in Nat /\ b + n < M /\ M \in Nat \ {0}
      /\ Room(b, n) = {(b + j) % M : j \in 0 .. n - 1}
  BY Uint16Nat DEF Room
<1> HIDE DEF M
<1>2. ASSUME NEW j \in 0 .. n - 1 PROVE (b + j) % M = b + j
  BY <1>1
<1>3. {(b + j) % M : j \in 0 .. n - 1} = {b + j : j \in 0 .. n - 1}
  BY <1>2
<1>4. {b + j : j \in 0 .. n - 1} \subseteq b .. b + n - 1
  BY <1>1
<1>5. ASSUME NEW a \in b .. b + n - 1 PROVE a \in {b + j : j \in 0 .. n - 1}
  <2>1. a - b \in 0 .. n - 1 /\ b + (a - b) = a
    BY <1>1
  <2> QED
    BY <2>1
<1>6. {b + j : j \in 0 .. n - 1} = b .. b + n - 1
  BY <1>4, <1>5
<1> QED
  BY <1>1, <1>3, <1>6

LEMMA IntervalCount ==
  ASSUME NEW b \in Int, NEW n \in Nat
  PROVE  IsFiniteSet(b .. b + n - 1) /\ Cardinality(b .. b + n - 1) = n
<1> DEFINE z == b + n - 1
<1>1. z \in Int /\ (IF b > z THEN 0 ELSE z - b + 1) = n
  OBVIOUS
<1> HIDE DEF z
<1>2. IsFiniteSet(b .. z) /\ Cardinality(b .. z) = IF b > z THEN 0 ELSE z - b + 1
  BY <1>1, FS_Interval
<1> QED
  BY <1>1, <1>2 DEF z

(* So n words more, from b on, and all of them below b + n.                 *)
LEMMA RoomIsAdded ==
  ASSUME NEW b \in Nat, NEW n \in Nat, Room(b, n) = b .. b + n - 1,
         NEW S, \A a \in S : a \in Nat /\ a < b
  PROVE  /\ Cardinality(S \cup Room(b, n)) = Cardinality(S) + n
         /\ Cardinality(S) \in Nat /\ Cardinality(S) <= b
         /\ \A a \in S \cup Room(b, n) : a < b + n
<1> DEFINE low  == 0
           all  == low .. low + b - 1
           more == b .. b + n - 1
<1>1. b \in Nat /\ n \in Nat /\ low \in Int /\ b \in Int
  OBVIOUS
<1>2. S \subseteq all
  BY <1>1
<1>3. more \cap S = {} /\ \A a \in more : a < b + n
  BY <1>1
<1> HIDE DEF low
<1>4. IsFiniteSet(all) /\ Cardinality(all) = b
  BY <1>1, IntervalCount, Zenon
<1>5. IsFiniteSet(more) /\ Cardinality(more) = n
  BY <1>1, IntervalCount, Zenon
<1>6. Room(b, n) = more
  OBVIOUS
<1> HIDE DEF all, more
<1>7. IsFiniteSet(S) /\ Cardinality(S) <= Cardinality(all)
  <2>1. S \in SUBSET all
    BY <1>2
  <2> QED
    BY <1>4, <2>1, FS_Subset, Zenon
<1>8. Cardinality(S \cup more) = Cardinality(S) + Cardinality(more) - Cardinality(S \cap more)
  BY <1>5, <1>7, FS_Union, Zenon
<1>9. Cardinality(S \cap more) = 0 /\ Cardinality(S) \in Nat
  BY <1>3, <1>7, FS_EmptySet, FS_CardinalityType
<1>10. Cardinality(S \cup more) = Cardinality(S) + n /\ Cardinality(S) <= b
  BY <1>1, <1>4, <1>5, <1>7, <1>8, <1>9
<1>11. \A a \in S \cup more : a < b + n
  BY <1>1, <1>3
<1> QED
  BY <1>6, <1>9, <1>10, <1>11

-----------------------------------------------------------------------------
(* The names of a source *)

LEMMA DefinitionsFinite ==
  ASSUME NEW s, Len(s) \in Nat
  PROVE  IsFiniteSet(Definitions(s))
<1>1. IsFiniteSet(1 .. Len(s))
  BY FS_Interval
<1>2. IsFiniteSet({"label", "equ"})
  <2>1. IsFiniteSet({"label"})
    BY FS_Singleton
  <2> QED
    BY <2>1, FS_AddElement
<1>3. IsFiniteSet((1 .. Len(s)) \X {"label", "equ"})
  BY <1>1, <1>2, FS_Product
<1>4. Definitions(s) \subseteq (1 .. Len(s)) \X {"label", "equ"}
  BY DEF Definitions
<1> QED
  BY <1>3, <1>4, FS_Subset

LEMMA DefinitionIs ==
  ASSUME NEW s, NEW d \in Definitions(s)
  PROVE  /\ d[1] \in 1 .. Len(s) /\ d = <<d[1], d[2]>>
         /\ \/ d[2] = "label" /\ Line(s[d[1]]).label # NoName
            \/ d[2] = "equ" /\ Is(Line(s[d[1]]), "DIR_EQU")
BY DEF Definitions

(* The table t, with n entries, is the map that definitions D of source s   *)
(* make: they have names of their own, and each its value.                  *)
TableHolds(s, t, n, D) ==
  /\ \A d, e \in D : NameOf(s, d) = NameOf(s, e) => d = e
  /\ DOMAIN MapOf(t) = {NameOf(s, d) : d \in D}
  /\ \A d \in D : MapOf(t)[NameOf(s, d)] = ValueOf(s, d)
  /\ n = Cardinality(D) /\ n <= SYM_CAPACITY

(* One definition more is taken, or the source has two of its name or more  *)
(* than the table has room for.                                             *)
LEMMA DefinitionIsMet ==
  ASSUME WholeNames, TableInv, Len(sf) \in Nat,
         NEW D, D \subseteq Definitions(sf), TableHolds(sf, table, count, D),
         NEW d \in Definitions(sf), d \notin D,
         NameOf(sf, d) \in Name, ValueOf(sf, d) \in Addr,
         symtable_insert(NameOf(sf, d), ValueOf(sf, d))
  PROVE  IF answer'[4] = "ERR_OK" THEN TableHolds(sf, table', count', D \cup {d})
         ELSE ~Assemblable(sf, SYM_CAPACITY)
<1> DEFINE name == NameOf(sf, d)
           value == ValueOf(sf, d)
<1>1. TableInv'
  <2>1. Next
    BY DEF Next
  <2> QED
    BY <2>1, StepInv
<1>2. IsFiniteSet(Definitions(sf)) /\ IsFiniteSet(D) /\ IsFiniteSet(D \cup {d})
  <2>1. IsFiniteSet(Definitions(sf))
    BY DefinitionsFinite
  <2>2. IsFiniteSet(D)
    BY <2>1, FS_Subset
  <2> QED
    BY <2>1, <2>2, FS_AddElement
<1>3. Cardinality(D \cup {d}) = count + 1 /\ count \in Nat
  <2>1. Cardinality(D \cup {d}) = Cardinality(D) + 1
    BY <1>2, FS_AddElement
  <2> QED
    BY <1>2, <2>1, FS_CardinalityType DEF TableHolds
<1>4. SYM_CAPACITY \in Nat
  BY TableAssumption
<1>5. CASE InsertNew(name, value)
  <2>1. Map!Define(name, value)
    BY <1>1, <1>5, NewRefines
  <2>2. /\ count < SYM_CAPACITY /\ count' = count + 1
        /\ name \notin DOMAIN MapOf(table)
        /\ DOMAIN MapOf(table') = DOMAIN MapOf(table) \cup {name}
        /\ MapOf(table')[name] = value
        /\ \A n \in DOMAIN MapOf(table) : n # name => MapOf(table')[n] = MapOf(table)[n]
    BY <2>1 DEF Map!Define
  <2>3. answer'[4] = "ERR_OK"
    BY <1>5 DEF InsertNew, InsertReturns
  <2> HIDE DEF name, value
  <2>4. \A e \in D : NameOf(sf, e) # name /\ NameOf(sf, e) \in DOMAIN MapOf(table)
    BY <2>2 DEF TableHolds
  <2>5. \A e, f \in D \cup {d} : NameOf(sf, e) = NameOf(sf, f) => e = f
    BY <2>4 DEF TableHolds, name
  <2>6. DOMAIN MapOf(table') = {NameOf(sf, e) : e \in D \cup {d}}
    BY <2>2 DEF TableHolds, name
  <2>7. \A e \in D \cup {d} : MapOf(table')[NameOf(sf, e)] = ValueOf(sf, e)
    BY <2>2, <2>4 DEF TableHolds, name, value
  <2>8. count' = Cardinality(D \cup {d}) /\ count' <= SYM_CAPACITY
    BY <1>3, <1>4, <2>2
  <2> QED
    BY <2>3, <2>5, <2>6, <2>7, <2>8 DEF TableHolds
<1>6. CASE InsertFull(name, value) \/ InsertDuplicate(name, value)
  <2>1. Map!Refuse(name, value)
    BY <1>6, RefusalRefines
  <2>2. count >= SYM_CAPACITY \/ name \in DOMAIN MapOf(table)
    BY <2>1 DEF Map!Refuse
  <2>3. answer'[4] # "ERR_OK"
    BY <1>6 DEF InsertFull, InsertDuplicate, InsertFails, InsertReturns
  <2>4. CASE count >= SYM_CAPACITY
    <3>1. D \cup {d} \subseteq Definitions(sf)
      OBVIOUS
    <3>2. Cardinality(D \cup {d}) <= Cardinality(Definitions(sf))
      BY <1>2, <3>1, FS_Subset
    <3>3. Cardinality(Definitions(sf)) \in Nat
      BY <1>2, FS_CardinalityType
    <3>4. ~(Cardinality(Definitions(sf)) <= SYM_CAPACITY)
      BY <1>3, <1>4, <2>4, <3>2, <3>3
    <3> QED
      BY <2>3, <3>4 DEF Assemblable
  <2>5. CASE name \in DOMAIN MapOf(table)
    <3>1. PICK e \in D : NameOf(sf, e) = NameOf(sf, d)
      BY <2>5 DEF TableHolds
    <3>2. e \in Definitions(sf) /\ e # d
      BY <3>1
    <3> QED
      BY <2>3, <3>1, <3>2 DEF Assemblable
  <2> QED
    BY <2>2, <2>4, <2>5
<1> QED
  BY <1>5, <1>6 DEF symtable_insert

(* In pass 2 a lookup answers what the source means. *)
LEMMA LookupMeans ==
  ASSUME TableInv, TableHolds(sf, table, count, Definitions(sf)), NEW name \in Name
  PROVE  IF name \in DefinedNames(sf)
           THEN Value(name) = Meaning(sf, name) /\ Value(name) # SYM_NOT_FOUND
           ELSE Value(name) = SYM_NOT_FOUND
<1>1. DOMAIN MapOf(table) = DefinedNames(sf)
  BY DEF TableHolds, DefinedNames
<1>2. Value(name) = IF name \in DOMAIN MapOf(table) THEN MapOf(table)[name] ELSE SYM_NOT_FOUND
  BY ValueIsMapped
<1>3. CASE name \in DefinedNames(sf)
  <2> DEFINE d == CHOOSE e \in Definitions(sf) : NameOf(sf, e) = name
  <2>1. d \in Definitions(sf) /\ NameOf(sf, d) = name
    BY <1>3 DEF DefinedNames
  <2>2. Meaning(sf, name) = ValueOf(sf, d)
    BY DEF Meaning
  <2> HIDE DEF d
  <2>3. MapOf(table)[name] = ValueOf(sf, d)
    BY <2>1 DEF TableHolds
  <2>4. MapOf(table)[name] \in Addr
    <3>1. name \in Defined(table)
      BY <1>1, <1>3, MapNow
    <3>2. PICK k \in used : table[k].name = name
      BY <3>1 DEF Defined, used
    <3>3. MapOf(table)[name] = table[k].addr
      BY <3>2, MapNow
    <3> QED
      BY <3>2, <3>3 DEF TableInv, Symbol
  <2> QED
    BY <1>1, <1>2, <1>3, <2>2, <2>3, <2>4, AddrAssumption
<1> QED
  BY <1>1, <1>2, <1>3

-----------------------------------------------------------------------------
(* The invariant *)

Passing == phase \in {"line", "place", "emit"}

(* Pass 2 is running, or has been and the image is written.                 *)
Emitting == phase = "emit" \/ Succeeded

(* The host lets the passes work, on the lines that are in the file.        *)
FileInv ==
  Passing =>
    /\ files[src_path].kind = "text" /\ sf = files[src_path].lines
    /\ ~OutOf("source") /\ ~OutOf("parsed")
    /\ phase = "emit" => host.memory # "image"

(* An error that has been counted is one of the source.                     *)
ErrorInv ==
  /\ Passing /\ n_errors # 0 => ~Assemblable(sf, SYM_CAPACITY)
  /\ Succeeded => n_errors = 0 /\ i = Len(sf) + 1

(* As long as there is none, the lines p before the n-th are good lines of  *)
(* source s at the addresses s gives them.                                  *)
ReadTo(s, p, n) ==
  /\ \A k \in 1 .. n : Addresses(s)[k] \in uint16_t
  /\ \A k \in 1 .. n - 1 : Readable(s[k]) /\ OrgInRange(Line(s[k]))
  /\ \A k \in 1 .. n - 1 : p[k].address = Addresses(s)[k]

LineIs(s, p, k) == p[k] = [Line(s[k]) EXCEPT !.address = Addresses(s)[k]]

MetBefore(s, n) == {d \in Definitions(s) : d[1] < n}
LabelOf(s, k)   == Definitions(s) \cap {<<k, "label">>}
ConstantOf(s, k) == Definitions(s) \cap {<<k, "equ">>}

FirstPassInv ==
  phase \in {"line", "place"} /\ n_errors = 0 =>
    /\ ReadTo(sf, parsed, i) /\ addr = Addresses(sf)[i]
    /\ \A k \in 1 .. i - 1 : LineIs(sf, parsed, k)
    /\ phase = "line" => TableHolds(sf, table, count, MetBefore(sf, i))
    /\ phase = "place" =>
         /\ Readable(sf[i]) /\ LineIs(sf, parsed, i)
         /\ TableHolds(sf, table, count, MetBefore(sf, i) \cup LabelOf(sf, i))

(* The image m holds the words of the first n lines, the later ones over    *)
(* the earlier.                                                             *)
Cells(s, k) == Room(Addresses(s)[k], Len(Words(s, k)))

Resolvable(s, k) ==
  /\ References(Line(s[k])) \subseteq DefinedNames(s)
  /\ IsInstr(Line(s[k])) => Encoding(s, k).rc = "ERR_OK"

LastIn(s, k, a, n) == Covers(s, k, a) /\ \A j \in k + 1 .. n : ~Covers(s, j, a)

ImageHolds(s, m, n) ==
  /\ \A k \in 1 .. n : Resolvable(s, k)
  /\ DOMAIN m = UNION {Cells(s, k) : k \in 1 .. n}
  /\ \A a \in DOMAIN m : \E k \in 1 .. n : LastIn(s, k, a, n) /\ m[a] = WordAt(s, k, a)

LastAddress(s) ==
  LET last == Addresses(s)[Len(s) + 1] IN IF last = 0 THEN 0 ELSE last - 1

SecondPassInv ==
  Emitting /\ n_errors = 0 =>
    /\ ReadTo(sf, parsed, Len(sf) + 1)
    /\ \A k \in i .. Len(sf) : LineIs(sf, parsed, k)
    /\ TableHolds(sf, table, count, Definitions(sf))
    /\ highest = LastAddress(sf)
    /\ ImageHolds(sf, image, i - 1)

(* In a source that only goes forward no word lies on another.              *)
ForwardInv ==
  Emitting /\ n_errors = 0 /\ Forward =>
    /\ n_words = Cardinality(DOMAIN image)
    /\ \A a \in DOMAIN image : a < Addresses(sf)[i]

TranslationInv ==
  FileInv /\ ErrorInv /\ FirstPassInv /\ SecondPassInv /\ ForwardInv

-----------------------------------------------------------------------------
(* The steps of pass 1 *)

(* Once there is an error nothing more is promised. *)
LEMMA FailureKeeps ==
  ASSUME FileInv', Passing', n_errors' # 0, ~Assemblable(sf', SYM_CAPACITY)
  PROVE  TranslationInv'
<1>1. ~Succeeded'
  BY DEF Passing, Succeeded
<1> QED
  BY <1>1 DEF TranslationInv, ErrorInv, FirstPassInv, SecondPassInv, ForwardInv

LEMMA FileKept ==
  ASSUME FileInv, Passing, sf' = sf, files' = files, UNCHANGED call,
         phase' = "emit" => phase = "emit" \/ host.memory # "image"
  PROVE  FileInv'
BY DEF FileInv, Passing, OutOf, call

LEMMA LineFailsTranslates ==
  ASSUME AssemblerInv, TranslationInv, LineFails
  PROVE  TranslationInv'
<1>1. FileInv' /\ Passing'
  <2>1. phase = "line" /\ phase' = "line" /\ sf' = sf /\ files' = files /\ UNCHANGED call
    BY DEF LineFails, InPass1
  <2> QED
    BY <2>1, FileKept DEF TranslationInv, Passing
<1>2. n_errors' # 0
  BY DEF LineFails, AssemblerInv, AssemblerTypeOK
<1>3. i \in 1 .. Len(sf)
  BY TextIsLines DEF LineFails, InPass1
<1>4. ~Readable(sf[i])
  BY DEF LineFails, Lexed, LineParsed, Readable
<1>5. ~Assemblable(sf', SYM_CAPACITY)
  BY <1>3, <1>4 DEF Assemblable, LineFails
<1> QED
  BY <1>1, <1>2, <1>5, FailureKeeps

LEMMA MetNext ==
  ASSUME NEW s, Len(s) \in Nat, NEW n \in Nat
  PROVE  /\ MetBefore(s, n + 1) = (MetBefore(s, n) \cup LabelOf(s, n)) \cup ConstantOf(s, n)
         /\ <<n, "label">> \notin MetBefore(s, n)
         /\ <<n, "equ">> \notin MetBefore(s, n) \cup LabelOf(s, n)
         /\ MetBefore(s, n) \subseteq Definitions(s) /\ LabelOf(s, n) \subseteq Definitions(s)
<1>1. ASSUME NEW d \in Definitions(s)
      PROVE  d[1] < n + 1 <=> d[1] < n \/ d \in {<<n, "label">>, <<n, "equ">>}
  <2>1. d[1] \in Int /\ d = <<d[1], d[2]>> /\ d[2] \in {"label", "equ"}
    BY DefinitionIs
  <2>2. d[1] < n + 1 <=> d[1] < n \/ d[1] = n
    BY <2>1
  <2>3. d[1] = n <=> d \in {<<n, "label">>, <<n, "equ">>}
    BY <2>1
  <2> QED
    BY <2>2, <2>3
<1>2. \A k : k = n => ~(k < n)
  OBVIOUS
<1>3. <<n, "label">>[1] = n /\ <<n, "equ">>[1] = n /\ <<n, "label">> # <<n, "equ">>
  OBVIOUS
<1>4. MetBefore(s, n + 1) = (MetBefore(s, n) \cup LabelOf(s, n)) \cup ConstantOf(s, n)
  BY <1>1 DEF MetBefore, LabelOf, ConstantOf
<1>5. <<n, "label">> \notin MetBefore(s, n) /\ <<n, "equ">> \notin MetBefore(s, n)
  BY <1>2, <1>3 DEF MetBefore
<1> QED
  BY <1>3, <1>4, <1>5 DEF MetBefore, LabelOf

(* Lines that have not changed. *)
LEMMA LinesKept ==
  ASSUME NEW s, NEW p, NEW q, NEW n, ReadTo(s, p, n), \A k \in 1 .. n - 1 : LineIs(s, p, k),
         \A k \in 1 .. n - 1 : q[k] = p[k]
  PROVE  ReadTo(s, q, n) /\ \A k \in 1 .. n - 1 : LineIs(s, q, k)
BY DEF ReadTo, LineIs

LEMMA DefineLabelTranslates ==
  ASSUME WholeNames, AssemblerInv, TranslationInv, DefineLabel
  PROVE  TranslationInv'
<1> DEFINE l == LineParsed.line
           d == <<i, "label">>
<1>1. /\ phase = "line" /\ phase' = "place" /\ sf' = sf /\ i' = i /\ addr' = addr
      /\ files' = files /\ UNCHANGED call
      /\ parsed' = [parsed EXCEPT ![i] = [l EXCEPT !.address = addr]]
  BY DEF DefineLabel, InPass1
<1>2. FileInv' /\ Passing' /\ Passing
  BY <1>1, FileKept DEF TranslationInv, Passing
<1>3. /\ i \in 1 .. Len(sf) /\ Len(sf) \in Nat /\ DOMAIN parsed = 1 .. Len(sf)
      /\ n_errors \in Nat /\ TableInv
      /\ sf[i] \in Seq(Lexemes(Name))
  BY TextIsLines DEF DefineLabel, InPass1, AssemblerInv, AssemblerTypeOK
<1>4. l = Line(sf[i]) /\ Readable(sf[i])
  BY DEF DefineLabel, Line, Readable, LineParsed, Lexed
<1> HIDE DEF l
<1>5. n_errors' \in {n_errors, n_errors + 1}
  BY DEF DefineLabel, Define
<1>6. CASE n_errors # 0
  <2>1. n_errors' # 0
    BY <1>3, <1>5, <1>6
  <2>2. ~Assemblable(sf', SYM_CAPACITY)
    BY <1>1, <1>2, <1>6 DEF TranslationInv, ErrorInv
  <2> QED
    BY <1>2, <2>1, <2>2, FailureKeeps
<1>7. CASE n_errors = 0
  <2>1. /\ ReadTo(sf, parsed, i) /\ addr = Addresses(sf)[i]
        /\ \A k \in 1 .. i - 1 : LineIs(sf, parsed, k)
        /\ TableHolds(sf, table, count, MetBefore(sf, i))
    BY <1>1, <1>7 DEF TranslationInv, FirstPassInv
  <2>2. LineIs(sf, parsed', i)
    BY <1>1, <1>3, <1>4, <2>1 DEF LineIs
  <2>3. ReadTo(sf, parsed', i) /\ \A k \in 1 .. i - 1 : LineIs(sf, parsed', k)
    <3>1. \A k \in 1 .. i - 1 : parsed'[k] = parsed[k]
      BY <1>1, <1>3
    <3> QED
      BY <2>1, <3>1, LinesKept
  <2>4. ASSUME n_errors' = 0,
               TableHolds(sf, table', count', MetBefore(sf, i) \cup LabelOf(sf, i))
        PROVE  TranslationInv'
    <3>1. ~Emitting'
      BY <1>1 DEF Emitting, Succeeded
    <3>2. FirstPassInv'
      BY <1>1, <1>4, <2>1, <2>2, <2>3, <2>4 DEF FirstPassInv
    <3> QED
      BY <1>2, <2>4, <3>1, <3>2
         DEF TranslationInv, ErrorInv, SecondPassInv, ForwardInv, Emitting
  <2>5. CASE l.label = NoName
    <3>1. UNCHANGED <<table, count, n_errors>>
      BY <2>5 DEF DefineLabel, symbols, l
    <3>2. d \notin Definitions(sf)
      <4>1. ~(d[2] = "label" /\ Line(sf[d[1]]).label # NoName) /\ d[2] # "equ"
        BY <1>4, <2>5
      <4> HIDE DEF d
      <4> QED
        BY <4>1, DefinitionIs
    <3>3. MetBefore(sf, i) \cup LabelOf(sf, i) = MetBefore(sf, i)
      BY <3>2 DEF LabelOf
    <3>4. TableHolds(sf, table', count', MetBefore(sf, i) \cup LabelOf(sf, i))
      BY <2>1, <3>1, <3>3
    <3> QED
      BY <1>7, <2>4, <3>1, <3>4
  <2>6. CASE l.label # NoName
    <3>1. d \in Definitions(sf) /\ NameOf(sf, d) = l.label /\ ValueOf(sf, d) = addr
      BY <1>3, <1>4, <2>1, <2>6 DEF Definitions, NameOf, ValueOf
    <3>2. l.label \in Name /\ addr \in Addr
      <4>1. GoodLine(l)
        BY <1>3, <1>4, LineIsSound
      <4>2. addr \in uint16_t
        BY DEF AssemblerInv, AssemblerTypeOK
      <4> QED
        BY <2>6, <4>1, <4>2, AddrIsUint16 DEF GoodLine
    <3>3. Define(l.label, addr)
      BY <2>6 DEF DefineLabel, l
    <3> HIDE DEF d
    <3>4. symtable_insert(NameOf(sf, d), ValueOf(sf, d))
      BY <3>1, <3>3 DEF Define
    <3>5. d \notin MetBefore(sf, i) /\ MetBefore(sf, i) \subseteq Definitions(sf)
      <4>1. i \in Nat
        BY <1>3
      <4>2. /\ <<i, "label">> \notin MetBefore(sf, i)
            /\ MetBefore(sf, i) \subseteq Definitions(sf)
        BY <1>3, <4>1, MetNext
      <4> QED
        BY <4>2 DEF d
    <3>6. IF answer'[4] = "ERR_OK"
            THEN TableHolds(sf, table', count', MetBefore(sf, i) \cup {d})
            ELSE ~Assemblable(sf, SYM_CAPACITY)
      BY <1>3, <2>1, <3>1, <3>2, <3>4, <3>5, DefinitionIsMet
    <3>7. LabelOf(sf, i) = {d}
      BY <3>1 DEF LabelOf, d
    <3>8. n_errors' = IF answer'[4] = "ERR_OK" THEN n_errors ELSE n_errors + 1
      BY <3>3 DEF Define
    <3>9. CASE answer'[4] = "ERR_OK"
      BY <1>7, <2>4, <3>6, <3>7, <3>8, <3>9
    <3>10. CASE answer'[4] # "ERR_OK"
      <4>1. n_errors' # 0 /\ ~Assemblable(sf', SYM_CAPACITY)
        BY <1>1, <1>7, <3>6, <3>8, <3>10
      <4> QED
        BY <1>2, <4>1, FailureKeeps
    <3> QED
      BY <3>9, <3>10
  <2> QED
    BY <2>5, <2>6
<1> QED
  BY <1>6, <1>7

(* Two lines that differ in their address at most. *)
SameLine(m, l) ==
  /\ m.kind = l.kind /\ m.dir = l.dir /\ m.value = l.value /\ m.str = l.str
  /\ m.name = l.name /\ m.ops = l.ops /\ m.mnemonic = l.mnemonic /\ m.label = l.label

LEMMA AddressedLine ==
  ASSUME NEW l, GoodLine(l), NEW a, NEW m, m = [l EXCEPT !.address = a]
  PROVE  SameLine(m, l) /\ m.address = a
BY DEF GoodLine, Zeroed, SameLine

LEMMA SameKind ==
  ASSUME NEW m, NEW l, SameLine(m, l)
  PROVE  /\ IsInstr(m) <=> IsInstr(l)
         /\ Is(m, "DIR_ORG") <=> Is(l, "DIR_ORG")
         /\ Is(m, "DIR_EQU") <=> Is(l, "DIR_EQU")
         /\ Is(m, "DIR_WORD") <=> Is(l, "DIR_WORD")
         /\ Is(m, "DIR_ASCII") <=> Is(l, "DIR_ASCII")
         /\ Size(m) = Size(l)
BY DEF SameLine, IsInstr, Is, Size

LEMMA Uint16Stays == \A a \in uint16_t : (a + 0) % 65536 = a
BY DEF uint16_t

(* The line that is given its place. *)
LEMMA LineInPlace ==
  ASSUME AssemblerInv, TranslationInv, InPlace, NextLine
  PROVE  /\ phase = "place" /\ phase' = "line" /\ i' = i + 1 /\ sf' = sf /\ parsed' = parsed
         /\ i \in 1 .. Len(sf) /\ Len(sf) \in Nat /\ n_errors \in Nat /\ addr \in uint16_t
         /\ GoodLine(pl) /\ GoodLine(Line(sf[i])) /\ FileInv' /\ Passing'
         /\ n_errors # 0 => ~Assemblable(sf', SYM_CAPACITY)
         /\ n_errors = 0 => SameLine(pl, Line(sf[i])) /\ pl.address = Addresses(sf)[i]
<1>1. phase = "place" /\ phase' = "line" /\ i' = i + 1 /\ sf' = sf /\ parsed' = parsed
  BY DEF InPlace, NextLine
<1>2. FileInv' /\ Passing' /\ Passing
  <2>1. files' = files /\ UNCHANGED call
    BY DEF NextLine
  <2> QED
    BY <1>1, <2>1, FileKept DEF TranslationInv, Passing
<1>3. i \in 1 .. Len(sf) /\ Len(sf) \in Nat /\ sf[i] \in Seq(Lexemes(Name))
  BY <1>1, TextIsLines DEF AssemblerInv, PlaceInv
<1>4. GoodLine(pl) /\ GoodLine(Line(sf[i]))
  BY <1>1, <1>3, LineIsSound DEF AssemblerInv, PlaceInv, LinesInv, pl
<1>5. n_errors # 0 => ~Assemblable(sf', SYM_CAPACITY)
  BY <1>1, <1>2 DEF TranslationInv, ErrorInv
<1>6. n_errors = 0 => SameLine(pl, Line(sf[i])) /\ pl.address = Addresses(sf)[i]
  <2>1. n_errors = 0 => pl = [Line(sf[i]) EXCEPT !.address = Addresses(sf)[i]]
    BY <1>1 DEF TranslationInv, FirstPassInv, LineIs, pl
  <2> QED
    BY <1>4, <2>1, AddressedLine
<1> QED
  BY <1>1, <1>2, <1>3, <1>4, <1>5, <1>6 DEF AssemblerInv, AssemblerTypeOK

(* It is given the room it has in the source. *)
LEMMA PlaceTranslates ==
  ASSUME AssemblerInv, TranslationInv, InPlace, NextLine, n_errors = 0, n_errors' = 0,
         OrgInRange(Line(sf[i])), addr' \in uint16_t,
         addr' = NextAddress(Line(sf[i]), Addresses(sf)[i]),
         TableHolds(sf, table', count', MetBefore(sf, i + 1))
  PROVE  TranslationInv'
<1>1. /\ phase = "place" /\ phase' = "line" /\ i' = i + 1 /\ sf' = sf /\ parsed' = parsed
      /\ i \in 1 .. Len(sf) /\ Len(sf) \in Nat /\ FileInv'
  BY LineInPlace
<1>2. /\ ReadTo(sf, parsed, i) /\ \A k \in 1 .. i - 1 : LineIs(sf, parsed, k)
      /\ Readable(sf[i]) /\ LineIs(sf, parsed, i)
  BY <1>1 DEF TranslationInv, FirstPassInv
<1>3. addr' = Addresses(sf)[i + 1]
  BY <1>1, AddressesFollow
<1>4. parsed[i].address = Addresses(sf)[i]
  BY LineInPlace DEF pl
<1>5. /\ \A k : k \in 1 .. (i + 1) - 1 <=> k \in 1 .. i - 1 \/ k = i
      /\ \A k : k \in 1 .. i + 1 <=> k \in 1 .. i \/ k = i + 1
  BY <1>1
<1>6. ReadTo(sf, parsed, i + 1)
  BY <1>2, <1>3, <1>4, <1>5 DEF ReadTo
<1>7. \A k \in 1 .. (i + 1) - 1 : LineIs(sf, parsed, k)
  BY <1>2, <1>5
<1>8. ~Emitting'
  BY <1>1 DEF Emitting, Succeeded
<1>9. FirstPassInv'
  BY <1>1, <1>3, <1>6, <1>7 DEF FirstPassInv
<1> QED
  BY <1>1, <1>8, <1>9 DEF TranslationInv, ErrorInv, SecondPassInv, ForwardInv, Emitting

(* A line without a .equ adds no name behind its label.                     *)
LEMMA NoConstant ==
  ASSUME AssemblerInv, TranslationInv, InPlace, NextLine, n_errors = 0, ~Is(pl, "DIR_EQU"),
         UNCHANGED symbols
  PROVE  TableHolds(sf, table', count', MetBefore(sf, i + 1))
<1>1. /\ phase = "place" /\ i \in Nat /\ Len(sf) \in Nat
      /\ SameLine(pl, Line(sf[i]))
  BY LineInPlace
<1>2. TableHolds(sf, table, count, MetBefore(sf, i) \cup LabelOf(sf, i))
  BY <1>1 DEF TranslationInv, FirstPassInv
<1>3. ~Is(Line(sf[i]), "DIR_EQU")
  BY <1>1, SameKind
<1>4. ConstantOf(sf, i) = {}
  <2>1. ASSUME NEW d \in Definitions(sf) PROVE d # <<i, "equ">>
    <3>1. d[2] = "label" \/ Is(Line(sf[d[1]]), "DIR_EQU")
      BY DefinitionIs
    <3>2. <<i, "equ">>[1] = i /\ <<i, "equ">>[2] # "label"
      OBVIOUS
    <3> QED
      BY <1>3, <3>1, <3>2
  <2> QED
    BY <2>1 DEF ConstantOf
<1>5. MetBefore(sf, i + 1) = MetBefore(sf, i) \cup LabelOf(sf, i)
  <2>1. MetBefore(sf, i + 1) = (MetBefore(sf, i) \cup LabelOf(sf, i)) \cup ConstantOf(sf, i)
    BY <1>1, MetNext
  <2> QED
    BY <1>4, <2>1
<1> QED
  BY <1>2, <1>5 DEF symbols

LEMMA SetOriginTranslates ==
  ASSUME AssemblerInv, TranslationInv, SetOrigin
  PROVE  TranslationInv'
<1>1. InPlace /\ NextLine /\ Is(pl, "DIR_ORG") /\ UNCHANGED symbols
  BY DEF SetOrigin
<1>2. CASE n_errors # 0
  <2>1. n_errors' # 0
    BY <1>1, <1>2, LineInPlace DEF SetOrigin
  <2> QED
    BY <1>1, <1>2, <2>1, LineInPlace, FailureKeeps
<1>3. CASE n_errors = 0
  <2> DEFINE l == Line(sf[i])
  <2>1. SameLine(pl, l)
    BY <1>1, <1>3, LineInPlace
  <2> HIDE DEF l
  <2>2. Is(l, "DIR_ORG") /\ pl.value = l.value /\ ~Is(pl, "DIR_EQU")
    BY <1>1, <2>1, SameKind DEF Is, SameLine
  <2>3. CASE l.value.val \in uint16_t
    <3>1. addr' = l.value.val /\ n_errors' = 0
      BY <1>3, <2>2, <2>3 DEF SetOrigin
    <3>2. OrgInRange(l) /\ addr' = NextAddress(l, Addresses(sf)[i])
      BY <2>2, <2>3, <3>1 DEF OrgInRange, NextAddress
    <3> QED
      BY <1>1, <1>3, <2>2, <2>3, <3>1, <3>2, NoConstant, PlaceTranslates DEF l
  <2>4. CASE l.value.val \notin uint16_t
    <3>1. n_errors' = n_errors + 1
      BY <2>2, <2>4 DEF SetOrigin
    <3>2. ~OrgInRange(l)
      BY <2>2, <2>4 DEF OrgInRange
    <3>3. i \in 1 .. Len(sf) /\ sf' = sf /\ FileInv' /\ Passing'
      BY <1>1, LineInPlace
    <3>4. ~Assemblable(sf', SYM_CAPACITY)
      BY <3>2, <3>3 DEF Assemblable, l
    <3> QED
      BY <1>3, <3>1, <3>3, <3>4, FailureKeeps
  <2> QED
    BY <2>3, <2>4
<1> QED
  BY <1>2, <1>3

LEMMA AdvanceTranslates ==
  ASSUME AssemblerInv, TranslationInv, Advance
  PROVE  TranslationInv'
<1>1. /\ InPlace /\ NextLine /\ ~Is(pl, "DIR_ORG") /\ ~Is(pl, "DIR_EQU")
      /\ UNCHANGED symbols /\ n_errors' = n_errors /\ addr' = (addr + line_size(pl)) % 65536
  BY DEF Advance
<1>2. CASE n_errors # 0
  BY <1>1, <1>2, LineInPlace, FailureKeeps
<1>3. CASE n_errors = 0
  <2> DEFINE l == Line(sf[i])
  <2>1. GoodLine(l) /\ GoodLine(pl) /\ SameLine(pl, l)
    BY <1>1, <1>3, LineInPlace
  <2>2. addr = Addresses(sf)[i] /\ addr \in uint16_t
    BY <1>1, <1>3, LineInPlace DEF TranslationInv, FirstPassInv
  <2> HIDE DEF l
  <2>3. ~Is(l, "DIR_ORG") /\ line_size(pl) = Size(l) /\ Size(l) \in Nat
    BY <1>1, <2>1, SameKind, SizeIsCounted
  <2>4. OrgInRange(l) /\ addr' = NextAddress(l, Addresses(sf)[i])
    BY <1>1, <2>2, <2>3 DEF OrgInRange, NextAddress
  <2>5. addr' \in uint16_t
    <3>1. addr + line_size(pl) \in Int
      BY <2>2, <2>3, Uint16Nat
    <3> QED
      BY <1>1, <3>1, Mod16
  <2> QED
    BY <1>1, <1>3, <2>4, <2>5, NoConstant, PlaceTranslates DEF l
<1> QED
  BY <1>2, <1>3

LEMMA DefineConstantTranslates ==
  ASSUME WholeNames, AssemblerInv, TranslationInv, DefineConstant
  PROVE  TranslationInv'
<1> DEFINE l == Line(sf[i])
           d == <<i, "equ">>
           D == MetBefore(sf, i) \cup LabelOf(sf, i)
<1>1. /\ InPlace /\ NextLine /\ Is(pl, "DIR_EQU") /\ addr' = addr
      /\ Define(pl.name, pl.value.val % 65536)
  BY DEF DefineConstant
<1>2. /\ phase = "place" /\ i \in 1 .. Len(sf) /\ Len(sf) \in Nat /\ i \in Nat /\ sf' = sf
      /\ n_errors \in Nat /\ GoodLine(l) /\ FileInv' /\ Passing'
  BY <1>1, LineInPlace
<1>3. n_errors' = IF answer'[4] = "ERR_OK" THEN n_errors ELSE n_errors + 1
  BY <1>1 DEF Define
<1>4. CASE n_errors # 0
  <2>1. n_errors' # 0
    BY <1>2, <1>3, <1>4
  <2> QED
    BY <1>1, <1>4, <2>1, LineInPlace, FailureKeeps
<1>5. CASE n_errors = 0
  <2>1. SameLine(pl, l)
    BY <1>1, <1>5, LineInPlace
  <2>2. addr = Addresses(sf)[i] /\ addr \in uint16_t /\ TableHolds(sf, table, count, D)
    BY <1>1, <1>2, <1>5, LineInPlace DEF TranslationInv, FirstPassInv
  <2> HIDE DEF l
  <2>3. Is(l, "DIR_EQU") /\ pl.name = l.name /\ pl.value = l.value
    BY <1>1, <2>1, SameKind DEF SameLine
  <2>4. d \in Definitions(sf) /\ NameOf(sf, d) = l.name /\ ValueOf(sf, d) = l.value.val % 65536
    BY <1>2, <2>3 DEF Definitions, NameOf, ValueOf, l
  <2>5. l.name \in Name /\ l.value.val % 65536 \in Addr
    BY <1>2, <2>3, Mod16, AddrIsUint16 DEF GoodLine
  <2>6. /\ <<i, "equ">> \notin D /\ D \subseteq Definitions(sf)
        /\ MetBefore(sf, i + 1) = D \cup ConstantOf(sf, i)
    BY <1>2, MetNext
  <2>7. MetBefore(sf, i + 1) = D \cup {d} /\ d \notin D
    BY <2>4, <2>6 DEF ConstantOf
  <2> HIDE DEF d, D
  <2>8. symtable_insert(NameOf(sf, d), ValueOf(sf, d)) /\ TableInv
    BY <1>1, <2>3, <2>4 DEF Define, AssemblerInv
  <2>9. IF answer'[4] = "ERR_OK" THEN TableHolds(sf, table', count', D \cup {d})
        ELSE ~Assemblable(sf, SYM_CAPACITY)
    BY <1>2, <2>2, <2>4, <2>5, <2>6, <2>7, <2>8, DefinitionIsMet
  <2>10. OrgInRange(l) /\ addr' = NextAddress(l, Addresses(sf)[i])
    <3>1. ~Is(l, "DIR_ORG") /\ Size(l) = 0
      BY <2>3 DEF Is, IsInstr, Size
    <3> QED
      BY <1>1, <2>2, <3>1, Uint16Stays DEF OrgInRange, NextAddress
  <2>11. CASE answer'[4] = "ERR_OK"
    <3>1. n_errors' = 0 /\ addr' \in uint16_t
      BY <1>1, <1>3, <1>5, <2>2, <2>11
    <3>2. TableHolds(sf, table', count', MetBefore(sf, i + 1))
      BY <2>7, <2>9, <2>11
    <3>3. OrgInRange(Line(sf[i])) /\ addr' = NextAddress(Line(sf[i]), Addresses(sf)[i])
      BY <2>10 DEF l
    <3> QED
      BY <1>1, <1>5, <3>1, <3>2, <3>3, PlaceTranslates
  <2>12. CASE answer'[4] # "ERR_OK"
    <3>1. n_errors' # 0 /\ ~Assemblable(sf', SYM_CAPACITY)
      BY <1>2, <1>3, <1>5, <2>9, <2>12
    <3> QED
      BY <1>2, <3>1, FailureKeeps
  <2> QED
    BY <2>11, <2>12
<1> QED
  BY <1>4, <1>5

LEMMA NothingMet ==
  ASSUME NEW s, Len(s) \in Nat
  PROVE  /\ ReadTo(s, [k \in 1 .. Len(s) |-> Zeroed], 1) /\ Addresses(s)[1] = 0
         /\ TableHolds(s, Empty, 0, MetBefore(s, 1))
<1>1. Addresses(s)[1] = 0
  BY AddressesFollow
<1>2. \A p : ReadTo(s, p, 1)
  <2>1. \A k \in 1 .. 1 : k = 1
    OBVIOUS
  <2>2. 1 .. 1 - 1 = {}
    OBVIOUS
  <2> QED
    BY <1>1, <2>1, <2>2, ZeroUint16 DEF ReadTo
<1>3. MetBefore(s, 1) = {}
  <2>1. \A d \in Definitions(s) : d[1] \in 1 .. Len(s)
    BY DefinitionIs
  <2>2. \A k \in 1 .. Len(s) : ~(k < 1)
    OBVIOUS
  <2> QED
    BY <2>1, <2>2 DEF MetBefore
<1>4. DOMAIN MapOf(Empty) = {}
  BY EmptyTable DEF Map!NoNames
<1>5. Cardinality({}) = 0 /\ SYM_CAPACITY \in Nat
  BY FS_EmptySet, TableAssumption
<1>6. TableHolds(s, Empty, 0, {})
  BY <1>4, <1>5 DEF TableHolds
<1> QED
  BY <1>1, <1>2, <1>3, <1>6

LEMMA StartTranslates ==
  ASSUME AssemblerInv, AssemblerInv', Start
  PROVE  TranslationInv'
<1>1. /\ sf' = files[src_path].lines /\ parsed' = [k \in 1 .. Len(sf') |-> Zeroed]
      /\ table' = Empty /\ count' = 0 /\ n_errors' = 0
      /\ addr' = 0 /\ i' = 1 /\ phase' = "line"
      /\ files' = files /\ UNCHANGED call
      /\ files[src_path].kind = "text" /\ ~OutOf("source") /\ ~OutOf("parsed")
  BY DEF Start, symtable_reset
<1>2. FileInv'
  BY <1>1 DEF FileInv, OutOf, call
<1>3. Len(sf') \in Nat
  <2>1. sf' \in Seq(Seq(Lexemes(Name)))
    BY DEF AssemblerInv, LinesInv
  <2> QED
    BY <2>1, LenProperties
<1>4. /\ ReadTo(sf', parsed', 1) /\ Addresses(sf')[1] = 0
      /\ TableHolds(sf', table', count', MetBefore(sf', 1))
  BY <1>1, <1>3, NothingMet
<1>5. 1 .. 1 - 1 = {}
  OBVIOUS
<1>6. FirstPassInv'
  BY <1>1, <1>4, <1>5 DEF FirstPassInv
<1>7. ~Emitting' /\ ~Succeeded'
  BY <1>1 DEF Emitting, Succeeded
<1> QED
  BY <1>1, <1>2, <1>6, <1>7 DEF TranslationInv, ErrorInv, SecondPassInv, ForwardInv

(* Nothing is promised of a call that has not started or has failed.        *)
LEMMA OutsideKeeps ==
  ASSUME ~Passing', ~Succeeded'
  PROVE  TranslationInv'
<1>1. phase' \notin {"line", "place", "emit"} /\ ~Emitting'
  BY DEF Passing, Emitting
<1> QED
  BY <1>1 DEF TranslationInv, FileInv, ErrorInv, FirstPassInv, SecondPassInv, ForwardInv,
              Passing

LEMMA NoImageHolds ==
  ASSUME NEW s
  PROVE  ImageHolds(s, NoImage, 0) /\ DOMAIN NoImage = {} /\ Cardinality(DOMAIN NoImage) = 0
<1>1. 1 .. 0 = {} /\ DOMAIN NoImage = {}
  BY DEF NoImage
<1> QED
  BY <1>1, FS_EmptySet DEF ImageHolds

LEMMA AllMet ==
  ASSUME NEW s, Len(s) \in Nat
  PROVE  MetBefore(s, Len(s) + 1) = Definitions(s)
<1>1. \A d \in Definitions(s) : d[1] \in 1 .. Len(s)
  BY DefinitionIs
<1>2. \A k \in 1 .. Len(s) : k < Len(s) + 1
  OBVIOUS
<1> QED
  BY <1>1, <1>2 DEF MetBefore

LEMMA EndOfPass1Translates ==
  ASSUME AssemblerInv, TranslationInv, EndOfPass1
  PROVE  TranslationInv'
<1>1. CASE host.memory = "image"
  <2>1. phase' = "returned" /\ rc' # "ERR_OK"
    BY <1>1 DEF EndOfPass1, Return
  <2> QED
    BY <2>1, OutsideKeeps DEF Passing, Succeeded
<1>2. CASE host.memory # "image"
  <2>1. /\ phase = "line" /\ phase' = "emit" /\ i = Len(sf) + 1 /\ i' = 1
        /\ highest' = (IF addr = 0 THEN 0 ELSE addr - 1) /\ image' = NoImage /\ n_words' = 0
        /\ table' = table /\ count' = count /\ sf' = sf /\ parsed' = parsed
        /\ n_errors' = n_errors /\ files' = files /\ UNCHANGED call
    BY <1>2 DEF EndOfPass1, symbols, pass1
  <2>2. FileInv' /\ Passing' /\ Passing
    BY <1>2, <2>1, FileKept DEF TranslationInv, Passing
  <2>3. Len(sf) \in Nat
    BY TextIsLines
  <2>4. CASE n_errors # 0
    BY <2>1, <2>2, <2>4, FailureKeeps DEF TranslationInv, ErrorInv
  <2>5. CASE n_errors = 0
    <3>1. /\ ReadTo(sf, parsed, i) /\ addr = Addresses(sf)[i]
          /\ \A k \in 1 .. i - 1 : LineIs(sf, parsed, k)
          /\ TableHolds(sf, table, count, MetBefore(sf, i))
      BY <2>1, <2>5 DEF TranslationInv, FirstPassInv
    <3>2. i - 1 = Len(sf) /\ 1 - 1 = 0
      BY <2>1, <2>3
    <3>3. ReadTo(sf, parsed, Len(sf) + 1) /\ \A k \in 1 .. Len(sf) : LineIs(sf, parsed, k)
      BY <2>1, <3>1, <3>2
    <3>4. TableHolds(sf, table, count, Definitions(sf))
      BY <2>1, <2>3, <3>1, AllMet
    <3>5. highest' = LastAddress(sf)
      BY <2>1, <3>1 DEF LastAddress
    <3>6. SecondPassInv'
      BY <2>1, <3>2, <3>3, <3>4, <3>5, NoImageHolds DEF SecondPassInv
    <3>7. ForwardInv'
      BY <2>1, NoImageHolds DEF ForwardInv
    <3> QED
      BY <2>1, <2>2, <2>5, <3>6, <3>7 DEF TranslationInv, ErrorInv, FirstPassInv, Succeeded
  <2> QED
    BY <2>4, <2>5
<1> QED
  BY <1>1, <1>2

-----------------------------------------------------------------------------
(* The steps of pass 2 *)

LEMMA WordsLong ==
  ASSUME NEW s, NEW k, GoodLine(Line(s[k]))
  PROVE  Len(Words(s, k)) \in Nat /\ Len(Words(s, k)) = Size(Line(s[k]))
BY WordsFillSize, SizeIsCounted

(* The words of line c lie on those of the lines before it. *)
LEMMA ImageGrows ==
  ASSUME NEW s, NEW c \in Nat, NEW m, NEW l, ImageHolds(s, m, c - 1), Resolvable(s, c),
         \A k \in 1 .. c : Addresses(s)[k] \in uint16_t /\ Len(Words(s, k)) \in Nat,
         DOMAIN m \subseteq uint16_t, c >= 1,
         DOMAIN l = DOMAIN m \cup Cells(s, c),
         \A a \in DOMAIN l : l[a] = IF a \in Cells(s, c) THEN WordAt(s, c, a) ELSE m[a]
  PROVE  ImageHolds(s, l, c)
<1>1. c \in 1 .. c /\ \A k : k \in 1 .. c <=> k \in 1 .. c - 1 \/ k = c
  OBVIOUS
<1>2. \A k \in 1 .. c : Resolvable(s, k)
  BY <1>1 DEF ImageHolds
<1>3. UNION {Cells(s, k) : k \in 1 .. c} =
        (UNION {Cells(s, k) : k \in 1 .. c - 1}) \cup Cells(s, c)
  BY <1>1
<1>4. DOMAIN l = UNION {Cells(s, k) : k \in 1 .. c}
  BY <1>3 DEF ImageHolds
<1>5. Addresses(s)[c] \in uint16_t /\ Len(Words(s, c)) \in Nat
  BY <1>1
<1>6. DOMAIN l \subseteq uint16_t
  <2>1. Cells(s, c) \subseteq uint16_t
    BY <1>5, RoomInMemory DEF Cells
  <2> QED
    BY <2>1
<1>7. ASSUME NEW a \in DOMAIN l
      PROVE  \E k \in 1 .. c : LastIn(s, k, a, c) /\ l[a] = WordAt(s, k, a)
  <2>1. a \in Cells(s, c) <=> Covers(s, c, a)
    BY <1>5, <1>6, RoomIsCovered DEF Cells, Covers
  <2>2. CASE a \in Cells(s, c)
    <3>1. c + 1 .. c = {}
      BY <1>1
    <3>2. LastIn(s, c, a, c) /\ l[a] = WordAt(s, c, a)
      BY <2>1, <2>2, <3>1 DEF LastIn
    <3> QED
      BY <1>1, <3>2
  <2>3. CASE a \notin Cells(s, c)
    <3>1. a \in DOMAIN m /\ l[a] = m[a]
      BY <2>3
    <3>2. PICK k \in 1 .. c - 1 : LastIn(s, k, a, c - 1) /\ m[a] = WordAt(s, k, a)
      BY <3>1 DEF ImageHolds
    <3>3. \A j \in k + 1 .. c : j \in k + 1 .. c - 1 \/ j = c
      OBVIOUS
    <3>4. LastIn(s, k, a, c)
      BY <2>1, <2>3, <3>2, <3>3 DEF LastIn
    <3> QED
      BY <1>1, <3>1, <3>2, <3>4
  <2> QED
    BY <2>2, <2>3
<1> QED
  BY <1>2, <1>4, <1>7 DEF ImageHolds

(* The line that pass 2 is at. *)
LEMMA LineInPass2 ==
  ASSUME AssemblerInv, TranslationInv, InPass2, NextEmission
  PROVE  /\ phase = "emit" /\ phase' = "emit" /\ i' = i + 1 /\ sf' = sf
         /\ i \in 1 .. Len(sf) /\ Len(sf) \in Nat /\ n_errors \in Nat
         /\ GoodLine(Line(sf[i])) /\ SoundLine(Line(sf[i])) /\ FileInv' /\ Passing' /\ Emitting
         /\ n_errors # 0 => ~Assemblable(sf', SYM_CAPACITY)
         /\ n_errors = 0 =>
              /\ SameLine(pl, Line(sf[i])) /\ pl.address = Addresses(sf)[i]
              /\ HasValue(Line(sf[i]))
              /\ TableInv /\ TableHolds(sf, table, count, Definitions(sf))
<1>1. /\ phase = "emit" /\ phase' = "emit" /\ i' = i + 1 /\ sf' = sf /\ i \in DOMAIN parsed
      /\ n_errors \in Nat
  BY EmissionLine
<1>2. i \in 1 .. Len(sf) /\ Len(sf) \in Nat /\ sf[i] \in Seq(Lexemes(Name))
  BY <1>1, TextIsLines
<1>3. GoodLine(Line(sf[i])) /\ SoundLine(Line(sf[i]))
  BY <1>2, LineIsSound
<1>4. FileInv' /\ Passing' /\ Passing /\ Emitting
  <2>1. files' = files /\ UNCHANGED call
    BY DEF NextEmission
  <2> QED
    BY <1>1, <2>1, FileKept DEF TranslationInv, Passing, Emitting
<1>5. n_errors # 0 => ~Assemblable(sf', SYM_CAPACITY)
  BY <1>1, <1>4 DEF TranslationInv, ErrorInv
<1>6. ASSUME n_errors = 0
      PROVE  /\ SameLine(pl, Line(sf[i])) /\ pl.address = Addresses(sf)[i]
             /\ HasValue(Line(sf[i])) /\ TableHolds(sf, table, count, Definitions(sf))
  <2>1. /\ ReadTo(sf, parsed, Len(sf) + 1) /\ TableHolds(sf, table, count, Definitions(sf))
        /\ \A k \in i .. Len(sf) : LineIs(sf, parsed, k)
    BY <1>4, <1>6 DEF TranslationInv, SecondPassInv
  <2>2. i \in i .. Len(sf) /\ i \in 1 .. (Len(sf) + 1) - 1
    BY <1>2
  <2>3. pl = [Line(sf[i]) EXCEPT !.address = Addresses(sf)[i]]
    BY <2>1, <2>2 DEF LineIs, pl
  <2>4. Readable(sf[i])
    BY <2>1, <2>2 DEF ReadTo
  <2> QED
    BY <1>2, <1>3, <2>1, <2>3, <2>4, AddressedLine, LineIsSound
<1> QED
  BY <1>1, <1>2, <1>3, <1>4, <1>5, <1>6 DEF AssemblerInv

(* A source whose line cannot be resolved is refused. *)
LEMMA UnresolvableFails ==
  ASSUME AssemblerInv, TranslationInv, InPass2, NextEmission, n_errors' = n_errors + 1,
         n_errors = 0 => ~Resolvable(sf, i)
  PROVE  TranslationInv'
<1>1. /\ FileInv' /\ Passing' /\ sf' = sf /\ i \in 1 .. Len(sf) /\ n_errors \in Nat
      /\ n_errors # 0 => ~Assemblable(sf', SYM_CAPACITY)
  BY LineInPass2
<1>2. n_errors = 0 => ~Assemblable(sf, SYM_CAPACITY)
  BY <1>1 DEF Assemblable, Resolvable
<1>3. n_errors' # 0 /\ ~Assemblable(sf', SYM_CAPACITY)
  BY <1>1, <1>2
<1> QED
  BY <1>1, <1>3, FailureKeeps

(* In a source that only goes forward, so do the words.                     *)
LEMMA ForwardGrows ==
  ASSUME NEW b \in uint16_t, NEW n \in Nat, NEW e \in uint16_t, b + n <= e,
         NEW S, S \subseteq uint16_t, \A a \in S : a < b
  PROVE  /\ Cardinality(S \cup Room(b, n)) = (Cardinality(S) + n) % 65536
         /\ \A a \in S \cup Room(b, n) : a < e
<1> DEFINE M == 65536
<1>1. M \in Nat \ {0} /\ e \in Nat /\ e < M /\ b \in Nat /\ n \in Nat
  BY DEF uint16_t
<1>2. Room(b, n) = b .. b + n - 1
  <2>1. b + n < M
    BY <1>1
  <2> HIDE DEF M
  <2> QED
    BY <2>1, RoomForward DEF M
<1> HIDE DEF M
<1>3. \A a \in S : a \in Nat /\ a < b
  BY Uint16Nat
<1>4. /\ Cardinality(S \cup Room(b, n)) = Cardinality(S) + n
      /\ Cardinality(S) \in Nat /\ Cardinality(S) <= b
      /\ \A a \in S \cup Room(b, n) : a < b + n
  BY <1>1, <1>2, <1>3, RoomIsAdded
<1>5. Cardinality(S) + n \in 0 .. M - 1
  BY <1>1, <1>4
<1>6. (Cardinality(S) + n) % M = Cardinality(S) + n
  BY <1>1, <1>5
<1>7. \A a \in S \cup Room(b, n) : a < e
  <2>1. Room(b, n) \subseteq uint16_t
    BY RoomInMemory
  <2>2. \A a \in S \cup Room(b, n) : a \in Nat
    BY <2>1, Uint16Nat
  <2> QED
    BY <1>1, <1>4, <2>2
<1> QED
  BY <1>4, <1>6, <1>7 DEF M

(* The words of the line are laid at its addresses. *)
Lays ==
  /\ DOMAIN image' = DOMAIN image \cup Cells(sf, i)
  /\ \A a \in DOMAIN image' :
       image'[a] = IF a \in Cells(sf, i) THEN WordAt(sf, i, a) ELSE image[a]
  /\ n_words' = (n_words + Size(Line(sf[i]))) % 65536

(* At most the operands of the line change. *)
SamePlaces ==
  /\ parsed'[i].address = parsed[i].address
  /\ \A k \in 1 .. Len(sf) : k # i => parsed'[k] = parsed[k]

LEMMA EmissionTranslates ==
  ASSUME AssemblerInv, TranslationInv, InPass2, NextEmission, n_errors = 0, n_errors' = 0,
         Resolvable(sf, i), SamePlaces, Lays
  PROVE  TranslationInv'
<1>1. /\ phase = "emit" /\ phase' = "emit" /\ i' = i + 1 /\ sf' = sf
      /\ i \in 1 .. Len(sf) /\ Len(sf) \in Nat /\ FileInv' /\ Emitting
  BY LineInPass2
<1>2. /\ ReadTo(sf, parsed, Len(sf) + 1) /\ \A k \in i .. Len(sf) : LineIs(sf, parsed, k)
      /\ TableHolds(sf, table, count, Definitions(sf)) /\ highest = LastAddress(sf)
      /\ ImageHolds(sf, image, i - 1)
  BY <1>1 DEF TranslationInv, SecondPassInv
<1>3. table' = table /\ count' = count /\ highest' = highest
  BY EmissionLine
<1>4. ReadTo(sf, parsed', Len(sf) + 1)
  <2>1. \A k \in 1 .. (Len(sf) + 1) - 1 : parsed'[k].address = parsed[k].address
    BY <1>1 DEF SamePlaces
  <2> QED
    BY <1>2, <2>1 DEF ReadTo
<1>5. ASSUME NEW k \in i + 1 .. Len(sf) PROVE LineIs(sf, parsed', k)
  <2>1. k \in 1 .. Len(sf) /\ k # i /\ k \in i .. Len(sf)
    BY <1>1
  <2>2. parsed'[k] = parsed[k] /\ LineIs(sf, parsed, k)
    BY <1>2, <2>1 DEF SamePlaces
  <2> QED
    BY <2>2 DEF LineIs
<1>6. \A k \in 1 .. Len(sf) : GoodLine(Line(sf[k]))
  BY TextIsLines, LineIsSound
<1>7. \A k \in 1 .. i : Addresses(sf)[k] \in uint16_t /\ Len(Words(sf, k)) \in Nat
  <2>1. \A k \in 1 .. i : k \in 1 .. Len(sf) /\ k \in 1 .. Len(sf) + 1
    BY <1>1
  <2>2. \A k \in 1 .. i : Addresses(sf)[k] \in uint16_t
    BY <1>2, <2>1 DEF ReadTo
  <2> QED
    BY <1>6, <2>1, <2>2, WordsLong
<1>8. DOMAIN image \subseteq uint16_t
  BY EmissionLine
<1>9. ImageHolds(sf, image', i)
  <2>1. i \in Nat /\ i >= 1
    BY <1>1
  <2>2. /\ DOMAIN image' = DOMAIN image \cup Cells(sf, i)
        /\ \A a \in DOMAIN image' :
             image'[a] = IF a \in Cells(sf, i) THEN WordAt(sf, i, a) ELSE image[a]
    BY DEF Lays
  <2> QED
    BY <1>2, <1>7, <1>8, <2>1, <2>2, ImageGrows, Zenon
<1>10. (i + 1) - 1 = i
  BY <1>1
<1>11. SecondPassInv'
  BY <1>1, <1>2, <1>3, <1>4, <1>5, <1>9, <1>10 DEF SecondPassInv
<1>12. ASSUME Forward
       PROVE  /\ n_words' = Cardinality(DOMAIN image')
              /\ \A a \in DOMAIN image' : a < Addresses(sf)[i + 1]
  <2> DEFINE b == Addresses(sf)[i]
             n == Size(Line(sf[i]))
             e == Addresses(sf)[i + 1]
  <2>1. b \in uint16_t /\ e \in uint16_t /\ n \in Nat /\ Len(Words(sf, i)) = n
    <3>1. i \in 1 .. Len(sf) + 1 /\ i + 1 \in 1 .. Len(sf) + 1 /\ i \in 1 .. Len(sf)
      BY <1>1
    <3> QED
      BY <1>2, <1>6, <3>1, SizeIsCounted, WordsLong DEF ReadTo
  <2>2. b + n <= e
    BY <1>1, <1>12 DEF Forward
  <2>3. n_words = Cardinality(DOMAIN image) /\ \A a \in DOMAIN image : a < b
    BY <1>1, <1>12 DEF TranslationInv, ForwardInv
  <2>4. DOMAIN image' = DOMAIN image \cup Room(b, n)
    BY <2>1 DEF Cells, Lays
  <2>5. n_words' = (n_words + n) % 65536
    BY DEF Lays
  <2> HIDE DEF b, n, e
  <2>6. /\ Cardinality(DOMAIN image \cup Room(b, n)) = (Cardinality(DOMAIN image) + n) % 65536
        /\ \A a \in DOMAIN image \cup Room(b, n) : a < e
    BY <1>8, <2>1, <2>2, <2>3, ForwardGrows
  <2>7. n_words' = Cardinality(DOMAIN image') /\ \A a \in DOMAIN image' : a < e
    BY <2>3, <2>4, <2>5, <2>6
  <2> QED
    BY <2>7 DEF e
<1>13. ForwardInv'
  BY <1>1, <1>12 DEF ForwardInv, Forward
<1> QED
  BY <1>1, <1>11, <1>13 DEF TranslationInv, ErrorInv, FirstPassInv, Succeeded

LEMMA EmitLays ==
  ASSUME Emit(Words(sf, i)), pl.address = Addresses(sf)[i]
  PROVE  Lays
<1> DEFINE cells == {(pl.address + k) % 65536 : k \in 0 .. Len(Words(sf, i)) - 1}
           word(a) == Words(sf, i)[((a - pl.address) % 65536) + 1]
<1>1. cells = Cells(sf, i)
  BY DEF Cells, Room
<1>2. n_words' = (n_words + Size(Line(sf[i]))) % 65536
  BY WordsFillSize DEF Emit
<1>3. \A a : word(a) = WordAt(sf, i, a)
  BY DEF WordAt
<1>4. image' = [a \in DOMAIN image \cup cells |-> IF a \in cells THEN word(a) ELSE image[a]]
  BY DEF Emit
<1> HIDE DEF cells, word
<1>5. /\ DOMAIN image' = DOMAIN image \cup Cells(sf, i)
      /\ \A a \in DOMAIN image' :
           image'[a] = IF a \in Cells(sf, i) THEN WordAt(sf, i, a) ELSE image[a]
  BY <1>1, <1>3, <1>4
<1> QED
  BY <1>2, <1>5 DEF Lays

(* Pass 2 resolves an operand to what the source means by it. *)
LEMMA OperandIsResolved ==
  ASSUME TableInv, TableHolds(sf, table, count, Definitions(sf)),
         NEW o, o.kind = "OPD_LABEL" => o.val \in Name
  PROVE  /\ Unresolved(o) <=> o.kind = "OPD_LABEL" /\ o.val \notin DefinedNames(sf)
         /\ ~Unresolved(o) => resolve_operand(o) = Resolved(sf, o)
<1>1. CASE o.kind = "OPD_LABEL"
  <2>1. IF o.val \in DefinedNames(sf)
          THEN Value(o.val) = Meaning(sf, o.val) /\ Value(o.val) # SYM_NOT_FOUND
          ELSE Value(o.val) = SYM_NOT_FOUND
    BY <1>1, LookupMeans
  <2> QED
    BY <1>1, <2>1 DEF Unresolved, resolve_operand, Resolved
<1>2. CASE o.kind # "OPD_LABEL"
  BY <1>2 DEF Unresolved, resolve_operand, Resolved
<1> QED
  BY <1>1, <1>2

LEMMA LineReplacedPlaces ==
  ASSUME AssemblerInv, NEW l, parsed' = [parsed EXCEPT ![i] = l], l.address = pl.address,
         i \in 1 .. Len(sf)
  PROVE  SamePlaces
<1>1. DOMAIN parsed = 1 .. Len(sf)
  BY TextIsLines
<1> QED
  BY <1>1 DEF SamePlaces, pl

LEMMA EmitInstrTranslates ==
  ASSUME AssemblerInv, TranslationInv, EmitInstr
  PROVE  TranslationInv'
<1> DEFINE l == Line(sf[i])
           result == encode_instr(pl.mnemonic, ResolvedOps, pl.address)
           bad == \E k \in 1 .. Len(pl.ops) : Unresolved(pl.ops[k])
<1>1. /\ InPass2 /\ NextEmission /\ IsInstr(pl)
      /\ parsed' = [parsed EXCEPT ![i] = [pl EXCEPT !.ops = ResolvedOps]]
      /\ IF bad \/ result.rc # "ERR_OK" THEN EmitNothing(1)
         ELSE Emit(<<result.word>>) /\ n_errors' = n_errors
  BY DEF EmitInstr, pl
<1> HIDE DEF bad, result
<1>2. /\ i \in 1 .. Len(sf) /\ n_errors \in Nat /\ SoundLine(l)
      /\ n_errors = 0 =>
           /\ SameLine(pl, l) /\ pl.address = Addresses(sf)[i]
           /\ TableInv /\ TableHolds(sf, table, count, Definitions(sf))
  BY <1>1, LineInPass2
<1>3. SamePlaces
  <2>1. GoodLine(pl)
    BY <1>1, EmissionLine
  <2>2. [pl EXCEPT !.ops = ResolvedOps].address = pl.address
    BY <2>1 DEF GoodLine, Zeroed
  <2> QED
    BY <1>1, <1>2, <2>2, LineReplacedPlaces
<1> HIDE DEF l
<1>4. ASSUME n_errors = 0
      PROVE  /\ IsInstr(l) /\ pl.ops = l.ops /\ pl.address = Addresses(sf)[i]
             /\ bad => ~Resolvable(sf, i)
             /\ ~bad => /\ result = Encoding(sf, i)
                        /\ References(l) \subseteq DefinedNames(sf)
  <2>1. SameLine(pl, l) /\ pl.address = Addresses(sf)[i]
    BY <1>2, <1>4
  <2>2. IsInstr(l) /\ ~Is(l, "DIR_WORD") /\ pl.ops = l.ops /\ pl.mnemonic = l.mnemonic
    BY <1>1, <2>1, SameKind DEF SameLine, IsInstr, Is
  <2>3. \A k \in 1 .. Len(l.ops) :
          /\ Unresolved(l.ops[k]) <=>
               l.ops[k].kind = "OPD_LABEL" /\ l.ops[k].val \notin DefinedNames(sf)
          /\ ~Unresolved(l.ops[k]) => resolve_operand(l.ops[k]) = Resolved(sf, l.ops[k])
    BY <1>2, <1>4, OperandIsResolved DEF SoundLine
  <2>4. ASSUME bad PROVE ~Resolvable(sf, i)
    <3>1. PICK k \in 1 .. Len(l.ops) : Unresolved(l.ops[k])
      BY <2>2, <2>4 DEF bad
    <3>2. l.ops[k].val \in References(l) /\ l.ops[k].val \notin DefinedNames(sf)
      BY <2>3, <3>1 DEF References
    <3> QED
      BY <3>2 DEF Resolvable, l
  <2>5. ASSUME ~bad
        PROVE  result = Encoding(sf, i) /\ References(l) \subseteq DefinedNames(sf)
    <3>1. \A k \in 1 .. Len(l.ops) : ~Unresolved(l.ops[k])
      BY <2>2, <2>5 DEF bad
    <3>2. ResolvedOps = [k \in 1 .. Len(l.ops) |-> Resolved(sf, l.ops[k])]
      BY <2>2, <2>3, <3>1, Zenon DEF ResolvedOps
    <3>3. result = Encoding(sf, i)
      BY <2>1, <2>2, <3>2, Zenon DEF result, Encoding, l
    <3>4. References(l) \subseteq DefinedNames(sf)
      BY <2>2, <2>3, <3>1 DEF References
    <3> QED
      BY <3>3, <3>4
  <2> QED
    BY <2>1, <2>2, <2>4, <2>5
<1>5. CASE bad \/ result.rc # "ERR_OK"
  <2>1. n_errors' = n_errors + 1
    BY <1>1, <1>5 DEF EmitNothing
  <2>2. n_errors = 0 => ~Resolvable(sf, i)
    BY <1>4, <1>5 DEF Resolvable, l
  <2> QED
    BY <1>1, <2>1, <2>2, UnresolvableFails
<1>6. CASE ~bad /\ result.rc = "ERR_OK"
  <2>1. Emit(<<result.word>>) /\ n_errors' = n_errors
    BY <1>1, <1>6
  <2>2. CASE n_errors = 0
    <3>1. Resolvable(sf, i) /\ Words(sf, i) = <<result.word>>
      BY <1>4, <1>6, <2>2 DEF Resolvable, Words, l
    <3>2. Lays
      BY <1>4, <2>1, <2>2, <3>1, EmitLays
    <3> QED
      BY <1>1, <1>3, <2>1, <2>2, <3>1, <3>2, EmissionTranslates
  <2>3. CASE n_errors # 0
    BY <1>1, <2>1, <2>3, LineInPass2, FailureKeeps
  <2> QED
    BY <2>2, <2>3
<1> QED
  BY <1>5, <1>6

LEMMA EmitWordTranslates ==
  ASSUME AssemblerInv, TranslationInv, EmitWord
  PROVE  TranslationInv'
<1> DEFINE l == Line(sf[i])
           value == resolve_operand(pl.value)
<1>1. /\ InPass2 /\ NextEmission /\ Is(pl, "DIR_WORD")
      /\ parsed' = [parsed EXCEPT ![i] = [pl EXCEPT !.value = value]]
      /\ \/ Unresolved(pl.value) /\ EmitNothing(1)
         \/ ~Unresolved(pl.value) /\ Emit(<<WordValue(value)>>) /\ n_errors' = n_errors
  BY DEF EmitWord, pl
<1>2. /\ i \in 1 .. Len(sf) /\ n_errors \in Nat /\ SoundLine(l)
      /\ n_errors = 0 =>
           /\ SameLine(pl, l) /\ pl.address = Addresses(sf)[i] /\ HasValue(l)
           /\ TableInv /\ TableHolds(sf, table, count, Definitions(sf))
  BY <1>1, LineInPass2
<1>3. SamePlaces
  <2>1. GoodLine(pl)
    BY <1>1, EmissionLine
  <2> HIDE DEF value
  <2>2. [pl EXCEPT !.value = value].address = pl.address
    BY <2>1 DEF GoodLine, Zeroed
  <2> QED
    BY <1>1, <1>2, <2>2, LineReplacedPlaces
<1> HIDE DEF l
<1>4. ASSUME n_errors = 0
      PROVE  /\ pl.address = Addresses(sf)[i]
             /\ Unresolved(pl.value) => ~Resolvable(sf, i)
             /\ ~Unresolved(pl.value) =>
                  Resolvable(sf, i) /\ Words(sf, i) = <<WordValue(value)>>
  <2>1. SameLine(pl, l) /\ pl.address = Addresses(sf)[i] /\ HasValue(l) /\ SoundLine(l)
    BY <1>2, <1>4
  <2>2. /\ Is(l, "DIR_WORD") /\ ~IsInstr(l) /\ pl.value = l.value /\ l.ops = <<>>
        /\ l.value.kind \in {"OPD_IMM", "OPD_REG", "OPD_LABEL"}
    BY <1>1, <2>1, SameKind DEF SameLine, IsInstr, Is, HasValue, SoundLine
  <2>3. /\ Unresolved(l.value) <=>
             l.value.kind = "OPD_LABEL" /\ l.value.val \notin DefinedNames(sf)
        /\ ~Unresolved(l.value) => value = Resolved(sf, l.value)
    BY <1>2, <1>4, <2>1, <2>2, OperandIsResolved DEF SoundLine
  <2>4. References(l) = IF l.value.kind = "OPD_LABEL" THEN {l.value.val} ELSE {}
    <3>1. 1 .. Len(<<>>) = {}
      OBVIOUS
    <3> QED
      BY <2>2, <3>1 DEF References
  <2>5. ASSUME Unresolved(pl.value) PROVE ~Resolvable(sf, i)
    BY <2>2, <2>3, <2>4, <2>5 DEF Resolvable, l
  <2> HIDE DEF value
  <2>6. ASSUME ~Unresolved(pl.value)
        PROVE  Resolvable(sf, i) /\ Words(sf, i) = <<WordValue(value)>>
    <3>1. Resolvable(sf, i)
      BY <2>2, <2>3, <2>4, <2>6 DEF Resolvable, l
    <3>2. Words(sf, i) = <<WordOf(sf, l.value)>>
      BY <2>2 DEF Words, l
    <3>3. value = Resolved(sf, l.value)
      BY <2>2, <2>3, <2>6
    <3>4. l.value.kind = "OPD_REG" => value.kind # "OPD_IMM"
      BY <3>3 DEF Resolved
    <3>5. l.value.kind # "OPD_REG" => value.kind = "OPD_IMM"
      BY <2>2, <3>3 DEF Resolved, Operand
    <3>6. WordOf(sf, l.value) = WordValue(value)
      BY <3>3, <3>4, <3>5 DEF WordOf, WordValue
    <3> QED
      BY <3>1, <3>2, <3>6
  <2> QED
    BY <2>1, <2>5, <2>6
<1> HIDE DEF value
<1>5. CASE Unresolved(pl.value)
  <2>1. n_errors' = n_errors + 1
    BY <1>1, <1>5 DEF EmitNothing
  <2> QED
    BY <1>1, <1>4, <1>5, <2>1, UnresolvableFails
<1>6. CASE ~Unresolved(pl.value)
  <2>1. Emit(<<WordValue(value)>>) /\ n_errors' = n_errors
    BY <1>1, <1>6
  <2>2. CASE n_errors = 0
    <3>1. Resolvable(sf, i) /\ Lays
      BY <1>4, <1>6, <2>1, <2>2, EmitLays
    <3> QED
      BY <1>1, <1>3, <2>1, <2>2, <3>1, EmissionTranslates
  <2>3. CASE n_errors # 0
    BY <1>1, <2>1, <2>3, LineInPass2, FailureKeeps
  <2> QED
    BY <2>2, <2>3
<1> QED
  BY <1>5, <1>6

(* A line with no operands and no name to look up.                          *)
LEMMA NothingToResolve ==
  ASSUME SoundLine(Line(sf[i])), ~IsInstr(Line(sf[i])), ~Is(Line(sf[i]), "DIR_WORD")
  PROVE  Resolvable(sf, i)
<1> DEFINE l == Line(sf[i])
<1>1. l.ops = <<>> /\ 1 .. Len(<<>>) = {}
  BY DEF SoundLine, IsInstr
<1>2. ~IsInstr(l) /\ ~Is(l, "DIR_WORD")
  OBVIOUS
<1> HIDE DEF l
<1>3. References(l) = {}
  BY <1>1, <1>2 DEF References
<1> QED
  BY <1>2, <1>3 DEF Resolvable, l

LEMMA EmitAsciiTranslates ==
  ASSUME AssemblerInv, TranslationInv, EmitAscii
  PROVE  TranslationInv'
<1> DEFINE l == Line(sf[i])
           words == [k \in 1 .. Len(pl.str) \div 2 + 1 |->
                       Byte(2 * k - 2) + 256 * Byte(2 * k - 1)]
<1>1. /\ InPass2 /\ NextEmission /\ Is(pl, "DIR_ASCII") /\ Emit(words)
      /\ parsed' = parsed /\ n_errors' = n_errors
  BY DEF EmitAscii
<1>2. words = Packed(pl.str)
  BY Zenon DEF Packed, PackedWords, Byte, CharAt
<1> HIDE DEF words
<1>3. /\ i \in 1 .. Len(sf) /\ SoundLine(l)
      /\ n_errors = 0 => SameLine(pl, l) /\ pl.address = Addresses(sf)[i]
  BY <1>1, LineInPass2
<1> HIDE DEF l
<1>4. CASE n_errors = 0
  <2>1. SameLine(pl, l) /\ pl.address = Addresses(sf)[i]
    BY <1>3, <1>4
  <2>2. Is(l, "DIR_ASCII") /\ ~IsInstr(l) /\ ~Is(l, "DIR_WORD") /\ pl.str = l.str
    BY <1>1, <2>1, SameKind DEF SameLine, IsInstr, Is
  <2>3. Resolvable(sf, i)
    BY <1>3, <2>2, NothingToResolve DEF l
  <2>4. Words(sf, i) = words
    BY <1>2, <2>2 DEF Words, l
  <2>5. Lays /\ SamePlaces
    BY <1>1, <2>1, <2>4, EmitLays DEF SamePlaces
  <2> QED
    BY <1>1, <1>4, <2>3, <2>5, EmissionTranslates
<1>5. CASE n_errors # 0
  BY <1>1, <1>5, LineInPass2, FailureKeeps
<1> QED
  BY <1>4, <1>5

LEMMA EmitNoneTranslates ==
  ASSUME AssemblerInv, TranslationInv, EmitNone
  PROVE  TranslationInv'
<1> DEFINE l == Line(sf[i])
<1>1. /\ InPass2 /\ NextEmission /\ parsed' = parsed /\ image' = image /\ n_words' = n_words
      /\ ~IsInstr(pl) /\ ~Is(pl, "DIR_WORD") /\ ~Is(pl, "DIR_ASCII")
      /\ n_errors' = n_errors + 0
  BY DEF EmitNone, EmitNothing
<1>2. /\ i \in 1 .. Len(sf) /\ SoundLine(l) /\ n_errors' = n_errors /\ n_words \in uint16_t
      /\ n_errors = 0 => SameLine(pl, l) /\ pl.address = Addresses(sf)[i]
  BY <1>1, LineInPass2, EmissionLine
<1> HIDE DEF l
<1>3. CASE n_errors = 0
  <2>1. SameLine(pl, l)
    BY <1>2, <1>3
  <2>2. ~IsInstr(l) /\ ~Is(l, "DIR_WORD") /\ ~Is(l, "DIR_ASCII")
    BY <1>1, <2>1, SameKind
  <2>3. Resolvable(sf, i)
    BY <1>2, <2>2, NothingToResolve DEF l
  <2>4. Words(sf, i) = <<>> /\ Size(l) = 0
    BY <2>2 DEF Words, Size, l
  <2>5. Cells(sf, i) = {}
    <3>1. 0 .. Len(<<>>) - 1 = {}
      OBVIOUS
    <3> QED
      BY <2>4, <3>1 DEF Cells, Room
  <2>6. n_words' = (n_words + Size(Line(sf[i]))) % 65536
    BY <1>1, <1>2, <2>4, Uint16Stays DEF l
  <2>7. Lays /\ SamePlaces
    BY <1>1, <2>5, <2>6 DEF Lays, SamePlaces
  <2> QED
    BY <1>1, <1>2, <1>3, <2>3, <2>7, EmissionTranslates
<1>4. CASE n_errors # 0
  BY <1>1, <1>2, <1>4, LineInPass2, FailureKeeps
<1> QED
  BY <1>3, <1>4

-----------------------------------------------------------------------------
(* The steps outside the passes, and all of them *)

LEMMA WriteImageTranslates ==
  ASSUME AssemblerInv, TranslationInv, WriteImage
  PROVE  TranslationInv'
<1>1. /\ phase = "emit" /\ i = Len(sf) + 1 /\ n_errors = 0 /\ phase' = "returned"
      /\ table' = table /\ count' = count /\ sf' = sf /\ parsed' = parsed /\ image' = image
      /\ n_words' = n_words /\ highest' = highest /\ i' = i /\ n_errors' = n_errors
  BY DEF WriteImage, Finished, Return, symbols, pass1, pass2
<1>2. CASE Succeeded'
  <2>1. FileInv' /\ FirstPassInv' /\ ErrorInv'
    BY <1>1 DEF FileInv, FirstPassInv, ErrorInv, Passing
  <2>2. Emitting
    BY <1>1 DEF Emitting
  <2>3. SecondPassInv'
    <3>1. /\ ReadTo(sf, parsed, Len(sf) + 1) /\ \A k \in i .. Len(sf) : LineIs(sf, parsed, k)
          /\ TableHolds(sf, table, count, Definitions(sf)) /\ highest = LastAddress(sf)
          /\ ImageHolds(sf, image, i - 1)
      BY <1>1, <2>2 DEF TranslationInv, SecondPassInv
    <3> QED
      BY <1>1, <3>1 DEF SecondPassInv
  <2>4. ForwardInv'
    <3>1. Forward => /\ n_words = Cardinality(DOMAIN image)
                     /\ \A a \in DOMAIN image : a < Addresses(sf)[i]
      BY <1>1, <2>2 DEF TranslationInv, ForwardInv
    <3> QED
      BY <1>1, <3>1 DEF ForwardInv, Forward
  <2> QED
    BY <2>1, <2>3, <2>4 DEF TranslationInv
<1>3. CASE ~Succeeded'
  <2>1. ~Passing'
    BY <1>1 DEF Passing
  <2> QED
    BY <1>3, <2>1, OutsideKeeps
<1> QED
  BY <1>2, <1>3

LEMMA RestTranslates ==
  ASSUME NotStarted \/ Reject \/ CannotOpen \/ \E src, out \in Path : assemble_file(src, out)
  PROVE  TranslationInv'
<1>1. ~Passing' /\ ~Succeeded'
  BY DEF NotStarted, CannotStart, Reject, CannotOpen, assemble_file, Return, Passing, Succeeded
<1> QED
  BY <1>1, OutsideKeeps

LEMMA StutterTranslates ==
  ASSUME TranslationInv, UNCHANGED avars
  PROVE  TranslationInv'
<1>1. /\ table' = table /\ count' = count /\ sf' = sf /\ parsed' = parsed /\ addr' = addr
      /\ highest' = highest /\ n_words' = n_words /\ image' = image /\ i' = i /\ rc' = rc
      /\ n_errors' = n_errors /\ phase' = phase /\ files' = files
      /\ src_path' = src_path /\ host' = host
  BY DEF avars, symbols, call, pass1, pass2
<1>2. FileInv' /\ ErrorInv' /\ FirstPassInv'
  BY <1>1 DEF TranslationInv, FileInv, ErrorInv, FirstPassInv, Passing, OutOf, Succeeded
<1>3. SecondPassInv' /\ ForwardInv'
  BY <1>1 DEF TranslationInv, SecondPassInv, ForwardInv, Emitting, Succeeded, Forward
<1> QED
  BY <1>2, <1>3 DEF TranslationInv

LEMMA TranslationIsInductive ==
  ASSUME WholeNames, AssemblerInv, AssemblerInv', TranslationInv, [ANext]_avars
  PROVE  TranslationInv'
<1>1. CASE \E src, out \in Path : assemble_file(src, out)
  BY <1>1, RestTranslates
<1>2. CASE Step
  <2>1. CASE NotStarted \/ Reject \/ CannotOpen
    BY <2>1, RestTranslates
  <2>2. CASE Start
    BY <2>2, StartTranslates
  <2>3. CASE LineFails
    BY <2>3, LineFailsTranslates
  <2>4. CASE DefineLabel
    BY <2>4, DefineLabelTranslates
  <2>5. CASE SetOrigin
    BY <2>5, SetOriginTranslates
  <2>6. CASE DefineConstant
    BY <2>6, DefineConstantTranslates
  <2>7. CASE Advance
    BY <2>7, AdvanceTranslates
  <2>8. CASE EndOfPass1
    BY <2>8, EndOfPass1Translates
  <2>9. CASE EmitInstr
    BY <2>9, EmitInstrTranslates
  <2>10. CASE EmitWord
    BY <2>10, EmitWordTranslates
  <2>11. CASE EmitAscii
    BY <2>11, EmitAsciiTranslates
  <2>12. CASE EmitNone
    BY <2>12, EmitNoneTranslates
  <2>13. CASE WriteImage
    BY <2>13, WriteImageTranslates
  <2> QED
    BY <1>2, <2>1, <2>2, <2>3, <2>4, <2>5, <2>6, <2>7, <2>8, <2>9, <2>10, <2>11, <2>12, <2>13
       DEF Step
<1>3. CASE UNCHANGED avars
  BY <1>3, StutterTranslates
<1> QED
  BY <1>1, <1>2, <1>3 DEF ANext

LEMMA TranslationStarts == AInit => TranslationInv
<1> SUFFICES ASSUME AInit PROVE TranslationInv
  OBVIOUS
<1>1. phase = "idle"
  BY DEF AInit, Fresh
<1> QED
  BY <1>1 DEF TranslationInv, FileInv, ErrorInv, FirstPassInv, SecondPassInv, ForwardInv,
              Passing, Succeeded, Emitting

LEMMA TranslationHolds == WholeNames => (ASpec => [](AssemblerInv /\ TranslationInv))
<1> SUFFICES ASSUME WholeNames PROVE ASpec => [](AssemblerInv /\ TranslationInv)
  OBVIOUS
<1>1. ASpec => []AssemblerInv
  BY InvHolds
<1>2. AssemblerInv /\ AssemblerInv' /\ TranslationInv /\ [ANext]_avars => TranslationInv'
  BY TranslationIsInductive
<1> QED
  BY <1>1, <1>2, TranslationStarts, PTL DEF ASpec

LEMMA NothingLost == AssemblerInv /\ TranslationInv => NoWordLost
<1> SUFFICES ASSUME AssemblerInv, TranslationInv, Succeeded, Forward
             PROVE  /\ n_words = Cardinality(DOMAIN image)
                    /\ \A a \in DOMAIN image : a <= highest
  BY DEF NoWordLost
<1>1. n_errors = 0 /\ i = Len(sf) + 1 /\ Emitting
  BY DEF TranslationInv, ErrorInv, Emitting
<1>2. n_words = Cardinality(DOMAIN image) /\ \A a \in DOMAIN image : a < Addresses(sf)[i]
  BY <1>1 DEF TranslationInv, ForwardInv
<1>3. highest = LastAddress(sf) /\ ReadTo(sf, parsed, Len(sf) + 1)
  BY <1>1 DEF TranslationInv, SecondPassInv
<1>4. i \in 1 .. Len(sf) + 1 /\ DOMAIN image \subseteq uint16_t
  BY TextIsLines DEF AssemblerInv, AssemblerTypeOK
<1>5. Addresses(sf)[i] \in Nat
  BY <1>1, <1>3, <1>4, Uint16Nat DEF ReadTo
<1>6. highest = IF Addresses(sf)[i] = 0 THEN 0 ELSE Addresses(sf)[i] - 1
  BY <1>1, <1>3 DEF LastAddress
<1>7. \A a \in DOMAIN image : a \in Nat
  BY <1>4, Uint16Nat
<1> QED
  BY <1>2, <1>5, <1>6, <1>7

(* Whatever the source, pass 1 leaves every line the room that pass 2       *)
(* fills: if the source only goes forward, no word is overwritten and none  *)
(* lies behind the end of the file (assembler.c 244 and 340).               *)
THEOREM NoWordIsLost == WholeNames => (ASpec => []NoWordLost)
<1> SUFFICES ASSUME WholeNames PROVE ASpec => []NoWordLost
  OBVIOUS
<1>1. ASpec => [](AssemblerInv /\ TranslationInv)
  BY TranslationHolds
<1> QED
  BY <1>1, NothingLost, PTL

-----------------------------------------------------------------------------
(* The refinement *)

LEMMA LastIsUnique ==
  ASSUME NEW s, NEW n \in Nat, NEW a, NEW k \in 1 .. n, LastIn(s, k, a, n)
  PROVE  k = CHOOSE h \in 1 .. n : Covers(s, h, a) /\ \A j \in h + 1 .. n : ~Covers(s, j, a)
<1> DEFINE P(h) == Covers(s, h, a) /\ \A j \in h + 1 .. n : ~Covers(s, j, a)
<1>1. P(k)
  BY DEF LastIn
<1>2. ASSUME NEW h \in 1 .. n, P(h) PROVE h = k
  <2>1. CASE h < k
    <3>1. k \in h + 1 .. n
      BY <2>1
    <3> QED
      BY <1>1, <1>2, <3>1
  <2>2. CASE k < h
    <3>1. h \in k + 1 .. n
      BY <2>2
    <3> QED
      BY <1>1, <1>2, <3>1
  <2> QED
    BY <2>1, <2>2
<1> HIDE DEF P
<1>3. k = CHOOSE h \in 1 .. n : P(h)
  BY <1>1, <1>2
<1> QED
  BY <1>3 DEF P

(* An image that holds all lines of a source is the source's own. *)
LEMMA ImageIsMeant ==
  ASSUME NEW s, Len(s) \in Nat, NEW m, ImageHolds(s, m, Len(s)), NEW n
  PROVE  Binary(n, m) = Binary(n, Image(s))
<1> DEFINE last(a) == CHOOSE k \in 1 .. Len(s) :
                        /\ Covers(s, k, a)
                        /\ \A j \in k + 1 .. Len(s) : ~Covers(s, j, a)
<1>1. Emitted(s) = DOMAIN m
  BY DEF Emitted, ImageHolds, Cells, Room
<1>2. Image(s) = [a \in DOMAIN m |-> WordAt(s, last(a), a)]
  BY <1>1, Zenon DEF Image
<1>3. ASSUME NEW a \in DOMAIN m PROVE m[a] = WordAt(s, last(a), a)
  <2>1. PICK k \in 1 .. Len(s) : LastIn(s, k, a, Len(s)) /\ m[a] = WordAt(s, k, a)
    BY DEF ImageHolds
  <2>2. k = last(a)
    BY <2>1, LastIsUnique
  <2> QED
    BY <2>1, <2>2
<1> HIDE DEF last
<1>4. DOMAIN Image(s) = DOMAIN m /\ \A a \in DOMAIN m : Image(s)[a] = m[a]
  BY <1>2, <1>3
<1>5. [a \in {x \in DOMAIN m : x < n} |-> m[a]]
        = [a \in {x \in DOMAIN Image(s) : x < n} |-> Image(s)[a]]
  BY <1>4
<1> QED
  BY <1>5 DEF Binary

(* If pass 2 ends without an error, the source is a program, and what pass  *)
(* 2 has laid out is its image.                                             *)
LEMMA FinishedIsMeant ==
  ASSUME AssemblerInv, TranslationInv, Finished, n_errors = 0
  PROVE  /\ Assemblable(sf, SYM_CAPACITY)
         /\ \A n : Binary(n, image) = Binary(n, Image(sf))
         /\ (highest + 1) % 65536 = BinaryWords(sf) /\ BinaryWords(sf) \in Nat \ {0}
<1>1. phase = "emit" /\ Emitting /\ i = Len(sf) + 1 /\ Len(sf) \in Nat
  BY TextIsLines DEF Finished, Emitting
<1>2. i - 1 = Len(sf) /\ (Len(sf) + 1) - 1 = Len(sf) /\ Len(sf) + 1 \in 1 .. Len(sf) + 1
  BY <1>1
<1>3. /\ ReadTo(sf, parsed, Len(sf) + 1) /\ TableHolds(sf, table, count, Definitions(sf))
      /\ highest = LastAddress(sf) /\ ImageHolds(sf, image, Len(sf))
  BY <1>1, <1>2 DEF TranslationInv, SecondPassInv
<1>4. Assemblable(sf, SYM_CAPACITY)
  <2>1. \A k \in 1 .. Len(sf) : Readable(sf[k]) /\ OrgInRange(Line(sf[k]))
    BY <1>2, <1>3 DEF ReadTo
  <2>2. /\ \A d, e \in Definitions(sf) : NameOf(sf, d) = NameOf(sf, e) => d = e
        /\ Cardinality(Definitions(sf)) <= SYM_CAPACITY
    BY <1>3 DEF TableHolds
  <2>3. \A k \in 1 .. Len(sf) : Resolvable(sf, k)
    BY <1>3 DEF ImageHolds
  <2>4. /\ \A k \in 1 .. Len(sf) : References(Line(sf[k])) \subseteq DefinedNames(sf)
        /\ \A k \in 1 .. Len(sf) : IsInstr(Line(sf[k])) => Encoding(sf, k).rc = "ERR_OK"
    BY <2>3 DEF Resolvable
  <2> QED
    BY <2>1, <2>2, <2>4 DEF Assemblable
<1>5. \A n : Binary(n, image) = Binary(n, Image(sf))
  BY <1>1, <1>3, ImageIsMeant
<1>6. (highest + 1) % 65536 = BinaryWords(sf) /\ BinaryWords(sf) \in Nat \ {0}
  <2> DEFINE e == Addresses(sf)[Len(sf) + 1]
             M == 65536
  <2>1. e \in Nat /\ e < M /\ M \in Nat \ {0, 1}
    BY <1>2, <1>3 DEF ReadTo, uint16_t
  <2>2. highest = IF e = 0 THEN 0 ELSE e - 1
    BY <1>3 DEF LastAddress
  <2>3. BinaryWords(sf) = IF e = 0 THEN 1 ELSE e
    BY DEF BinaryWords
  <2> HIDE DEF e, M
  <2>4. highest + 1 = BinaryWords(sf) /\ BinaryWords(sf) \in Nat \ {0} /\ BinaryWords(sf) < M
    BY <2>1, <2>2, <2>3
  <2>5. (highest + 1) % M = BinaryWords(sf)
    BY <2>1, <2>4
  <2> QED
    BY <2>4, <2>5 DEF M
<1> QED
  BY <1>4, <1>5, <1>6

LEMMA FlushedFits == \A n \in Nat \ {0} : Flushed(n) \in Int /\ Flushed(n) <= n
<1> SUFFICES ASSUME NEW n \in Nat \ {0} PROVE Flushed(n) \in Int /\ Flushed(n) <= n
  OBVIOUS
<1> DEFINE q == (n - 1) \div BUFSIZ
           r == (n - 1) % BUFSIZ
<1>1. BUFSIZ \in Nat \ {0} /\ n - 1 \in Int
  BY AssemblerAssumption
<1>2. q \in Int /\ r \in 0 .. BUFSIZ - 1 /\ n - 1 = BUFSIZ * q + r
  BY <1>1, Division
<1>3. Flushed(n) = q * BUFSIZ
  BY DEF Flushed
<1> HIDE DEF q, r
<1>4. q * BUFSIZ = BUFSIZ * q /\ q * BUFSIZ \in Int
  BY <1>1, <1>2
<1> QED
  BY <1>1, <1>2, <1>3, <1>4

LEMMA AInitRefines == AInit => Promise!Init
<1> SUFFICES ASSUME AInit PROVE Promise!Init
  OBVIOUS
<1>1. PICK setup \in Setups : files = setup.files /\ host = setup.host
  BY DEF AInit
<1>2. DOMAIN files = Path /\ host \in Host
  BY <1>1, AssemblerAssumption
<1>3. src_path = NoPath /\ out_path = NoPath /\ phase = "idle"
  BY DEF AInit, Fresh
<1> QED
  BY <1>2, <1>3 DEF Promise!Init, Promise!Memory, Host

LEMMA CallRefines ==
  ASSUME NEW src \in Path, NEW out \in Path, assemble_file(src, out)
  PROVE  Promise!Next
<1>1. Promise!Call(src, out)
  BY DEF assemble_file, Promise!Call
<1> QED
  BY <1>1 DEF Promise!Next

(* What is refused could not be translated. *)
LEMMA RefuseRefines ==
  ASSUME phase \notin {"idle", "returned"}, phase' = "returned", rc' # "ERR_OK",
         UNCHANGED <<src_path, out_path, files, host>>, ~Promise!Translatable
  PROVE  Promise!Next
<1>1. Promise!Refuse
  BY DEF Promise!Refuse
<1> QED
  BY <1>1 DEF Promise!Next

LEMMA NotStartedRefines == NotStarted => Promise!Next
<1> SUFFICES ASSUME NotStarted PROVE Promise!Next
  OBVIOUS
<1>1. /\ phase = "called" /\ phase' = "returned" /\ rc' # "ERR_OK"
      /\ UNCHANGED <<src_path, out_path, files, host>>
  BY DEF NotStarted, CannotStart, Return, call
<1>2. ~Promise!Translatable
  BY DEF NotStarted, CannotStart, OutOf, Promise!Translatable
<1> QED
  BY <1>1, <1>2, RefuseRefines

LEMMA OutOfMemoryRefines == EndOfPass1 /\ phase' = "returned" => Promise!Next
<1> SUFFICES ASSUME EndOfPass1, phase' = "returned" PROVE Promise!Next
  OBVIOUS
<1>1. /\ phase = "line" /\ host.memory = "image" /\ rc' # "ERR_OK"
      /\ UNCHANGED <<src_path, out_path, files, host>>
  BY DEF EndOfPass1, Return, call
<1>2. ~Promise!Translatable
  BY <1>1 DEF Promise!Translatable
<1> QED
  BY <1>1, <1>2, RefuseRefines

LEMMA RejectRefines ==
  ASSUME TranslationInv, Reject \/ CannotOpen
  PROVE  Promise!Next
<1>1. /\ phase = "emit" /\ phase' = "returned" /\ rc' # "ERR_OK"
      /\ UNCHANGED <<src_path, out_path, files, host>>
  BY DEF Reject, CannotOpen, Finished, Return, call
<1>2. sf = files[src_path].lines /\ (n_errors # 0 => ~Assemblable(sf, SYM_CAPACITY))
  BY <1>1 DEF TranslationInv, FileInv, ErrorInv, Passing
<1>3. ~Promise!Translatable
  BY <1>2 DEF Reject, CannotOpen, Promise!Translatable, WellFormed
<1> QED
  BY <1>1, <1>3, RefuseRefines

(* Every text there is at the start gives its words as numbers or labels,   *)
(* the way the parser's header has it; the assembler takes registers, too,  *)
(* which the run word_register shows.                                       *)
TextsAllowed(disk) ==
  \A path \in Path : disk[path].kind = "text" => ValuesAllowed(disk[path].lines)

WordsAreValues == \A setup \in Setups : TextsAllowed(setup.files)

(* It stays that way, for all that is ever written is a binary.             *)
DiskInv ==
  /\ host \in Host
  /\ DOMAIN files = Path /\ TextsAllowed(files)
  /\ phase # "idle" => src_path \in Path

(* What is written is the source's binary, or what there is room for.       *)
LEMMA WriteImageRefines ==
  ASSUME AssemblerInv, TranslationInv, DiskInv, WriteImage
  PROVE  Promise!Next
<1> DEFINE words == (highest + 1) % 65536
           n == BinaryWords(sf)
<1>1. /\ phase = "emit" /\ phase' = "returned" /\ Finished /\ n_errors = 0 /\ host.writable
      /\ UNCHANGED <<src_path, out_path, host>>
      /\ files' = [files EXCEPT ![out_path] =
                     Binary(IF words <= host.room THEN words ELSE host.room, image)]
      /\ rc' = IF Flushed(words) <= host.room THEN "ERR_OK" ELSE "ERR_IO"
  BY DEF WriteImage, Finished, Return, call
<1>2. /\ Assemblable(sf, SYM_CAPACITY) /\ \A w : Binary(w, image) = Binary(w, Image(sf))
      /\ words = n /\ n \in Nat \ {0}
  BY <1>1, FinishedIsMeant
<1>3. /\ files[src_path].kind = "text" /\ sf = files[src_path].lines
      /\ ~OutOf("source") /\ ~OutOf("parsed") /\ host.memory # "image"
  BY <1>1 DEF TranslationInv, FileInv, Passing
<1>4. Promise!Translatable
  <2>1. src_path \in Path
    BY <1>1 DEF DiskInv
  <2>2. ValuesAllowed(sf)
    BY <1>3, <2>1 DEF DiskInv, TextsAllowed
  <2> QED
    BY <1>1, <1>2, <1>3, <2>2 DEF Promise!Translatable, OutOf, WellFormed
<1> HIDE DEF words, n
<1>5. Flushed(n) \in Int /\ Flushed(n) <= n
  BY <1>2, FlushedFits
<1>6. host.room \in Nat
  BY DEF DiskInv, Host
<1>7. src_path' = src_path /\ out_path' = out_path /\ host' = host
  BY <1>1
<1>8. CASE n <= host.room
  <2>1. rc' = "ERR_OK" /\ files' = [files EXCEPT ![out_path] = Binary(n, Image(sf))]
    <3>1. Flushed(n) <= host.room
      <4> DEFINE f == Flushed(n)
                 room == host.room
      <4>1. f \in Int /\ f <= n /\ n \in Nat /\ room \in Nat /\ n <= room
        BY <1>2, <1>5, <1>6, <1>8
      <4> HIDE DEF f, room
      <4>2. f <= room
        BY <4>1
      <4> QED
        BY <4>2 DEF f, room
    <3> QED
      BY <1>1, <1>2, <1>8, <3>1, Zenon
  <2>2. Promise!Translate
    BY <1>1, <1>3, <1>4, <1>7, <1>8, <2>1 DEF Promise!Translate, n
  <2> QED
    BY <2>2 DEF Promise!Next
<1>9. CASE ~(n <= host.room)
  <2>1. files' = [files EXCEPT ![out_path] = Binary(host.room, Image(sf))]
    BY <1>1, <1>2, <1>9
  <2>2. Promise!Translate
    BY <1>1, <1>3, <1>4, <1>7, <1>9, <2>1 DEF Promise!Translate, n
  <2> QED
    BY <2>2 DEF Promise!Next
<1> QED
  BY <1>8, <1>9

LEMMA PassesStutter ==
  ASSUME phase \notin {"idle", "returned"}, phase' \notin {"idle", "returned"},
         UNCHANGED <<src_path, out_path, files, host>>
  PROVE  UNCHANGED Promise!vars
BY DEF Promise!vars

LEMMA StepsRefine ==
  ASSUME AssemblerInv, TranslationInv, DiskInv, [ANext]_avars
  PROVE  [Promise!Next]_(Promise!vars)
<1>1. CASE \E src, out \in Path : assemble_file(src, out)
  BY <1>1, CallRefines
<1>2. CASE NotStarted
  BY <1>2, NotStartedRefines
<1>3. CASE Reject \/ CannotOpen
  BY <1>3, RejectRefines
<1>4. CASE WriteImage
  BY <1>4, WriteImageRefines
<1>5. CASE EndOfPass1
  <2>1. CASE phase' = "returned"
    BY <1>5, <2>1, OutOfMemoryRefines
  <2>2. CASE phase' # "returned"
    <3>1. phase = "line" /\ phase' = "emit" /\ UNCHANGED <<src_path, out_path, files, host>>
      BY <1>5, <2>2 DEF EndOfPass1, Return, call
    <3> QED
      BY <3>1, PassesStutter
  <2> QED
    BY <2>1, <2>2
<1>6. CASE Start \/ LineFails \/ DefineLabel \/ SetOrigin \/ DefineConstant \/ Advance
  <2>1. /\ phase \in {"called", "line", "place"} /\ phase' \in {"line", "place"}
        /\ UNCHANGED <<src_path, out_path, files, host>>
    BY <1>6 DEF Start, LineFails, DefineLabel, SetOrigin, DefineConstant, Advance, NextLine,
                InPass1, InPlace, call
  <2> QED
    BY <2>1, PassesStutter
<1>7. CASE EmitInstr \/ EmitWord \/ EmitAscii \/ EmitNone
  <2>1. InPass2 /\ NextEmission
    BY <1>7 DEF EmitInstr, EmitWord, EmitAscii, EmitNone
  <2>2. /\ phase = "emit" /\ phase' = "emit"
        /\ UNCHANGED <<src_path, out_path, files, host>>
    BY <2>1 DEF InPass2, NextEmission, call
  <2> QED
    BY <2>2, PassesStutter
<1>8. CASE UNCHANGED avars
  BY <1>8 DEF avars, call, Promise!vars
<1> QED
  BY <1>1, <1>2, <1>3, <1>4, <1>5, <1>6, <1>7, <1>8 DEF ANext, Step

LEMMA DiskStays == DiskInv /\ [ANext]_avars => DiskInv'
<1> SUFFICES ASSUME DiskInv, [ANext]_avars PROVE DiskInv'
  OBVIOUS
<1> DEFINE Kept   == host' = host /\ files' = files
           Called == phase # "idle" /\ src_path' = src_path
<1>1. ASSUME Kept, Called \/ src_path' \in Path \/ (phase' = phase /\ src_path' = src_path)
      PROVE  DiskInv'
  BY <1>1 DEF DiskInv, TextsAllowed
<1>2. CASE \E src, out \in Path : assemble_file(src, out)
  BY <1>1, <1>2 DEF assemble_file
<1>3. CASE EmitInstr \/ EmitWord \/ EmitAscii \/ EmitNone
  <2>1. InPass2 /\ NextEmission
    BY <1>3 DEF EmitInstr, EmitWord, EmitAscii, EmitNone
  <2> QED
    BY <1>1, <2>1 DEF NextEmission, InPass2, call
<1>4. CASE SetOrigin \/ DefineConstant \/ Advance
  <2>1. InPlace /\ NextLine
    BY <1>4 DEF SetOrigin, DefineConstant, Advance
  <2> QED
    BY <1>1, <2>1 DEF NextLine, InPlace, call
<1>5. CASE NotStarted \/ Start \/ LineFails \/ DefineLabel
  BY <1>1, <1>5 DEF NotStarted, Start, LineFails, DefineLabel, InPass1, call
<1>6. CASE EndOfPass1 \/ Reject \/ CannotOpen
  BY <1>1, <1>6 DEF EndOfPass1, Reject, CannotOpen, Finished, call
<1>7. CASE WriteImage
  <2> DEFINE size    == (highest + 1) % 65536
             written == IF size <= host.room THEN size ELSE host.room
  <2>0. files' = [files EXCEPT ![out_path] = Binary(written, image)]
    BY <1>7 DEF WriteImage
  <2> HIDE DEF written
  <2>1. PICK words : files' = [files EXCEPT ![out_path] = Binary(words, image)]
    <3> WITNESS written
    <3> QED
      BY <2>0
  <2>2. phase # "idle" /\ host' = host /\ src_path' = src_path
    BY <1>7 DEF WriteImage, Finished, call
  <2>3. DOMAIN files' = Path
    BY <2>1 DEF DiskInv
  <2>4. ASSUME NEW path \in Path, files'[path].kind = "text"
        PROVE  path # out_path /\ files'[path] = files[path]
    BY <2>1, <2>4 DEF DiskInv, Binary
  <2> QED
    BY <2>2, <2>3, <2>4 DEF DiskInv, TextsAllowed
<1>8. CASE UNCHANGED avars
  BY <1>1, <1>8 DEF avars, call
<1> QED
  BY <1>2, <1>3, <1>4, <1>5, <1>6, <1>7, <1>8 DEF ANext, Step

LEMMA DiskHolds == WordsAreValues => (ASpec => []DiskInv)
<1> SUFFICES ASSUME WordsAreValues PROVE ASpec => []DiskInv
  OBVIOUS
<1>1. AInit => DiskInv
  <2> SUFFICES ASSUME AInit PROVE DiskInv
    OBVIOUS
  <2>1. PICK setup \in Setups : files = setup.files /\ host = setup.host
    BY DEF AInit
  <2> QED
    BY <2>1, AssemblerAssumption DEF AInit, Fresh, DiskInv, WordsAreValues
<1> QED
  BY <1>1, DiskStays, PTL DEF ASpec

(* The two passes are the one-step assembler: whatever the source, the      *)
(* table's size and hash, the files and the host, a source is refused       *)
(* exactly if it is no program or the host is in the way, what is written   *)
(* is its binary, and no other file is touched (assembler.c 165-369), as    *)
(* long as no text has a register for a word.                               *)
THEOREM TwoPassesTranslate == WholeNames /\ WordsAreValues => (ASpec => IsTranslation)
<1> SUFFICES ASSUME WholeNames, WordsAreValues PROVE ASpec => IsTranslation
  OBVIOUS
<1>1. ASpec => [](AssemblerInv /\ TranslationInv)
  BY TranslationHolds
<1>2. AssemblerInv /\ TranslationInv /\ DiskInv /\ [ANext]_avars
        => [Promise!Next]_(Promise!vars)
  BY StepsRefine
<1>3. ASpec => Promise!Spec
  BY <1>1, <1>2, AInitRefines, DiskHolds, PTL DEF ASpec, Promise!Spec
<1> QED
  BY <1>3 DEF IsTranslation

-----------------------------------------------------------------------------
(* From the text to the word: the tokens of a line are what is written on  *)
(* it, the parsed line is their meaning, the word carries the operands.     *)

(* The tokens of a line that the lexer takes are its words up to the        *)
(* comment, one each.                                                       *)
LEMMA LexedLine ==
  ASSUME NEW x \in Seq(Lexemes(Name)), lex_line(x).ok
  PROVE  LET tokens == lex_line(x).tokens
         IN  /\ Len(tokens) \in 0 .. Len(x)
             /\ \A k \in 1 .. Len(tokens) :
                  /\ tokens[k] = TokenOf(x[k]) /\ x[k] \in Lexemes(Name)
                  /\ x[k].class \in {"ident", "number", "string"}
             /\ Len(tokens) < Len(x) => x[Len(tokens) + 1].class = "comment"
<1> DEFINE stops == {k \in 1 .. Len(x) : Stops(x, k)}
           end   == CHOOSE k \in stops : \A j \in stops : k <= j
           n     == IF stops = {} THEN Len(x) ELSE end - 1
           t     == [k \in 1 .. n |-> TokenOf(x[k])]
<1>1. lex_line(x).tokens = t /\ (stops = {} \/ x[end].class = "comment")
  BY DEF lex_line
<1>2. Len(x) \in Nat
  OBVIOUS
<1>3. /\ n \in 0 .. Len(x) /\ \A k \in 1 .. n : ~Stops(x, k)
      /\ n < Len(x) => x[n + 1].class = "comment"
  <2>1. CASE stops = {}
    BY <1>2, <2>1
  <2>2. CASE stops # {}
    <3>1. stops \in SUBSET Nat
      OBVIOUS
    <3>2. end \in stops /\ \A j \in stops : end <= j
      BY <2>2, <3>1, Least
    <3>3. x[end].class = "comment"
      BY <1>1, <2>2
    <3> HIDE DEF end
    <3>4. end \in 1 .. Len(x) /\ n = end - 1
      BY <2>2, <3>2
    <3>5. ASSUME NEW k \in 1 .. n PROVE k \notin stops
      BY <1>2, <3>2, <3>4
    <3>6. \A k \in 1 .. n : k \in 1 .. Len(x)
      BY <1>2, <3>4
    <3>7. n + 1 = end
      BY <3>4
    <3> QED
      BY <1>2, <3>3, <3>4, <3>5, <3>6, <3>7
  <2> QED
    BY <2>1, <2>2
<1> HIDE DEF n
<1>4. ASSUME NEW k \in 1 .. n
      PROVE  x[k] \in Lexemes(Name) /\ x[k].class \in {"ident", "number", "string"}
  <2>1. x[k] \in Lexemes(Name) /\ ~Stops(x, k)
    BY <1>2, <1>3, ElementOfSeq
  <2>2. x[k].class \notin {"comment", "unknown"}
    BY <2>1 DEF Stops
  <2> QED
    BY <2>1, <2>2 DEF Lexemes, Comment, Unknown
<1>5. t \in [1 .. n -> {t[k] : k \in 1 .. n}] /\ n \in Nat
  BY <1>2, <1>3
<1>6. Len(t) = n
  BY <1>5, LengthOfFunction
<1>7. \A k \in 1 .. n : t[k] = TokenOf(x[k])
  OBVIOUS
<1> HIDE DEF t
<1> QED
  BY <1>1, <1>3, <1>4, <1>6, <1>7

(* A line that begins with a label, and its tokens behind the label.        *)
Labelled(x) == lex_line(x).tokens # <<>> /\ lex_line(x).tokens[1].kind = "TOK_LABEL"
Behind(x) == IF Labelled(x) THEN Tail(lex_line(x).tokens) ELSE lex_line(x).tokens

LEMMA SequenceRange ==
  ASSUME NEW S, NEW s \in Seq(S), NEW m \in 1 .. 2, NEW n \in 0 .. Len(s), m <= n + 1
  PROVE  /\ Len(SubSeq(s, m, n)) = n - m + 1
         /\ \A k \in 1 .. n - m + 1 : SubSeq(s, m, n)[k] = s[m + k - 1]
OBVIOUS

LEMMA LexemeKind ==
  ASSUME NEW x
  PROVE  TokenOf(x).kind = "TOK_LABEL" <=> x.class = "ident" /\ x.colon
BY DEF TokenOf, Token

LEMMA WrittenIs ==
  ASSUME NEW x \in Seq(Lexemes(Name)), lex_line(x).ok
  PROVE  LET n     == Len(lex_line(x).tokens)
             first == IF n > 0 /\ x[1].class = "ident" /\ x[1].colon THEN 2 ELSE 1
         IN  Written(x) = SubSeq(x, first, n)
<1> DEFINE n == Len(lex_line(x).tokens)
           end == IF \E k \in 1 .. Len(x) : x[k].class = "comment"
                    THEN CHOOSE k \in 1 .. Len(x) :
                           x[k].class = "comment" /\ \A j \in 1 .. k - 1 : x[j].class # "comment"
                    ELSE Len(x) + 1
<1>1. /\ n \in 0 .. Len(x) /\ \A k \in 1 .. n : x[k].class # "comment"
      /\ n < Len(x) => x[n + 1].class = "comment"
  BY LexedLine
<1> HIDE DEF n
<1>2. Len(x) \in Nat
  OBVIOUS
<1>3. end = n + 1
  <2>1. CASE n = Len(x)
    BY <1>1, <2>1
  <2>2. CASE n < Len(x)
    <3>1. n + 1 \in 1 .. Len(x) /\ x[n + 1].class = "comment" /\ n + 1 - 1 = n
      BY <1>1, <1>2, <2>2
    <3>2. ASSUME NEW k \in 1 .. Len(x), x[k].class = "comment",
                 \A j \in 1 .. k - 1 : x[j].class # "comment"
          PROVE  k = n + 1
      <4>1. k \notin 1 .. n
        BY <1>1, <3>2
      <4>2. n + 1 \notin 1 .. k - 1
        BY <3>1, <3>2
      <4> QED
        BY <1>1, <1>2, <4>1, <4>2
    <3> QED
      BY <1>1, <3>1, <3>2
  <2> QED
    BY <1>1, <2>1, <2>2
<1>4. Written(x) = SubSeq(x, IF end > 1 /\ x[1].class = "ident" /\ x[1].colon THEN 2 ELSE 1,
                         end - 1)
  BY DEF Written
<1> HIDE DEF end
<1>5. end > 1 <=> n > 0
  BY <1>1, <1>2, <1>3
<1>6. end - 1 = n
  BY <1>1, <1>2, <1>3
<1> QED
  BY <1>4, <1>5, <1>6 DEF n

(* Behind the label the tokens are those of the words that were written,    *)
(* one each.                                                                *)
LEMMA BehindIsWritten ==
  ASSUME NEW x \in Seq(Lexemes(Name)), lex_line(x).ok
  PROVE  LET w == Written(x)
         IN  /\ Len(w) \in Nat /\ Len(Behind(x)) = Len(w)
             /\ \A k \in 1 .. Len(w) :
                  /\ Behind(x)[k] = TokenOf(w[k]) /\ w[k] \in Lexemes(Name)
                  /\ w[k].class \in {"ident", "number", "string"}
                  /\ \E j \in 1 .. Len(x) : w[k] = x[j]
<1> DEFINE t == lex_line(x).tokens
           n == Len(t)
           w == Written(x)
<1>1. /\ n \in 0 .. Len(x)
      /\ \A k \in 1 .. n : /\ t[k] = TokenOf(x[k]) /\ x[k] \in Lexemes(Name)
                           /\ x[k].class \in {"ident", "number", "string"}
  BY LexedLine
<1>2. PICK S : t \in Seq(S)
  BY LexedIsGood DEF GoodTokens
<1>3. Labelled(x) <=> n > 0 /\ x[1].class = "ident" /\ x[1].colon
  <2>1. t # <<>> <=> n > 0
    BY <1>1, <1>2, EmptySeq
  <2>2. n > 0 => (t[1].kind = "TOK_LABEL" <=> x[1].class = "ident" /\ x[1].colon)
    BY <1>1, LexemeKind
  <2> QED
    BY <2>1, <2>2 DEF Labelled
<1>4. w = SubSeq(x, IF Labelled(x) THEN 2 ELSE 1, n)
  BY <1>3, WrittenIs
<1> HIDE DEF w
<1>5. Len(x) \in Nat /\ n \in Nat
  BY <1>1
<1>6. CASE Labelled(x)
  <2>1. Behind(x) = Tail(t) /\ n > 0 /\ t # <<>>
    BY <1>3, <1>6 DEF Behind, Labelled
  <2>2. Len(Behind(x)) = n - 1 /\ \A k \in 1 .. n - 1 : Behind(x)[k] = t[k + 1]
    BY <1>2, <2>1, HeadTailProperties
  <2>3. Len(w) = n - 1 /\ \A k \in 1 .. n - 1 : w[k] = x[k + 1]
    BY <1>1, <1>4, <1>5, <1>6, <2>1, SequenceRange
  <2>4. \A k \in 1 .. n - 1 : k + 1 \in 1 .. n /\ k + 1 \in 1 .. Len(x)
    BY <1>1, <1>5
  <2> HIDE DEF n, t
  <2>5. ASSUME NEW k \in 1 .. n - 1
        PROVE  /\ Behind(x)[k] = TokenOf(w[k]) /\ w[k] \in Lexemes(Name)
               /\ w[k].class \in {"ident", "number", "string"}
               /\ \E j \in 1 .. Len(x) : w[k] = x[j]
    <3>1. Behind(x)[k] = t[k + 1] /\ w[k] = x[k + 1] /\ k + 1 \in 1 .. n /\ k + 1 \in 1 .. Len(x)
      BY <2>2, <2>3, <2>4
    <3> QED
      BY <1>1, <3>1
  <2>6. n - 1 \in Nat
    BY <1>5, <2>1
  <2> QED
    BY <2>2, <2>3, <2>5, <2>6 DEF w
<1>7. CASE ~Labelled(x)
  <2>1. Behind(x) = t
    BY <1>7 DEF Behind
  <2>2. Len(w) = n /\ \A k \in 1 .. n : w[k] = x[k]
    BY <1>1, <1>4, <1>5, <1>7, SequenceRange
  <2>4. \A k \in 1 .. n : k \in 1 .. Len(x)
    BY <1>1, <1>5
  <2> HIDE DEF t
  <2> QED
    BY <1>1, <1>5, <2>1, <2>2, <2>4 DEF w
<1> QED
  BY <1>6, <1>7

(* The label that a line bears is the text of its first token.              *)
LEMMA LabelBorne ==
  ASSUME NEW x \in Seq(Lexemes(Name)), lex_line(x).ok
  PROVE  /\ Labelled(x) => lex_line(x).tokens[1].text \in Name
         /\ \A name : Bears(x, name) <=> Labelled(x) /\ lex_line(x).tokens[1].text = name
<1> DEFINE t == lex_line(x).tokens
           n == Len(t)
<1>1. /\ n \in 0 .. Len(x)
      /\ \A k \in 1 .. n : t[k] = TokenOf(x[k]) /\ x[k] \in Lexemes(Name)
      /\ n < Len(x) => x[n + 1].class = "comment"
  BY LexedLine
<1>2. GoodTokens(t) /\ \E S : t \in Seq(S)
  BY LexedIsGood DEF GoodTokens
<1>3. t # <<>> <=> n > 0
  BY <1>1, <1>2, EmptySeq
<1>4. x # <<>> <=> Len(x) > 0
  BY EmptySeq
<1>5. ASSUME n > 0
      PROVE  /\ t[1] = TokenOf(x[1]) /\ GoodToken(t[1])
             /\ t[1].kind = "TOK_LABEL" <=> x[1].class = "ident" /\ x[1].colon
             /\ t[1].kind = "TOK_LABEL" => t[1].text = x[1].text
  <2>1. 1 \in 1 .. n
    BY <1>1, <1>5
  <2>2. t[1] = TokenOf(x[1]) /\ GoodToken(t[1])
    BY <1>1, <1>2, <2>1 DEF GoodTokens
  <2>3. x[1].class = "ident" => TokenOf(x[1]).text = x[1].text
    BY DEF TokenOf, Token
  <2> HIDE DEF t
  <2> QED
    BY <2>2, <2>3, LexemeKind
<1>6. n > 0 => Len(x) > 0
  BY <1>1
<1>7. Len(x) > 0 /\ x[1].class = "ident" => n > 0
  <2>1. n = 0 /\ Len(x) > 0 => x[0 + 1].class = "comment"
    BY <1>1
  <2> QED
    BY <1>1, <2>1
<1> HIDE DEF t, n
<1> QED
  BY <1>3, <1>4, <1>5, <1>6, <1>7 DEF Labelled, Bears, GoodToken, t

(* What a line that is read becomes.                                        *)
Front(x) ==
  IF Labelled(x) THEN [Zeroed EXCEPT !.label = lex_line(x).tokens[1].text] ELSE Zeroed

LEMMA FrontIsLabel ==
  ASSUME NEW x \in Seq(Lexemes(Name)), lex_line(x).ok
  PROVE  /\ LabelOnly(Front(x)) /\ Front(x).kind = "PL_EMPTY"
         /\ \A name : name # NoName => (Bears(x, name) <=> Front(x).label = name)
<1>1. \A name : /\ [Zeroed EXCEPT !.label = name].label = name
                /\ [Zeroed EXCEPT !.label = name].kind = "PL_EMPTY"
                /\ [Zeroed EXCEPT !.label = name] =
                     [Zeroed EXCEPT !.label = [Zeroed EXCEPT !.label = name].label]
  BY DEF Zeroed
<1>2. Zeroed.label = NoName /\ Zeroed.kind = "PL_EMPTY"
  BY DEF Zeroed
<1>3. CASE Labelled(x)
  BY <1>1, <1>3, LabelBorne DEF Front, LabelOnly
<1>4. CASE ~Labelled(x)
  BY <1>2, <1>4, LabelBorne, ZeroedIsLabelOnly DEF Front
<1> QED
  BY <1>3, <1>4

LEMMA LineRead ==
  ASSUME NEW x, Readable(x)
  PROVE  LET name  == Behind(x)[1].text
             args  == Tail(Behind(x))
         IN  \/ /\ Behind(x) = <<>>
                /\ \E kind \in {"PL_LABEL", "PL_EMPTY"} : Line(x) = [Front(x) EXCEPT !.kind = kind]
             \/ /\ Behind(x) # <<>> /\ Behind(x)[1].kind = "TOK_DIRECTIVE"
                /\ parse_directive(name, args, Front(x)).ok
                /\ Line(x) = parse_directive(name, args, Front(x)).line
             \/ /\ Behind(x) # <<>> /\ Behind(x)[1].kind = "TOK_IDENT"
                /\ parse_instruction(name, args, Front(x)).ok
                /\ Line(x) = parse_instruction(name, args, Front(x)).line
BY DEF Readable, Line, parse_line, Behind, Front, Labelled, Parsed, Refused

(* The tokens behind the first one, which are its operands. *)
LEMMA Arguments ==
  ASSUME NEW x \in Seq(Lexemes(Name)), lex_line(x).ok
  PROVE  LET w == Written(x)
             args == Tail(Behind(x))
         IN  /\ Behind(x) = <<>> <=> w = <<>>
             /\ Behind(x) # <<>> =>
                  /\ Len(w) \in Nat \ {0} /\ Behind(x)[1] = TokenOf(w[1])
                  /\ Len(args) = Len(w) - 1
                  /\ \A k \in 1 .. Len(args) : args[k] = TokenOf(w[k + 1])
<1> DEFINE w == Written(x)
           args == Tail(Behind(x))
<1>1. /\ Len(w) \in Nat /\ Len(Behind(x)) = Len(w)
      /\ \A k \in 1 .. Len(w) : Behind(x)[k] = TokenOf(w[k])
  BY BehindIsWritten
<1>2. PICK S : lex_line(x).tokens \in Seq(S)
  BY LexedIsGood DEF GoodTokens
<1>3. Behind(x) \in Seq(S)
  BY <1>2, HeadTailProperties DEF Behind, Labelled
<1>4. w \in Seq(Lexemes(Name))
  <2> DEFINE n == Len(lex_line(x).tokens)
             first == IF n > 0 /\ x[1].class = "ident" /\ x[1].colon THEN 2 ELSE 1
             L == Lexemes(Name)
  <2>1. n \in 0 .. Len(x) /\ w = SubSeq(x, first, n)
    BY WrittenIs, LexedLine
  <2>2. first \in 1 .. 2
    OBVIOUS
  <2> HIDE DEF first, n, w
  <2>3. \A k \in first .. n : x[k] \in L
    BY <2>1, <2>2, ElementOfSeq
  <2>4. first \in Int /\ n \in Int
    BY <2>1, <2>2
  <2> HIDE DEF L
  <2>5. SubSeq(x, first, n) \in Seq(L)
    BY <2>3, <2>4, SubSeqProperties
  <2> QED
    BY <2>1, <2>5 DEF L
<1> HIDE DEF w
<1>5. Behind(x) = <<>> <=> w = <<>>
  BY <1>1, <1>3, <1>4, EmptySeq
<1>6. ASSUME Behind(x) # <<>>
      PROVE  /\ Len(w) \in Nat \ {0} /\ Behind(x)[1] = TokenOf(w[1])
             /\ Len(args) = Len(w) - 1
             /\ \A k \in 1 .. Len(args) : args[k] = TokenOf(w[k + 1])
  <2>1. Len(w) # 0
    BY <1>1, <1>3, <1>6, EmptySeq
  <2>2. Len(args) = Len(w) - 1 /\ \A k \in 1 .. Len(args) : args[k] = Behind(x)[k + 1]
    BY <1>1, <1>3, <1>6, HeadTailProperties
  <2>3. \A k \in 1 .. Len(w) - 1 : k + 1 \in 1 .. Len(w)
    BY <1>1
  <2>4. 1 \in 1 .. Len(w)
    BY <1>1, <2>1
  <2> HIDE DEF args
  <2> QED
    BY <1>1, <2>1, <2>2, <2>3, <2>4
<1> QED
  BY <1>5, <1>6 DEF w

(* What the kind of a token tells of the word. *)
LEMMA KindTells ==
  ASSUME NEW w \in Lexemes(Name), w.class \in {"ident", "number", "string"}
  PROVE  /\ TokenOf(w).kind = "TOK_NUMBER" <=> w.class = "number"
         /\ w.class = "number" => w.text \in Numbers /\ TokenOf(w).text = w.text
         /\ TokenOf(w).kind = "TOK_IDENT" <=> w.class = "ident" /\ ~w.colon /\ ~w.dot
         /\ w.class = "ident" =>
              /\ w.text \in Name /\ TokenOf(w).text = w.text
              /\ w.dot \in BOOLEAN /\ w.colon \in BOOLEAN
              /\ w = [class |-> "ident", text |-> w.text, dot |-> w.dot, colon |-> w.colon]
         /\ TokenOf(w).kind = "TOK_DIRECTIVE" <=> w.class = "ident" /\ ~w.colon /\ w.dot
<1>1. CASE w.class = "ident"
  <2>1. w \in [class : {"ident"}, text : Name, dot : BOOLEAN, colon : BOOLEAN]
    BY <1>1 DEF Lexemes, Comment, Unknown
  <2> QED
    BY <1>1, <2>1 DEF TokenOf, Token
<1>2. CASE w.class = "number"
  <2>1. w.text \in Numbers
    BY <1>2 DEF Lexemes, Numbers, Comment, Unknown
  <2> QED
    BY <1>2, <2>1 DEF TokenOf, Token
<1>3. CASE w.class = "string"
  BY <1>3 DEF TokenOf, Token
<1> QED
  BY <1>1, <1>2, <1>3

(* A line of code becomes an instruction of the mnemonic and the operands   *)
(* that were written, all of them.                                          *)
LEMMA CodeLine ==
  ASSUME NEW x \in Seq(Lexemes(Name)), Readable(x), IsCode(Written(x))
  PROVE  LET w == Written(x)
             l == Line(x)
         IN  /\ IsInstr(l) /\ l.mnemonic = w[1].text
             /\ Len(w) \in Nat \ {0} /\ Len(l.ops) = Len(w) - 1
             /\ \A k \in 1 .. Len(l.ops) :
                  /\ IsValue(TokenOf(w[k + 1]))
                  /\ l.ops[k] = fill_value_operand(TokenOf(w[k + 1]))
<1> DEFINE w == Written(x)
           name == Behind(x)[1].text
           args == Tail(Behind(x))
           n == Len(args)
           instr == [Front(x) EXCEPT !.kind = "PL_INSTR", !.mnemonic = name]
           ops == [k \in 1 .. n |-> fill_value_operand(args[k])]
<1>1. lex_line(x).ok /\ w # <<>> /\ w[1].class = "ident" /\ ~w[1].dot
  BY DEF Readable, IsCode
<1>2. /\ Behind(x) # <<>> /\ Len(w) \in Nat \ {0} /\ Behind(x)[1] = TokenOf(w[1])
      /\ n = Len(w) - 1 /\ \A k \in 1 .. n : args[k] = TokenOf(w[k + 1])
  BY <1>1, Arguments
<1>3. w[1] \in Lexemes(Name)
  <2>1. 1 \in 1 .. Len(w)
    BY <1>2
  <2> QED
    BY <1>1, <2>1, BehindIsWritten
<1> HIDE DEF w
<1>4. Behind(x)[1].kind # "TOK_DIRECTIVE" /\ name = w[1].text
  BY <1>1, <1>2, <1>3, KindTells
<1> HIDE DEF name, args
<1>5. /\ parse_instruction(name, args, Front(x)).ok
      /\ Line(x) = parse_instruction(name, args, Front(x)).line
  BY <1>2, <1>4, LineRead DEF name, args
<1>6. Line(x) = [instr EXCEPT !.ops = ops] /\ \A k \in 1 .. n : IsValue(args[k])
  BY <1>5 DEF parse_instruction, Parsed, Refused
<1>7. LabelOnly(Front(x))
  BY <1>1, FrontIsLabel
<1>8. \A o : LET l == [instr EXCEPT !.ops = o]
             IN  l.kind = "PL_INSTR" /\ l.mnemonic = name /\ l.ops = o
  BY <1>7 DEF LabelOnly, Zeroed
<1> HIDE DEF instr
<1>9. Line(x).kind = "PL_INSTR" /\ Line(x).mnemonic = name /\ Line(x).ops = ops
  BY <1>6, <1>8
<1>10. n \in Nat
  BY <1>2
<1>11. ops \in [1 .. n -> {ops[k] : k \in 1 .. n}]
  OBVIOUS
<1>12. Len(ops) = n /\ \A k \in 1 .. n : ops[k] = fill_value_operand(args[k])
  BY <1>10, <1>11, LengthOfFunction
<1> HIDE DEF ops, n
<1> QED
  BY <1>2, <1>4, <1>6, <1>9, <1>12 DEF w, IsInstr

(* What a directive that is accepted leaves in the line. *)
LEMMA DirectiveLine ==
  ASSUME NEW l, LabelOnly(l), NEW name, NEW args, parse_directive(name, args, l).ok
  PROVE  LET m == parse_directive(name, args, l).line
         IN  /\ m.label = l.label /\ m.kind = "PL_DIRECTIVE"
             /\ m.dir = "DIR_EQU" <=> name = ".equ"
             /\ name = ".equ" =>
                  /\ Len(args) >= 2 /\ args[1].kind = "TOK_IDENT" /\ args[2].kind = "TOK_NUMBER"
                  /\ IsValue(args[2]) /\ m.name = args[1].text
                  /\ m.value = fill_value_operand(args[2])
<1> DEFINE dir(d)    == [l EXCEPT !.kind = "PL_DIRECTIVE", !.dir = d]
           filled(d) == [dir(d) EXCEPT !.value = fill_value_operand(args[1])]
           string    == [dir("DIR_ASCII") EXCEPT !.str = args[1].text]
           defined   == [dir("DIR_EQU") EXCEPT !.name = args[1].text]
           constant  == [defined EXCEPT !.value = fill_value_operand(args[2])]
           m         == parse_directive(name, args, l).line
<1>1. \/ name = ".org" /\ m = filled("DIR_ORG")
      \/ name = ".word" /\ m = filled("DIR_WORD")
      \/ name = ".ascii" /\ m = string
      \/ /\ name = ".equ" /\ m = constant
         /\ Len(args) >= 1 /\ args[1].kind = "TOK_IDENT"
         /\ Len(args) >= 2 /\ args[2].kind = "TOK_NUMBER" /\ IsValue(args[2])
  BY DEF parse_directive, Parsed, Refused
<1>2. \A d : /\ filled(d).label = l.label /\ filled(d).kind = "PL_DIRECTIVE"
             /\ filled(d).dir = d
  BY DEF LabelOnly, Zeroed
<1>3. string.label = l.label /\ string.kind = "PL_DIRECTIVE" /\ string.dir = "DIR_ASCII"
  BY DEF LabelOnly, Zeroed
<1>4. /\ constant.label = l.label /\ constant.kind = "PL_DIRECTIVE"
      /\ constant.dir = "DIR_EQU" /\ constant.name = args[1].text
      /\ constant.value = fill_value_operand(args[2])
  BY DEF LabelOnly, Zeroed
<1> HIDE DEF dir, filled, string, defined, constant, m
<1>5. CASE name = ".equ"
  BY <1>1, <1>4, <1>5 DEF m
<1>6. CASE name # ".equ"
  BY <1>1, <1>2, <1>3, <1>6 DEF m
<1> QED
  BY <1>5, <1>6

(* A line that is read keeps its label. *)
LEMMA LabelLine ==
  ASSUME NEW x \in Seq(Lexemes(Name)), Readable(x)
  PROVE  \A name : name # NoName => (Bears(x, name) <=> Line(x).label = name)
<1> DEFINE name == Behind(x)[1].text
           args == Tail(Behind(x))
           l == Front(x)
<1>1. lex_line(x).ok
  BY DEF Readable
<1>2. LabelOnly(l) /\ \A n : n # NoName => (Bears(x, n) <=> l.label = n)
  BY <1>1, FrontIsLabel
<1>3. \/ \E kind \in {"PL_LABEL", "PL_EMPTY"} : Line(x) = [l EXCEPT !.kind = kind]
      \/ /\ parse_directive(name, args, l).ok
         /\ Line(x) = parse_directive(name, args, l).line
      \/ /\ parse_instruction(name, args, l).ok
         /\ Line(x) = parse_instruction(name, args, l).line
  BY LineRead
<1> HIDE DEF name, args, l
<1>4. Line(x).label = l.label
  <2>1. CASE \E kind \in {"PL_LABEL", "PL_EMPTY"} : Line(x) = [l EXCEPT !.kind = kind]
    BY <1>2, <2>1 DEF LabelOnly, Zeroed
  <2>2. CASE /\ parse_directive(name, args, l).ok
             /\ Line(x) = parse_directive(name, args, l).line
    BY <1>2, <2>2, DirectiveLine
  <2>3. CASE Line(x) = parse_instruction(name, args, l).line
    BY <1>2, <2>3 DEF parse_instruction, Parsed, Refused, LabelOnly, Zeroed
  <2> QED
    BY <1>3, <2>1, <2>2, <2>3
<1> QED
  BY <1>2, <1>4

(* A line that names a number becomes the .equ of that name and number.     *)
LEMMA ConstantLine ==
  ASSUME NEW x \in Seq(Lexemes(Name)), Readable(x)
  PROVE  LET w == Written(x)
             l == Line(x)
         IN  /\ Is(l, "DIR_EQU") <=> NamesNumber(w)
             /\ Is(l, "DIR_EQU") =>
                  /\ l.name = w[2].text /\ l.value.val = parse_number(w[3].text)
                  /\ w[3].text \in Numbers
                  /\ \E j \in 1 .. Len(x) : w[3] = x[j] /\ x[j].class = "number"
<1> DEFINE w == Written(x)
           name == Behind(x)[1].text
           args == Tail(Behind(x))
           l == Line(x)
<1>1. lex_line(x).ok
  BY DEF Readable
<1>2. /\ Behind(x) = <<>> <=> w = <<>>
      /\ Behind(x) # <<>> =>
           /\ Len(w) \in Nat \ {0} /\ Behind(x)[1] = TokenOf(w[1])
           /\ Len(args) = Len(w) - 1
           /\ \A k \in 1 .. Len(args) : args[k] = TokenOf(w[k + 1])
  BY <1>1, Arguments
<1>3. \A k \in 1 .. Len(w) :
        /\ w[k] \in Lexemes(Name) /\ w[k].class \in {"ident", "number", "string"}
        /\ \E j \in 1 .. Len(x) : w[k] = x[j]
  BY <1>1, BehindIsWritten
<1>4. LabelOnly(Front(x)) /\ Front(x).kind = "PL_EMPTY"
  BY <1>1, FrontIsLabel
<1>5. CASE Behind(x) # <<>> /\ Behind(x)[1].kind = "TOK_DIRECTIVE"
  <2>1. parse_directive(name, args, Front(x)).ok /\ l = parse_directive(name, args, Front(x)).line
    BY <1>5, LineRead
  <2> HIDE DEF w, l, args
  <2>2. 1 \in 1 .. Len(w)
    BY <1>2, <1>5
  <2>3. /\ w[1].class = "ident" /\ w[1].dot = TRUE /\ w[1].colon = FALSE /\ name = w[1].text
        /\ w[1] = [class |-> "ident", text |-> w[1].text, dot |-> w[1].dot, colon |-> w[1].colon]
    BY <1>2, <1>3, <1>5, <2>2, KindTells
  <2>4. name = ".equ" <=> w[1] = Directive(".equ")
    <3>1. w[1] = Directive(w[1].text)
      BY <2>3, Zenon DEF Directive, Named
    <3>2. Directive(".equ").text = ".equ"
      BY DEF Directive, Named
    <3> QED
      BY <2>3, <3>1, <3>2, Zenon
  <2> HIDE DEF name
  <2>5. /\ l.kind = "PL_DIRECTIVE" /\ l.dir = "DIR_EQU" <=> name = ".equ"
        /\ name = ".equ" =>
             /\ Len(args) >= 2 /\ args[1].kind = "TOK_IDENT" /\ args[2].kind = "TOK_NUMBER"
             /\ IsValue(args[2]) /\ l.name = args[1].text
             /\ l.value = fill_value_operand(args[2])
    BY <1>4, <2>1, DirectiveLine
  <2>6. ASSUME name = ".equ"
        PROVE  /\ NamesNumber(w) /\ l.name = w[2].text /\ l.value.val = parse_number(w[3].text)
               /\ w[3].text \in Numbers
               /\ \E j \in 1 .. Len(x) : w[3] = x[j] /\ x[j].class = "number"
    <3>1. /\ Len(w) >= 3 /\ 1 \in 1 .. Len(args) /\ 2 \in 1 .. Len(args)
          /\ 2 \in 1 .. Len(w) /\ 3 \in 1 .. Len(w) /\ 1 + 1 = 2 /\ 2 + 1 = 3
      BY <1>2, <1>5, <2>5, <2>6
    <3>2. args[1] = TokenOf(w[2]) /\ args[2] = TokenOf(w[3])
      BY <1>2, <1>5, <3>1
    <3>3. w[2].class = "ident" /\ args[1].text = w[2].text
      BY <1>3, <2>5, <2>6, <3>1, <3>2, KindTells
    <3>4. w[3].class = "number" /\ args[2].text = w[3].text /\ w[3].text \in Numbers
      BY <1>3, <2>5, <2>6, <3>1, <3>2, KindTells
    <3>5. l.value = Operand("OPD_IMM", parse_number(w[3].text))
      BY <2>5, <2>6, <3>4 DEF fill_value_operand
    <3> QED
      BY <1>3, <2>4, <2>5, <2>6, <3>1, <3>3, <3>4, <3>5 DEF NamesNumber, Operand
  <2> QED
    BY <2>4, <2>5, <2>6 DEF NamesNumber, Is, l, w
<1>6. CASE Behind(x) = <<>> \/ Behind(x)[1].kind = "TOK_IDENT"
  <2>1. l.kind # "PL_DIRECTIVE"
    <3>1. \A kind : [Front(x) EXCEPT !.kind = kind].kind = kind
      BY <1>4 DEF LabelOnly, Zeroed
    <3>2. parse_instruction(name, args, Front(x)).ok =>
            parse_instruction(name, args, Front(x)).line.kind = "PL_INSTR"
      BY <1>4 DEF parse_instruction, Parsed, Refused, LabelOnly, Zeroed
    <3> HIDE DEF name, args
    <3> QED
      BY <1>6, <3>1, <3>2, LineRead DEF name, args
  <2>2. ~NamesNumber(w)
    <3> SUFFICES ASSUME NamesNumber(w) PROVE FALSE
      OBVIOUS
    <3> HIDE DEF w, args
    <3>1. w # <<>> /\ Len(w) >= 3 /\ w[1] = Directive(".equ")
      BY DEF NamesNumber
    <3>2. Behind(x) # <<>> /\ Behind(x)[1] = TokenOf(Directive(".equ"))
      BY <1>2, <3>1
    <3>3. TokenOf(Directive(".equ")).kind = "TOK_DIRECTIVE"
      BY DEF TokenOf, Token, Directive, Named
    <3> QED
      BY <1>6, <3>2, <3>3
  <2> QED
    BY <2>1, <2>2 DEF Is
<1>7. Behind(x) = <<>> \/ Behind(x)[1].kind \in {"TOK_DIRECTIVE", "TOK_IDENT"}
  BY LineRead
<1> QED
  BY <1>5, <1>6, <1>7

(* A number that fits an int32_t is read as it is written.                  *)
LEMMA NumberIsRead ==
  ASSUME NEW n \in Numbers, n.digits < INT32 \div 2
  PROVE  parse_number(n) = n.sign * n.digits /\ n.sign * n.digits \in Int
<1> DEFINE half == INT32 \div 2
           v == n.sign * n.digits
<1>1. n.sign \in {1, -1} /\ n.digits \in Nat
  BY DEF Numbers
<1>2. INT32 \in Nat /\ INT32 % 131072 = 0 /\ LONG_MAX \in Nat /\ LONG_MAX >= half - 1
  BY IntAssumption
<1>3. half \in Nat /\ INT32 = 2 * half
  BY <1>2
<1>4. n.digits < half
  OBVIOUS
<1> HIDE DEF half
<1>5. ~(n.digits > LONG_MAX)
  BY <1>1, <1>2, <1>3, <1>4
<1>6. v \in Int /\ v + half \in 0 .. INT32 - 1
  <2>1. CASE n.sign = 1
    BY <1>1, <1>3, <1>4, <2>1
  <2>2. CASE n.sign = -1
    BY <1>1, <1>3, <1>4, <2>2
  <2> QED
    BY <1>1, <2>1, <2>2
<1>7. parse_number(n) = ((v + half) % INT32) - half
  BY <1>5 DEF parse_number, Int32, half
<1> HIDE DEF v
<1>8. (v + half) % INT32 = v + half
  BY <1>2, <1>6
<1>9. parse_number(n) = v
  BY <1>3, <1>6, <1>7, <1>8
<1> QED
  BY <1>6, <1>9 DEF v

(* What has been established when the assembler succeeds: the source is a   *)
(* program, and its image is emitted.                                       *)
LEMMA SuccessIsProgram ==
  ASSUME AssemblerInv, TranslationInv, Succeeded
  PROVE  /\ Len(sf) \in Nat /\ \A k \in 1 .. Len(sf) : sf[k] \in Seq(Lexemes(Name))
         /\ \A k \in 1 .. Len(sf) :
              Readable(sf[k]) /\ parsed[k].address = Addresses(sf)[k] /\ Resolvable(sf, k)
         /\ \A k \in 1 .. Len(sf) + 1 : Addresses(sf)[k] \in uint16_t
         /\ \A d, e \in Definitions(sf) : NameOf(sf, d) = NameOf(sf, e) => d = e
         /\ ImageHolds(sf, image, Len(sf))
<1>1. Len(sf) \in Nat /\ \A k \in 1 .. Len(sf) : sf[k] \in Seq(Lexemes(Name))
  BY TextIsLines
<1>2. n_errors = 0 /\ i = Len(sf) + 1 /\ Emitting
  BY DEF TranslationInv, ErrorInv, Emitting
<1>3. /\ ReadTo(sf, parsed, Len(sf) + 1) /\ ImageHolds(sf, image, i - 1)
      /\ TableHolds(sf, table, count, Definitions(sf))
  BY <1>2 DEF TranslationInv, SecondPassInv
<1>4. i - 1 = Len(sf) /\ Len(sf) + 1 - 1 = Len(sf)
  BY <1>1, <1>2
<1>5. ImageHolds(sf, image, Len(sf)) /\ \A k \in 1 .. Len(sf) : Resolvable(sf, k)
  BY <1>3, <1>4 DEF ImageHolds
<1> QED
  BY <1>1, <1>3, <1>4, <1>5 DEF ReadTo, TableHolds

(* A name means what the one definition of it says. *)
LEMMA DefinedOnce ==
  ASSUME NEW s, \A d, e \in Definitions(s) : NameOf(s, d) = NameOf(s, e) => d = e,
         NEW d \in Definitions(s)
  PROVE  Meaning(s, NameOf(s, d)) = ValueOf(s, d)
<1> DEFINE e == CHOOSE e \in Definitions(s) : NameOf(s, e) = NameOf(s, d)
<1>1. e \in Definitions(s) /\ NameOf(s, e) = NameOf(s, d)
  OBVIOUS
<1>2. e = d
  BY <1>1
<1> QED
  BY <1>2 DEF Meaning

(* The low sixteen bits. *)
Low16(v) == v % 65536

LEMMA LabelDefines ==
  ASSUME NEW s, NEW k \in 1 .. Len(s), s[k] \in Seq(Lexemes(Name)), Readable(s[k]),
         NEW name, name # NoName
  PROVE  Bears(s[k], name) <=>
           /\ <<k, "label">> \in Definitions(s) /\ NameOf(s, <<k, "label">>) = name
<1>1. Bears(s[k], name) <=> Line(s[k]).label = name
  BY LabelLine
<1>2. <<k, "label">> \in Definitions(s) <=> Line(s[k]).label # NoName
  BY DEF Definitions
<1>3. NameOf(s, <<k, "label">>) = Line(s[k]).label
  BY DEF NameOf
<1> QED
  BY <1>1, <1>2, <1>3

LEMMA ConstantDefines ==
  ASSUME NEW s, NEW k \in 1 .. Len(s), s[k] \in Seq(Lexemes(Name)), Readable(s[k]), NEW name
  PROVE  /\ Names(Written(s[k]), name) <=>
              <<k, "equ">> \in Definitions(s) /\ NameOf(s, <<k, "equ">>) = name
         /\ <<k, "equ">> \in Definitions(s) =>
              /\ ValueOf(s, <<k, "equ">>) = Low16(parse_number(Written(s[k])[3].text))
              /\ Written(s[k])[3].text \in Numbers
              /\ \E j \in 1 .. Len(s[k]) :
                   Written(s[k])[3] = s[k][j] /\ s[k][j].class = "number"
<1>1. <<k, "equ">> \in Definitions(s) <=> Is(Line(s[k]), "DIR_EQU")
  BY DEF Definitions
<1>2. NameOf(s, <<k, "equ">>) = Line(s[k]).name
  BY DEF NameOf
<1>3. ValueOf(s, <<k, "equ">>) = Low16(Line(s[k]).value.val)
  BY DEF ValueOf, Low16
<1> QED
  BY <1>1, <1>2, <1>3, ConstantLine DEF Names

(* A number in the program that is the one that was written, or the word    *)
(* that a constant leaves of it.                                            *)
IsFor(v, x) ==
  /\ Stands(x) \in Int
  /\ \/ v = Stands(x)
     \/ Stands(x) \in WordNumbers /\ v = Low16(Stands(x))

LEMMA AmountFits ==
  ASSUME AssemblerInv, TranslationInv, Succeeded, NumbersFit,
         NEW k \in 1 .. Len(sf), NEW j \in 1 .. Len(sf[k]), sf[k][j].class = "number",
         sf[k][j].text \in Numbers
  PROVE  parse_number(sf[k][j].text) = Amount(sf[k][j]) /\ Amount(sf[k][j]) \in Int
<1>1. DigitsFit(sf[k][j])
  BY DEF NumbersFit
<1> QED
  BY <1>1, NumberIsRead DEF Amount, DigitsFit

(* A name stands for the address of the line that bears it, or for the      *)
(* number it was given.                                                     *)
LEMMA NameStands ==
  ASSUME AssemblerInv, TranslationInv, Succeeded, NumbersFit,
         NEW x, x.class = "ident", x.text \in Name, x.text \notin DOMAIN registers,
         x.text \in DefinedNames(sf)
  PROVE  IsFor(Meaning(sf, x.text), x) /\ Meaning(sf, x.text) \in Int
<1> DEFINE bears(k) == Bears(sf[k], x.text)
           names(k) == Names(Written(sf[k]), x.text)
<1>1. /\ Len(sf) \in Nat /\ \A k \in 1 .. Len(sf) : sf[k] \in Seq(Lexemes(Name))
      /\ \A k \in 1 .. Len(sf) : Readable(sf[k]) /\ parsed[k].address = Addresses(sf)[k]
      /\ \A k \in 1 .. Len(sf) + 1 : Addresses(sf)[k] \in uint16_t
      /\ \A d, e \in Definitions(sf) : NameOf(sf, d) = NameOf(sf, e) => d = e
  BY SuccessIsProgram
<1>2. x.text # NoName
  BY SourceAssumption
<1>3. PICK d \in Definitions(sf) : NameOf(sf, d) = x.text
  BY DEF DefinedNames
<1>4. Meaning(sf, x.text) = ValueOf(sf, d)
  BY <1>1, <1>3, DefinedOnce
<1>5. ASSUME NEW k \in 1 .. Len(sf)
      PROVE  /\ bears(k) <=> d = <<k, "label">>
             /\ names(k) <=> d = <<k, "equ">>
  <2>1. bears(k) <=> <<k, "label">> \in Definitions(sf) /\ NameOf(sf, <<k, "label">>) = x.text
    BY <1>1, <1>2, LabelDefines
  <2>2. names(k) <=> <<k, "equ">> \in Definitions(sf) /\ NameOf(sf, <<k, "equ">>) = x.text
    BY <1>1, ConstantDefines, Zenon
  <2> QED
    BY <1>1, <1>3, <2>1, <2>2
<1>6. d[1] \in 1 .. Len(sf) /\ d = <<d[1], d[2]>> /\ d[2] \in {"label", "equ"}
  BY <1>1, DefinitionIs
<1>7. CASE d[2] = "label"
  <2>1. bears(d[1])
    BY <1>5, <1>6, <1>7
  <2> DEFINE k == CHOOSE k \in 1 .. Len(sf) : bears(k)
  <2>2. k \in 1 .. Len(sf) /\ bears(k)
    BY <1>6, <2>1
  <2>3. k = d[1]
    <3> HIDE DEF k, bears
    <3>1. d = <<k, "label">>
      BY <1>5, <2>2
    <3> QED
      BY <3>1
  <2>4. Stands(x) = parsed[k].address
    BY <1>6, <2>1 DEF Stands
  <2>5. Meaning(sf, x.text) = Addresses(sf)[d[1]]
    BY <1>4, <1>7 DEF ValueOf
  <2> HIDE DEF k
  <2>6. Stands(x) = Meaning(sf, x.text) /\ Stands(x) \in uint16_t
    <3>1. d[1] \in 1 .. Len(sf) + 1
      BY <1>1, <1>6
    <3> QED
      BY <1>1, <2>2, <2>3, <2>4, <2>5, <3>1
  <2> QED
    BY <2>6 DEF IsFor, uint16_t
<1>8. CASE d[2] = "equ"
  <2>1. names(d[1]) /\ ~\E k \in 1 .. Len(sf) : bears(k)
    BY <1>5, <1>6, <1>8
  <2>2. PICK k \in 1 .. Len(sf) : names(k) /\ k = CHOOSE j \in 1 .. Len(sf) : names(j)
    BY <1>6, <2>1
  <2>3. PICK y : y = Written(sf[k])[3]
    OBVIOUS
  <2>4. Stands(x) = Amount(y) /\ d = <<k, "equ">>
    BY <1>5, <1>6, <2>1, <2>2, <2>3 DEF Stands
  <2>5. /\ ValueOf(sf, d) = Low16(parse_number(y.text)) /\ y.text \in Numbers
        /\ \E j \in 1 .. Len(sf[k]) : y = sf[k][j] /\ sf[k][j].class = "number"
    <3>1. sf[k] \in Seq(Lexemes(Name)) /\ Readable(sf[k])
      BY <1>1, <2>2
    <3> QED
      BY <2>2, <2>3, <2>4, <3>1, ConstantDefines
  <2>6. parse_number(y.text) = Amount(y) /\ Amount(y) \in Int
    BY <2>2, <2>5, AmountFits
  <2>7. Amount(y) \in WordNumbers
    <3>1. ConstantFits(Written(sf[k]))
      BY <2>2 DEF NumbersFit
    <3> QED
      BY <2>2, <2>3, <3>1 DEF ConstantFits, Names
  <2>8. Meaning(sf, x.text) = Low16(Amount(y)) /\ Low16(Amount(y)) \in Int
    BY <1>4, <2>5, <2>6 DEF Low16
  <2> QED
    BY <2>4, <2>6, <2>7, <2>8 DEF IsFor
<1> QED
  BY <1>6, <1>7, <1>8

(* An operand is the register it names, or the number it stands for.        *)
LEMMA OperandStands ==
  ASSUME AssemblerInv, TranslationInv, Succeeded, NumbersFit,
         NEW k \in 1 .. Len(sf), NEW j \in 1 .. Len(Written(sf[k])),
         NEW x, x = Written(sf[k])[j], IsValue(TokenOf(x)),
         NEW o, o = fill_value_operand(TokenOf(x)),
         o.kind = "OPD_LABEL" => o.val \in DefinedNames(sf)
  PROVE  LET r == Resolved(sf, o)
         IN  \/ r.kind = "OPD_REG" /\ r.val = Stands(x) /\ r.val \in Nat
             \/ r.kind = "OPD_IMM" /\ IsFor(r.val, x) /\ r.val \in Int
<1>1. sf[k] \in Seq(Lexemes(Name)) /\ Readable(sf[k])
  BY SuccessIsProgram
<1>2. /\ x \in Lexemes(Name) /\ x.class \in {"ident", "number", "string"}
      /\ \E h \in 1 .. Len(sf[k]) : x = sf[k][h]
  BY <1>1, BehindIsWritten DEF Readable
<1>3. CASE x.class = "number"
  <2>1. x.text \in Numbers /\ TokenOf(x).kind = "TOK_NUMBER" /\ TokenOf(x).text = x.text
    BY <1>2, <1>3, KindTells
  <2>2. o = Operand("OPD_IMM", parse_number(x.text))
    BY <2>1 DEF fill_value_operand
  <2>3. parse_number(x.text) = Amount(x) /\ Amount(x) \in Int
    BY <1>2, <1>3, <2>1, AmountFits
  <2>4. Stands(x) = Amount(x)
    BY <1>3 DEF Stands
  <2> QED
    BY <2>2, <2>3, <2>4 DEF Resolved, Operand, IsFor
<1>4. CASE x.class # "number"
  <2>1. /\ x.class = "ident" /\ x.text \in Name
        /\ TokenOf(x).kind = "TOK_IDENT" /\ TokenOf(x).text = x.text
    BY <1>2, <1>4, KindTells DEF IsValue
  <2>2. CASE x.text \in DOMAIN registers
    <3>1. o = Operand("OPD_REG", registers[x.text])
      BY <2>1, <2>2 DEF fill_value_operand
    <3>2. registers[x.text] \in Nat
      BY <2>2 DEF registers
    <3>3. Stands(x) = registers[x.text]
      BY <1>4, <2>2 DEF Stands
    <3> QED
      BY <3>1, <3>2, <3>3 DEF Resolved, Operand
  <2>3. CASE x.text \notin DOMAIN registers
    <3>1. o = Operand("OPD_LABEL", x.text)
      BY <2>1, <2>3 DEF fill_value_operand
    <3>2. x.text \in DefinedNames(sf)
      BY <3>1 DEF Operand
    <3>3. IsFor(Meaning(sf, x.text), x) /\ Meaning(sf, x.text) \in Int
      BY <2>1, <2>3, <3>2, NameStands
    <3>4. Resolved(sf, o) = Operand("OPD_IMM", Meaning(sf, x.text))
      BY <3>1 DEF Resolved, Operand
    <3> QED
      BY <3>3, <3>4 DEF Operand
  <2> QED
    BY <2>2, <2>3
<1> QED
  BY <1>3, <1>4

(* The operands of a line, resolved, and what there is to say of them.      *)
ResolvedOf(s, k) == [j \in 1 .. Len(Line(s[k]).ops) |-> Resolved(s, Line(s[k]).ops[j])]

Stand(ops, w) ==
  \A j \in 1 .. Len(ops) :
    /\ ops[j].kind = "OPD_REG" => ops[j].val = Stands(w[j + 1]) /\ ops[j].val \in Nat
    /\ ops[j].kind = "OPD_IMM" => IsFor(ops[j].val, w[j + 1]) /\ ops[j].val \in Int

LEMMA OperandsStand ==
  ASSUME AssemblerInv, TranslationInv, Succeeded, NumbersFit,
         NEW k \in 1 .. Len(sf), IsCode(Written(sf[k]))
  PROVE  LET ops == ResolvedOf(sf, k)
             w   == Written(sf[k])
         IN  /\ Len(w) \in Nat /\ Len(ops) = Len(w) - 1 /\ Stand(ops, w) /\ Typed(ops)
             /\ IsInstr(Line(sf[k])) /\ Line(sf[k]).mnemonic = w[1].text
<1> DEFINE ops == ResolvedOf(sf, k)
           given == Line(sf[k]).ops
           w   == Written(sf[k])
<1>1. sf[k] \in Seq(Lexemes(Name)) /\ Readable(sf[k]) /\ Resolvable(sf, k)
  BY SuccessIsProgram
<1>2. /\ IsInstr(Line(sf[k])) /\ Line(sf[k]).mnemonic = w[1].text
      /\ Len(w) \in Nat \ {0} /\ Len(given) = Len(w) - 1
      /\ \A j \in 1 .. Len(given) :
           IsValue(TokenOf(w[j + 1])) /\ given[j] = fill_value_operand(TokenOf(w[j + 1]))
  BY <1>1, CodeLine
<1>3. \A j \in 1 .. Len(given) : given[j].kind = "OPD_LABEL" => given[j].val \in DefinedNames(sf)
  BY <1>1 DEF Resolvable, References
<1> HIDE DEF w, given
<1>4. Len(given) \in Nat /\ \A j \in 1 .. Len(given) : j + 1 \in 1 .. Len(w)
  BY <1>2
<1>5. ops = [j \in 1 .. Len(given) |-> Resolved(sf, given[j])]
  BY DEF ResolvedOf, given
<1> HIDE DEF ops
<1>6. ops \in [1 .. Len(given) -> {ops[j] : j \in 1 .. Len(given)}]
  BY <1>5
<1>7. Len(ops) = Len(given) /\ \A j \in 1 .. Len(given) : ops[j] = Resolved(sf, given[j])
  BY <1>4, <1>5, <1>6, LengthOfFunction
<1>8. ASSUME NEW j \in 1 .. Len(ops)
      PROVE  \/ ops[j].kind = "OPD_REG" /\ ops[j].val = Stands(w[j + 1]) /\ ops[j].val \in Nat
             \/ ops[j].kind = "OPD_IMM" /\ IsFor(ops[j].val, w[j + 1]) /\ ops[j].val \in Int
  <2>1. j + 1 \in 1 .. Len(w) /\ ops[j] = Resolved(sf, given[j])
    BY <1>4, <1>7
  <2>2. /\ IsValue(TokenOf(w[j + 1])) /\ given[j] = fill_value_operand(TokenOf(w[j + 1]))
        /\ given[j].kind = "OPD_LABEL" => given[j].val \in DefinedNames(sf)
    BY <1>2, <1>3, <1>7
  <2> QED
    BY <2>1, <2>2, OperandStands DEF w
<1>9. Stand(ops, w) /\ Typed(ops)
  BY <1>8 DEF Stand, Typed
<1> QED
  BY <1>2, <1>7, <1>9 DEF ops, w

(* The word of a line of code is what the encoder makes of the operands     *)
(* that stand on it.                                                        *)
LEMMA CodeEncoded ==
  ASSUME AssemblerInv, TranslationInv, Succeeded, NumbersFit,
         NEW k \in 1 .. Len(sf), IsCode(Written(sf[k]))
  PROVE  LET ops == ResolvedOf(sf, k)
             w   == Written(sf[k])
             m   == w[1].text
             e   == Encoding(sf, k)
         IN  /\ Asked(m, ops, Addresses(sf)[k]) /\ Stand(ops, w) /\ Len(w) = nops(m) + 1
             /\ Encoded(m, ops, Addresses(sf)[k]) = Ok(e.word)
<1> DEFINE ops == ResolvedOf(sf, k)
           w   == Written(sf[k])
           a   == Addresses(sf)[k]
<1>1. Resolvable(sf, k) /\ a \in Nat
  <2>1. Resolvable(sf, k) /\ Len(sf) \in Nat /\ \A j \in 1 .. Len(sf) + 1 : Addresses(sf)[j] \in uint16_t
    BY SuccessIsProgram
  <2>2. k \in 1 .. Len(sf) + 1
    BY <2>1
  <2> QED
    BY <2>1, <2>2, Uint16Nat
<1>2. /\ Len(w) \in Nat /\ Len(ops) = Len(w) - 1 /\ Stand(ops, w) /\ Typed(ops)
      /\ IsInstr(Line(sf[k])) /\ Line(sf[k]).mnemonic = w[1].text
  BY OperandsStand
<1>3. Encoding(sf, k) = encode_instr(w[1].text, ops, a)
  BY <1>2 DEF Encoding, ResolvedOf
<1>4. Encoding(sf, k).rc = "ERR_OK"
  BY <1>1, <1>2 DEF Resolvable
<1> HIDE DEF ops, w, a
<1>5. Asked(w[1].text, ops, a) /\ Encoding(sf, k) = Encoded(w[1].text, ops, a)
  BY <1>1, <1>2, <1>3, <1>4, Accepted
<1>6. Encoded(w[1].text, ops, a) = Ok(Encoding(sf, k).word)
  BY <1>4, <1>5, EncodedOk
<1>7. Len(w) = nops(w[1].text) + 1
  BY <1>2, <1>5 DEF Asked
<1> QED
  BY <1>2, <1>5, <1>6, <1>7 DEF ops, w, a

(* A low half that is small is all there was.                               *)
LEMMA LowHalf ==
  ASSUME NEW h \in Nat, h > 15, NEW M \in Nat \ {0}, M = 2 * h,
         NEW v \in Int, 0 - h <= v, v < M
  PROVE  v % M \in Nat /\ (v % M <= 15 => v = v % M)
<1>1. CASE v >= 0
  <2>1. v \in 0 .. M - 1 /\ v = M * 0 + v
    BY <1>1
  <2>2. v % M = v
    BY <2>1, RemainderUnique
  <2> QED
    BY <1>1, <2>2
<1>2. CASE v < 0
  <2>1. v + M \in 0 .. M - 1 /\ v = M * (0 - 1) + (v + M) /\ v + M > 15
    BY <1>2
  <2>2. v % M = v + M
    <3>1. 0 - 1 \in Int
      OBVIOUS
    <3> QED
      BY <2>1, <3>1, RemainderUnique
  <2> QED
    BY <2>1, <2>2
<1> QED
  BY <1>1, <1>2

LEMMA SmallIsWritten ==
  ASSUME NEW x, NEW v \in Int, IsFor(v, x), v <= 15
  PROVE  v = Stands(x)
<1>1. PICK h, u, M : h = 32768 /\ u = 65535 /\ M = 65536
  OBVIOUS
<1>2. h \in Nat /\ h > 15 /\ u \in Int /\ M \in Nat \ {0} /\ M = 2 * h /\ M = u + 1
  BY <1>1
<1>3. WordNumbers = -h .. u
  BY <1>1, SMT DEF WordNumbers
<1>4. \A n : Low16(n) = n % M
  BY <1>1 DEF Low16
<1>5. SUFFICES ASSUME Stands(x) \in WordNumbers, v = Low16(Stands(x)) PROVE v = Stands(x)
  BY DEF IsFor
<1>6. PICK n : n = Stands(x)
  OBVIOUS
<1>7. n \in -h .. u /\ v = n % M
  BY <1>3, <1>4, <1>5, <1>6, Zenon
<1>8. n \in Int /\ 0 - h <= n /\ n < M
  BY <1>2, <1>7
<1> QED
  BY <1>2, <1>6, <1>7, <1>8, LowHalf

(* An offset that was taken leads to the line, whatever high bits the       *)
(* number had.                                                              *)
LEMMA JumpReaches ==
  ASSUME NEW x, NEW v \in Int, IsFor(v, x), NEW a \in Nat
  PROVE  (a + 1 + Distance(v, a) - Stands(x)) % 65536 = 0
<1>1. PICK M, z : M = 65536 /\ z = Stands(x)
  OBVIOUS
<1>2. M \in Nat \ {0} /\ z \in Int /\ \A n : Low16(n) = n % M
  BY <1>1 DEF Low16, IsFor
<1>3. v = z \/ v = z % M
  BY <1>1, <1>2 DEF IsFor
<1>4. a + 1 + Distance(v, a) - z = v - z
  BY <1>2 DEF Distance
<1>5. \E q \in Int : v - z = M * q + 0
  <2>1. CASE v = z
    <3>1. v - z = M * 0 + 0
      BY <1>2, <2>1
    <3> QED
      BY <3>1
  <2>2. CASE v = z % M
    <3>1. PICK q \in Int : z = M * q + v
      BY <1>2, <2>2, Division
    <3>2. 0 - q \in Int /\ M * (0 - q) = 0 - M * q /\ M * q \in Int
      BY <1>2
    <3>3. v - z = M * (0 - q) + 0
      BY <1>2, <3>1, <3>2
    <3> QED
      BY <3>2, <3>3
  <2> QED
    BY <1>3, <2>1, <2>2
<1>6. (v - z) % M = 0
  <2>1. 0 \in 0 .. M - 1
    BY <1>2
  <2> QED
    BY <1>2, <1>5, <2>1, RemainderUnique
<1> QED
  BY <1>1, <1>4, <1>6

LEMMA SmallImmediate == ASSUME NEW w \in uint16_t PROVE Fields(w).imm <= 15
<1>1. w \in Nat
  BY Uint16Nat
<1>2. w % 32 \in 0 .. 31
  BY <1>1
<1>3. Signed(w % 32, 16) <= 15
  BY <1>2 DEF Signed
<1> QED
  BY <1>3, FieldsOf DEF INSTR_IMM5

(* A word that carries operands says the line that they stand on.           *)
LEMMA CarriedIsSaid ==
  ASSUME NEW m, NEW ops, NEW w, NEW a \in Nat, Asked(m, ops, a), Stand(ops, w),
         m = w[1].text, Len(w) = nops(m) + 1,
         NEW word, Encoded(m, ops, a) = Ok(word)
  PROVE  Says(Fields(word), a, w)
<1>1. word \in uint16_t /\ Carries(Fields(word), m, ops)
  BY EncodedCarries
<1>2. PICK f : f = Fields(word)
  OBVIOUS
<1>3. f.imm <= 15
  BY <1>1, <1>2, SmallImmediate
<1>4. \A j \in 1 .. Len(ops) :
        /\ Wants(m)[j] = "OPD_REG" => ops[j].val = Stands(w[j + 1])
        /\ Wants(m)[j] = "OPD_IMM" => IsFor(ops[j].val, w[j + 1]) /\ ops[j].val \in Int
  BY DEF Asked, Stand
<1>5. Len(ops) = nops(m) /\ m \in Mnemonic
  BY DEF Asked
<1>6. ASSUME m \in FMT_R3 \cup FMT_R2 \cup FMT_I3
      PROVE  f.rd = Stands(w[2]) /\ f.rs1 = Stands(w[3])
  <2>1. Len(ops) >= 2 /\ Wants(m)[1] = "OPD_REG" /\ Wants(m)[2] = "OPD_REG"
    BY <1>5, <1>6 DEF Wants, nops, FMT_R3, FMT_R2, FMT_R_CMP, FMT_I3, FMT_I_MOV, FMT_J, FMT_NONE
  <2>2. 1 \in 1 .. Len(ops) /\ 2 \in 1 .. Len(ops) /\ 1 + 1 = 2 /\ 2 + 1 = 3
    BY <1>5, <2>1 DEF nops
  <2> QED
    BY <1>1, <1>2, <1>4, <1>6, <2>1, <2>2 DEF Carries
<1>7. ASSUME m \in FMT_R3 PROVE f.rs2 = Stands(w[4])
  <2>1. Len(ops) = 3 /\ Wants(m)[3] = "OPD_REG"
    BY <1>5, <1>7 DEF Wants, nops
  <2>2. 3 \in 1 .. Len(ops) /\ 3 + 1 = 4
    BY <2>1
  <2> QED
    BY <1>1, <1>2, <1>4, <1>7, <2>1, <2>2 DEF Carries
<1>8. ASSUME m \in FMT_R_CMP PROVE f.rs1 = Stands(w[2]) /\ f.rs2 = Stands(w[3])
  <2>1. Len(ops) = 2 /\ Wants(m)[1] = "OPD_REG" /\ Wants(m)[2] = "OPD_REG"
    BY <1>5, <1>8 DEF Wants, nops, FMT_R3, FMT_R2, FMT_R_CMP, FMT_I3, FMT_I_MOV, FMT_J, FMT_NONE
  <2>2. 1 \in 1 .. Len(ops) /\ 2 \in 1 .. Len(ops) /\ 1 + 1 = 2 /\ 2 + 1 = 3
    BY <2>1
  <2> QED
    BY <1>1, <1>2, <1>4, <1>8, <2>1, <2>2 DEF Carries
<1>9. ASSUME m \in FMT_I3 PROVE f.imm = Stands(w[4])
  <2>1. Len(ops) = 3 /\ Wants(m)[3] = "OPD_IMM"
    BY <1>5, <1>9 DEF Wants, nops, FMT_R3, FMT_I3
  <2>2. 3 \in 1 .. Len(ops) /\ 3 + 1 = 4
    BY <2>1
  <2>3. f.imm = ops[3].val
    BY <1>1, <1>2, <1>9 DEF Carries
  <2> QED
    BY <1>3, <1>4, <2>1, <2>2, <2>3, SmallIsWritten
<1>10. ASSUME m \in FMT_I_MOV PROVE f.rd = Stands(w[2]) /\ f.imm = Stands(w[3])
  <2>1. Len(ops) = 2 /\ Wants(m)[1] = "OPD_REG" /\ Wants(m)[2] = "OPD_IMM"
    BY <1>5, <1>10 DEF Wants, nops, FMT_R3, FMT_I3, FMT_I_MOV
  <2>2. 1 \in 1 .. Len(ops) /\ 2 \in 1 .. Len(ops) /\ 1 + 1 = 2 /\ 2 + 1 = 3
    BY <2>1
  <2>3. f.imm = ops[2].val /\ f.rd = ops[1].val
    BY <1>1, <1>2, <1>10 DEF Carries
  <2> QED
    BY <1>3, <1>4, <2>1, <2>2, <2>3, SmallIsWritten
<1>11. ASSUME m \in FMT_J PROVE (a + 1 + f.off - Stands(w[2])) % 65536 = 0
  <2>1. Len(ops) = 1 /\ Wants(m)[1] = "OPD_IMM"
    BY <1>5, <1>11 DEF Wants, nops, FMT_R3, FMT_R2, FMT_R_CMP, FMT_I3, FMT_I_MOV, FMT_J
  <2>2. 1 \in 1 .. Len(ops) /\ 1 + 1 = 2
    BY <2>1
  <2>3. IsFor(ops[1].val, w[2]) /\ ops[1].val \in Int
    BY <1>4, <2>1, <2>2
  <2>4. m \notin FMT_R3 \cup FMT_R2 \cup FMT_R_CMP \cup FMT_I3 \cup FMT_I_MOV
    BY <1>11 DEF FMT_R3, FMT_R2, FMT_R_CMP, FMT_I3, FMT_I_MOV, FMT_J
  <2>5. encode_J(op_defs[m], Distance(ops[1].val, a)) = Ok(word)
    BY <1>11, <2>4 DEF Encoded
  <2>6. op_defs[m] \in 0 .. 31 /\ Distance(ops[1].val, a) \in Int
    BY <1>5, <2>3, Opcodes DEF Distance
  <2>7. f.off = Distance(ops[1].val, a)
    <3>1. PICK o, d : o = op_defs[m] /\ d = Distance(ops[1].val, a)
      OBVIOUS
    <3>2. JWord(word, o, d)
      BY <2>5, <2>6, <3>1, encode_J_Fields
    <3> QED
      BY <1>2, <3>1, <3>2 DEF JWord
  <2> QED
    BY <2>3, <2>7, JumpReaches
<1>12. f.op = op_defs[m]
  BY <1>1, <1>2 DEF Carries
<1>13. Says(f, a, w)
  <2>1. 1 + 1 = 2 /\ 2 + 1 = 3 /\ 3 + 1 = 4
    OBVIOUS
  <2>2. PICK v1, v2, v3 : v1 = Stands(w[1 + 1]) /\ v2 = Stands(w[2 + 1]) /\ v3 = Stands(w[3 + 1])
    OBVIOUS
  <2>3. v1 = Stands(w[2]) /\ v2 = Stands(w[3]) /\ v3 = Stands(w[4])
    BY <2>1, <2>2
  <2>4. PICK n : n = w[1].text /\ n = m
    OBVIOUS
  <2>5. /\ f.op = op_defs[n] /\ Len(w) = nops(n) + 1
        /\ n \in FMT_R3 \cup FMT_R2 \cup FMT_I3 => f.rd = v1 /\ f.rs1 = v2
        /\ n \in FMT_R3 => f.rs2 = v3
        /\ n \in FMT_R_CMP => f.rs1 = v1 /\ f.rs2 = v2
        /\ n \in FMT_I3 => f.imm = v3
        /\ n \in FMT_I_MOV => f.rd = v1 /\ f.imm = v2
        /\ n \in FMT_J => (a + 1 + f.off - v1) % 65536 = 0
    BY <1>6, <1>7, <1>8, <1>9, <1>10, <1>11, <1>12, <2>3, <2>4
  <2> QED
    BY <2>2, <2>4, <2>5 DEF Says
<1> QED
  BY <1>2, <1>13

-----------------------------------------------------------------------------
(* In a source that only goes forward every line lies behind those before   *)
(* it, whole.                                                               *)
LEMMA ForwardClimbs ==
  ASSUME NEW n \in Nat, NEW at, NEW size,
         \A k \in 1 .. n + 1 : at[k] \in Nat,
         \A k \in 1 .. n : size[k] \in Nat /\ at[k] + size[k] <= at[k + 1],
         NEW k \in 1 .. n, NEW j \in k + 1 .. n + 1
  PROVE  at[k] + size[k] <= at[j]
<1> DEFINE S == {d \in Nat : k + 1 + d <= n + 1 => at[k] + size[k] <= at[k + 1 + d]}
<1>1. 0 \in S
  <2>1. k + 1 + 0 = k + 1
    OBVIOUS
  <2> QED
    BY <2>1
<1>2. ASSUME NEW d \in Nat, d \in S PROVE d + 1 \in S
  <2> SUFFICES ASSUME k + 1 + (d + 1) <= n + 1
               PROVE  at[k] + size[k] <= at[k + 1 + (d + 1)]
    OBVIOUS
  <2>1. PICK h : h = k + 1 + d
    OBVIOUS
  <2>2. h \in 1 .. n /\ h + 1 \in 1 .. n + 1 /\ k + 1 + (d + 1) = h + 1 /\ h <= n + 1
    BY <2>1
  <2>3. at[k] + size[k] <= at[h]
    BY <1>2, <2>1, <2>2
  <2>4. at[h] \in Nat /\ at[h + 1] \in Nat /\ size[h] \in Nat /\ at[h] + size[h] <= at[h + 1]
    BY <2>2
  <2>5. at[k] \in Nat /\ size[k] \in Nat
    OBVIOUS
  <2>6. at[k] + size[k] <= at[h + 1]
    BY <2>3, <2>4, <2>5
  <2> QED
    BY <2>2, <2>6
<1> HIDE DEF S
<1>3. j - (k + 1) \in S
  <2>1. j - (k + 1) \in Nat
    OBVIOUS
  <2> QED
    BY <1>1, <1>2, <2>1, AllByStep
<1>4. k + 1 + (j - (k + 1)) = j /\ j <= n + 1
  OBVIOUS
<1> QED
  BY <1>3, <1>4 DEF S

(* So the word of a line of code is still there at the end.                 *)
LEMMA CodeStays ==
  ASSUME AssemblerInv, TranslationInv, Succeeded, Forward,
         NEW k \in 1 .. Len(sf), IsInstr(Line(sf[k]))
  PROVE  image[Addresses(sf)[k]] = Encoding(sf, k).word
<1> DEFINE at   == Addresses(sf)
           size == [h \in 1 .. Len(sf) |-> Size(Line(sf[h]))]
           n    == Len(sf)
           a    == at[k]
<1>1. /\ n \in Nat /\ \A h \in 1 .. n : sf[h] \in Seq(Lexemes(Name))
      /\ \A h \in 1 .. n : Readable(sf[h])
      /\ \A h \in 1 .. n + 1 : at[h] \in uint16_t
      /\ ImageHolds(sf, image, n)
  BY SuccessIsProgram
<1>2. \A h \in 1 .. n : size[h] \in Nat /\ Len(Words(sf, h)) = size[h]
  <2> TAKE h \in 1 .. n
  <2>1. GoodLine(Line(sf[h]))
    BY <1>1, LineIsSound DEF Readable
  <2> QED
    BY <2>1, WordsLong
<1>3. \A h \in 1 .. n : at[h] + size[h] <= at[h + 1]
  BY DEF Forward
<1>4. Words(sf, k) = <<Encoding(sf, k).word>> /\ Len(Words(sf, k)) = 1
  BY OneWordLong DEF Words
<1> HIDE DEF at, size, n, a
<1>5. k \in 1 .. n /\ k \in 1 .. n + 1 /\ a = at[k] /\ a \in uint16_t
  <2>1. k \in 1 .. n
    BY DEF n
  <2> QED
    BY <1>1, <2>1 DEF a
<1>6. PICK M : M = 65536
  OBVIOUS
<1>7. M \in Nat \ {0} /\ \A v \in uint16_t : v \in Nat /\ v < M
  BY <1>6 DEF uint16_t
<1>8. \A h : Covers(sf, h, a) <=> (a - at[h]) % M < Len(Words(sf, h))
  BY <1>6 DEF Covers, at
<1>9. (a - a) % M = 0 /\ (a - at[k]) % M = 0
  BY <1>5, <1>7
<1>10. Covers(sf, k, a)
  <2>1. Covers(sf, k, a) <=> (a - at[k]) % M < Len(Words(sf, k))
    BY <1>8, Zenon
  <2>2. (a - at[k]) % M < Len(Words(sf, k))
    <3>1. 0 < 1
      OBVIOUS
    <3> QED
      BY <1>4, <1>9, <3>1, Zenon
  <2> QED
    BY <2>1, <2>2
<1>11. a \in DOMAIN image
  <2>1. a \in Room(a, 1)
    <3>1. (a - a) % 65536 < 1
      BY <1>6, <1>9
    <3> QED
      BY <1>5, <3>1, RoomIsCovered
  <2>2. a \in Cells(sf, k)
    BY <1>4, <1>5, <2>1 DEF Cells, at
  <2> QED
    BY <1>1, <1>5, <2>2 DEF ImageHolds
<1>12. PICK h \in 1 .. n : LastIn(sf, h, a, n) /\ image[a] = WordAt(sf, h, a)
  BY <1>1, <1>11 DEF ImageHolds
<1>13. ~(h < k)
  <2> SUFFICES ASSUME h < k PROVE FALSE
    OBVIOUS
  <2>1. k \in h + 1 .. n
    BY <1>1, <1>5
  <2> QED
    BY <1>10, <1>12, <2>1 DEF LastIn
<1>14. ~(h > k)
  <2> SUFFICES ASSUME h > k PROVE FALSE
    OBVIOUS
  <2>1. h \in k + 1 .. n + 1 /\ h + 1 \in 1 .. n + 1
    BY <1>1, <1>5
  <2>2. /\ \A c \in 1 .. n + 1 : at[c] \in Nat
        /\ \A c \in 1 .. n : size[c] \in Nat /\ at[c] + size[c] <= at[c + 1]
    BY <1>1, <1>2, <1>3, <1>7
  <2>3. at[k] + size[k] <= at[h]
    BY <1>1, <1>5, <2>1, <2>2, ForwardClimbs
  <2>4. size[k] = 1 /\ size[h] \in Nat /\ at[h] + size[h] <= at[h + 1]
    BY <1>2, <1>4, <1>5, <2>2
  <2>5. at[h] \in Nat /\ at[h + 1] \in Nat /\ at[h + 1] < M /\ a \in Nat /\ a = at[k]
    BY <1>1, <1>5, <1>7, <2>1, <2>2
  <2>6. PICK p, q : p = at[h] /\ q = at[h + 1]
    OBVIOUS
  <2>7. p \in Nat /\ q \in Nat /\ q < M /\ a \in Nat /\ a + 1 <= p /\ p + size[h] <= q
    BY <2>3, <2>4, <2>5, <2>6
  <2>8. a - p + M \in 0 .. M - 1 /\ a - p = M * (0 - 1) + (a - p + M)
    <3>1. p <= q
      BY <2>4, <2>7
    <3> QED
      BY <1>7, <2>7, <3>1
  <2>9. (a - p) % M = a - p + M
    <3>1. 0 - 1 \in Int
      OBVIOUS
    <3> QED
      BY <1>7, <2>8, <3>1, RemainderUnique
  <2>10. (a - p) % M < size[h]
    BY <1>2, <1>8, <1>12, <2>6 DEF LastIn
  <2> QED
    BY <1>7, <2>4, <2>7, <2>9, <2>10
<1>15. h = k
  BY <1>5, <1>12, <1>13, <1>14
<1>16. image[a] = Words(sf, k)[((a - a) % 65536) + 1]
  BY <1>5, <1>12, <1>15 DEF WordAt, at
<1>17. image[a] = Words(sf, k)[1]
  BY <1>6, <1>9, <1>16
<1> QED
  BY <1>4, <1>17 DEF a, at

LEMMA SourceIsSaid == AssemblerInv /\ TranslationInv => CodeSaysSource
<1> SUFFICES ASSUME AssemblerInv, TranslationInv, Succeeded, Forward, NumbersFit,
                    NEW k \in 1 .. Len(sf), IsCode(Written(sf[k]))
             PROVE  Says(Fields(image[parsed[k].address]), parsed[k].address, Written(sf[k]))
  BY DEF CodeSaysSource
<1> DEFINE a   == Addresses(sf)[k]
           w   == Written(sf[k])
           ops == ResolvedOf(sf, k)
           e   == Encoding(sf, k)
<1>1. parsed[k].address = a
  BY SuccessIsProgram
<1>2. /\ Asked(w[1].text, ops, a) /\ Stand(ops, w) /\ Len(w) = nops(w[1].text) + 1
      /\ Encoded(w[1].text, ops, a) = Ok(e.word)
  BY CodeEncoded
<1>3. image[a] = e.word
  <2>1. IsInstr(Line(sf[k]))
    BY OperandsStand
  <2> QED
    BY <2>1, CodeStays
<1> HIDE DEF a, w, ops, e
<1>4. a \in Nat
  BY <1>2 DEF Asked
<1>5. Says(Fields(e.word), a, w)
  BY <1>2, <1>4, CarriedIsSaid
<1> QED
  BY <1>1, <1>3, <1>5 DEF w

(* From text to processor, whatever the source: if its addresses only go    *)
(* forward and its numbers fit, the word at the address of every line of    *)
(* code decodes to the mnemonic, registers and numbers that are written     *)
(* there, and a jump leads to the line that bears its label.                *)
THEOREM BinarySaysSource == WholeNames => (ASpec => []CodeSaysSource)
<1> SUFFICES ASSUME WholeNames PROVE ASpec => []CodeSaysSource
  OBVIOUS
<1>1. ASpec => [](AssemblerInv /\ TranslationInv)
  BY TranslationHolds
<1> QED
  BY <1>1, SourceIsSaid, PTL

-----------------------------------------------------------------------------
(* The command line *)

(* The equation of IsFileName, as far as the n-th argument. *)
NamedUpTo(l, g, n) ==
  g = [k \in 0 .. n |-> k > 1 /\ l[k - 1] = Option("-o") /\ ~g[k - 1]]

(* A function satisfies it, whatever n. *)
LEMMA NamesExist == ASSUME NEW l PROVE \A n \in Nat : \E g : NamedUpTo(l, g, n)
<1> DEFINE S == {n \in Nat : \E g : NamedUpTo(l, g, n)}
           value(k, g) == k > 1 /\ l[k - 1] = Option("-o") /\ ~g[k - 1]
<1>1. 0 \in S
  <2> DEFINE g == [k \in 0 .. 0 |-> FALSE]
             f == [k \in 0 .. 0 |-> value(k, g)]
  <2>1. \A k \in 0 .. 0 : ~(k > 1)
    OBVIOUS
  <2>2. \A k \in 0 .. 0 : FALSE = value(k, g)
    BY <2>1, Zenon
  <2>3. g = f
    <3> HIDE DEF value
    <3> QED
      BY <2>2, Zenon
  <2>4. NamedUpTo(l, g, 0)
    BY <2>3, Zenon DEF NamedUpTo
  <2> QED
    BY <2>4
<1>2. ASSUME NEW n \in Nat, n \in S PROVE n + 1 \in S
  <2>1. PICK g : NamedUpTo(l, g, n)
    BY <1>2
  <2> DEFINE D == 0 .. n + 1
             h == [k \in D |-> value(k, g)]
             f == [k \in D |-> value(k, h)]
  <2>2. 0 .. n \subseteq D /\ \A k \in D : k > 1 => k - 1 \in 0 .. n
    OBVIOUS
  <2>3. \A k \in 0 .. n : h[k] = g[k]
    <3>1. \A k \in 0 .. n : g[k] = value(k, g)
      BY <2>1, Zenon DEF NamedUpTo
    <3> HIDE DEF D, value
    <3> QED
      BY <2>2, <3>1
  <2> HIDE DEF D, h
  <2>4. \A k \in D : value(k, g) = value(k, h)
    BY <2>2, <2>3
  <2>5. h = f
    <3> HIDE DEF value
    <3> QED
      BY <2>4, Zenon DEF h
  <2>6. NamedUpTo(l, h, n + 1)
    BY <2>5, Zenon DEF NamedUpTo, D
  <2> QED
    BY <2>6
<1> HIDE DEF S
<1>3. \A n \in Nat : n \in S
  BY <1>1, <1>2, AllByStep
<1> QED
  BY <1>3 DEF S

(* A file name is what follows a -o that is none itself. *)
LEMMA NamesFollow ==
  ASSUME NEW l, Len(l) \in Nat
  PROVE  \A k \in 1 .. Len(l) :
           IsFileName(l)[k] = (k > 1 /\ l[k - 1] = Option("-o") /\ ~IsFileName(l)[k - 1])
<1>1. \E g : NamedUpTo(l, g, Len(l))
  BY NamesExist
<1>2. IsFileName(l) = CHOOSE g : NamedUpTo(l, g, Len(l))
  BY DEF IsFileName, NamedUpTo
<1>3. NamedUpTo(l, IsFileName(l), Len(l))
  BY <1>1, <1>2
<1>4. 1 .. Len(l) \subseteq 0 .. Len(l)
  OBVIOUS
<1> QED
  BY <1>3, <1>4, Zenon DEF NamedUpTo

LEMMA OwnFollows ==
  ASSUME NEW l, Len(l) \in Nat, NEW k \in 1 .. Len(l)
  PROVE  /\ k \in Own(l) <=> k \notin Outputs(l)
         /\ k = 1 => k \in Own(l)
         /\ k > 1 => (k \in Outputs(l) <=> l[k - 1] = Option("-o") /\ k - 1 \in Own(l))
<1>1. k \in Own(l) <=> ~IsFileName(l)[k]
  BY DEF Own
<1>2. k \in Outputs(l) <=> k \notin Own(l)
  BY DEF Outputs
<1>3. k > 1 => (k - 1 \in Own(l) <=> ~IsFileName(l)[k - 1])
  <2>1. k > 1 => k - 1 \in 1 .. Len(l)
    OBVIOUS
  <2> QED
    BY <2>1 DEF Own
<1>4. IsFileName(l)[k] <=> k > 1 /\ l[k - 1] = Option("-o") /\ ~IsFileName(l)[k - 1]
  BY NamesFollow, Zenon
<1>5. k = 1 => ~(k > 1)
  OBVIOUS
<1> QED
  BY <1>1, <1>2, <1>3, <1>4, <1>5, Zenon

(* How many arguments have been read. *)
Seen == Len(line) - Len(argv)

Left ==
  /\ Len(line) \in Nat /\ Len(argv) \in 0 .. Len(line)
  /\ \A j \in 1 .. Len(argv) : argv[j] = line[Seen + j]

(* Where main is in its command line: what is left of it begins with an     *)
(* argument in its own right; none of those before it ends the program, and *)
(* they say what source and output are.                                     *)
ReadInv ==
  /\ Left
  /\ argv # <<>> => Seen + 1 \in Own(line)
  /\ \A k \in Ending(line) : k > Seen
  /\ IF source = NoPath
       THEN \A k \in Sources(line) : k > Seen
       ELSE \E k \in Sources(line) : k <= Seen /\ source = line[k]
  /\ IF output = NoPath
       THEN \A k \in Outputs(line) : k > Seen
       ELSE \E k \in Outputs(line) :
              k <= Seen /\ output = line[k] /\ \A j \in Outputs(line) : j <= Seen => j <= k

LEMMA Suffix ==
  ASSUME NEW S, NEW s \in Seq(S), NEW d \in 1 .. Len(s), NEW t, t = SubSeq(s, d + 1, Len(s))
  PROVE  /\ t \in Seq(S) /\ Len(t) = Len(s) - d
         /\ \A j \in 1 .. Len(s) - d : t[j] = s[d + j]
<1> DEFINE n == Len(s)
<1>1. n \in Nat /\ d + 1 \in 1 .. n + 1 /\ n \in d .. n
  OBVIOUS
<1>2. \A j \in d + 1 .. n : s[j] \in S
  OBVIOUS
<1>3. /\ SubSeq(s, d + 1, n) \in Seq(S)
      /\ Len(SubSeq(s, d + 1, n)) = IF d + 1 <= n THEN n - (d + 1) + 1 ELSE 0
      /\ \A j \in 1 .. n - (d + 1) + 1 : SubSeq(s, d + 1, n)[j] = s[(d + 1) + j - 1]
  BY <1>1, <1>2, SubSeqProperties
<1> HIDE DEF n
<1>4. /\ (IF d + 1 <= n THEN n - (d + 1) + 1 ELSE 0) = n - d /\ n - (d + 1) + 1 = n - d
      /\ \A j \in 1 .. n - d : (d + 1) + j - 1 = d + j
  BY <1>1
<1> QED
  BY <1>3, <1>4 DEF n

LEMMA Advanced ==
  ASSUME Left, argv \in Seq(Path), NEW d \in {1, 2}, d <= Len(argv),
         argv' = SubSeq(argv, d + 1, Len(argv)), line' = line
  PROVE  Left' /\ Seen' = Seen + d /\ (argv' # <<>> => Seen + d + 1 \in 1 .. Len(line))
<1> DEFINE n == Len(line)
           a == Len(argv)
<1>1. n \in Nat /\ a \in Nat /\ a <= n /\ d \in Nat /\ d <= a
  BY DEF Left
<1>2. /\ Len(argv') = a - d /\ argv' \in Seq(Path)
      /\ \A j \in 1 .. a - d : argv'[j] = argv[d + j]
  <2>1. d \in 1 .. Len(argv)
    BY <1>1
  <2> QED
    BY <2>1, Suffix
<1>3. Seen = n - a /\ \A j \in 1 .. a : argv[j] = line[Seen + j]
  BY DEF Left, Seen
<1>4. Seen' = Len(line) - Len(argv')
  BY DEF Seen
<1> HIDE DEF n, a
<1>5. Seen' = n - (a - d) /\ n - (a - d) = Seen + d /\ a - d \in 0 .. n
  BY <1>1, <1>2, <1>3, <1>4 DEF n
<1>6. ASSUME NEW j \in 1 .. a - d PROVE argv'[j] = line[(Seen + d) + j]
  <2>1. d + j \in 1 .. a /\ Seen + (d + j) = (Seen + d) + j
    BY <1>1, <1>3
  <2> QED
    BY <1>2, <1>3, <2>1
<1>7. argv' # <<>> => Seen + d + 1 \in 1 .. n
  <2>1. argv' # <<>> => a - d > 0
    BY <1>2
  <2> QED
    BY <1>1, <1>3, <2>1
<1> QED
  BY <1>1, <1>2, <1>5, <1>6, <1>7 DEF Left, n

(* The next argument. *)
LEMMA NextArgument ==
  ASSUME ReadInv, argv \in Seq(Path), argv # <<>>
  PROVE  /\ Len(line) \in Nat /\ Seen \in Nat
         /\ Seen + 1 \in Own(line) /\ Seen + 1 \in 1 .. Len(line)
         /\ Head(argv) = line[Seen + 1] /\ Len(argv) \in Nat \ {0}
         /\ Len(argv) = 1 <=> Seen + 1 = Len(line)
         /\ Len(argv) > 1 => argv[2] = line[Seen + 2] /\ Seen + 2 \in 1 .. Len(line)
         /\ \A k \in Own(line) \cup Outputs(line) : k \in 1 .. Len(line)
<1> DEFINE n == Len(line)
           a == Len(argv)
<1>1. n \in Nat /\ a \in 1 .. n /\ Head(argv) = argv[1] /\ Seen = n - a
  BY DEF ReadInv, Left, Seen
<1>2. \A j \in 1 .. a : argv[j] = line[Seen + j]
  BY DEF ReadInv, Left
<1>3. Seen + 1 \in Own(line)
  BY DEF ReadInv
<1>4. \A k \in Own(line) \cup Outputs(line) : k \in 1 .. n
  BY DEF Own, Outputs
<1> HIDE DEF n, a
<1>5. /\ Seen \in Nat /\ a \in Nat \ {0} /\ Seen + 1 \in 1 .. n /\ 1 \in 1 .. a
      /\ a = 1 <=> Seen + 1 = n
      /\ a > 1 => Seen + 2 \in 1 .. n /\ 2 \in 1 .. a
  BY <1>1
<1> QED
  BY <1>1, <1>2, <1>3, <1>4, <1>5 DEF n, a

LEMMA Options ==
  /\ \A o \in Helps \cup Switches : o.dash /\ o # Option("-o")
  /\ Option("-o").dash /\ Helps \cap Switches = {}
<1>1. /\ \A name : Option(name).dash /\ Option(name).stem = name
      /\ "-h" # "-o" /\ "--help" # "-o" /\ "--listing" # "-o" /\ "--symbols" # "-o"
      /\ "-h" # "--listing" /\ "-h" # "--symbols"
      /\ "--help" # "--listing" /\ "--help" # "--symbols"
  BY DEF Option
<1> QED
  BY <1>1 DEF Helps, Switches

LEMMA ReadOne ==
  ASSUME ReadInv, argv \in Seq(Path), argv # <<>>, line[Seen + 1] # Option("-o"),
         Seen + 1 \notin Ending(line),
         argv' = SubSeq(argv, 1 + 1, Len(argv)), line' = line, output' = output,
         \/ source' = source /\ Seen + 1 \notin Sources(line)
         \/ /\ source = NoPath /\ source' = line[Seen + 1] /\ source' # NoPath
            /\ Seen + 1 \in Sources(line)
  PROVE  ReadInv'
<1> DEFINE s == Seen
           n == Len(line)
<1>1. /\ n \in Nat /\ s \in Nat /\ s + 1 \in Own(line) /\ s + 1 \in 1 .. n
      /\ \A k \in Own(line) \cup Outputs(line) : k \in 1 .. n
      /\ Len(argv) \in Nat \ {0}
  BY NextArgument
<1>2. Left' /\ Seen' = s + 1 /\ (argv' # <<>> => s + 1 + 1 \in 1 .. n)
  <2>1. 1 <= Len(argv)
    BY <1>1
  <2> QED
    BY <2>1, Advanced DEF ReadInv
<1>3. ASSUME argv' # <<>> PROVE s + 1 + 1 \in Own(line)
  <2>1. s + 1 + 1 \in 1 .. n /\ s + 1 + 1 > 1 /\ (s + 1 + 1) - 1 = s + 1
    BY <1>1, <1>2, <1>3
  <2> QED
    BY <1>1, <2>1, OwnFollows
<1>4. s + 1 \notin Outputs(line)
  BY <1>1 DEF Outputs
<1>5. /\ \A k \in Own(line) \cup Outputs(line) : k > s /\ k # s + 1 => k > s + 1
      /\ \A k \in Own(line) \cup Outputs(line) : k <= s + 1 => k <= s \/ k = s + 1
      /\ \A k \in Own(line) \cup Outputs(line) : k <= s => k <= s + 1
      /\ s + 1 <= s + 1
  BY <1>1
<1>6. Ending(line) \subseteq Own(line) /\ Sources(line) \subseteq Own(line)
  BY DEF Ending, Sources
<1> HIDE DEF s, n
<1>7. \A k \in Ending(line) : k > s + 1
  BY <1>5, <1>6 DEF ReadInv, s
<1>8. IF source' = NoPath
        THEN \A k \in Sources(line) : k > s + 1
        ELSE \E k \in Sources(line) : k <= s + 1 /\ source' = line[k]
  <2>1. CASE source' = source /\ s + 1 \notin Sources(line)
    BY <1>5, <1>6, <2>1 DEF ReadInv, s
  <2>2. CASE source' = line[s + 1] /\ source' # NoPath /\ s + 1 \in Sources(line)
    BY <1>5, <2>2
  <2> QED
    BY <2>1, <2>2 DEF s
<1>9. IF output = NoPath
        THEN \A k \in Outputs(line) : k > s + 1
        ELSE \E k \in Outputs(line) :
               /\ k <= s + 1 /\ output = line[k]
               /\ \A j \in Outputs(line) : j <= s + 1 => j <= k
  BY <1>4, <1>5 DEF ReadInv, s
<1> QED
  BY <1>2, <1>3, <1>7, <1>8, <1>9 DEF ReadInv

LEMMA ReadTwo ==
  ASSUME ReadInv, argv \in Seq(Path), SetOutput
  PROVE  ReadInv'
<1> DEFINE s == Seen
           n == Len(line)
<1>1. /\ argv # <<>> /\ Head(argv) = Option("-o") /\ Len(argv) > 1 /\ output' = argv[2]
      /\ argv' = SubSeq(argv, 2 + 1, Len(argv)) /\ line' = line /\ source' = source
  BY DEF SetOutput, InArgs, Skip
<1>2. /\ n \in Nat /\ s \in Nat /\ s + 1 \in Own(line) /\ s + 1 \in 1 .. n /\ s + 2 \in 1 .. n
      /\ \A k \in Own(line) \cup Outputs(line) : k \in 1 .. n
      /\ line[s + 1] = Option("-o") /\ argv[2] = line[s + 2]
      /\ Len(argv) \in Nat \ {0} /\ (Len(argv) = 1 <=> s + 1 = n)
  BY <1>1, NextArgument
<1>3. Left' /\ Seen' = s + 2 /\ (argv' # <<>> => s + 2 + 1 \in 1 .. n)
  <2>1. 2 <= Len(argv)
    BY <1>1, <1>2
  <2> QED
    BY <1>1, <2>1, Advanced DEF ReadInv
<1>4. s + 2 \in Outputs(line) /\ s + 2 \notin Own(line)
  <2>1. s + 2 > 1 /\ (s + 2) - 1 = s + 1
    BY <1>2
  <2> QED
    BY <1>2, <2>1, OwnFollows
<1>5. ASSUME argv' # <<>> PROVE s + 2 + 1 \in Own(line)
  <2>1. s + 2 + 1 \in 1 .. n /\ s + 2 + 1 > 1 /\ (s + 2 + 1) - 1 = s + 2
    BY <1>2, <1>3, <1>5
  <2> QED
    BY <1>2, <1>4, <2>1, OwnFollows
<1>6. s + 1 \notin Ending(line) /\ s + 1 \notin Sources(line) /\ s + 1 \notin Outputs(line)
  <2>1. s + 1 \notin Sources(line) /\ s + 1 \notin Outputs(line)
    BY <1>2, Options DEF Sources, Outputs
  <2>2. s + 1 # n
    BY <1>1, <1>2
  <2> QED
    BY <1>2, <2>1, <2>2, Options DEF Ending
<1>7. output' # NoPath
  <2>1. argv[2] \in Path
    BY <1>1, <1>2, ElementOfSeq
  <2> QED
    BY <1>1, <2>1, AssemblerAssumption
<1>8. Ending(line) \subseteq Own(line) /\ Sources(line) \subseteq Own(line)
  BY DEF Ending, Sources
<1>9. /\ \A k \in Own(line) \cup Outputs(line) : k > s /\ k # s + 1 /\ k # s + 2 => k > s + 2
      /\ \A k \in Own(line) \cup Outputs(line) : k <= s => k <= s + 2
      /\ s + 2 <= s + 2
  BY <1>2
<1> HIDE DEF s, n
<1>10. \A k \in Ending(line) : k > s + 2
  BY <1>4, <1>6, <1>8, <1>9 DEF ReadInv, s
<1>11. IF source = NoPath
         THEN \A k \in Sources(line) : k > s + 2
         ELSE \E k \in Sources(line) : k <= s + 2 /\ source = line[k]
  BY <1>4, <1>6, <1>8, <1>9 DEF ReadInv, s
<1>12. \E k \in Outputs(line) :
         /\ k <= s + 2 /\ output' = line[k]
         /\ \A j \in Outputs(line) : j <= s + 2 => j <= k
  BY <1>1, <1>2, <1>4, <1>9
<1> QED
  BY <1>1, <1>3, <1>5, <1>7, <1>10, <1>11, <1>12 DEF ReadInv

LEMMA SwitchIsRead ==
  ASSUME ReadInv, argv \in Seq(Path), SetSwitch
  PROVE  ReadInv'
<1>1. /\ argv # <<>> /\ Head(argv) \in Switches /\ argv' = SubSeq(argv, 1 + 1, Len(argv))
      /\ line' = line /\ source' = source /\ output' = output
  BY DEF SetSwitch, InArgs, Skip
<1>2. Head(argv) = line[Seen + 1]
  BY <1>1, NextArgument
<1>3. /\ Seen + 1 \notin Sources(line) /\ Seen + 1 \notin Ending(line)
      /\ line[Seen + 1] # Option("-o")
  BY <1>1, <1>2, Options DEF Sources, Ending
<1> QED
  BY <1>1, <1>3, ReadOne

LEMMA SourceIsRead ==
  ASSUME ReadInv, argv \in Seq(Path), SetSource
  PROVE  ReadInv'
<1>1. /\ argv # <<>> /\ ~Head(argv).dash /\ argv' = SubSeq(argv, 1 + 1, Len(argv))
      /\ source = NoPath /\ line' = line /\ source' = Head(argv) /\ output' = output
  BY DEF SetSource, InArgs, Skip
<1>2. /\ Head(argv) = line[Seen + 1] /\ Seen + 1 \in Own(line) /\ Seen \in Nat
      /\ \A k \in Own(line) : k \in Nat
  BY <1>1, NextArgument
<1>3. Seen + 1 \in Sources(line) /\ line[Seen + 1] # Option("-o")
  BY <1>1, <1>2, Options DEF Sources
<1>4. \A j \in Sources(line) : ~(j < Seen + 1)
  <2>1. \A j \in Sources(line) : j > Seen /\ j \in Nat
    BY <1>1, <1>2 DEF ReadInv, Sources
  <2> QED
    BY <1>2, <2>1
<1>5. Seen + 1 \notin Ending(line)
  BY <1>1, <1>2, <1>3, <1>4, Options DEF Ending
<1>6. source' # NoPath
  <2>1. Head(argv) \in Path
    BY <1>1
  <2> QED
    BY <1>1, <2>1, AssemblerAssumption
<1> QED
  BY <1>1, <1>2, <1>3, <1>5, <1>6, ReadOne

(* At an argument that ends the program, in either way, or at the end.      *)
LEMMA HelpEnds ==
  ASSUME ReadInv, argv \in Seq(Path), Help
  PROVE  Helped(line)
<1>1. /\ Seen + 1 \in Own(line) /\ line[Seen + 1] \in Helps /\ Seen \in Nat
      /\ \A k \in Own(line) : k \in Nat
  BY NextArgument DEF Help, InArgs
<1>2. Seen + 1 \in Ending(line)
  BY <1>1 DEF Ending
<1>3. \A j \in Ending(line) : j > Seen /\ j \in Own(line)
  BY DEF ReadInv, Ending
<1>4. \A j \in Ending(line) : Seen + 1 <= j
  BY <1>1, <1>3
<1> QED
  BY <1>1, <1>2, <1>4 DEF Helped

LEMMA BadEnds ==
  ASSUME ReadInv, argv \in Seq(Path), BadArgument
  PROVE  Misused(line)
<1> DEFINE s == Seen
<1>1. /\ s + 1 \in Own(line) /\ Head(argv) = line[s + 1] /\ s \in Nat
      /\ Len(argv) = 1 <=> s + 1 = Len(line)
      /\ \A k \in Own(line) : k \in Nat
  BY NextArgument DEF BadArgument, InArgs
<1> HIDE DEF s
<1>2. s + 1 \in Ending(line) /\ line[s + 1] \notin Helps
  <2>1. CASE line[s + 1] = Option("-o") /\ Len(argv) = 1
    BY <1>1, <2>1, Options DEF Ending
  <2>2. CASE line[s + 1].dash /\ line[s + 1] \notin Helps \cup Switches \cup {Option("-o")}
    BY <1>1, <2>2 DEF Ending
  <2>3. CASE ~line[s + 1].dash /\ source # NoPath
    <3>1. PICK k \in Sources(line) : k <= s
      BY <2>3 DEF ReadInv, s
    <3>2. k \in Nat
      BY <1>1 DEF Sources
    <3>3. k < s + 1
      BY <1>1, <3>1, <3>2
    <3>4. s + 1 \in Sources(line)
      BY <1>1, <2>3 DEF Sources
    <3> QED
      BY <1>1, <2>3, <3>3, <3>4, Options DEF Ending
  <2> QED
    BY <1>1, <2>1, <2>2, <2>3 DEF BadArgument
<1>3. \A k \in Ending(line) : k > s /\ k \in Nat
  BY <1>1 DEF ReadInv, Ending, s
<1>4. ~Helped(line)
  <2> SUFFICES ASSUME NEW k \in Ending(line), line[k] \in Helps, \A j \in Ending(line) : k <= j
               PROVE  FALSE
    BY DEF Helped
  <2>1. k <= s + 1 /\ k > s /\ k \in Nat
    BY <1>2, <1>3
  <2>2. k = s + 1
    BY <1>1, <2>1
  <2> QED
    BY <1>2, <2>2
<1> QED
  BY <1>2, <1>4 DEF Misused

LEMMA AllRead ==
  ASSUME ReadInv, argv = <<>>
  PROVE  /\ Ending(line) = {}
         /\ source = NoPath => Sources(line) = {}
         /\ source # NoPath =>
              /\ Sources(line) # {} /\ source = Source(line)
              /\ Output(line) = IF output = NoPath THEN derive_output_path(source) ELSE output
<1> DEFINE n == Len(line)
<1>1. n \in Nat /\ Seen = n
  BY DEF ReadInv, Left, Seen
<1>2. /\ \A k \in Own(line) \cup Outputs(line) : k \in 1 .. n
      /\ Ending(line) \subseteq Own(line) /\ Sources(line) \subseteq Own(line)
  BY DEF Own, Outputs, Ending, Sources
<1> HIDE DEF n
<1>3. \A k \in Own(line) \cup Outputs(line) : k \in Nat /\ k <= Seen /\ ~(k > Seen)
  BY <1>1, <1>2
<1>4. Ending(line) = {}
  BY <1>2, <1>3 DEF ReadInv
<1>5. source = NoPath => Sources(line) = {}
  BY <1>2, <1>3 DEF ReadInv
<1>6. ASSUME source # NoPath PROVE Sources(line) # {} /\ source = Source(line)
  <2>1. PICK k \in Sources(line) : source = line[k]
    BY <1>6 DEF ReadInv
  <2>2. ASSUME NEW j \in Sources(line), NEW m \in Sources(line), j < m PROVE FALSE
    <3>1. m \in Ending(line)
      BY <1>2, <2>2 DEF Ending
    <3> QED
      BY <1>4, <3>1
  <2>3. ASSUME NEW j \in Sources(line) PROVE j = k
    <3>1. j \in Nat /\ k \in Nat
      BY <1>2, <1>3
    <3>2. j < k \/ k < j \/ j = k
      BY <3>1
    <3> QED
      BY <2>2, <3>2
  <2>4. (CHOOSE j \in Sources(line) : TRUE) \in Sources(line)
    BY <2>1
  <2>5. (CHOOSE j \in Sources(line) : TRUE) = k
    BY <2>3, <2>4
  <2> QED
    BY <2>1, <2>5 DEF Source
<1>7. ASSUME source # NoPath, output = NoPath PROVE Output(line) = derive_output_path(source)
  <2>1. Outputs(line) = {}
    BY <1>3, <1>7 DEF ReadInv
  <2> QED
    BY <1>6, <1>7, <2>1 DEF Output, derive_output_path
<1>8. ASSUME output # NoPath PROVE Output(line) = output
  <2> DEFINE Last(k) == \A j \in Outputs(line) : j <= k
  <2>1. PICK k \in Outputs(line) :
          output = line[k] /\ \A j \in Outputs(line) : j <= Seen => j <= k
    BY <1>8 DEF ReadInv
  <2>2. Last(k)
    BY <1>3, <2>1
  <2>3. \A j \in Outputs(line) : Last(j) => j = k
    <3>1. ASSUME NEW j \in Outputs(line), Last(j) PROVE j = k
      <4>1. j <= k /\ k <= j /\ j \in Nat /\ k \in Nat
        BY <1>3, <2>2, <3>1
      <4> QED
        BY <4>1
    <3> QED
      BY <3>1
  <2> DEFINE c == CHOOSE j \in Outputs(line) : Last(j)
  <2>4. c \in Outputs(line) /\ Last(c)
    <3> HIDE DEF Last
    <3> QED
      BY <2>2
  <2>5. c = k
    BY <2>3, <2>4
  <2>6. Outputs(line) # {}
    OBVIOUS
  <2> QED
    BY <2>1, <2>5, <2>6 DEF Output
<1> QED
  BY <1>4, <1>5, <1>6, <1>7, <1>8

(* A step of the assembler, once it is called, writes nothing or the binary. *)
LEMMA StepWrites ==
  ASSUME [Promise!Next]_(Promise!vars), phase \notin {"idle", "returned"}
  PROVE  /\ phase' # "idle"
         /\ src_path' = src_path /\ out_path' = out_path /\ host' = host
         /\ \/ files' = files /\ (phase' = "returned" => rc' # "ERR_OK")
            \/ LET text == files[src_path].lines
                   n    == BinaryWords(text)
               IN  /\ phase' = "returned"
                   /\ files' = [files EXCEPT ![out_path] =
                                  Binary(IF n <= host.room THEN n ELSE host.room, Image(text))]
                   /\ n <= host.room => rc' = "ERR_OK"
<1>1. CASE \E s, o \in Path : Promise!Call(s, o)
  BY <1>1 DEF Promise!Call
<1>2. CASE Promise!Refuse
  BY <1>2 DEF Promise!Refuse
<1>3. CASE Promise!Translate
  <2>1. phase' = "returned"
    BY <1>3 DEF Promise!Translate
  <2>2. BinaryWords(files[src_path].lines) <= host.room => rc' = "ERR_OK"
    BY <1>3 DEF Promise!Translate
  <2> QED
    BY <1>3, <2>1, <2>2 DEF Promise!Translate
<1>4. CASE UNCHANGED Promise!vars
  BY <1>4 DEF Promise!vars
<1> QED
  BY <1>1, <1>2, <1>3, <1>4 DEF Promise!Next

(* What is on the disk once assemble_file has returned. *)
LeftBehind ==
  IF rc = "ERR_OK" THEN Translated
  ELSE Untouched \/ files[Output(line)].words = host.room

(* main knows what its command line says, and the disk says so too. *)
ExitInv ==
  /\ step = "args" => phase = "idle" /\ Untouched /\ ReadInv
  /\ step = "assemble" =>
       /\ phase # "idle" /\ Ending(line) = {} /\ Sources(line) # {}
       /\ src_path = Source(line) /\ out_path = Output(line)
       /\ out_path \in Path
       /\ IF phase = "returned" THEN LeftBehind ELSE Untouched
  /\ DOMAIN before = Path
  /\ AssemblerExit

LEMMA LineAccepted ==
  ASSUME Ending(line) = {}, Sources(line) # {}
  PROVE  ~Misused(line) /\ ~Helped(line)
BY DEF Misused, Helped

LEMMA ExitStarts == ASSUME MInit PROVE ExitInv
<1>1. PICK setup \in Setups : files = setup.files /\ line = setup.line
  BY DEF MInit
<1>2. /\ step = "args" /\ phase = "idle" /\ files = before /\ argv = line
      /\ source = NoPath /\ output = NoPath /\ DOMAIN before = Path
  BY <1>1, AssemblerAssumption DEF MInit, Fresh
<1>3. Len(line) \in Nat
  BY <1>1, MainAssumption
<1>4. Seen = 0 /\ Left
  <2>1. Seen = 0 /\ Len(line) \in 0 .. Len(line) /\ \A j \in 1 .. Len(line) : 0 + j = j
    BY <1>2, <1>3 DEF Seen
  <2> QED
    BY <1>2, <1>3, <2>1 DEF Left
<1>5. argv # <<>> => 0 + 1 \in Own(line)
  <2>1. argv # <<>> => 1 \in 1 .. Len(line)
    <3>1. line \in Seq(Path)
      BY <1>1, MainAssumption
    <3> QED
      BY <1>2, <3>1
  <2> QED
    BY <1>3, <2>1, OwnFollows
<1>6. \A k \in Own(line) \cup Outputs(line) : k > 0
  BY <1>3 DEF Own, Outputs
<1>7. Ending(line) \subseteq Own(line) /\ Sources(line) \subseteq Own(line)
  BY DEF Ending, Sources
<1>8. ReadInv
  BY <1>2, <1>4, <1>5, <1>6, <1>7 DEF ReadInv
<1> QED
  BY <1>2, <1>8 DEF ExitInv, Untouched, AssemblerExit

(* An exit without a call. *)
LEMMA QuitKeeps ==
  ASSUME ExitInv, step = "args", NEW code, Quit(code), code \in {0, 1, 2},
         (code = 2) <=> Misused(line), code = 0 => Helped(line)
  PROVE  ExitInv'
<1>1. /\ step' = "exited" /\ exit_code' = code /\ Untouched
      /\ line' = line /\ before' = before /\ files' = files
  BY DEF ExitInv, Quit, Exit, avars, arguments
<1>2. Untouched' /\ (exit_code' = 2 <=> Misused(line)') /\ (exit_code' = 0 => Helped(line)')
  BY <1>1 DEF Untouched
<1>3. AssemblerExit'
  BY <1>2 DEF AssemblerExit
<1> QED
  BY <1>1, <1>3 DEF ExitInv

LEMMA ReadingKeeps ==
  ASSUME ExitInv, step = "args", step' = "args", ReadInv',
         UNCHANGED <<files, before, phase>>
  PROVE  ExitInv'
BY DEF ExitInv, AssemblerExit, Untouched

LEMMA CallReads ==
  ASSUME ExitInv, MainInv, CallAssembler
  PROVE  ExitInv'
<1> DEFINE out == IF output = NoPath THEN derive_output_path(source) ELSE output
<1>1. /\ step = "args" /\ argv = <<>> /\ source # NoPath
      /\ src_path' = source /\ out_path' = out /\ phase' = "called" /\ step' = "assemble"
      /\ files' = files /\ before' = before /\ line' = line
  BY DEF CallAssembler, ArgsDone, assemble_file, arguments
<1>2. Untouched /\ ReadInv
  BY <1>1 DEF ExitInv
<1>3. /\ Ending(line) = {} /\ Sources(line) # {}
      /\ source = Source(line) /\ Output(line) = out
  BY <1>1, <1>2, AllRead
<1>4. out \in Path
  BY <1>1, MainAssumption DEF MainInv, derive_output_path
<1> HIDE DEF out
<1>5. /\ Ending(line') = {} /\ Sources(line') # {}
      /\ src_path' = Source(line') /\ out_path' = Output(line') /\ out_path' \in Path
  BY <1>1, <1>3, <1>4
<1>6. Untouched'
  BY <1>1, <1>2 DEF Untouched
<1> QED
  BY <1>1, <1>5, <1>6, "called" # "returned" DEF ExitInv, AssemblerExit

LEMMA AssembleKeeps ==
  ASSUME ExitInv, Assemble, [Promise!Next]_(Promise!vars), phase # "returned"
  PROVE  ExitInv'
<1>1. /\ step = "assemble" /\ step' = "assemble" /\ line' = line /\ before' = before
  BY DEF Assemble, arguments
<1>2. /\ phase # "idle" /\ Ending(line) = {} /\ Sources(line) # {}
      /\ src_path = Source(line) /\ out_path = Output(line) /\ out_path \in Path
      /\ Untouched /\ DOMAIN before = Path
  BY <1>1 DEF ExitInv
<1> DEFINE text == files[src_path].lines
           n == BinaryWords(text)
<1>3. src_path' = src_path /\ out_path' = out_path /\ host' = host
  BY <1>2, StepWrites
<1>4. /\ phase' # "idle"
      /\ \/ files' = files /\ (phase' = "returned" => rc' # "ERR_OK")
         \/ /\ phase' = "returned"
            /\ files' = [files EXCEPT ![out_path] =
                           Binary(IF n <= host.room THEN n ELSE host.room, Image(text))]
            /\ n <= host.room => rc' = "ERR_OK"
  BY <1>2, StepWrites
<1> HIDE DEF n, text
<1>5. text = before[Source(line)].lines
  BY <1>2 DEF Untouched, text
<1>6. CASE files' = files /\ (phase' = "returned" => rc' # "ERR_OK")
  <2>1. Untouched'
    BY <1>1, <1>2, <1>6 DEF Untouched
  <2>2. phase' = "returned" => LeftBehind'
    BY <1>6, <2>1 DEF LeftBehind
  <2> QED
    BY <1>1, <1>2, <1>3, <1>4, <2>1, <2>2 DEF ExitInv, AssemblerExit
<1>7. CASE n <= host.room /\ phase' = "returned" /\ rc' = "ERR_OK"
           /\ files' = [files EXCEPT ![out_path] = Binary(n, Image(text))]
  <2>1. files' = [before EXCEPT ![Output(line)] = Binary(n, Image(text))]
    BY <1>2, <1>7 DEF Untouched
  <2>2. Translated'
    BY <1>1, <1>3, <1>5, <2>1 DEF Translated, n
  <2>3. LeftBehind'
    BY <1>7, <2>2 DEF LeftBehind
  <2> QED
    BY <1>1, <1>2, <1>3, <1>4, <1>7, <2>3 DEF ExitInv, AssemblerExit
<1>8. CASE ~(n <= host.room) /\ phase' = "returned"
           /\ files' = [files EXCEPT ![out_path] = Binary(host.room, Image(text))]
  <2>1. files'[Output(line)] = Binary(host.room, Image(text))
    BY <1>2, <1>8 DEF Untouched
  <2>2. files'[Output(line)].words = host.room
    BY <2>1 DEF Binary
  <2>3. (files[Output(line)].words = host.room)'
    BY <1>1, <1>3, <2>2
  <2>4. Translated'
    BY <1>1, <1>3, <1>5, <1>8 DEF Translated, n
  <2>5. LeftBehind'
    BY <2>3, <2>4 DEF LeftBehind
  <2> QED
    BY <1>1, <1>2, <1>3, <1>4, <1>8, <2>5 DEF ExitInv, AssemblerExit
<1> QED
  BY <1>4, <1>6, <1>7, <1>8

LEMMA FinishKeeps ==
  ASSUME ExitInv, ErrorInv, Finish
  PROVE  ExitInv'
<1>1. /\ step = "assemble" /\ phase = "returned" /\ step' = "exited"
      /\ exit_code' = (IF rc = "ERR_OK" /\ n_errors = 0 THEN 0 ELSE 1)
      /\ line' = line /\ before' = before /\ files' = files /\ host' = host
  BY DEF Finish, Quit, Exit, avars, arguments, call
<1>2. ~Misused(line) /\ ~Helped(line) /\ LeftBehind
  BY <1>1, LineAccepted DEF ExitInv
<1>3. exit_code' = (IF rc = "ERR_OK" THEN 0 ELSE 1)
  BY <1>1 DEF ErrorInv, Succeeded
<1>4. exit_code' = 0 => Translated'
  BY <1>1, <1>2, <1>3 DEF LeftBehind, Translated
<1>5. exit_code' # 0 => Untouched' \/ files'[Output(line')].words = host'.room
  BY <1>1, <1>2, <1>3 DEF LeftBehind, Untouched
<1>6. AssemblerExit'
  BY <1>1, <1>2, <1>3, <1>4, <1>5 DEF AssemblerExit
<1> QED
  BY <1>1, <1>6 DEF ExitInv

LEMMA ExitStays ==
  ExitInv /\ MainInv /\ ErrorInv /\ [Promise!Next]_(Promise!vars) /\ [MNext]_mvars => ExitInv'
<1> SUFFICES ASSUME ExitInv, MainInv, ErrorInv, [Promise!Next]_(Promise!vars), [MNext]_mvars
             PROVE  ExitInv'
  OBVIOUS
<1>1. argv \in Seq(Path)
  BY DEF MainInv
<1>2. step = "args" => ReadInv
  BY DEF ExitInv
<1>3. CASE Help
  <2>1. step = "args" /\ Quit(0) /\ Helped(line)
    BY <1>1, <1>2, <1>3, HelpEnds DEF Help, InArgs
  <2>2. ~Misused(line)
    BY <2>1 DEF Misused
  <2> QED
    BY <2>1, <2>2, QuitKeeps
<1>4. CASE BadArgument
  <2>1. step = "args" /\ Quit(2) /\ Misused(line)
    BY <1>1, <1>2, <1>4, BadEnds DEF BadArgument, InArgs
  <2> QED
    BY <2>1, QuitKeeps
<1>5. CASE NoSource
  <2>1. step = "args" /\ Quit(2) /\ argv = <<>> /\ source = NoPath
    BY <1>5 DEF NoSource, ArgsDone
  <2>2. Ending(line) = {} /\ Sources(line) = {}
    BY <1>2, <2>1, AllRead
  <2>3. Misused(line)
    BY <2>2 DEF Misused, Helped
  <2> QED
    BY <2>1, <2>3, QuitKeeps
<1>6. CASE OutOfMemory
  <2>1. step = "args" /\ Quit(1) /\ argv = <<>> /\ source # NoPath
    BY <1>6 DEF OutOfMemory, ArgsDone
  <2>2. Ending(line) = {} /\ Sources(line) # {}
    BY <1>2, <2>1, AllRead
  <2>3. ~Misused(line)
    BY <2>2, LineAccepted
  <2> QED
    BY <2>1, <2>3, QuitKeeps
<1>7. CASE SetOutput \/ SetSwitch \/ SetSource
  <2>1. step = "args" /\ step' = "args" /\ UNCHANGED <<files, before, phase>>
    BY <1>7 DEF SetOutput, SetSwitch, SetSource, InArgs, Skip, avars
  <2>2. ReadInv'
    BY <1>1, <1>2, <1>7, <2>1, ReadTwo, SwitchIsRead, SourceIsRead
  <2> QED
    BY <2>1, <2>2, ReadingKeeps
<1>8. CASE CallAssembler
  BY <1>8, CallReads
<1>9. CASE Assemble
  <2>1. phase # "returned"
    BY <1>9 DEF Assemble, Step, NotStarted, Start, LineFails, DefineLabel, SetOrigin,
                DefineConstant, Advance, EndOfPass1, EmitInstr, EmitWord, EmitAscii, EmitNone,
                Reject, CannotOpen, WriteImage, InPass1, InPlace, InPass2, Finished
  <2> QED
    BY <1>9, <2>1, AssembleKeeps
<1>10. CASE Finish
  BY <1>10, FinishKeeps
<1>11. CASE UNCHANGED mvars
  <2>1. UNCHANGED <<phase, src_path, out_path, host, files, rc, step, line, argv, source,
                    output, exit_code, before>>
    BY <1>11 DEF mvars, avars, call, arguments
  <2> QED
    BY <2>1 DEF ExitInv, ReadInv, Left, Seen, LeftBehind, Translated, Untouched, AssemblerExit
<1> QED
  BY <1>3, <1>4, <1>5, <1>6, <1>7, <1>8, <1>9, <1>10, <1>11 DEF MNext

(* The program, too, is the one-step assembler, loses no word, and its      *)
(* words say what is written, as long as no text has a register for a word. *)
THEOREM ProgramTranslates ==
  WholeNames /\ WordsAreValues =>
    (MSpec => IsTranslation /\ []NoWordLost /\ []CodeSaysSource)
<1> SUFFICES ASSUME WholeNames, WordsAreValues
             PROVE  MSpec => IsTranslation /\ []NoWordLost /\ []CodeSaysSource
  OBVIOUS
<1>1. (ASpec => IsTranslation) /\ (ASpec => []NoWordLost) /\ (ASpec => []CodeSaysSource)
  BY TwoPassesTranslate, NoWordIsLost, BinarySaysSource
<1> QED
  BY <1>1, ProgramRunsAssembler, PTL

(* The exit status tells what is on the disk, and the file the command line *)
(* names is the one that was written, whatever the command line, the source *)
(* and the host (main.c 51-108), as long as no text has a register for a    *)
(* word.                                                                    *)
THEOREM ExitStatusTells == WholeNames /\ WordsAreValues => (MSpec => []AssemblerExit)
<1> SUFFICES ASSUME WholeNames, WordsAreValues PROVE MSpec => []AssemblerExit
  OBVIOUS
<1>1. ASpec => [](AssemblerInv /\ TranslationInv)
  BY TranslationHolds
<1>2. AssemblerInv /\ TranslationInv /\ DiskInv /\ [ANext]_avars
        => [Promise!Next]_(Promise!vars)
  BY StepsRefine
<1>3. MInit => ExitInv
  BY ExitStarts
<1>4. TranslationInv => ErrorInv
  BY DEF TranslationInv
<1>5. ExitInv => AssemblerExit
  BY DEF ExitInv
<1> QED
  BY <1>1, <1>2, <1>3, <1>4, <1>5, ExitStays, MainStarts, MainKeeps, MainSteps, DiskHolds,
     ProgramRunsAssembler, PTL DEF MSpec
=============================================================================

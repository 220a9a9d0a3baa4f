------------------------------ MODULE Assembler ------------------------------
(* The two passes of the assembler: assemble_file of assembler/assembler.c, *)
(* over the lexer, the parser, the encoder and the symbol table.  Pass 1    *)
(* gives every line an address and fills the symbol table, pass 2 resolves  *)
(* and emits, and the image is written only if neither found an error.      *)
EXTENDS SourceCode, SymTable

CONSTANTS Path, NoPath,
          Setups,   \* the files there are and the host, at the start
          BUFSIZ    \* words a FILE holds before it writes them out

(* memory: which allocation fails, if one does; writable: the output can be *)
(* opened; room: words the device takes before it is full.                  *)
Host == [memory : {"enough", "path", "source", "parsed", "image"},
         writable : BOOLEAN, room : Nat]

ASSUME AssemblerAssumption ==
  /\ NoPath \notin Path
  /\ \A setup \in Setups : DOMAIN setup.files = Path /\ setup.host \in Host
  /\ BUFSIZ \in Nat \ {0}
  /\ Addr = 0 .. MEM_SIZE - 1

(* The table takes every name that is in a source, and no name is empty. *)
ASSUME SourceAssumption ==
  /\ NoName \notin Name
  /\ \A setup \in Setups : \A path \in Path :
       setup.files[path].kind = "text" =>
         setup.files[path].lines \in Seq(Seq(Lexemes(Name)))

VARIABLES
  phase,               \* where assemble_file is
  src_path, out_path,
  files, host,
  sf,                  \* the lines of the source file
  parsed,              \* one ParsedLine for each
  i,                   \* the line a pass is at
  addr, highest,
  image,               \* the words emitted; calloc makes the others zero
  n_words, n_errors,
  rc

symbols == <<table, count, answer>>
call    == <<src_path, out_path, host>>
pass1   == <<addr, parsed, sf>>
pass2   == <<image, n_words>>
avars   == <<symbols, call, pass1, pass2, phase, files, i, highest, n_errors, rc>>

Phase == {"idle", "called", "line", "place", "emit", "returned"}

Return(code) == phase' = "returned" /\ rc' = code

NoImage == [a \in {} |-> 0]

\* Mutant: the terminating NUL is not counted.
line_size_NoNul(pl) ==
  IF IsInstr(pl) \/ Is(pl, "DIR_WORD") THEN 1
  ELSE IF Is(pl, "DIR_ASCII") THEN (Len(pl.str) + 1) \div 2
  ELSE 0

line_size(pl) ==
  IF IsInstr(pl) \/ Is(pl, "DIR_WORD") THEN 1
  ELSE IF Is(pl, "DIR_ASCII") THEN (Len(pl.str) + 1 + 1) \div 2
  ELSE 0
-----------------------------------------------------------------------------
assemble_file(src, out) ==
  /\ phase = "idle"
  /\ src_path' = src /\ out_path' = out /\ phase' = "called"
  /\ UNCHANGED <<symbols, host, pass1, pass2, files, i, highest, n_errors, rc>>

(* An empty file takes no memory to read. *)
OutOf(what) ==
  host.memory = what /\ (what = "source" => files[src_path].lines # <<>>)

(* source_read, and the array of parsed lines.  The code would take the     *)
(* bytes of a binary for lines; a source that is one is treated as a file   *)
(* that cannot be read, and Setups name none.                               *)
CannotStart ==
  \/ files[src_path].kind # "text" /\ Return("ERR_IO")
  \/ files[src_path].kind = "text" /\ OutOf("source") /\ Return("ERR_IO")
  \/ files[src_path].kind = "text" /\ OutOf("parsed") /\ Return("ERR_INTERNAL")

NotStarted ==
  /\ phase = "called" /\ CannotStart
  /\ UNCHANGED <<symbols, call, pass1, pass2, files, i, highest, n_errors>>

Start ==
  /\ phase = "called"
  /\ files[src_path].kind = "text" /\ ~OutOf("source") /\ ~OutOf("parsed")
  /\ sf' = files[src_path].lines
  /\ parsed' = [k \in 1 .. Len(sf') |-> Zeroed]
  /\ symtable_reset
  /\ n_errors' = 0 /\ addr' = 0 /\ i' = 1
  /\ phase' = "line"
  /\ UNCHANGED <<call, files, highest, pass2, rc>>
-----------------------------------------------------------------------------
(* Pass 1: a line is read and its label defined, then it is given its place. *)
InPass1 == phase = "line" /\ i <= Len(sf)

Lexed == lex_line(sf[i])
LineParsed == parse_line(Lexed.tokens)

\* Mutant: a failed line is read again.
LineFails_NoNext ==
  /\ InPass1 /\ ~(Lexed.ok /\ LineParsed.ok)
  /\ UNCHANGED avars

LineFails ==
  /\ InPass1 /\ ~(Lexed.ok /\ LineParsed.ok)
  /\ parsed' = IF Lexed.ok THEN [parsed EXCEPT ![i] = LineParsed.line] ELSE parsed
  /\ n_errors' = n_errors + 1
  /\ i' = i + 1
  /\ UNCHANGED <<symbols, call, phase, files, sf, addr, highest, pass2, rc>>

\* Mutant: the error of symtable_insert is not counted.
Define_Uncounted(name, value) == symtable_insert(name, value) /\ UNCHANGED n_errors

(* symtable_insert, with its error counted. *)
Define(name, value) ==
  /\ symtable_insert(name, value)
  /\ n_errors' = IF answer'[4] = "ERR_OK" THEN n_errors ELSE n_errors + 1

DefineLabel ==
  /\ InPass1 /\ Lexed.ok /\ LineParsed.ok
  /\ parsed' = [parsed EXCEPT ![i] = [LineParsed.line EXCEPT !.address = addr]]
  /\ IF LineParsed.line.label # NoName
       THEN Define(LineParsed.line.label, addr)
       ELSE UNCHANGED <<symbols, n_errors>>
  /\ phase' = "place"
  /\ UNCHANGED <<call, files, sf, i, addr, highest, pass2, rc>>

NextLine ==
  /\ i' = i + 1 /\ phase' = "line"
  /\ UNCHANGED <<call, files, sf, parsed, highest, pass2, rc>>

InPlace == phase = "place"
pl == parsed[i]

SetOrigin ==
  /\ InPlace /\ Is(pl, "DIR_ORG")
  /\ IF pl.value.val \in uint16_t
       THEN addr' = pl.value.val /\ UNCHANGED n_errors
       ELSE n_errors' = n_errors + 1 /\ UNCHANGED addr
  /\ NextLine /\ UNCHANGED symbols

DefineConstant ==
  /\ InPlace /\ Is(pl, "DIR_EQU")
  /\ Define(pl.name, pl.value.val % 65536)
  /\ NextLine /\ UNCHANGED addr

\* Mutant: addr is wider than sixteen bits.
Advance_Wide ==
  /\ InPlace /\ ~Is(pl, "DIR_ORG") /\ ~Is(pl, "DIR_EQU")
  /\ addr' = addr + line_size(pl)
  /\ NextLine /\ UNCHANGED <<symbols, n_errors>>

Advance ==
  /\ InPlace /\ ~Is(pl, "DIR_ORG") /\ ~Is(pl, "DIR_EQU")
  /\ addr' = (addr + line_size(pl)) % 65536
  /\ NextLine /\ UNCHANGED <<symbols, n_errors>>

EndOfPass1 ==
  /\ phase = "line" /\ i = Len(sf) + 1
  /\ highest' = IF addr = 0 THEN 0 ELSE addr - 1
  /\ image' = NoImage /\ n_words' = 0 /\ i' = 1
  /\ IF host.memory = "image" THEN Return("ERR_INTERNAL")
                              ELSE phase' = "emit" /\ UNCHANGED rc
  /\ UNCHANGED <<symbols, call, pass1, files, n_errors>>
-----------------------------------------------------------------------------
(* Pass 2 *)
InPass2 == phase = "emit" /\ i <= Len(sf)

Unresolved(o) == o.kind = "OPD_LABEL" /\ Value(o.val) = SYM_NOT_FOUND

resolve_operand(o) ==
  IF o.kind = "OPD_LABEL" /\ ~Unresolved(o) THEN Operand("OPD_IMM", Value(o.val)) ELSE o

NextEmission ==
  /\ i' = i + 1
  /\ UNCHANGED <<symbols, call, phase, files, sf, addr, highest, rc>>

(* The words go to consecutive addresses from the line's own, a uint16_t.   *)
Emit(words) ==
  LET cells == {(pl.address + k) % 65536 : k \in 0 .. Len(words) - 1}
  IN  /\ image' = [a \in DOMAIN image \cup cells |->
                     IF a \in cells THEN words[((a - pl.address) % 65536) + 1] ELSE image[a]]
      /\ n_words' = (n_words + Len(words)) % 65536

\* Mutant: errors of pass 2 are reported and not counted.
EmitNothing_Uncounted(errors) == UNCHANGED <<n_errors, image, n_words>>

EmitNothing(errors) == n_errors' = n_errors + errors /\ UNCHANGED <<image, n_words>>

ResolvedOps == [k \in 1 .. Len(pl.ops) |-> resolve_operand(pl.ops[k])]

EmitInstr ==
  /\ InPass2 /\ IsInstr(pl)
  /\ parsed' = [parsed EXCEPT ![i].ops = ResolvedOps]
  /\ LET result == encode_instr(pl.mnemonic, ResolvedOps, pl.address)
     IN  IF (\E k \in 1 .. Len(pl.ops) : Unresolved(pl.ops[k])) \/ result.rc # "ERR_OK"
           THEN EmitNothing(1)
           ELSE Emit(<<result.word>>) /\ UNCHANGED n_errors
  /\ NextEmission

(* The word of a .word line: a register has no imm, so it gives the zero of *)
(* the cleared record.                                                      *)
WordValue(value) == IF value.kind = "OPD_IMM" THEN value.val % 65536 ELSE 0

EmitWord ==
  /\ InPass2 /\ Is(pl, "DIR_WORD")
  /\ LET value == resolve_operand(pl.value)
     IN  /\ parsed' = [parsed EXCEPT ![i].value = value]
         /\ \/ Unresolved(pl.value) /\ EmitNothing(1)
            \/ ~Unresolved(pl.value) /\ Emit(<<WordValue(value)>>) /\ UNCHANGED n_errors
  /\ NextEmission

(* Two bytes to a word, the low one first, up to and with the NUL. *)
Byte(b) == IF b < Len(pl.str) THEN pl.str[b + 1] ELSE 0

EmitAscii ==
  /\ InPass2 /\ Is(pl, "DIR_ASCII")
  /\ Emit([k \in 1 .. Len(pl.str) \div 2 + 1 |-> Byte(2 * k - 2) + 256 * Byte(2 * k - 1)])
  /\ NextEmission /\ UNCHANGED <<parsed, n_errors>>

EmitNone ==
  /\ InPass2 /\ ~IsInstr(pl) /\ ~Is(pl, "DIR_WORD") /\ ~Is(pl, "DIR_ASCII")
  /\ EmitNothing(0) /\ NextEmission /\ UNCHANGED parsed
-----------------------------------------------------------------------------
(* Finalise *)
Finished == phase = "emit" /\ i = Len(sf) + 1

Reject ==
  /\ Finished /\ n_errors # 0
  /\ Return("ERR_INTERNAL")
  /\ UNCHANGED <<symbols, call, pass1, pass2, files, i, highest, n_errors>>

CannotOpen ==
  /\ Finished /\ n_errors = 0 /\ ~host.writable
  /\ Return("ERR_IO")
  /\ UNCHANGED <<symbols, call, pass1, pass2, files, i, highest, n_errors>>

(* fwrite fails when the buffer it fills cannot be written out; what is in  *)
(* the buffer at the end is left to fclose, whose result nobody looks at.   *)
Flushed(words) == ((words - 1) \div BUFSIZ) * BUFSIZ

WriteImage ==
  /\ Finished /\ n_errors = 0 /\ host.writable
  /\ LET words == (highest + 1) % 65536
     IN  /\ files' = [files EXCEPT ![out_path] =
                        Binary(IF words <= host.room THEN words ELSE host.room, image)]
         /\ Return(IF Flushed(words) <= host.room THEN "ERR_OK" ELSE "ERR_IO")
  /\ UNCHANGED <<symbols, call, pass1, pass2, i, highest, n_errors>>
-----------------------------------------------------------------------------
Fresh ==
  /\ Init
  /\ src_path = NoPath /\ out_path = NoPath
  /\ phase = "idle"
  /\ sf = <<>> /\ parsed = <<>> /\ i = 1 /\ addr = 0 /\ highest = 0
  /\ image = NoImage /\ n_words = 0 /\ n_errors = 0 /\ rc = "ERR_OK"

AInit == Fresh /\ \E setup \in Setups : files = setup.files /\ host = setup.host

Step ==
  \/ NotStarted \/ Start
  \/ LineFails \/ DefineLabel \/ SetOrigin \/ DefineConstant \/ Advance \/ EndOfPass1
  \/ EmitInstr \/ EmitWord \/ EmitAscii \/ EmitNone
  \/ Reject \/ CannotOpen \/ WriteImage

ANext == (\E src, out \in Path : assemble_file(src, out)) \/ Step

ASpec == AInit /\ [][ANext]_avars
-----------------------------------------------------------------------------
(* Every variable keeps its type; the addresses are uint16_t.               *)
AssemblerTypeOK ==
  /\ phase \in Phase
  /\ addr \in uint16_t /\ highest \in uint16_t /\ n_words \in uint16_t
  /\ n_errors \in Nat
  /\ i \in 1 .. Len(sf) + 1 /\ DOMAIN parsed = 1 .. Len(sf)
  /\ \A k \in DOMAIN parsed : parsed[k].address \in uint16_t
  /\ DOMAIN image \subseteq uint16_t

(* The lines that have been given their place. *)
Placed == {k \in DOMAIN parsed : phase \in {"line", "place"} => k < i}

LabelHolds(l)    == l.label # NoName => Value(l.label) = l.address
ConstantHolds(l) == Is(l, "DIR_EQU") => Value(l.name) = l.value.val % 65536

(* As long as there is no error, every name means what its line says: a     *)
(* label the address of its line, a constant its value, in pass 1 from the  *)
(* line on and all through pass 2, whatever is defined after it             *)
(* (assembler.c 202-237 against 154, 260 and 289).                          *)
LabelsHold ==
  n_errors = 0 => \A k \in Placed : LabelHolds(parsed[k]) /\ ConstantHolds(parsed[k])

Promise == INSTANCE Assembly WITH
  Capacity <- SYM_CAPACITY,
  src      <- src_path,
  out      <- out_path,
  status   <- IF phase = "idle" THEN "idle"
              ELSE IF phase # "returned" THEN "called"
              ELSE IF rc = "ERR_OK" THEN "ok" ELSE "failed"

(* The two passes are the one-step assembler that knows every label from    *)
(* the start: the same sources are refused, the same binary is written, and *)
(* no file is touched but the output, and that once (assembler.c 4-21 and   *)
(* 165-369).                                                                *)
IsTranslation == Promise!Spec

Succeeded == phase = "returned" /\ rc = "ERR_OK"

(* The source never moves the address counter back, by an .org or by        *)
(* running over the top of memory.                                          *)
Forward ==
  LET at == Addresses(sf)
  IN  \A k \in 1 .. Len(sf) : at[k] + Size(Line(sf[k])) <= at[k + 1]

(* Pass 1 leaves every line exactly the room pass 2 fills: in a source that *)
(* only goes forward no word is overwritten and none lies behind the end of *)
(* the file (line_size against the loops of pass 2; assembler.c 244, 340).  *)
NoWordLost ==
  Succeeded /\ Forward =>
    /\ n_words = Cardinality(DOMAIN image)
    /\ \A a \in DOMAIN image : a <= highest

(* The words of a source line as it was written: without label and comment. *)
Written(x) ==
  LET n == IF \E k \in 1 .. Len(x) : x[k].class = "comment"
             THEN CHOOSE k \in 1 .. Len(x) : x[k].class = "comment" /\ \A j \in 1 .. k - 1 : x[j].class # "comment"
             ELSE Len(x) + 1
      first == IF n > 1 /\ x[1].class = "ident" /\ x[1].colon THEN 2 ELSE 1
  IN  SubSeq(x, first, n - 1)

IsCode(w) == w # <<>> /\ w[1].class = "ident" /\ ~w[1].dot

(* A line that bears a name as its label. *)
Bears(x, name) == x # <<>> /\ x[1].class = "ident" /\ x[1].colon /\ x[1].text = name

(* A line that gives a number a name, and the number as it was written. *)
NamesNumber(w)    == Len(w) >= 3 /\ w[1] = Directive(".equ")
Names(w, name)    == NamesNumber(w) /\ w[2].text = name
Amount(x)         == x.text.sign * x.text.digits

(* What a written operand stands for. *)
Stands(x) ==
  IF x.class = "number" THEN Amount(x)
  ELSE IF x.text \in DOMAIN registers THEN registers[x.text]
  ELSE IF \E k \in 1 .. Len(sf) : Bears(sf[k], x.text)
    THEN parsed[CHOOSE k \in 1 .. Len(sf) : Bears(sf[k], x.text)].address
  ELSE Amount(Written(sf[CHOOSE k \in 1 .. Len(sf) : Names(Written(sf[k]), x.text)])[3])

(* Instruction f, at address a, is the one that was written.  MOV's         *)
(* immediate is the signed number that cpu_step decodes, and not the        *)
(* zero-extended one of the comment at encoder.c 168.                       *)
Says(f, a, w) ==
  LET m == w[1].text
      v(k) == Stands(w[k + 1])
  IN  /\ f.op = op_defs[m] /\ Len(w) = nops(m) + 1
      /\ m \in FMT_R3 \cup FMT_R2 \cup FMT_I3 => f.rd = v(1) /\ f.rs1 = v(2)
      /\ m \in FMT_R3 => f.rs2 = v(3)
      /\ m \in FMT_R_CMP => f.rs1 = v(1) /\ f.rs2 = v(2)
      /\ m \in FMT_I3 => f.imm = v(3)
      /\ m \in FMT_I_MOV => f.rd = v(1) /\ f.imm = v(2)
      /\ m \in FMT_J => (a + 1 + f.off - v(1)) % 65536 = 0

(* Wider numbers lose their high bits without an error: numerals those over *)
(* 32 (parser.c 43-46), constants those over 16 (assembler.c 231).          *)
WordNumbers     == -32768 .. 65535   \* what a word holds, signed or not
DigitsFit(x)    == x.class = "number" => x.text.digits < INT32 \div 2
ConstantFits(w) == NamesNumber(w) => Amount(w[3]) \in WordNumbers

NumbersFit ==
  \A k \in 1 .. Len(sf) :
    /\ \A j \in 1 .. Len(sf[k]) : DigitsFit(sf[k][j])
    /\ ConstantFits(Written(sf[k]))

(* From text to processor: the word of every line decodes to the mnemonic,  *)
(* the registers and the numbers on that line, nothing on it is dropped,    *)
(* and a jump reaches the line that bears its label (lexer.c, parser.c,     *)
(* assembler.c and encoder.c against control.c 9-32 and 72-104).            *)
CodeSaysSource ==
  Succeeded /\ Forward /\ NumbersFit =>
    \A k \in 1 .. Len(sf) :
      IsCode(Written(sf[k])) =>
        Says(Fields(image[parsed[k].address]), parsed[k].address, Written(sf[k]))

(* Where there was no error, the argument of every .org and .word is what   *)
(* the parser documents: "For .org / .word: a numeric operand (imm) or      *)
(* label reference" (parser.h 53; parser.c 107).                            *)
ValuesAsDocumented ==
  Succeeded =>
    \A k \in 1 .. Len(sf) :
      Is(Line(sf[k]), "DIR_ORG") \/ Is(Line(sf[k]), "DIR_WORD") =>
        Line(sf[k]).value.kind \in {"OPD_IMM", "OPD_LABEL"}

(* Every word that was emitted is in the file: "The file contains           *)
(* (highest_written_addr + 1) * 2 bytes" (assembler.c 14).                  *)
FileHoldsImage ==
  Succeeded /\ files[out_path].words = highest + 1 =>
    \A a \in DOMAIN image : a < files[out_path].words

(* A binary that was not there before is there whole, and the caller is     *)
(* told so: "Returns ERR_OK on success, or an AsmError on failure. On       *)
(* failure the partial .bin file is not written." (assembler.h 34-35)       *)
NoPartialFile ==
  phase = "returned" /\ files[out_path].kind = "binary" =>
    rc = "ERR_OK" /\ files[out_path].words = highest + 1
==============================================================================

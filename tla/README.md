# A TLA+ model of educpu16

educpu16 is a sixteen-bit processor written in C: a two-pass assembler
(`src/assembler`), an emulator (`src/emulator`) and a few programs
(`src/programs`). This directory holds TLA+ modules that model it, the TLC
configurations that check them on small instances, and TLAPS proofs of what
holds for every instance.

## The system

| part | state | operations | interacts with |
|---|---|---|---|
| instruction set (`assembler/isa.h`) | none | field extraction, bounds, memory map | shared by both programs |
| ALU (`emulator/alu.c`) | the flag register, inside `CPU` | `alu_execute` | called by `cpu_step` |
| memory and ports (`emulator/memory.c`) | `mem[65536]`; standard input and output | `mem_read`, `mem_write`, `mem_load`, `mem_dump` | loads, stores, fetches, pushes and pops all go through it |
| control unit (`emulator/control.c`, `cpu.c`) | `CPU`: registers, pc, ir, flags, cycle count, halted | `cpu_init`, `cpu_reset`, `cpu_step`, `cpu_run` | calls the ALU and the memory |
| emulator program (`emulator/main.c`) | its options, the file, the run loop | argument loop, file checks, load, run, step, trace, dump | owns the processor; shares standard input with the program it runs |
| encoder (`assembler/encoder.c`) | none | `encode_R/I/J`, `encode_instr` | called in pass 2; its words are read back by `cpu_step` |
| symbol table (`assembler/symtable.c`) | open-addressing table of 256 slots | reset, insert, lookup | filled by pass 1, read by pass 2 |
| lexer, parser (`assembler/lexer.c`, `parser.c`) | the line being read | one source line to tokens to a `ParsedLine` | called by pass 1 |
| two-pass assembler (`assembler/assembler.c`) | source lines, parsed lines, image, address counter, error count | read, pass 1, pass 2, finalise | drives all of the assembler |
| assembler program (`assembler/main.c`) | options and two paths | argument loop, derived output path, call of the assembler | exit status and files |

Everything is sequential: there are no threads, no callbacks and nothing is
persisted but the binary. What is hard here is of another kind:

- **protocol sequences**: any sequence of instructions is legal. Code can store
  into itself, push through the I/O page, return from an empty stack, run into a
  port and execute what is typed there. The order of the arguments decides what
  each of them is;
- **stale state**: a conditional jump reads flags that an earlier instruction
  left, several instructions back; CF and OF survive the logic operations; pass 2
  looks up names in a table that pass 1 went on filling after it had given them out;
- **numeric edges**: casts to sixteen bits (the length of a binary, the loop
  counter of the dump, the stack pointer, the address counter of both passes, the
  difference of a compare), numerals cut to 32 bits, and signed fields of five and
  eleven bits that two programs encode and decode separately;
- **ordering**: reading a port has an effect, so the number and the order of
  reads matter; `--step` takes bytes of the same input as the program it runs; a
  label gets its address before its line is looked at;
- **partial failure**: the passes go on after an error with a line half filled in;
  an allocation, the output file or the disk may fail at each step;
- **liveness**: a program that misses its `HALT` runs for ever, and so does a
  dump loop whose counter wraps.

What makes each part right: the ALU, that the flags mean what arithmetic says;
memory, that the I/O page is never written and that input is consumed once and
in order; control, that calls nest, branches agree with compares, and the
processor stops only where it should; the encoder, that what it accepts decodes
to what was written, and that it accepts all that fits; the emulator program,
that its exit status can be trusted and that its dump prints what was asked for
and ends; the symbol table, that it is a map; the lexer and the parser, that
nothing on a line is dropped; the two passes, that they agree on every address
and write the binary that a source means; the assembler program, that its exit
status tells what is on the disk.

## Modules

| module | models | notes |
|---|---|---|
| `Isa` | `isa.h` | opcodes, field extraction (`Fields`), bounds |
| `Alu` | `alu.c` | `AluResult`, `AluFlags`, at any even `WordSize` up to 2^16 |
| `AluUnit` | calls of `alu_execute` in sequence | the ALU as a state machine, with its properties |
| `Machine` | `control.c`, `memory.c`, `cpu.c` | one action `cpu_step`: fetch, decode, one disjunct per instruction class |
| `CallStack` | abstract | what CALL and RET promise a program: a stack of return addresses |
| `Branches` | `Machine` with two observers | the compare in force, and the refinement mapping to `CallStack` |
| `Emulator` | `emulator/main.c`, `mem_dump` | extends `Machine`; `phase` says where `main` is |
| `Encoder` | `encoder.c` | formats, mnemonic table, `encode_instr` with its error order |
| `EncoderUnit` | calls of `encode_instr` | request and result, with the round-trip properties |
| `Lexer`, `Parser` | `lexer.c`, `parser.c` | pure operators: `lex_line`, `parse_line` and what they call |
| `NameMap` | abstract | what the symbol table promises: a bounded map where a name keeps its first address |
| `SymTable` | `symtable.c` | linear probing over any hash function; the refinement mapping to `NameMap` |
| `SourceCode` | abstract | what a source text means without passes: the address of every line, the value of every name, the image |
| `Assembly` | abstract | what the assembler promises: from a source to its binary in one step, whatever a source and its binary are |
| `Assembler` | `assembler.c` | extends `SourceCode`, and so the parser, and `SymTable`; `phase` says where `assemble_file` is; the refinement mapping to `Assembly` |
| `AssemblerMain` | `assembler/main.c` | extends `Assembler`; `step` says where `main` is |
| `MC*` | | the instances TLC checks; `MCUnits` puts `AluUnit`, `EncoderUnit` and `SymTable` side by side, each called on its own |
| `MachineProofs`, `AluProofs`, `BranchesProofs`, `EmulatorProofs`, `EncoderProofs`, `EncoderUnitProofs`, `AssemblerProofs`, `TranslationProofs` | | the proofs; those about `SymTable` open `AssemblerProofs` |

### The emulator's side

`Machine` has the fields of `struct CPU` under their own names, except that `flags`
is the set of the flags that are up. `mem` holds the cells of the array that
something was loaded into or stored to; the array is static, so every other cell
reads 0 (`Cell`), and 65536 words cost no more than the few a program uses. `stdin`
is the part of the input not yet consumed and `stdout` the bytes printed; both are
sequences, so order and loss are visible. `cycle_count` is a `uint64_t` in the code
and capped by `MaxCycles` here. The memory map, the word size and the decoder are
constants: `MCPrograms` gives them the values of `isa.h`, `MCBranches` and
`MCEmulator` a 32-word machine whose 28 words of RAM lie under a four-word I/O page,
with a decoder that is a table of instructions, since a word of that size has no room
for the fields. The clock may show any value of `Ticks` each time it is read, and
`getchar` at end of file gives 0 as often as it is asked.

An instruction fetch goes through `mem_read` like a load does: a fetch from the
input port consumes a byte, and so does a RET whose frame is the port. A store,
and the push of CALL, go through `mem_write`, which drops what falls into the I/O
page. MOV adds its immediate to zero through the ALU and sets all four flags; CMP
is a subtraction without a result. HALT and every unassigned opcode stop the
processor after pc has moved on.

In `Emulator` the arguments are looked at one action each. The file is a record
(readable, odd length, words); a failed `malloc` of the buffer (`main.c:123-129`)
has the outcome of a file that cannot be read and is counted as one, so where
`ExitCode` speaks of a bad file it means that, too. The loops are `Run`, `Pause`
(the `getchar` of `--step`) and `StopRunning`; `DumpRow` is one round of the loop in
`mem_dump`, with its sixteen-bit counter. `dumped` is the set of the addresses
printed, which stays finite when the loop does not end.

### The assembler's side

A source line is a sequence of lexemes: what the rounds of the loop in `lex_line`
stop at. A lexeme is a name (with its dot or colon), a numeral (sign, digits,
whether they are a number in their base), a string (its characters after the
escapes, whether it is closed), a comment or an unknown character. The limits on
tokens and strings, the NUL that cuts a string, and a comment that hides what
follows are all in `lex_line`; how characters make up a word is not. The name of a
mnemonic, a register or a directive stands for all its spellings in upper and lower
case, as the code looks it up; labels are compared with `strcmp`, and two spellings
of one are two names. `parse_line` fills in a `ParsedLine`
as the code does, and a refused line is left as far as it was filled in, since pass 2
looks at it again.

`Assembler` has the variables of `assemble_file`: `sf`, `parsed`, `i`, `addr`,
`highest`, `image`, `n_words`, `n_errors`. Pass 1 takes a line in two actions, the
label (`DefineLabel`, or `LineFails`) and then the place (`SetOrigin`,
`DefineConstant` or `Advance`); pass 2 takes it in one (`EmitInstr`, `EmitWord`,
`EmitAscii`, `EmitNone`); then `Reject`, `CannotOpen` or `WriteImage`. The image holds
the words emitted and `calloc` makes the others zero. Files are records in a function
from paths: none, a text, or a binary of so many words. The host may have no memory
for any one of the four allocations, refuse to open the output, or have room for only
so many words. A `FILE` is modelled from its use: `fwrite` fails when a full buffer
of `BUFSIZ` words cannot be written out, and what is in the last buffer is left to
`fclose`, whose result nobody looks at.

In `AssemblerMain` an argument is a stem, an extension and whether it begins with a
dash; each round of the loop over `argv` is an action, and `before` is a history
variable, the files at the start.

In `SymTable` the table is the function from its used slots to their entries, FNV-1a
is an arbitrary function into the hash values, and what `strncpy` leaves of a name in
a slot is the operator `Cut`. The loops of insert and lookup stop at one and the same
probe (`StopsAt`). The sum of hash and probe number is a `uint32_t` that may wrap,
which is harmless because the capacity divides 2^32: that is an assumption of the
module. `answer` is a history variable, the last call with what it returned.

In `Encoder` a mnemonic stands for all its spellings, an operand is a kind and a
value, and or-ing together fields that do not overlap is their sum.

### How they are composed

`Emulator` runs `Machine`; `Assembler` calls the operators of `Lexer`, `Parser` and
`Encoder` and takes the steps of `SymTable`; `AssemblerMain` takes those of
`Assembler`. `MCPrograms` puts both sides together: the repository's programs are
source texts, `SourceCode` gives the binary of each over the modelled lexer, parser
and encoder, and `Machine` runs it. The run `assembler` shows that the two passes
write just that binary.

## Runs

| run | question | bounds and why they suffice |
|---|---|---|
| `units` | ALU: do the flags mean what arithmetic says, call after call? Encoder: does what is accepted decode to what was written, and is all that fits accepted? Table: is it a map? | ALU: all opcodes on words at the edges of the signed and unsigned ranges; flags are the only state carried over, so all sixteen flag sets are reached. Encoder: every format and an unknown mnemonic; operands at and just past every bound, of every kind, in every number; addresses at both ends. Table: four slots, hash values below eight, five names of which three share a home slot, one wraps the table and one the hash value: collisions, full tables and redefinitions in every order |
| `branches` | do calls nest, do branches agree with compares, can the I/O page be written, where does the processor stop? | four families of short programs over a table of 31 instructions, all ways to fill 3 to 5 words; 32 cycles, enough to overflow a 28-word stack, wrap the program counter and run into the ports |
| `programs` | do the repository's programs do what their headers say, from source text to halt? | the real word size and memory map; four clock values, one of which wraps when 42 is added; inputs with a zero byte and a byte above 127; 500 cycles, more than any of the programs takes |
| `emulator` | can the exit status be trusted, and does the dump print its window? | all command lines of up to three arguments and some of four and seven; good, empty, oversized, odd and unreadable files; window 8 and row 4 in a memory of 32, so every alignment and every distance from the top occurs |
| `assembler` | do the two passes write the binary the source means, and can the exit status be trusted? | a table of two symbols, lines of five tokens, strings of three characters, ints of 20 bits, buffers of two words, so that every limit is met; every source of up to two lines from a pool of 37 kinds of line, three and four lines of those that work together; every command line of up to three arguments on a short source; every failure of the host on a few |
| `long_names` | is every accepted name found again? (no) | the table of `units`, with one name that a slot cuts |
| `full_image` | is an accepted binary loaded whole? (no) | as `emulator` |
| `dump_top` | does a dump end whatever its window? (no) | as `emulator` |
| `mov_extends` | is MOV's immediate zero-extended? (no) | as `programs`, one program of two instructions |
| `word_register` | does `.word` take only what is documented? (no) | as `assembler`, one source of two lines |
| `cut_image` | does the file hold all that was assembled? (no) | as `assembler` |
| `partial_file` | is a failure reported, and no part of a file left? (no) | as `assembler` |

What they show, property by property:

- `SignedOverflow`, `CarryMeansInexact`, `BitwiseIdentities`: the flag formulas of
  the ALU (three sign bits, a wrapping `uint32_t`) against unbounded arithmetic.
  `LogicKeepsCarry`: what an operation leaves of the flags of the one before it.
- `FlagsRemember`, `BranchAgrees`: from a CMP to the jump that relies on it,
  whatever is executed in between. The second one has a condition, that the
  difference of the two words fits a word: CMP clears OF, so beyond that range JLT
  and JGT do not give the signed order, and the code promises nothing.
- `CallsNest`: the processor implements `CallStack`. The stack is unchecked in the
  code; the abstract specification says what is promised until the stack leaves
  RAM or the program touches it itself, and that nothing is promised after.
- `IoPageFixed`, `HaltPoint`: no path to the I/O page but dropped writes; the
  processor stops only just past a word that is HALT or unassigned.
- `ProgramResult`, `EchoInOrder`, `ProgramsHalt`: sums, the Fibonacci numbers in
  memory, the greeting, the clock plus 42; input echoed without loss; halting.
- `RoundTrip`, `JumpLands`, `AcceptedIfFits`: encoder against decoder. For MOV
  `RoundTrip` speaks of the five bits only: what extends them is the matter of
  `mov_extends`. `JumpLands` is modulo 2^16, as the processor adds; whether a target is
  in reach is `AcceptedIfFits`, which takes the offset of `encoder.h:32`.
- `TableInv`, `IsNameMap`: no free slot between a name's home and its slot, hence
  every lookup and every refusal is the one of the abstract map. Which of its two codes
  a full table returns for a name it has is taken over from the code (`NameMap`).
- `ExitCode`, `DumpWindow`, `InvocationEnds`: `ExitCode` compares the argument loop
  with an independent definition of a well-formed command line.
- `IsTranslation`: the passes implement `Assembly`. `SourceCode` knows the value of
  every name from the start and says in one definition which texts are programs
  (`WellFormed`); the passes find that out line by line, over a table that fills.
  The same sources are refused, and the same words are written, once.
- `LabelsHold`: a name means what its line says, while pass 1 goes on defining
  others and pass 2 reads. `NoWordLost`: `line_size` leaves each line exactly the
  room that pass 2 fills.
- `CodeSaysSource`: from the text to the decoder. `IsTranslation` shares the lexer,
  the parser and the encoder with the code it judges, so this property does without
  them: it reads the lexemes of the line and the fields of the word. What a name
  stands for is found by looking for the line that bears it, or the `.equ` that gives
  it a number (`Stands`). Its condition, `NumbersFit`, is one on the source alone: no
  numeral is wider than an `int32_t`, no constant wider than a word. The immediate of a
  MOV is the signed number that `cpu_step` decodes.
- `AssemblerExit`, `AssemblerEnds`: `AssemblerExit` compares the argument loop with
  an independent reading of the command line, and the exit status with the disk.

`NoWordLost` and `CodeSaysSource` speak of sources that only go forward; what becomes
of the others is what `cut_image` shows.

Seven runs expect a violation, each of something the repository says:

- `long_names`: a name of 64 to 127 characters (the lexer lets them through) is cut to
  63 by `strncpy` and compared whole afterwards (`symtable.c:45` and `52`): it is
  accepted, accepted again, and never found. For shorter names `units` and the proof
  say the table is right.
- `full_image`: a binary of exactly 65536 words passes the size check
  (`main.c:117`), and its length is then cast to `uint16_t` (`main.c:147`): nothing
  is loaded.
- `dump_top`: with `--addr` from 0xFF00 up, the window ends at 0xFFFF and the loop
  counter of `mem_dump` wraps past it (`memory.c:57`): the dump starts over and the
  emulator never exits, except from starts that are 7 modulo 8. `DumpWindow` and
  `InvocationEnds` state what does hold.
- `cut_image`: the file ends at the last address reached (`assembler.c:244`) and not
  at the highest written (`assembler.c:14`), so a source that goes back with `.org`,
  or wraps at the top of memory, loses words without an error.
- `partial_file`: on a full disk a truncated binary stays behind
  (`assembler.c:345`), and when the loss shows only at `fclose` (`assembler.c:351`)
  the call returns `ERR_OK`, against `assembler.h:34-35`.
- `mov_extends`: `encoder.c:168` calls the immediate of MOV zero-extended, and
  `cpu_step` extends its sign (`control.c:64` over `INSTR_IMM5`): `MOV R1, -1` gives
  65535 and not 31. Code and comment disagree on what is meant, and no test decides it.
- `word_register`: `.word R1` is accepted and assembles to the word 0, since
  `fill_value_operand` takes a register, too (`parser.c:105`), against `parser.h:53`
  ("a numeric operand (imm) or label reference") and the message at `parser.c:107`.
  `WellFormed` follows the documents (`ValuesAllowed`), so `IsTranslation` is about
  sources without such a line, in the run and, as a hypothesis, in the proof. The
  same comment allows a label for `.org`, which the parser refuses with a message of
  its own ("must be a numeric literal", `parser.c:91`); there the model follows the
  message.

Deadlock is checked for the table of `long_names` only: elsewhere a halted processor,
a returned call and an exited program stop. Every property of a passing run has a mutant
of the code, written next to the definition it replaces, that breaks it.

**Fairness.** `FairSpec` of `Machine`, `ESpec` of `Emulator` and `MSpec` of
`AssemblerMain` assume weak fairness of the whole next-state relation: one thread in a
loop, which keeps going while it can. The only thing any of them ever waits for is
`getchar`, and the inputs are finite, so each call is answered by a byte or by the end
of the input. The other specifications state no liveness.

## Proofs

All proofs are for arbitrary constants, under the assumptions named in the modules:
`WordSizeAssumption` (an even word size; the bound of `WidthAssumption` is TLC's only, no
proof uses it), `MapAssumption` (the three ports are distinct and
at or above `IO_BASE`, the stack starts below it), `DecodeAssumption` (decoding a word
gives an instruction, and the word 0 has opcode 0), `DataAssumption` (programs are
words and fit memory, inputs are bytes), `EmulatorAssumption` (a window shorter than
memory, arguments that name at most one address, switches that are options, files of
words), `TableAssumption`,
`NameAssumption` and `AddrAssumption` (a capacity that divides the number of hash
values, names whose cut form is a name, a failed lookup that is no address),
`AddressesAssumption` and `OperandsAssumption` (a register operand has a natural number,
an immediate an integer), `TokenAssumption`, `IntAssumption`, `SourceAssumption`,
`AssemblerAssumption` and `MainAssumption` (limits that are numbers, ints of a whole
number of words and longs at least as wide, sources of lexemes whose names are not
empty, paths that are no `NoPath` and stay paths when their extension is replaced). TLC evaluates them in the runs. "If no name is cut"
is `WholeNames`: every name in the source is shorter than a slot of the table, which
holds 63 characters. The run `long_names` shows what happens to the others. "If every
`.word` has a value" is `WordsAreValues`: no text on the disk has a register where a
`.word` takes a number or a label. The run `word_register` shows what becomes of one.

| theorem | says | argument |
|---|---|---|
| `MachineTypes` | `Spec => []TypeOK` | `TypeOK` is inductive; one step per instruction class, over lemmas for the ALU (`AluResult` is a word, `AluFlags` a set of flags), `mem_read` and `mem_write` |
| `IoPageIsFixed` | `Spec => IoPageFixed` | from the type invariant: only `StoreWord` and `Call` write, both through `mem_write` |
| `HaltPointHolds` | `Spec => []HaltPoint` | inductive with the types: the step that halts is the one that fetched `ir`, and it writes no memory |
| `FlagsAlwaysRemember` | `BSpec => []FlagsRemember` | inductive with the types; the step that matters is CMP, where ZF and NF come from the wrapped difference |
| `BranchesAgree` | `BSpec => BranchAgrees` | from `FlagsRemember`: the sign of the wrapped difference is the sign of the difference when that fits a word |
| `ProcessorImplementsCallStack` | `BSpec => CallsNest` | each step of `cpu_step` maps to a step of `CallStack` or a stutter; the frames are the words from `STACK_BASE` down to the stack pointer, and a store or a push elsewhere leaves them alone |
| `OverflowIsSigned`, `CarryIsInexact` | `AluSpec => []SignedOverflow`, `AluSpec => []CarryMeansInexact` | the last call's flags are the ones `AluFlags` computed for it; a wrapped sum or difference is off by no more than one word size, so the signs, or the carry, tell whether it is off |
| `BitwiseIsArithmetic` | `AluSpec => []BitwiseIdentities`, for words of sixteen bits | a word is the sum of its bits (`BitsOfWord`, by halving), the identities hold bit by bit, then for groups of four bits, then for the word |
| `LogicAlwaysKeepsCarry` | `AluSpec => LogicKeepsCarry` | from the definition of `AluFlags` on the logic operations |
| `EncodingRoundTrips` | `EncoderSpec => []RoundTrip` | `EncoderInv`: the result is what `encode_instr` returned for the request. Then one case per format, over lemmas that division and remainder take the fields of a word apart again |
| `JumpsLand` | `EncoderSpec => []JumpLands` | the same invariant; an accepted distance is in the field's range, where sign extension undoes the mask |
| `AcceptanceIsFitting` | `EncoderSpec => []AcceptedIfFits`, if register operands are R0 to R7 (`RegistersExist`, which `parser.c` 18-26 gives) | the same invariant; the checks of `encode_instr` pass exactly for the shape of the mnemonic (`Shaped`), and then only the fields can refuse (`NumbersFit`) |
| `EmulatorTypes` | `ESpec => []EmulatorTypeOK` | inductive with `ArgsInv`, that the arguments left are arguments and what is loaded has been accepted; `Run` by the lemma of `MachineTypes` |
| `ExitCodeIsTrue` | `ESpec => []ExitCode` | the inductive `ExitInv`: `ReadInv` ties what main has stored to the arguments read so far, `PhaseInv` says what each later phase rests on; the independent reading of the command line is a recursive function, unfolded one argument at a time |
| `OnlyTheFullImageIsLost` | `ESpec => [](Len(file.words) # WordSize => ImageLoaded)` | `LoadInv`, from the length of the file below the word size, where the cast leaves it alone; `full_image` is the case left out |
| `DumpPrintsWindow` | `ESpec => []DumpWindow`, for rows of eight words and a memory and a window of whole rows (`WholeRows`) | `DumpInv`: the counter keeps the alignment of the start, and either all rows below it are printed (`OnTheWay`) or it has gone past the top (`Wrapped`), from where the loop never ends; a window below the top ends on a row and is not run over |
| `TableCanBeProbed` | `Spec => []TableInv`, if no name is cut | inductive: a probe that stops at a free slot shows the name absent (`FreeMeansAbsent`), so the new entry is unique and closes its own chain, and nothing is ever removed from a chain |
| `TableImplementsMap` | `Spec => IsNameMap`, if no name is cut | under `TableInv` a stored name is where its probe stops (`PresentIsFound`), and a table with a free slot never runs out of probes, because the probes of a name reach every slot (`ProbesCoverSlots`, division with remainder) |
| `AssemblerTypes`, `LabelsHoldInBothPasses` | `ASpec => []AssemblerTypeOK`, `ASpec => []LabelsHold`, if no name is cut | `AssemblerInv`, below |
| `ProgramRunsAssembler` | `MSpec => ASpec` | every step of `main` is a call of `assemble_file` with two paths (`MainInv`: what `argv` holds are paths), a step of it, or a stutter |
| `ProgramKeepsNames` | `MSpec => [](AssemblerTypeOK /\ LabelsHold)`, if no name is cut | from the two above |
| `NoWordIsLost` | `ASpec => []NoWordLost`, if no name is cut | `TranslationInv`, below |
| `TwoPassesTranslate` | `ASpec => IsTranslation`, if no name is cut and every `.word` has a value | under `AssemblerInv` and `TranslationInv` each step of the passes is a stutter of `Assembly`, each return a refusal and the write its translation; `DiskInv` keeps the texts what they were until then |
| `BinarySaysSource` | `ASpec => []CodeSaysSource`, if no name is cut | from `AssemblerInv` and `TranslationInv`, over the lemmas below |
| `ProgramTranslates` | `MSpec => IsTranslation /\ []NoWordLost /\ []CodeSaysSource`, if no name is cut and every `.word` has a value | from the three above by `ProgramRunsAssembler` |
| `ExitStatusTells` | `MSpec => []AssemblerExit`, if no name is cut and every `.word` has a value | the inductive `ExitInv`: while main reads, the options before the next argument are what the independent reading makes of them (`ReadInv`); then the paths it passes on are `Source` and `Output` of the line; and every step of the call is one of `Assembly`, which writes nothing or the binary |

`AssemblerInv` is the conjunction of the types, of `TableInv` (the table can be probed,
so that a lookup is what the map says), of `LinesInv` (a parsed line has a name where
it needs one and a value where it needs one, which rests on lemmas about what `lex_line`
and `parse_line` return), of `CallInv` (a call under way has two paths), of `PlaceInv`
(the line about to be given its place has its label in the table already) and of
`NamesInv`, which is `LabelsHold` of the abstract map. `LabelsHold` is not inductive
without them: the second definition of a name leaves the first one's value alone only
because the table refuses it, and that is `TableInv`; and between `DefineLabel` and the
line's place the line is not among those placed, but its label is in the table, and
that is `PlaceInv`. A step of pass 1 extends the map or counts an error; a step of pass 2
leaves it alone.

`TranslationInv` ties the two passes to what the source means in `SourceCode`, as long
as there is no error, and an error to a source that is no program (`ErrorInv`).
`FirstPassInv`: the lines before the i-th are readable and lie at the addresses
`Addresses` gives them, and the table holds exactly the names defined so far
(`TableHolds`, where `MapOf` of the table and its count are those of the definitions
met). `SecondPassInv`: the table holds all the names, the lines still to come are as
pass 1 left them, and the image is the union of the words of the lines emitted, a later
one over an earlier. `FileInv`: the source is still the one on the disk, and the host
has had the memory. `ForwardInv`: if the source only goes forward, no word lies on
another and all are below the next line. The parts need one another: an error of
pass 1 must be one of the source, so the table must be full or hold the name exactly
when the source says so; and that a line is resolvable in pass 2 is a fact about all
definitions of the source, which is why pass 1 must end with all of them in the table.
What the recursive function `Addresses` computes is not needed for every source at
once: it satisfies its equation (`AddressesFollow`, by induction over a set of numbers),
and the invariant takes it from one line to the next.

`BinarySaysSource` needs no further invariant: when the call has succeeded,
`TranslationInv` says that the source is a program and that the image holds it
(`SuccessIsProgram`). What is left is to follow one line from its lexemes to its word:

- the lexer: the tokens of a line are its lexemes up to the comment, one for one
  (`LexedLine`), so behind the label they are the words as written (`BehindIsWritten`);
  the scan is one expression over the whole line, so no induction is needed;
- the parser: a line of code becomes an instruction with the mnemonic and all the
  operands written (`CodeLine`), a label is the one the line bears (`LabelLine`), a
  `.equ` gives its number to its name (`ConstantLine`), a numeral that fits is read
  as it is written (`NumberIsRead`);
- names: in a program each has one definition (`DefinedOnce`), so the value pass 2
  finds is the address of the line that bears the name, or the low sixteen bits of its
  number (`NameStands`);
- operands: a resolved one is the register it names or, but for those high bits, the
  number it stands for (`OperandsStand`);
- the encoder: an accepted word carries the operands (`EncodedCarries`, shared with
  `EncodingRoundTrips`); a field of five bits is too narrow for the low half of a
  negative constant, so the immediate is the number written (`SmallIsWritten`), and a
  jump is right modulo 2^16 either way (`JumpReaches`);
- the image: in a source that only goes forward every line lies behind the ones before
  it (`ForwardClimbs`), so the word is still there at the end (`CodeStays`).

`BranchesProofs` and `EmulatorProofs` extend `MachineProofs`, so the type invariant of
the processor is proved once and cited; `TranslationProofs` extends `AssemblerProofs`
and `EncoderProofs`, the lemmas on `encode_instr` that `EncoderUnitProofs` uses too, in
the same way.

Model-checked only:

- everything about particular programs (`ProgramResult`, `EchoInOrder`);
- liveness (`ProgramsHalt`, `InvocationEnds`, `AssemblerEnds`), which rests on fairness
  and enabledness.

## Not modelled

- The text of messages, listings, dumps and the symbol listing, and what is kept for
  them alone: `origin`, `saw_origin`, `symtable_count`, `cpu_dump`. One divergence
  is left at that: `assembler.h:9-10` lets the output begin at the first `.org`, while
  `assembler.c:12-13` and the code begin it at address 0.
- Characters: which of them make up a word, and the cut of a word of more than 127
  characters, or of a line of more than 4095, in two. A source in which that
  happens is a source of other lexemes or lines. For the word `lexer.h:39` says that it
  should be an error, and the code gives none (`lexer.c:122`); for the line no doc says
  what it should mean.
- A binary as the source: the code would take its bytes for lines. `Assembler` treats it
  as a file that cannot be read, and no setup has one.
- `asm_strdup` that returns NULL for the copy of a line (`assembler.c:114`): what
  `lex_line` then reads is undefined. The four other allocations may fail.
- Standard I/O beyond what `Flushed` and `room` say, and the clock, which is an input.
- The tests and the build files, which are read for what they expect, and
  `INSTR_IMM15`, which no code uses.

The hazards in `PROJECT.json` without a property are of two kinds. On some the
repository makes no promise: `--step` and the program share one input, a numeral of
more than 32 bits and a string with a NUL are cut, directives ignore what follows their
arguments. They are modelled, and the properties say under which condition they hold
(`NumbersFit`). The split of a long word and the failed copy of a line are not modelled,
for the reasons above.

What could come next: a model of `lex_line` over character classes that shows it
gives the lexemes assumed here.

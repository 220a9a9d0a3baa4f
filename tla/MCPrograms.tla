----------------------------- MODULE MCPrograms ------------------------------
(* The programs of the repository (programs/*.asm, test.asm and the listing *)
(* of tests_emulator/test_integration.c) and an echo loop, as source texts  *)
(* that are lexed, parsed, assembled and run on the sixteen-bit machine     *)
(* with the memory map of isa.h.                                            *)
EXTENDS Machine, SourceCode

r(k)   == Ident(CHOOSE name \in DOMAIN registers : registers[name] = k)
n(v)   == Numeral(Number(IF v < 0 THEN -1 ELSE 1, IF v < 0 THEN -v ELSE v))
to(name) == Ident(name)
A(mnemonic, ops) == <<Ident(mnemonic)>> \o ops
At(name)   == <<Label(name)>>
Org(addr)  == <<Directive(".org"), n(addr)>>
Data(v)    == <<Directive(".word"), n(v)>>

test == <<
  A("MOV", <<r(1), n(5)>>), A("MOV", <<r(2), n(10)>>),
  A("ADD", <<r(3), r(1), r(2)>>), A("HALT", <<Comment>>) >>

fibonacci == <<
  A("MOV", <<r(0), n(0)>>), A("MOV", <<r(1), n(0)>>), A("MOV", <<r(2), n(1)>>),
  A("MOV", <<r(5), n(10)>>), A("MOV", <<r(4), n(3)>>), A("MOV", <<r(6), n(8)>>),
  A("SHL", <<r(4), r(4), r(6)>>),
  At("LOOP"),
  A("SW", <<r(1), r(4), n(0)>>), A("ADDI", <<r(4), r(4), n(1)>>),
  A("ADD", <<r(3), r(1), r(2)>>), <<Comment>>, A("ADD", <<r(1), r(2), r(0)>>),
  A("ADD", <<r(2), r(3), r(0)>>), A("ADDI", <<r(5), r(5), n(-1)>>),
  A("CMP", <<r(5), r(0)>>), A("JNE", <<to("LOOP")>>), A("HALT", <<>>) >>

PortBase(reg) == <<
  A("MOV", <<r(reg), n(15)>>), A("MOV", <<r(2), n(4)>>),
  A("SHL", <<r(reg), r(reg), r(2)>>), A("MOV", <<r(2), n(15)>>),
  A("ADD", <<r(reg), r(reg), r(2)>>), A("MOV", <<r(2), n(8)>>),
  A("SHL", <<r(reg), r(reg), r(2)>>) >>

Greeting == <<72, 101, 108, 108, 111, 44, 32, 87, 111, 114, 108, 100, 33, 10>>

hello ==
  <<Org(0), A("MOV", <<r(0), n(0)>>)>> \o PortBase(3) \o <<
    A("MOV", <<r(4), n(1)>>), A("MOV", <<r(2), n(8)>>),
    A("SHL", <<r(4), r(4), r(2)>>),
    At("NEXT"),
    A("LW", <<r(1), r(4), n(0)>>), A("CMP", <<r(1), r(0)>>), A("JEQ", <<to("DONE")>>),
    A("SW", <<r(1), r(3), n(0)>>), A("ADDI", <<r(4), r(4), n(1)>>),
    A("JMP", <<to("NEXT")>>),
    At("DONE"), A("HALT", <<>>),
    Org(256) >> \o [k \in 1 .. Len(Greeting) |-> Data(Greeting[k])] \o <<Data(0)>>

timer_example ==
  PortBase(1) \o <<
    A("LW", <<r(0), r(1), n(2)>>), A("ADDI", <<r(0), r(0), n(15)>>),
    A("ADDI", <<r(0), r(0), n(15)>>), A("ADDI", <<r(0), r(0), n(12)>>),
    A("MOV", <<r(3), n(2)>>), A("MOV", <<r(2), n(8)>>),
    A("SHL", <<r(3), r(3), r(2)>>), A("SW", <<r(0), r(3), n(0)>>),
    A("HALT", <<>>) >>

(* Copies standard input to standard output up to a zero byte or its end.   *)
(* The ports are a constant, a packed string lies in front of the loop.     *)
echo ==
  PortBase(3) \o <<
    <<Directive(".equ"), Ident("STDIN"), n(1)>>,
    A("MOV", <<r(0), n(0)>>), A("JMP", <<to("NEXT")>>),
    <<Directive(".ascii"), String(<<101, 99, 104, 111>>)>>,
    At("NEXT") \o A("LW", <<r(1), r(3), to("STDIN")>>), A("CMP", <<r(1), r(0)>>),
    A("JEQ", <<to("DONE")>>), A("SW", <<r(1), r(3), n(0)>>), A("JMP", <<to("NEXT")>>),
    At("DONE"), A("HALT", <<>>) >>

Texts == [test |-> test, fibonacci |-> fibonacci, hello |-> hello,
          timer_example |-> timer_example, echo |-> echo]

SYM_CAPACITY == 256

(* The words of the binary that the assembler makes of a source text; it    *)
(* makes none of a text that is no program.                                 *)
Assemble(text) ==
  LET image == Image(text)
  IN  IF WellFormed(text, SYM_CAPACITY) THEN [k \in 1 .. BinaryWords(text) |-> Cell(image, k - 1)]
      ELSE <<>>

(* The words of the listing, as they stand in the test. *)
integration == <<24576, 24832, 26628, 30721, 63488, 28673, 63488, 25095, 63488>>

Binaries == [program \in DOMAIN Texts |-> Assemble(Texts[program])]

MCPrograms == {Binaries[program] : program \in DOMAIN Texts} \cup {integration}

(* A negative immediate for MOV; none of the programs has one.              *)
MovPrograms == {Assemble(<<A("MOV", <<r(1), n(-1)>>), A("HALT", <<>>)>>)}

MCInputs == {<<>>, <<104, 255, 10>>, <<104, 0, 105>>}
MCTicks  == {0, 1234, 65494, 65535}

Holds(image) == \A k \in 1 .. Len(image) : Cell(mem, k - 1) = image[k]

Loaded(program) == Holds(Binaries[program])

fib[k \in 0 .. 9] == IF k < 2 THEN k ELSE fib[k - 1] + fib[k - 2]

Done(program) ==
  CASE program = "test" -> regs[3] = 15
    [] program = "fibonacci" -> \A k \in 0 .. 9 : Cell(mem, 768 + k) = fib[k]
    [] program = "hello" -> stdout = Greeting
    [] program = "timer_example" -> \E tick \in Ticks : Cell(mem, 512) = (tick + 42) % 65536
    [] program = "echo" -> TRUE

(* A program that has stopped has done what its header says, wherever the   *)
(* clock stood: the sum of test.asm, the ten Fibonacci numbers at 0x0300,   *)
(* the greeting once and nothing else, the clock plus 42 at 0x0200, and the *)
(* registers the integration test looks at.                                 *)
ProgramResult ==
  halted =>
    \/ Holds(integration) /\ regs[2] = 7 /\ pc = 9 /\ cycle_count = 7
    \/ \E program \in DOMAIN Texts : Loaded(program) /\ Done(program)

(* At every moment the echo program has printed the input it has consumed,  *)
(* in order and without loss, but for the byte in hand: what it printed and *)
(* what is left make up an input, with at most the byte in R1 between.      *)
EchoInOrder ==
  \/ stdout \o stdin \in Inputs
  \/ stdout \o <<regs[1]>> \o stdin \in Inputs
  \/ ~Loaded("echo")

(* After a MOV its register holds the five bits of the immediate with zeros *)
(* before them: "MOV: rd = imm (zero-extended)" (encoder.c 168).            *)
MovZeroExtends ==
  INSTR_OPCODE(ir) = OP_MOV => regs[INSTR_RD(ir)] = ir % 32

(* Every one of these programs reaches its HALT: cpu_run keeps stepping. *)
ProgramsHalt == <>halted
==============================================================================

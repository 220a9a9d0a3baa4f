------------------------------ MODULE Emulator -------------------------------
(* The emulator program around the processor: main of emulator/main.c.  It  *)
(* reads its command line, opens and loads a binary, runs cpu_step in one   *)
(* of three loops and, if asked to, dumps a window of memory.               *)
EXTENDS Machine

CONSTANTS
  DUMP_WORDS,    \* words in the dumped window: 0x0100
  DUMP_ROW,      \* words on a line of the dump: 8
  CommandLines,  \* the argument lists, without the program's name
  HexAddr(_),    \* {the 16-bit address a text is in hex}, or {} if it is none
  IsOption(_),   \* the text begins with '-'
  NoPath,        \* no binary named yet
  Files          \* what the path may lead to: see File

(* A file that cannot be opened, sought or read is not readable, and one    *)
(* for whose words malloc fails (main.c 123-129) is counted as such: the    *)
(* outcome is the same.  One of an odd number of bytes has half a word      *)
(* behind its words.                                                        *)
File == [readable : BOOLEAN, odd : BOOLEAN, words : Seq(Word)]

Switches == {"--dump", "--step", "--trace"}

Arguments == UNION {{l[k] : k \in 1 .. Len(l)} : l \in CommandLines}

ASSUME EmulatorAssumption ==
  /\ DUMP_ROW \in Nat \ {0} /\ DUMP_WORDS \in Nat \ {0} /\ DUMP_WORDS < WordSize
  /\ CommandLines \subseteq Seq(Arguments)
  /\ \A arg \in Arguments :
       /\ arg # NoPath
       /\ HexAddr(arg) \subseteq Word
       /\ \A a, b \in HexAddr(arg) : a = b
  /\ \A arg \in Switches \cup {"--addr"} : IsOption(arg)
  /\ Files \subseteq File

VARIABLES
  line,       \* the command line (constant)
  file,       \* the file it names (constant)
  phase,      \* where main is
  argv,       \* the arguments not yet looked at
  switches,   \* do_dump, do_step, do_trace
  has_addr, start_addr,
  bin_path,
  dump_at,    \* addr of the loop in mem_dump
  dumped,     \* the addresses whose words have been printed
  exit_code

options == <<argv, switches, has_addr, start_addr, bin_path>>
dump    == <<dump_at, dumped>>
ends    == <<line, file, exit_code>>
machine == vars
evars   == <<vars, line, file, phase, options, dump, exit_code>>

Phase == {"args", "open", "load", "run", "pause", "dump", "exited"}

Exit(code) == phase' = "exited" /\ exit_code' = code

Fail ==
  /\ Exit(1)
  /\ UNCHANGED <<machine, line, file, options, dump>>

InArgs == phase = "args" /\ argv # <<>>
-----------------------------------------------------------------------------
(* The loop over argv: one action per kind of argument. *)

SetSwitch ==
  /\ InArgs /\ Head(argv) \in Switches
  /\ switches' = switches \cup {Head(argv)}
  /\ argv' = Tail(argv)
  /\ UNCHANGED <<machine, ends, phase, has_addr, start_addr, bin_path, dump>>

AddrValue == IF Len(argv) > 1 THEN HexAddr(argv[2]) ELSE {}

\* Mutant: the ++i that skips the address is missing.
SetAddr_NoSkip ==
  /\ InArgs /\ Head(argv) = "--addr" /\ AddrValue # {}
  /\ start_addr' \in AddrValue /\ has_addr' = TRUE
  /\ argv' = Tail(argv)
  /\ UNCHANGED <<machine, ends, phase, switches, bin_path, dump>>

SetAddr ==
  /\ InArgs /\ Head(argv) = "--addr" /\ AddrValue # {}
  /\ start_addr' \in AddrValue /\ has_addr' = TRUE
  /\ argv' = Tail(Tail(argv))
  /\ UNCHANGED <<machine, ends, phase, switches, bin_path, dump>>

SetPath ==
  /\ InArgs /\ ~IsOption(Head(argv)) /\ bin_path = NoPath
  /\ bin_path' = Head(argv)
  /\ argv' = Tail(argv)
  /\ UNCHANGED <<machine, ends, phase, switches, has_addr, start_addr, dump>>

BadArgument ==
  /\ InArgs
  /\ \/ Head(argv) = "--addr" /\ AddrValue = {}
     \/ Head(argv) \notin Switches \cup {"--addr"} /\ IsOption(Head(argv))
     \/ ~IsOption(Head(argv)) /\ bin_path # NoPath
  /\ Fail

Usable == bin_path # NoPath /\ ~({"--step", "--trace"} \subseteq switches)

ArgsDone ==
  /\ phase = "args" /\ argv = <<>> /\ Usable
  /\ phase' = "open"
  /\ UNCHANGED <<machine, ends, options, dump>>

BadUsage == phase = "args" /\ argv = <<>> /\ ~Usable /\ Fail
-----------------------------------------------------------------------------
(* The checks on the file, in the order of the code, then the load: the     *)
(* word count goes to mem_load through a cast to uint16_t.                  *)

Acceptable == file.readable /\ ~file.odd /\ Len(file.words) <= WordSize

OpenFile == phase = "open" /\ Acceptable /\ phase' = "load"
            /\ UNCHANGED <<machine, ends, options, dump>>

BadFile == phase = "open" /\ ~Acceptable /\ Fail

Load ==
  /\ phase = "load"
  /\ mem' = mem_load(SubSeq(file.words, 1, U16(Len(file.words))), 0)
  /\ phase' = "run"
  /\ UNCHANGED <<cpu, stdin, stdout, ends, options, dump>>
-----------------------------------------------------------------------------
(* The three loops: --step reads a byte after every instruction, --trace    *)
(* and the plain run do not (the register dumps are output only).           *)

Run ==
  /\ phase = "run"
  /\ cpu_step
  /\ phase' = IF "--step" \in switches THEN "pause" ELSE "run"
  /\ UNCHANGED <<ends, options, dump>>

\* The getchar of --step; at the end of the input it returns at once.
Pause ==
  /\ phase = "pause"
  /\ stdin' = IF stdin = <<>> THEN stdin ELSE Tail(stdin)
  /\ phase' = "run"
  /\ UNCHANGED <<cpu, mem, stdout, ends, options, dump>>

StopRunning ==
  /\ phase = "run" /\ halted
  /\ IF "--dump" \in switches
       THEN phase' = "dump" /\ dump_at' = start_addr /\ UNCHANGED exit_code
       ELSE Exit(0) /\ UNCHANGED dump_at
  /\ UNCHANGED <<machine, line, file, options, dumped>>
-----------------------------------------------------------------------------
(* mem_dump(start_addr, end_addr) *)

Lesser(a, b) == IF a < b THEN a ELSE b

\* Mutant: --addr moves the start of the window and not its end.
end_addr_Fixed == Lesser(DUMP_WORDS, WordSize - 1)

end_addr ==
  IF has_addr THEN Lesser(start_addr + DUMP_WORDS, WordSize - 1)
              ELSE DUMP_WORDS

\* The columns of a row end at its width or at end, whichever is first.
Row(addr) == addr .. Lesser(addr + DUMP_ROW, end_addr) - 1

Dumping == phase = "dump" /\ start_addr < end_addr /\ dump_at < end_addr

\* Mutant: the loop counter is wider than sixteen bits.
DumpRow_Wide ==
  /\ Dumping
  /\ dumped' = dumped \cup Row(dump_at)
  /\ dump_at' = dump_at + DUMP_ROW
  /\ UNCHANGED <<machine, ends, phase, options>>

\* Mutant: the loop counter stays where it is.
DumpRow_Stuck ==
  /\ Dumping
  /\ dumped' = dumped \cup Row(dump_at)
  /\ UNCHANGED <<machine, ends, phase, options, dump_at>>

DumpRow ==
  /\ Dumping
  /\ dumped' = dumped \cup Row(dump_at)
  /\ dump_at' = U16(dump_at + DUMP_ROW)
  /\ UNCHANGED <<machine, ends, phase, options>>

DumpDone ==
  /\ phase = "dump" /\ ~Dumping
  /\ Exit(0)
  /\ UNCHANGED <<machine, line, file, options, dump>>
-----------------------------------------------------------------------------
EInit ==
  /\ cpu_reset
  /\ mem = Blank
  /\ stdin \in Inputs /\ stdout = <<>>
  /\ line \in CommandLines /\ file \in Files
  /\ phase = "args" /\ argv = line
  /\ switches = {} /\ has_addr = FALSE /\ start_addr = 0 /\ bin_path = NoPath
  /\ dump_at = 0 /\ dumped = {}
  /\ exit_code = 0

ENext ==
  \/ SetSwitch \/ SetAddr \/ SetPath \/ BadArgument \/ ArgsDone \/ BadUsage
  \/ OpenFile \/ BadFile \/ Load
  \/ Run \/ Pause \/ StopRunning
  \/ DumpRow \/ DumpDone

(* One thread that never waits but in getchar, which the input answers or   *)
(* its end does.                                                            *)
ESpec == EInit /\ [][ENext]_evars /\ WF_evars(ENext)
-----------------------------------------------------------------------------
(* Every variable keeps its type; dump_at is a uint16_t (memory.c 50), the  *)
(* exit status one of the two that main returns.                            *)
EmulatorTypeOK ==
  /\ TypeOK
  /\ phase \in Phase
  /\ switches \subseteq Switches /\ has_addr \in BOOLEAN
  /\ start_addr \in Word /\ dump_at \in Word /\ dumped \subseteq Word
  /\ exit_code \in {0, 1}

(* The k-th argument is the address of the --addr before it. *)
IsAddress(l) ==
  LET value[k \in 0 .. Len(l)] == k > 1 /\ l[k - 1] = "--addr" /\ ~value[k - 1]
  IN  value

(* What the usage line allows: one file, known options in any order, every  *)
(* --addr with an address, and not both --step and --trace.                 *)
WellFormed(l) ==
  LET own   == {k \in 1 .. Len(l) : ~IsAddress(l)[k]}
      paths == {k \in own : ~IsOption(l[k])}
  IN  /\ Cardinality(paths) = 1
      /\ \A k \in own \ paths :
           \/ l[k] \in Switches
           \/ l[k] = "--addr" /\ k < Len(l) /\ HexAddr(l[k + 1]) # {}
      /\ ~({"--step", "--trace"} \subseteq {l[k] : k \in own})

(* The exit status can be trusted (main.c 50-138 and 176): 0 is given only  *)
(* for a good command line and file whose program has run to its halt; 1    *)
(* only for a bad one, a file there is no memory for included, and then no  *)
(* instruction has run and memory is blank.                                 *)
ExitCode ==
  phase = "exited" =>
    IF exit_code = 0
      THEN WellFormed(line) /\ Acceptable /\ halted
      ELSE /\ ~(WellFormed(line) /\ Acceptable)
           /\ cycle_count = 0 /\ stdout = <<>> /\ mem = Blank

DumpFits == start_addr + DUMP_WORDS < WordSize

Window == start_addr .. Lesser(start_addr + DUMP_WORDS, WordSize - 1) - 1

(* A dump that has ended has printed the window it was asked for, whether   *)
(* or not its rows are aligned, and a window that does not reach the top of *)
(* memory is never left on the way (main.c 168-174, memory.c 49-63).        *)
DumpWindow ==
  /\ phase = "exited" /\ exit_code = 0 =>
       dumped = IF "--dump" \in switches THEN Window ELSE {}
  /\ DumpFits => dumped \subseteq Window

(* The arguments always lead to a run or an exit, and once the processor    *)
(* has halted the emulator exits, if the window to dump ends below the top  *)
(* of memory.                                                               *)
InvocationEnds ==
  /\ phase = "args" ~> phase \in {"run", "exited"}
  /\ (halted /\ DumpFits) ~> phase = "exited"

(* Once the processor has halted the emulator exits, whatever the window:   *)
(* "Hex dump a memory region after the program halts" (README.md 177).      *)
DumpEnds == halted ~> phase = "exited"

(* The first instruction finds the whole binary in memory and zeros behind  *)
(* it: a file is turned down only when it "is larger than addressable       *)
(* memory" (main.c 117-118).                                                *)
ImageLoaded ==
  phase = "run" /\ cycle_count = 0 =>
    \A a \in Word : Cell(mem, a) = IF a < Len(file.words) THEN file.words[a + 1] ELSE 0
==============================================================================

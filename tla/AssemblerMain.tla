---------------------------- MODULE AssemblerMain ----------------------------
(* The assembler program (assembler/main.c): its command line, the call of  *)
(* assemble_file and the exit status.                                       *)
EXTENDS Assembler

(* An argument: its extension begins at the last '.' behind the last '/',   *)
(* dash says that it begins with '-'.                                       *)
Text(stem, ext) == [stem |-> stem, ext |-> ext, dash |-> FALSE]
Option(name)    == [stem |-> name, ext |-> "", dash |-> TRUE]

(* A setup has a command line, too: the arguments behind the program name.  *)
ASSUME MainAssumption ==
  /\ \A setup \in Setups : setup.line \in Seq(Path)
  /\ \A path \in Path : ~path.dash => [path EXCEPT !.ext = ".bin"] \in Path

VARIABLES
  step,             \* where main is
  line,             \* the command line (constant)
  argv,             \* the arguments not yet looked at
  source, output,   \* src_path and out_path of main
  exit_code,
  before            \* history: the files at the start

arguments == <<line, argv, source, output, before>>
mvars     == <<avars, step, arguments, exit_code>>

Exit(code) == step' = "exited" /\ exit_code' = code

(* exit before, or without, a call of assemble_file. *)
Quit(code) == Exit(code) /\ UNCHANGED <<avars, arguments>>

InArgs == step = "args" /\ argv # <<>>

Skip(n) ==
  /\ argv' = SubSeq(argv, n + 1, Len(argv))
  /\ UNCHANGED <<avars, step, line, exit_code, before>>

Helps    == {Option("-h"), Option("--help")}
Switches == {Option("--listing"), Option("--symbols")}
-----------------------------------------------------------------------------
Help == InArgs /\ Head(argv) \in Helps /\ Quit(0)

\* Mutant: the ++i that skips the file name is missing.
SetOutput_NoSkip ==
  /\ InArgs /\ Head(argv) = Option("-o") /\ Len(argv) > 1
  /\ output' = argv[2]
  /\ Skip(1) /\ UNCHANGED source

(* Whatever comes after -o is the output file. *)
SetOutput ==
  /\ InArgs /\ Head(argv) = Option("-o") /\ Len(argv) > 1
  /\ output' = argv[2]
  /\ Skip(2) /\ UNCHANGED source

\* The switches only print more.
SetSwitch == InArgs /\ Head(argv) \in Switches /\ Skip(1) /\ UNCHANGED <<source, output>>

SetSource ==
  /\ InArgs /\ ~Head(argv).dash /\ source = NoPath
  /\ source' = Head(argv)
  /\ Skip(1) /\ UNCHANGED output

BadArgument ==
  /\ InArgs
  /\ \/ Head(argv) = Option("-o") /\ Len(argv) = 1
     \/ Head(argv).dash /\ Head(argv) \notin Helps \cup Switches \cup {Option("-o")}
     \/ ~Head(argv).dash /\ source # NoPath
  /\ Quit(2)

ArgsDone == step = "args" /\ argv = <<>>

NoSource == ArgsDone /\ source = NoPath /\ Quit(2)

derive_output_path(in) == [in EXCEPT !.ext = ".bin"]

Underivable == output = NoPath /\ host.memory = "path"

OutOfMemory == ArgsDone /\ source # NoPath /\ Underivable /\ Quit(1)

CallAssembler ==
  /\ ArgsDone /\ source # NoPath /\ ~Underivable
  /\ assemble_file(source, IF output = NoPath THEN derive_output_path(source) ELSE output)
  /\ step' = "assemble"
  /\ UNCHANGED <<arguments, exit_code>>

Assemble == step = "assemble" /\ Step /\ UNCHANGED <<step, arguments, exit_code>>

Finish ==
  /\ step = "assemble" /\ phase = "returned"
  /\ Quit(IF rc = "ERR_OK" /\ n_errors = 0 THEN 0 ELSE 1)
-----------------------------------------------------------------------------
MInit ==
  /\ Fresh
  /\ \E setup \in Setups :
       files = setup.files /\ host = setup.host /\ line = setup.line
  /\ before = files
  /\ step = "args" /\ argv = line
  /\ source = NoPath /\ output = NoPath
  /\ exit_code = 0

MNext ==
  \/ Help \/ SetOutput \/ SetSwitch \/ SetSource \/ BadArgument
  \/ NoSource \/ OutOfMemory \/ CallAssembler \/ Assemble \/ Finish

(* One thread that never waits. *)
MSpec == MInit /\ [][MNext]_mvars /\ WF_mvars(MNext)
-----------------------------------------------------------------------------
(* The k-th argument is the file name of the -o before it. *)
IsFileName(l) ==
  LET value[k \in 0 .. Len(l)] == k > 1 /\ l[k - 1] = Option("-o") /\ ~value[k - 1]
  IN  value

Own(l)     == {k \in 1 .. Len(l) : ~IsFileName(l)[k]}
Outputs(l) == 1 .. Len(l) \ Own(l)
Sources(l) == {k \in Own(l) : ~l[k].dash}

(* The arguments that end the program: help, and what usage does not allow. *)
Ending(l) ==
  {k \in Own(l) :
     \/ l[k] \in Helps
     \/ l[k] = Option("-o") /\ k = Len(l)
     \/ l[k].dash /\ l[k] \notin Helps \cup Switches \cup {Option("-o")}
     \/ k \in Sources(l) /\ \E j \in Sources(l) : j < k}

(* The first of them counts. *)
Helped(l) == \E k \in Ending(l) : l[k] \in Helps /\ \A j \in Ending(l) : k <= j

Misused(l) == ~Helped(l) /\ (Ending(l) # {} \/ Sources(l) = {})

Source(l) == l[CHOOSE k \in Sources(l) : TRUE]

(* The last -o, or the source with .bin for an extension. *)
Output(l) ==
  IF Outputs(l) = {} THEN [Source(l) EXCEPT !.ext = ".bin"]
  ELSE l[CHOOSE k \in Outputs(l) : \A j \in Outputs(l) : j <= k]

Untouched == files = before

Translated ==
  LET text == before[Source(line)].lines
      n    == BinaryWords(text)
  IN  n <= host.room =>
        files = [before EXCEPT ![Output(line)] = Binary(n, Image(text))]

(* The exit status tells what is on the disk, if it has room: after 0 the   *)
(* file the command line names holds the binary of its source, whatever the *)
(* order of the flags, and no other file has changed; after 1, 2 or a help  *)
(* text none has; and 2 is for the command lines that usage does not allow  *)
(* (main.c 51-108).                                                         *)
AssemblerExit ==
  step = "exited" =>
    /\ exit_code = 2 <=> Misused(line)
    /\ IF exit_code = 0 /\ ~Helped(line)
         THEN Translated
         ELSE Untouched \/ files[Output(line)].words = host.room

(* Every invocation exits, whatever the source: an error on a line does not *)
(* keep the passes from going on (main.c 56-79; assembler.c 187, 253, 340). *)
AssemblerEnds == <>(step = "exited")
==============================================================================

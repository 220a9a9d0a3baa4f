--------------------------- MODULE EmulatorProofs ----------------------------
(* Type correctness of the emulator program and what its memory dump        *)
(* prints.                                                                  *)
EXTENDS Emulator, MachineProofs, FiniteSetTheorems, WellFoundedInduction

(* The arguments not yet looked at are arguments of the command line, and   *)
(* what is loaded has been accepted.                                        *)
ArgsInv ==
  /\ argv \in Seq(Arguments) /\ file \in Files
  /\ phase = "load" => Acceptable

LEMMA EmulatorWords ==
  /\ 0 \in Word /\ STACK_BASE \in Word /\ MaxCycles \in Nat
  /\ DUMP_WORDS \in Nat /\ DUMP_WORDS < WordSize
  /\ DUMP_ROW \in Nat /\ DUMP_ROW > 0
BY WordSizeFacts, MapAssumption, DataAssumption, EmulatorAssumption DEF Word

LEMMA InitEmulator == EInit => EmulatorTypeOK /\ ArgsInv
<1> SUFFICES ASSUME EInit PROVE EmulatorTypeOK /\ ArgsInv
  OBVIOUS
<1>1. IsMemory(mem)
  BY DEF EInit, Blank, IsMemory
<1>2. stdin \in Seq(0 .. ByteSize - 1) /\ stdout \in Seq(0 .. ByteSize - 1)
  BY DataAssumption DEF EInit
<1>3. regs \in [Reg -> Word] /\ pc \in Word /\ ir \in Word
  BY EmulatorWords DEF EInit, cpu_reset
<1>4. flags \subseteq Flag /\ halted \in BOOLEAN
  BY DEF EInit, cpu_reset
<1>5. cycle_count \in 0 .. MaxCycles
  BY EmulatorWords DEF EInit, cpu_reset
<1>6. TypeOK
  BY <1>1, <1>2, <1>3, <1>4, <1>5 DEF TypeOK
<1>7. ArgsInv
  BY EmulatorAssumption DEF EInit, ArgsInv
<1> QED
  BY <1>6, <1>7, EmulatorWords DEF EInit, EmulatorTypeOK, Phase

(* The window ends inside memory, however it starts.                        *)
LEMMA EndOfWindow ==
  ASSUME start_addr \in Word, has_addr \in BOOLEAN
  PROVE  end_addr \in Word
BY EmulatorWords, WordSizeFacts DEF end_addr, Lesser, Word

LEMMA RowIsInMemory ==
  ASSUME start_addr \in Word, has_addr \in BOOLEAN, dump_at \in Word
  PROVE  Row(dump_at) \subseteq Word
<1>1. end_addr \in Word
  BY EndOfWindow
<1>2. dump_at \in Int /\ end_addr \in Int
  BY <1>1, WordSizeFacts DEF Word
<1>3. Lesser(dump_at + DUMP_ROW, end_addr) <= end_addr /\ Lesser(dump_at + DUMP_ROW, end_addr) \in Int
  BY <1>2, EmulatorWords DEF Lesser
<1> DEFINE e == end_addr
           l == Lesser(dump_at + DUMP_ROW, end_addr)
<1>4. l <= e /\ l \in Int /\ e \in 0 .. WordSize - 1 /\ dump_at \in 0 .. WordSize - 1
  BY <1>1, <1>3 DEF Word
<1> HIDE DEF e, l
<1>5. dump_at .. l - 1 \subseteq 0 .. WordSize - 1
  BY <1>4, WordSizeFacts
<1> QED
  BY <1>5 DEF Row, Word, l

(* What mem_load is given is a sequence of words that fits memory.          *)
LEMMA LoadedImage ==
  ASSUME ArgsInv, phase = "load"
  PROVE  IsMemory(mem_load(SubSeq(file.words, 1, U16(Len(file.words))), 0))
<1> DEFINE n == U16(Len(file.words))
           image == SubSeq(file.words, 1, n)
<1>1. file.words \in Seq(Word)
  BY EmulatorAssumption DEF ArgsInv, File
<1>2. Len(file.words) \in Nat /\ Len(file.words) <= WordSize
  BY <1>1 DEF ArgsInv, Acceptable
<1>3. n \in 0 .. WordSize - 1 /\ n <= Len(file.words)
  <2> DEFINE l == Len(file.words)
  <2>1. l \in Nat /\ l <= WordSize
    BY <1>2
  <2> HIDE DEF l
  <2>2. CASE l < WordSize
    BY <2>1, <2>2, U16Cases, WordSizeFacts DEF l
  <2>3. CASE l = WordSize
    BY <2>1, <2>3, U16Cases, WordSizeFacts DEF l
  <2> QED
    BY <2>1, <2>2, <2>3, WordSizeFacts
<1> HIDE DEF n
<1>4. image \in Seq(Word) /\ Len(image) = n
  BY <1>1, <1>3
<1>5. Len(image) <= WordSize
  BY <1>3, <1>4, WordSizeFacts
<1> HIDE DEF image
<1>6. IsMemory(mem_load(image, 0))
  BY <1>4, <1>5, LoadTypes
<1> QED
  BY <1>6 DEF image, n

LEMMA SecondTail ==
  ASSUME NEW S, NEW s \in Seq(S), Len(s) > 1
  PROVE  Tail(Tail(s)) \in Seq(S)
<1>1. s # <<>>
  OBVIOUS
<1>2. Tail(s) \in Seq(S)
  BY <1>1
<1>3. Len(Tail(s)) = Len(s) - 1
  BY <1>1
<1>4. Tail(s) # <<>>
  <2> SUFFICES ASSUME Tail(s) = <<>> PROVE FALSE
    OBVIOUS
  <2>1. Len(<<>>) = 0
    OBVIOUS
  <2>2. Len(Tail(s)) = 0
    BY <2>1, Zenon
  <2> QED
    BY <1>3, <2>2
<1> QED
  BY <1>2, <1>4

(* One step of main keeps the types: one case per action.                   *)
LEMMA StepEmulator ==
  EmulatorTypeOK /\ ArgsInv /\ [ENext]_evars => EmulatorTypeOK' /\ ArgsInv'
<1> SUFFICES ASSUME EmulatorTypeOK, ArgsInv, [ENext]_evars
             PROVE  EmulatorTypeOK' /\ ArgsInv'
  OBVIOUS
<1> USE DEF EmulatorTypeOK, ArgsInv, Phase
<1>m. ASSUME UNCHANGED machine PROVE TypeOK'
  BY <1>m DEF machine, vars, TypeOK, IsMemory
<1>a. ASSUME UNCHANGED file PROVE Acceptable' <=> Acceptable
  BY <1>a DEF Acceptable
<1>f. CASE Fail
  BY <1>f, <1>m DEF Fail, Exit, options, dump
<1>1. CASE UNCHANGED evars
  BY <1>1, <1>a, <1>m DEF evars, machine, options, dump
<1>2. CASE SetSwitch
  BY <1>2, <1>m DEF SetSwitch, InArgs, dump, ends
<1>3. CASE SetAddr
  <2>1. argv # <<>> /\ AddrValue # {}
    BY <1>3 DEF SetAddr, InArgs
  <2>2. Len(argv) > 1 /\ AddrValue = HexAddr(argv[2])
    BY <2>1 DEF AddrValue
  <2>3. argv[2] \in Arguments
    BY <2>2
  <2>4. AddrValue \subseteq Word
    BY <2>2, <2>3, EmulatorAssumption
  <2>5. Tail(Tail(argv)) \in Seq(Arguments)
    BY <2>2, SecondTail
  <2> QED
    BY <1>3, <1>m, <2>4, <2>5 DEF SetAddr, InArgs, dump, ends
<1>4. CASE SetPath
  BY <1>4, <1>m DEF SetPath, InArgs, dump, ends
<1>5. CASE BadArgument
  BY <1>5, <1>f DEF BadArgument
<1>6. CASE ArgsDone
  BY <1>6, <1>m DEF ArgsDone, options, dump, ends
<1>7. CASE BadUsage
  BY <1>7, <1>f DEF BadUsage
<1>8. CASE OpenFile
  BY <1>8, <1>a, <1>m DEF OpenFile, options, dump, ends
<1>9. CASE BadFile
  BY <1>9, <1>f DEF BadFile
<1>10. CASE Load
  <2>1. IsMemory(mem')
    BY <1>10, LoadedImage DEF Load
  <2>2. TypeOK'
    BY <1>10, <2>1 DEF Load, cpu, TypeOK
  <2> QED
    BY <1>10, <2>2 DEF Load, options, dump, ends
<1>11. CASE Run
  <2>1. TypeOK'
    BY <1>11, StepTypes DEF Run, Next
  <2> QED
    BY <1>11, <2>1 DEF Run, options, dump, ends
<1>12. CASE Pause
  <2>1. stdin' \in Seq(0 .. ByteSize - 1)
    <3>1. stdin \in Seq(0 .. ByteSize - 1)
      BY DEF TypeOK
    <3>2. CASE stdin = <<>>
      BY <1>12, <3>1, <3>2 DEF Pause
    <3>3. CASE stdin # <<>>
      <4>1. Tail(stdin) \in Seq(0 .. ByteSize - 1)
        BY <3>1, <3>3
      <4> QED
        BY <1>12, <3>3, <4>1 DEF Pause
    <3> QED
      BY <3>2, <3>3
  <2>2. TypeOK'
    BY <1>12, <2>1 DEF Pause, cpu, TypeOK, IsMemory
  <2> QED
    BY <1>12, <2>2 DEF Pause, options, dump, ends
<1>13. CASE StopRunning
  BY <1>13, <1>m DEF StopRunning, Exit, options
<1>14. CASE DumpRow
  <2>1. dump_at + DUMP_ROW \in Int
    BY EmulatorWords, WordSizeFacts DEF Word
  <2>2. U16(dump_at + DUMP_ROW) \in Word
    BY <2>1, U16IsWord
  <2>3. Row(dump_at) \subseteq Word
    BY RowIsInMemory
  <2> QED
    BY <1>14, <1>m, <2>2, <2>3 DEF DumpRow, Dumping, options, ends
<1>15. CASE DumpDone
  BY <1>15, <1>m DEF DumpDone, Exit, options, dump
<1> QED
  BY <1>1, <1>2, <1>3, <1>4, <1>5, <1>6, <1>7, <1>8, <1>9, <1>10, <1>11, <1>12,
     <1>13, <1>14, <1>15 DEF ENext

(* The emulator keeps the types of its state, whatever the command line,    *)
(* the binary and the input.                                                *)
THEOREM EmulatorTypes == ESpec => []EmulatorTypeOK
<1>1. ESpec => [](EmulatorTypeOK /\ ArgsInv)
  BY InitEmulator, StepEmulator, PTL DEF ESpec
<1> QED
  BY <1>1, PTL

-----------------------------------------------------------------------------
(* The window dumped *)

(* Memory and window are whole numbers of rows: 65536, 256 and 8 words in   *)
(* the program (memory.h 25, main.c 169-171 and memory.c 54).               *)
WholeRows == DUMP_ROW = 8 /\ WordSize % 8 = 0 /\ DUMP_WORDS % 8 = 0

(* The dump is under way at dump_at, everything below it printed, or its    *)
(* counter has gone past the top of memory and the loop cannot end.         *)
OnTheWay ==
  /\ start_addr <= dump_at
  /\ dumped = start_addr .. Lesser(dump_at, end_addr) - 1

Wrapped == end_addr = WordSize - 1 /\ start_addr % 8 # 7 /\ ~DumpFits

(* Nothing is printed before the dump; the rows keep the alignment of the   *)
(* start.                                                                   *)
DumpInv ==
  /\ ~has_addr => start_addr = 0
  /\ phase \notin {"dump", "exited"} => dumped = {}
  /\ phase = "dump" =>
       /\ "--dump" \in switches
       /\ dump_at % 8 = start_addr % 8
       /\ OnTheWay \/ Wrapped
  /\ DumpWindow

(* The window ends where DumpWindow says.                                   *)
LEMMA EndIs ==
  ASSUME EmulatorTypeOK, ~has_addr => start_addr = 0
  PROVE  /\ end_addr = Lesser(start_addr + DUMP_WORDS, WordSize - 1)
         /\ Window = start_addr .. end_addr - 1
         /\ DumpFits => end_addr = start_addr + DUMP_WORDS
         /\ ~DumpFits => end_addr = WordSize - 1
         /\ start_addr \in 0 .. WordSize - 1 /\ end_addr \in 0 .. WordSize - 1
<1>1. start_addr \in 0 .. WordSize - 1 /\ has_addr \in BOOLEAN
  BY DEF EmulatorTypeOK, Word
<1>2. end_addr = Lesser(start_addr + DUMP_WORDS, WordSize - 1)
  BY <1>1, EmulatorWords, WordSizeFacts DEF end_addr, Lesser
<1> DEFINE e == end_addr
<1>3. e = IF start_addr + DUMP_WORDS < WordSize - 1 THEN start_addr + DUMP_WORDS ELSE WordSize - 1
  BY <1>2 DEF Lesser
<1>4. DumpFits <=> start_addr + DUMP_WORDS < WordSize
  BY DEF DumpFits
<1> HIDE DEF e
<1>5. /\ DumpFits => e = start_addr + DUMP_WORDS
      /\ ~DumpFits => e = WordSize - 1
      /\ e \in 0 .. WordSize - 1
  BY <1>1, <1>3, <1>4, EmulatorWords, WordSizeFacts
<1> QED
  BY <1>1, <1>2, <1>5 DEF e, Window

(* A row is printed: the arithmetic of one turn of the loop.                *)
LEMMA RowArithmetic ==
  ASSUME NEW W \in Nat, NEW at \in Nat, NEW s \in Nat, NEW e \in Nat, NEW words \in Nat,
         W % 8 = 0, words % 8 = 0, e < W, at % 8 = s % 8, at < e
  PROVE  /\ at + 8 < W => (at + 8) % 8 = s % 8
         /\ at + 8 >= W => (at + 8 - W) % 8 = s % 8
         /\ at + 8 >= W => s % 8 # 7
         /\ e = s + words => at + 8 <= e
OBVIOUS

LEMMA InitDump == EInit => DumpInv
BY DEF EInit, DumpInv, DumpWindow

(* Before the dump nothing is printed, and so nothing amiss.                *)
LEMMA QuietStep ==
  ASSUME phase' \notin {"dump", "exited"}, dumped' = {}, ~has_addr' => start_addr' = 0
  PROVE  DumpInv'
BY DEF DumpInv, DumpWindow

LEMMA WindowStays ==
  ASSUME UNCHANGED <<has_addr, start_addr>>
  PROVE  UNCHANGED <<end_addr, Window, DumpFits>>
BY DEF end_addr, Window, DumpFits

LEMMA FailKeepsDump ==
  ASSUME DumpInv, Fail
  PROVE  DumpInv'
<1>1. /\ phase' = "exited" /\ exit_code' = 1
      /\ UNCHANGED <<has_addr, start_addr, dumped>>
  BY DEF Fail, Exit, options, dump
<1>2. UNCHANGED <<Window, DumpFits>>
  BY <1>1, WindowStays
<1> QED
  BY <1>1, <1>2 DEF DumpInv, DumpWindow

(* Once the loop has gone past the top it finds a row to print forever.     *)
LEMMA WrappedGoesOn ==
  ASSUME WholeRows, EmulatorTypeOK, phase = "dump", dump_at % 8 = start_addr % 8,
         ~has_addr => start_addr = 0, Wrapped
  PROVE  Dumping
<1> DEFINE W == WordSize
           s == start_addr
           at == dump_at
<1>1. W \in Nat /\ W % 8 = 0 /\ s \in 0 .. W - 1 /\ at \in 0 .. W - 1
  BY WordSizeFacts DEF WholeRows, EmulatorTypeOK, Word
<1>2. s % 8 # 7 /\ at % 8 = s % 8 /\ end_addr = W - 1
  BY DEF Wrapped
<1> HIDE DEF W, s, at
<1>3. s # W - 1 /\ at # W - 1
  BY <1>1, <1>2
<1>4. s < end_addr /\ at < end_addr
  BY <1>1, <1>2, <1>3
<1> QED
  BY <1>4 DEF Dumping, s, at

(* One row. *)
LEMMA RowKeepsDump ==
  ASSUME WholeRows, EmulatorTypeOK, DumpInv, DumpRow
  PROVE  DumpInv'
<1> DEFINE W == WordSize
           s == start_addr
           e == end_addr
           at == dump_at
           end == Lesser(at + 8, e)
<1>1. /\ W \in Nat /\ W % 8 = 0 /\ s \in 0 .. W - 1 /\ at \in 0 .. W - 1
      /\ DUMP_WORDS \in Nat /\ DUMP_WORDS % 8 = 0
  BY WordSizeFacts, EmulatorWords DEF WholeRows, EmulatorTypeOK, Word
<1>2. /\ e \in 0 .. W - 1
      /\ DumpFits => e = s + DUMP_WORDS
      /\ ~DumpFits => e = W - 1
      /\ Window = s .. e - 1
  BY EndIs DEF DumpInv
<1>3. /\ phase = "dump" /\ at < e /\ s < e /\ "--dump" \in switches
      /\ at % 8 = s % 8
      /\ OnTheWay \/ Wrapped
  BY DEF DumpRow, Dumping, DumpInv
<1>4. /\ UNCHANGED <<phase, switches, has_addr, start_addr, exit_code>>
      /\ dump_at' = U16(at + 8)
      /\ dumped' = dumped \cup (at .. end - 1)
  BY DEF DumpRow, WholeRows, options, ends, Row
<1>5. UNCHANGED <<end_addr, Window, DumpFits>>
  BY <1>4, WindowStays
<1>6. end = IF at + 8 < e THEN at + 8 ELSE e
  BY DEF Lesser
<1>7. at + 8 \in 0 .. W - 1 \/ at + 8 \in W .. 2 * W - 1
  <2> HIDE DEF W, s, e, at
  <2>1. W >= 8
    BY <1>1, <1>2, <1>3
  <2> QED
    BY <1>1, <2>1
<1>8. U16(at + 8) = IF at + 8 < W THEN at + 8 ELSE at + 8 - W
  BY <1>1, <1>7, U16Cases DEF W
<1>9. /\ at + 8 < W => (at + 8) % 8 = s % 8
      /\ at + 8 >= W => (at + 8 - W) % 8 = s % 8
      /\ at + 8 >= W => s % 8 # 7
      /\ e = s + DUMP_WORDS => at + 8 <= e
  <2> HIDE DEF W, s, e, at
  <2>1. /\ W \in Nat /\ at \in Nat /\ s \in Nat /\ e \in Nat /\ DUMP_WORDS \in Nat
        /\ W % 8 = 0 /\ DUMP_WORDS % 8 = 0 /\ e < W /\ at % 8 = s % 8 /\ at < e
    BY <1>1, <1>2, <1>3
  <2> QED
    BY <2>1, RowArithmetic
<1>10. DumpFits => at + 8 <= e
  BY <1>2, <1>9
<1>11. dump_at' % 8 = start_addr' % 8
  <2>1. start_addr' = s /\ dump_at' = U16(at + 8)
    BY <1>4
  <2> DEFINE u == U16(at + 8)
  <2>2. u = IF at + 8 < W THEN at + 8 ELSE at + 8 - W
    BY <1>8
  <2> HIDE DEF W, s, e, at, u
  <2>3. u % 8 = s % 8
    BY <1>1, <1>9, <2>2
  <2> QED
    BY <2>1, <2>3 DEF u
<1>12. (OnTheWay \/ Wrapped)'
  <2>1. CASE Wrapped
    BY <1>4, <1>5, <2>1 DEF Wrapped
  <2>2. CASE OnTheWay /\ at + 8 >= W
    <3>1. ~DumpFits
      <4> HIDE DEF W, s, e, at
      <4> QED
        BY <1>1, <1>2, <1>10, <2>2
    <3> QED
      BY <1>2, <1>4, <1>5, <1>9, <2>2, <3>1 DEF Wrapped
  <2>3. CASE OnTheWay /\ at + 8 < W
    <3>1. dump_at' = at + 8
      BY <1>4, <1>8, <2>3
    <3>2. s <= at /\ dumped = s .. Lesser(at, e) - 1
      BY <2>3 DEF OnTheWay
    <3>3. Lesser(at, e) = at
      BY <1>3 DEF Lesser
    <3>4. dumped' = (s .. at - 1) \cup (at .. end - 1)
      BY <1>4, <3>2, <3>3
    <3>5. end \in Int /\ at <= end
      <4> HIDE DEF W, s, e, at
      <4> QED
        BY <1>1, <1>2, <1>3, <1>6
    <3>6. (s .. at - 1) \cup (at .. end - 1) = s .. end - 1
      <4> HIDE DEF W, s, e, at, end
      <4> QED
        BY <1>1, <3>2, <3>5
    <3>7. s <= at + 8
      <4> HIDE DEF W, s, e, at
      <4> QED
        BY <1>1, <3>2
    <3>8. dumped' = s .. end - 1
      BY <3>4, <3>6
    <3> QED
      BY <1>4, <1>5, <3>1, <3>7, <3>8 DEF OnTheWay
  <2> QED
    <3>1. at + 8 < W \/ at + 8 >= W
      <4> HIDE DEF W, s, e, at
      <4> QED
        BY <1>1
    <3> QED
      BY <1>3, <2>1, <2>2, <2>3, <3>1
<1>13. DumpFits => dumped' \subseteq Window
  <2> SUFFICES ASSUME DumpFits PROVE dumped' \subseteq Window
    OBVIOUS
  <2>1. dumped \subseteq Window
    BY DEF DumpInv, DumpWindow
  <2>2. s <= at
    BY <1>3 DEF OnTheWay, Wrapped
  <2>3. at .. end - 1 \subseteq s .. e - 1
    <3> HIDE DEF W, s, e, at
    <3> QED
      BY <1>1, <1>2, <1>6, <2>2
  <2> QED
    BY <1>2, <1>4, <2>1, <2>3
<1>14. DumpWindow'
  BY <1>3, <1>4, <1>5, <1>13 DEF DumpWindow
<1> QED
  BY <1>3, <1>4, <1>11, <1>12, <1>14 DEF DumpInv

(* One step of main keeps DumpInv: one case per action.                     *)
LEMMA StepDump ==
  WholeRows /\ EmulatorTypeOK /\ DumpInv /\ [ENext]_evars => DumpInv'
<1> SUFFICES ASSUME WholeRows, EmulatorTypeOK, DumpInv, [ENext]_evars
             PROVE  DumpInv'
  OBVIOUS
<1>q. phase \notin {"dump", "exited"} => dumped = {} /\ (~has_addr => start_addr = 0)
  BY DEF DumpInv
<1>1. CASE UNCHANGED evars
  <2>1. UNCHANGED <<phase, exit_code, switches, has_addr, start_addr, dump_at, dumped>>
    BY <1>1 DEF evars, options, dump
  <2>2. UNCHANGED <<end_addr, Window, DumpFits>>
    BY <2>1, WindowStays
  <2> QED
    BY <2>1, <2>2 DEF DumpInv, DumpWindow, OnTheWay, Wrapped
<1>2. CASE SetSwitch
  BY <1>2, <1>q, QuietStep DEF SetSwitch, InArgs, dump
<1>3. CASE SetAddr
  BY <1>3, <1>q, QuietStep DEF SetAddr, InArgs, dump
<1>4. CASE SetPath
  BY <1>4, <1>q, QuietStep DEF SetPath, InArgs, dump
<1>5. CASE BadArgument \/ BadUsage \/ BadFile
  BY <1>5, FailKeepsDump DEF BadArgument, BadUsage, BadFile
<1>6. CASE ArgsDone
  BY <1>6, <1>q, QuietStep DEF ArgsDone, options, dump
<1>7. CASE OpenFile
  BY <1>7, <1>q, QuietStep DEF OpenFile, options, dump
<1>8. CASE Load
  BY <1>8, <1>q, QuietStep DEF Load, options, dump
<1>9. CASE Run
  BY <1>9, <1>q, QuietStep DEF Run, options, dump
<1>10. CASE Pause
  BY <1>10, <1>q, QuietStep DEF Pause, options, dump
<1>11. CASE StopRunning
  <2>1. /\ phase = "run" /\ dumped = {} /\ dumped' = {}
        /\ UNCHANGED <<switches, has_addr, start_addr>>
    BY <1>11, <1>q DEF StopRunning, options
  <2>2. UNCHANGED <<end_addr, Window, DumpFits>>
    BY <2>1, WindowStays
  <2>3. CASE "--dump" \in switches
    <3>1. phase' = "dump" /\ dump_at' = start_addr
      BY <1>11, <2>3 DEF StopRunning
    <3>2. start_addr \in Int /\ end_addr \in Int
      BY EndIs DEF DumpInv
    <3>3. start_addr <= start_addr
      BY <3>2
    <3>4. start_addr .. Lesser(start_addr, end_addr) - 1 = {}
      BY <3>2 DEF Lesser
    <3>5. OnTheWay'
      BY <2>1, <2>2, <3>1, <3>3, <3>4 DEF OnTheWay
    <3> QED
      BY <2>1, <2>3, <3>1, <3>5 DEF DumpInv, DumpWindow
  <2>4. CASE "--dump" \notin switches
    <3>1. phase' = "exited"
      BY <1>11, <2>4 DEF StopRunning, Exit
    <3> QED
      BY <2>1, <2>4, <3>1 DEF DumpInv, DumpWindow
  <2> QED
    BY <2>3, <2>4
<1>12. CASE DumpRow
  BY <1>12, RowKeepsDump
<1>13. CASE DumpDone
  <2>1. /\ phase = "dump" /\ ~Dumping /\ phase' = "exited"
        /\ UNCHANGED <<switches, has_addr, start_addr, dumped>>
    BY <1>13 DEF DumpDone, Exit, options, dump
  <2>2. UNCHANGED <<end_addr, Window, DumpFits>>
    BY <2>1, WindowStays
  <2>3. "--dump" \in switches /\ OnTheWay
    BY <2>1, WrappedGoesOn DEF DumpInv
  <2>4. /\ Window = start_addr .. end_addr - 1
        /\ start_addr \in Int /\ end_addr \in Int /\ dump_at \in Int
    BY EndIs, WordSizeFacts DEF DumpInv, EmulatorTypeOK, Word
  <2>5. start_addr <= dump_at /\ (start_addr >= end_addr \/ dump_at >= end_addr)
    BY <2>1, <2>3, <2>4 DEF Dumping, OnTheWay
  <2>6. Lesser(dump_at, end_addr) = end_addr
    BY <2>4, <2>5 DEF Lesser
  <2>7. dumped = Window
    BY <2>3, <2>4, <2>6 DEF OnTheWay
  <2> QED
    BY <2>1, <2>2, <2>3, <2>7 DEF DumpInv, DumpWindow
<1> QED
  BY <1>1, <1>2, <1>3, <1>4, <1>5, <1>6, <1>7, <1>8, <1>9, <1>10, <1>11, <1>12,
     <1>13 DEF ENext

(* A dump that ends has printed its window, however the start is aligned,   *)
(* and one whose window ends below the top of memory never leaves it: for   *)
(* the row of eight words of the program.                                   *)
THEOREM DumpPrintsWindow == WholeRows => (ESpec => []DumpWindow)
<1> SUFFICES ASSUME WholeRows PROVE ESpec => []DumpWindow
  OBVIOUS
<1>1. DumpInv /\ EmulatorTypeOK /\ [ENext]_evars => DumpInv'
  BY StepDump
<1>2. DumpInv => DumpWindow
  BY DEF DumpInv
<1> QED
  BY <1>1, <1>2, InitDump, EmulatorTypes, PTL DEF ESpec
-----------------------------------------------------------------------------
(* The image in memory *)

Image == SubSeq(file.words, 1, U16(Len(file.words)))

(* The first instruction finds what Load has put there.                     *)
LoadInv ==
  /\ phase = "load" => Acceptable
  /\ phase = "pause" => cycle_count > 0
  /\ phase = "run" /\ cycle_count = 0 => Acceptable /\ mem = mem_load(Image, 0)

LEMMA StepLoad ==
  EmulatorTypeOK /\ LoadInv /\ [ENext]_evars => LoadInv'
<1> SUFFICES ASSUME EmulatorTypeOK, LoadInv, [ENext]_evars PROVE LoadInv'
  OBVIOUS
<1>1. ASSUME file' = file PROVE (Acceptable' <=> Acceptable) /\ Image' = Image
  BY <1>1 DEF Acceptable, Image
<1>2. CASE UNCHANGED evars
  BY <1>1, <1>2 DEF LoadInv, evars, vars, cpu
<1>3. CASE \/ SetSwitch \/ SetAddr \/ SetPath \/ BadArgument \/ ArgsDone \/ BadUsage
           \/ BadFile \/ StopRunning \/ DumpRow \/ DumpDone
  <2>1. phase' \in {"args", "open", "dump", "exited"}
    BY <1>3 DEF SetSwitch, SetAddr, SetPath, BadArgument, ArgsDone, BadUsage, BadFile,
         StopRunning, DumpRow, Dumping, DumpDone, Fail, Exit, InArgs
  <2> QED
    BY <2>1 DEF LoadInv
<1>4. CASE OpenFile
  BY <1>1, <1>4 DEF OpenFile, LoadInv, ends
<1>5. CASE Load
  BY <1>1, <1>5 DEF Load, LoadInv, Image, ends
<1>6. CASE Run
  <2>1. cycle_count' = cycle_count + 1 /\ cycle_count \in Nat
    BY <1>6, EmulatorWords DEF Run, cpu_step, EmulatorTypeOK, TypeOK
  <2>2. cycle_count' > 0
    BY <2>1
  <2>3. phase' \in {"run", "pause"}
    BY <1>6 DEF Run
  <2>4. cycle_count' # 0
    BY <2>1
  <2> QED
    BY <2>2, <2>3, <2>4 DEF LoadInv
<1>7. CASE Pause
  <2>1. phase' = "run" /\ cycle_count' = cycle_count /\ cycle_count > 0
    BY <1>7 DEF Pause, LoadInv, cpu
  <2>2. cycle_count \in Nat
    BY EmulatorWords DEF EmulatorTypeOK, TypeOK
  <2>3. cycle_count' # 0
    BY <2>1, <2>2
  <2> QED
    BY <2>1, <2>3 DEF LoadInv
<1> QED
  BY <1>2, <1>3, <1>4, <1>5, <1>6, <1>7 DEF ENext

(* What mem_load puts where, when nothing of the image is cut off.          *)
LEMMA WholeImage ==
  ASSUME file \in Files, Acceptable, Len(file.words) # WordSize, NEW a \in Word
  PROVE  Cell(mem_load(Image, 0), a) = IF a < Len(file.words) THEN file.words[a + 1] ELSE 0
<1> DEFINE n == Len(file.words)
           W == WordSize
<1>1. file.words \in Seq(Word)
  BY EmulatorAssumption DEF File
<1>2. n \in Nat /\ n <= W /\ n # W /\ W \in Nat
  BY <1>1, WordSizeFacts DEF Acceptable
<1>3. n \in 0 .. W - 1
  <2> HIDE DEF n, W
  <2> QED
    BY <1>2
<1>4. U16(n) = n
  BY <1>2, <1>3, U16Cases
<1>5. Image \in Seq(Word) /\ Len(Image) = n /\ \A j \in 1 .. n : Image[j] = file.words[j]
  BY <1>1, <1>2, <1>4 DEF Image
<1>6. a \in 0 .. W - 1
  BY DEF Word
<1> DEFINE D == {U16(0 + i) : i \in 0 .. n - 1}
<1>7. D = 0 .. n - 1
  <2>1. \A i \in 0 .. n - 1 : U16(0 + i) = i
    <3> SUFFICES ASSUME NEW i \in 0 .. n - 1 PROVE U16(0 + i) = i
      OBVIOUS
    <3>1. i \in 0 .. W - 1 /\ 0 + i = i /\ i \in Int
      <4> HIDE DEF n, W
      <4> QED
        BY <1>2, <1>3
    <3> QED
      BY <3>1, U16Cases
  <2> HIDE DEF n
  <2> QED
    BY <2>1
<1>8. a - 0 = a /\ U16(a) = a /\ a \in Int
  BY <1>6, U16Cases, WordSizeFacts
<1>9. mem_load(Image, 0) = [c \in D |-> Image[U16(c - 0) + 1]]
  BY <1>5 DEF mem_load
<1> HIDE DEF n, W, D
<1>10. a \in D <=> a < n
  BY <1>2, <1>6, <1>7
<1>11. CASE a < n
  <2>1. a + 1 \in 1 .. n
    BY <1>2, <1>6, <1>11
  <2>2. Cell(mem_load(Image, 0), a) = Image[a + 1]
    BY <1>8, <1>9, <1>10, <1>11 DEF Cell
  <2> QED
    BY <1>5, <1>11, <2>1, <2>2 DEF n
<1>12. CASE ~(a < n)
  <2>1. Cell(mem_load(Image, 0), a) = 0
    BY <1>9, <1>10, <1>12 DEF Cell
  <2> QED
    BY <1>12, <2>1 DEF n
<1> QED
  BY <1>11, <1>12

(* The image that fills memory to the last word is the only one that main   *)
(* accepts and does not load: every other binary is whole in memory, with   *)
(* zeros behind it, when the first instruction is fetched.                  *)
THEOREM OnlyTheFullImageIsLost == ESpec => [](Len(file.words) # WordSize => ImageLoaded)
<1>1. ESpec => [](EmulatorTypeOK /\ ArgsInv)
  BY InitEmulator, StepEmulator, PTL DEF ESpec
<1>2. EInit => LoadInv
  BY DEF EInit, LoadInv
<1>3. ArgsInv /\ LoadInv => (Len(file.words) # WordSize => ImageLoaded)
  BY WholeImage, Zenon DEF ArgsInv, LoadInv, ImageLoaded
<1>4. EmulatorTypeOK /\ LoadInv /\ [ENext]_evars => LoadInv'
  BY StepLoad
<1> QED
  BY <1>1, <1>2, <1>3, <1>4, PTL DEF ESpec

-----------------------------------------------------------------------------
(* The exit status *)

(* The arguments in their own right, those of them that name a file, and    *)
(* what an option has to be.                                                *)
Own      == {k \in 1 .. Len(line) : ~IsAddress(line)[k]}
Paths    == {k \in Own : ~IsOption(line[k])}
Known(k) ==
  \/ line[k] \in Switches
  \/ line[k] = "--addr" /\ k < Len(line) /\ HexAddr(line[k + 1]) # {}

(* How many arguments have been read.                                       *)
Seen == Len(line) - Len(argv)

Rest ==
  /\ Seen \in 0 .. Len(line)
  /\ \A j \in 1 .. Len(argv) : argv[j] = line[Seen + j]

(* Where main is in its command line: what is left of it begins with an     *)
(* argument in its own right, and of those before it the switches are set,  *)
(* the options are known and at most one names a file, which bin_path says. *)
ReadInv ==
  /\ line \in CommandLines
  /\ Rest
  /\ argv # <<>> => Seen + 1 \in Own
  /\ switches = {line[k] : k \in {m \in Own : m <= Seen}} \cap Switches
  /\ \A k \in Own \ Paths : k <= Seen => Known(k)
  /\ IF bin_path = NoPath
       THEN \A k \in Paths : k > Seen
       ELSE \E k \in Paths : k <= Seen /\ \A m \in Paths : m <= Seen => m = k

(* What has been checked by the time main gets to each phase.               *)
PhaseInv ==
  /\ phase \in {"args", "open", "load"} => cycle_count = 0 /\ stdout = <<>> /\ mem = Blank
  /\ phase \in {"open", "load", "run", "pause", "dump"} => WellFormed(line)
  /\ phase \in {"load", "run", "pause", "dump"} => Acceptable
  /\ phase = "dump" => halted

ExitInv == ReadInv /\ PhaseInv /\ ExitCode

LEMMA ExitWords ==
  /\ NoPath \notin Arguments
  /\ CommandLines \subseteq Seq(Arguments)
  /\ \A arg \in Switches \cup {"--addr"} : IsOption(arg)
BY EmulatorAssumption

(* Induction on the natural numbers, for the function IsAddress defines.    *)
Less == {ss \in Nat \X Nat : ss[1] < ss[2]}

LEMMA LessWF == IsWellFoundedOn(Less, Nat)
BY NatLessThanWellFounded, Zenon DEF OpToRel, Less

LEMMA AllByStep ==
  ASSUME NEW S, 0 \in S, \A n \in Nat : n \in S => n + 1 \in S
  PROVE  \A n \in Nat : n \in S
<1> DEFINE C == {n \in Nat : n \notin S}
<1>1. CASE C = {}
  BY <1>1
<1>2. CASE C # {}
  <2>1. PICK m \in C : \A k \in C : ~ (<<k, m>> \in Less)
    <3>1. C \in SUBSET Nat
      OBVIOUS
    <3> QED
      BY <1>2, <3>1, LessWF, WFMin
  <2>2. m # 0 /\ m \in Nat
    BY <2>1
  <2>3. m - 1 \in Nat /\ (m - 1) + 1 = m
    BY <2>2
  <2>4. <<m - 1, m>> \in Less
    BY <2>2, <2>3 DEF Less
  <2>5. m - 1 \notin C
    BY <2>1, <2>4
  <2>6. m - 1 \in S
    BY <2>3, <2>5
  <2>7. m \in S
    BY <2>3, <2>6
  <2> QED
    BY <2>1, <2>7
<1> QED
  BY <1>1, <1>2

(* The equation of IsAddress, as far as its n-th argument.                  *)
AddressUpTo(l, g, n) ==
  g = [k \in 0 .. n |-> k > 1 /\ l[k - 1] = "--addr" /\ ~g[k - 1]]

(* A function satisfies it, whatever n.                                     *)
LEMMA AddressExists == ASSUME NEW l PROVE \A n \in Nat : \E g : AddressUpTo(l, g, n)
<1> DEFINE S == {n \in Nat : \E g : AddressUpTo(l, g, n)}
<1>1. 0 \in S
  <2> DEFINE g == [k \in 0 .. 0 |-> FALSE]
  <2>1. \A k \in 0 .. 0 : ~ (k > 1)
    OBVIOUS
  <2>2. \A k \in 0 .. 0 : FALSE = (k > 1 /\ l[k - 1] = "--addr" /\ ~g[k - 1])
    BY <2>1, Zenon
  <2> HIDE DEF g
  <2>3. [k \in 0 .. 0 |-> FALSE] = [k \in 0 .. 0 |-> k > 1 /\ l[k - 1] = "--addr" /\ ~g[k - 1]]
    BY <2>2, Zenon
  <2>4. AddressUpTo(l, g, 0)
    BY <2>3, Zenon DEF AddressUpTo, g
  <2> QED
    BY <2>4
<1>2. ASSUME NEW n \in Nat, n \in S PROVE n + 1 \in S
  <2>1. PICK g : AddressUpTo(l, g, n)
    BY <1>2
  <2> DEFINE D == 0 .. n + 1
             h == [k \in D |-> k > 1 /\ l[k - 1] = "--addr" /\ ~g[k - 1]]
  <2>2. \A k \in 0 .. n : h[k] = g[k]
    <3>1. 0 .. n \subseteq D
      OBVIOUS
    <3>2. \A k \in 0 .. n : g[k] = (k > 1 /\ l[k - 1] = "--addr" /\ ~g[k - 1])
      BY <2>1, Zenon DEF AddressUpTo
    <3> HIDE DEF D
    <3> QED
      BY <3>1, <3>2
  <2>3. \A k \in D : k > 1 => k - 1 \in 0 .. n
    OBVIOUS
  <2> HIDE DEF D
  <2>4. \A k \in D :
          (k > 1 /\ l[k - 1] = "--addr" /\ ~g[k - 1]) = (k > 1 /\ l[k - 1] = "--addr" /\ ~h[k - 1])
    <3> HIDE DEF h
    <3> QED
      BY <2>2, <2>3
  <2>5. h = [k \in D |-> k > 1 /\ l[k - 1] = "--addr" /\ ~h[k - 1]]
    <3> DEFINE f == [k \in D |-> k > 1 /\ l[k - 1] = "--addr" /\ ~h[k - 1]]
    <3>1. h = f
      BY <2>4, Zenon
    <3> QED
      BY <3>1
  <2>6. AddressUpTo(l, h, n + 1)
    BY <2>5, Zenon DEF AddressUpTo, D
  <2> QED
    BY <2>6
<1> HIDE DEF S
<1>3. \A n \in Nat : n \in S
  BY <1>1, <1>2, AllByStep
<1> QED
  BY <1>3 DEF S

(* The first argument is no address, nor is one that follows an argument    *)
(* that is no --addr or is an address itself.                               *)
LEMMA AddressFollows ==
  ASSUME NEW l, Len(l) \in Nat
  PROVE  \A k \in 1 .. Len(l) :
           IsAddress(l)[k] = (k > 1 /\ l[k - 1] = "--addr" /\ ~IsAddress(l)[k - 1])
<1>1. \E g : AddressUpTo(l, g, Len(l))
  BY AddressExists
<1>2. IsAddress(l) = CHOOSE g : AddressUpTo(l, g, Len(l))
  BY DEF IsAddress, AddressUpTo
<1>3. AddressUpTo(l, IsAddress(l), Len(l))
  BY <1>1, <1>2
<1>4. 1 .. Len(l) \subseteq 0 .. Len(l)
  OBVIOUS
<1> QED
  BY <1>3, <1>4, Zenon DEF AddressUpTo

(* The usage line, in the terms of ReadInv.                                 *)
LEMMA WellFormedIs ==
  WellFormed(line) <=>
    /\ Cardinality(Paths) = 1
    /\ \A k \in Own \ Paths : Known(k)
    /\ ~({"--step", "--trace"} \subseteq {line[k] : k \in Own})
BY Zenon DEF WellFormed, Own, Paths, Known

LEMMA OnePath ==
  ASSUME Len(line) \in Nat
  PROVE  Cardinality(Paths) = 1 <=> \E k : Paths = {k}
<1>1. IsFiniteSet(1 .. Len(line))
  BY FS_Interval
<1>2. Paths \subseteq 1 .. Len(line)
  BY DEF Paths, Own
<1>3. IsFiniteSet(Paths)
  BY <1>1, <1>2, FS_Subset
<1> QED
  BY <1>3, FS_Singleton

(* What comes next on the command line, and where one is after it.          *)
LEMMA Reading ==
  ASSUME ReadInv, argv \in Seq(Arguments), argv # <<>>
  PROVE  /\ Len(line) \in Nat /\ Seen \in Nat /\ Seen + 1 \in Own /\ Seen + 1 <= Len(line)
         /\ line[Seen + 1] = Head(argv) /\ Head(argv) \in Arguments
         /\ Len(argv) > 1 <=> Seen + 1 < Len(line)
         /\ Len(argv) > 1 => argv[2] = line[Seen + 2] /\ argv[2] \in Arguments
<1>1. Len(line) \in Nat /\ Len(argv) \in Nat /\ Len(argv) > 0 /\ Head(argv) = argv[1]
  BY ExitWords DEF ReadInv
<1>2. Seen \in Nat /\ Seen = Len(line) - Len(argv) /\ Seen + 1 \in Own
  BY <1>1 DEF ReadInv, Rest, Seen
<1> DEFINE n == Len(line)
           a == Len(argv)
<1>3. n \in Nat /\ a \in Nat /\ a > 0 /\ Seen = n - a /\ Seen \in Nat
  BY <1>1, <1>2
<1>4. \A j \in 1 .. a : argv[j] = line[Seen + j]
  BY DEF ReadInv, Rest
<1>5. \A j \in 1 .. a : argv[j] \in Arguments
  OBVIOUS
<1> HIDE DEF n, a
<1>6. 1 \in 1 .. a /\ (a > 1 => 2 \in 1 .. a) /\ (a > 1 <=> Seen + 1 < n) /\ Seen + 1 <= n
  BY <1>3
<1> QED
  BY <1>1, <1>2, <1>4, <1>5, <1>6 DEF n, a

LEMMA SeqTail ==
  ASSUME NEW S, NEW s \in Seq(S), s # <<>>
  PROVE  /\ Tail(s) \in Seq(S) /\ Len(Tail(s)) = Len(s) - 1 /\ Len(s) \in Nat \ {0}
         /\ \A j \in 1 .. Len(s) - 1 : Tail(s)[j] = s[j + 1]
OBVIOUS

(* One argument is read. *)
LEMMA TakeOne ==
  ASSUME ReadInv, argv \in Seq(Arguments), argv # <<>>, argv' = Tail(argv), line' = line
  PROVE  Rest' /\ Seen' = Seen + 1
<1> DEFINE n == Len(line)
           a == Len(argv)
<1>1. /\ n \in Nat /\ a \in Nat \ {0} /\ Len(argv') = a - 1
      /\ \A j \in 1 .. a - 1 : argv'[j] = argv[j + 1]
  BY SeqTail, ExitWords DEF ReadInv
<1>2. /\ Seen = n - a /\ Seen \in 0 .. n
      /\ \A j \in 1 .. a : argv[j] = line[Seen + j]
  BY DEF ReadInv, Rest, Seen
<1> HIDE DEF n, a
<1>3. n - (a - 1) = Seen + 1 /\ Seen + 1 \in 0 .. n
  BY <1>1, <1>2
<1>4. ASSUME NEW j \in 1 .. a - 1 PROVE argv'[j] = line[Seen + 1 + j]
  <2>1. j + 1 \in 1 .. a /\ Seen + (j + 1) = Seen + 1 + j
    BY <1>1, <1>2
  <2> QED
    BY <1>1, <1>2, <2>1
<1>5. Seen' = Seen + 1
  BY <1>1, <1>3 DEF Seen, n
<1> QED
  BY <1>1, <1>3, <1>4, <1>5 DEF Rest, n

LEMMA LongTail ==
  ASSUME NEW S, NEW s \in Seq(S), Len(s) > 1
  PROVE  Tail(s) # <<>>
<1>1. s # <<>>
  OBVIOUS
<1>2. Len(Tail(s)) = Len(s) - 1 /\ Len(s) \in Nat
  BY <1>1
<1>3. Len(s) - 1 # 0
  <2> DEFINE n == Len(s)
  <2>1. n \in Nat /\ n > 1
    BY <1>2
  <2> HIDE DEF n
  <2>2. n - 1 # 0
    BY <2>1
  <2> QED
    BY <2>2 DEF n
<1>4. Len(<<>>) = 0
  OBVIOUS
<1> QED
  BY <1>2, <1>3, <1>4, Zenon

(* An --addr and its address are read. *)
LEMMA TakeTwo ==
  ASSUME ReadInv, argv \in Seq(Arguments), Len(argv) > 1, argv' = Tail(Tail(argv)), line' = line
  PROVE  Rest' /\ Seen' = Seen + 2
<1> DEFINE n == Len(line)
           a == Len(argv)
           t == Tail(argv)
<1>1. argv # <<>>
  OBVIOUS
<1>2. /\ n \in Nat /\ a \in Nat /\ a > 1 /\ Len(t) = a - 1 /\ t \in Seq(Arguments)
      /\ \A j \in 1 .. a - 1 : t[j] = argv[j + 1]
  BY <1>1, SeqTail, ExitWords DEF ReadInv
<1>3. t # <<>>
  BY LongTail
<1>4. /\ Len(Tail(t)) = Len(t) - 1
      /\ \A j \in 1 .. Len(t) - 1 : Tail(t)[j] = t[j + 1]
  BY <1>2, <1>3, SeqTail
<1>5. /\ Seen = n - a /\ Seen \in 0 .. n
      /\ \A j \in 1 .. a : argv[j] = line[Seen + j]
  BY DEF ReadInv, Rest, Seen
<1>6. argv' = Tail(t)
  OBVIOUS
<1> HIDE DEF n, a, t
<1>7. n - (a - 2) = Seen + 2 /\ Seen + 2 \in 0 .. n /\ Len(argv') = a - 2
  <2>1. Len(argv') = Len(t) - 1
    BY <1>4, <1>6
  <2> QED
    BY <1>2, <1>5, <2>1
<1>8. ASSUME NEW j \in 1 .. a - 2 PROVE argv'[j] = line[Seen + 2 + j]
  <2>1. /\ j + 1 \in 1 .. a - 1 /\ j + 2 \in 1 .. a /\ j \in 1 .. Len(t) - 1
        /\ (j + 1) + 1 = j + 2 /\ Seen + (j + 2) = Seen + 2 + j
    BY <1>2, <1>5
  <2>2. Tail(t)[j] = t[j + 1] /\ t[j + 1] = argv[j + 2] /\ argv[j + 2] = line[Seen + 2 + j]
    BY <1>2, <1>4, <1>5, <2>1
  <2> QED
    BY <1>6, <2>2
<1>9. Seen' = Seen + 2
  BY <1>7 DEF Seen, n
<1> QED
  BY <1>7, <1>8, <1>9 DEF Rest, n

(* ReadInv is kept by an argument of each kind.                             *)
LEMMA OwnIs ==
  \A k \in 1 .. Len(line) : k \in Own <=> ~IsAddress(line)[k]
BY DEF Own

LEMMA LineStays ==
  ASSUME line' = line
  PROVE  Own' = Own /\ Paths' = Paths /\ \A k : Known(k)' <=> Known(k)
BY DEF Own, Paths, Known

LEMMA ReadSwitch ==
  ASSUME ReadInv, argv \in Seq(Arguments), SetSwitch
  PROVE  ReadInv'
<1> DEFINE s == Seen
           n == Len(line)
<1>1. /\ argv # <<>> /\ Head(argv) \in Switches
      /\ switches' = switches \cup {Head(argv)}
      /\ argv' = Tail(argv) /\ line' = line /\ bin_path' = bin_path
  BY DEF SetSwitch, InArgs, ends
<1>2. Rest' /\ Seen' = s + 1
  BY <1>1, TakeOne
<1>3. /\ n \in Nat /\ s \in Nat /\ s + 1 \in Own /\ s + 1 <= n
      /\ line[s + 1] = Head(argv)
  BY <1>1, Reading
<1>4. IsOption(line[s + 1]) /\ line[s + 1] # "--addr" /\ s + 1 \notin Paths /\ Known(s + 1)
  BY <1>1, <1>3, ExitWords DEF Switches, Paths, Known
<1>5. Own' = Own /\ Paths' = Paths /\ \A k : Known(k)' <=> Known(k)
  BY <1>1, LineStays
<1>6. Own \subseteq 1 .. n /\ Paths \subseteq Own
  BY DEF Own, Paths
<1>7. argv' # <<>> => s + 2 \in Own
  <2> SUFFICES ASSUME argv' # <<>> PROVE s + 2 \in Own
    OBVIOUS
  <2>1. argv' \in Seq(Arguments) /\ Len(argv') > 0
    BY <1>1
  <2>2. s + 1 = n - Len(argv')
    BY <1>1, <1>2 DEF Seen
  <2>3. s + 2 \in 1 .. n /\ (s + 2) - 1 = s + 1
    BY <1>3, <2>1, <2>2
  <2>4. ~IsAddress(line)[s + 2]
    BY <1>3, <1>4, <2>3, AddressFollows
  <2> QED
    BY <2>3, <2>4, OwnIs
<1>8. switches' = {line[k] : k \in {m \in Own : m <= s + 1}} \cap Switches
  <2>1. switches = {line[k] : k \in {m \in Own : m <= s}} \cap Switches
    BY DEF ReadInv
  <2>2. {m \in Own : m <= s + 1} = {m \in Own : m <= s} \cup {s + 1}
    <3>1. \A m \in Own : m <= s + 1 <=> m <= s \/ m = s + 1
      BY <1>3, <1>6
    <3> QED
      BY <1>3, <3>1
  <2> QED
    BY <1>1, <1>3, <2>1, <2>2
<1>9. \A k \in Own : k <= s + 1 => k <= s \/ k = s + 1
  BY <1>3, <1>6
<1> HIDE DEF s, n
<1>10. \A k \in Own \ Paths : k <= s + 1 => Known(k)
  BY <1>4, <1>9 DEF ReadInv, s
<1>11. \A k \in Own : k > s /\ k # s + 1 => k > s + 1
  BY <1>3, <1>6
<1>12. \A k \in Own : k <= s => k <= s + 1
  BY <1>3, <1>6
<1>13. IF bin_path = NoPath
         THEN \A k \in Paths : k > s + 1
         ELSE \E k \in Paths : k <= s + 1 /\ \A m \in Paths : m <= s + 1 => m = k
  BY <1>4, <1>6, <1>9, <1>11, <1>12 DEF ReadInv, s
<1>14. s + 2 = (s + 1) + 1
  BY <1>3
<1> QED
  BY <1>1, <1>2, <1>5, <1>7, <1>8, <1>10, <1>13, <1>14 DEF ReadInv

LEMMA ReadAddr ==
  ASSUME ReadInv, argv \in Seq(Arguments), SetAddr
  PROVE  ReadInv'
<1> DEFINE s == Seen
           n == Len(line)
<1>1. /\ argv # <<>> /\ Head(argv) = "--addr" /\ AddrValue # {}
      /\ switches' = switches
      /\ argv' = Tail(Tail(argv)) /\ line' = line /\ bin_path' = bin_path
  BY DEF SetAddr, InArgs, ends
<1>2. Len(argv) > 1 /\ HexAddr(argv[2]) # {}
  BY <1>1 DEF AddrValue
<1>3. Rest' /\ Seen' = s + 2
  BY <1>1, <1>2, TakeTwo
<1>4. /\ n \in Nat /\ s \in Nat /\ s + 1 \in Own /\ s + 2 <= n
      /\ line[s + 1] = "--addr" /\ line[s + 2] = argv[2]
  BY <1>1, <1>2, Reading
<1>5. IsOption(line[s + 1]) /\ s + 1 \notin Paths /\ Known(s + 1)
  <2>1. (s + 1) + 1 = s + 2 /\ s + 1 < n
    BY <1>4
  <2> QED
    BY <1>2, <1>4, <2>1, ExitWords DEF Paths, Known
<1>6. Own' = Own /\ Paths' = Paths /\ \A k : Known(k)' <=> Known(k)
  BY <1>1, LineStays
<1>7. Own \subseteq 1 .. n /\ Paths \subseteq Own
  BY DEF Own, Paths
<1>8. s + 1 \in 1 .. n /\ s + 2 \in 1 .. n /\ s + 2 > 1 /\ (s + 2) - 1 = s + 1
  BY <1>4
<1>9. IsAddress(line)[s + 2] /\ s + 2 \notin Own
  <2>1. ~IsAddress(line)[s + 1]
    BY <1>4, <1>8, OwnIs
  <2>2. IsAddress(line)[s + 2]
    BY <1>4, <1>8, <2>1, AddressFollows
  <2> QED
    BY <1>8, <2>2, OwnIs
<1>10. argv' # <<>> => s + 3 \in Own
  <2> SUFFICES ASSUME argv' # <<>> PROVE s + 3 \in Own
    OBVIOUS
  <2>1. argv' \in Seq(Arguments)
    BY <1>1, <1>2, SecondTail
  <2>2. Len(argv') > 0 /\ Len(argv') \in Nat
    BY <2>1
  <2>3. s + 2 = n - Len(argv')
    BY <1>1, <1>3 DEF Seen
  <2>4. s + 3 \in 1 .. n /\ (s + 3) - 1 = s + 2
    BY <1>4, <2>2, <2>3
  <2>5. ~IsAddress(line)[s + 3]
    BY <1>4, <1>9, <2>4, AddressFollows
  <2> QED
    BY <2>4, <2>5, OwnIs
<1>11. switches' = {line[k] : k \in {m \in Own : m <= s + 2}} \cap Switches
  <2>1. switches = {line[k] : k \in {m \in Own : m <= s}} \cap Switches
    BY DEF ReadInv
  <2>2. {m \in Own : m <= s + 2} = {m \in Own : m <= s} \cup {s + 1}
    <3>1. \A m \in Own : m <= s + 2 <=> m <= s \/ m = s + 1
      BY <1>4, <1>7, <1>9
    <3> QED
      BY <1>4, <3>1
  <2>3. line[s + 1] \notin Switches
    BY <1>4 DEF Switches
  <2> QED
    BY <1>1, <2>1, <2>2, <2>3
<1>12. \A k \in Own : k <= s + 2 => k <= s \/ k = s + 1
  BY <1>4, <1>7, <1>9
<1> HIDE DEF s, n
<1>13. \A k \in Own \ Paths : k <= s + 2 => Known(k)
  BY <1>5, <1>12 DEF ReadInv, s
<1>14. \A k \in Own : k > s /\ k # s + 1 => k > s + 2
  BY <1>4, <1>7, <1>9
<1>15. \A k \in Own : k <= s => k <= s + 2
  BY <1>4, <1>7
<1>16. IF bin_path = NoPath
         THEN \A k \in Paths : k > s + 2
         ELSE \E k \in Paths : k <= s + 2 /\ \A m \in Paths : m <= s + 2 => m = k
  BY <1>5, <1>7, <1>12, <1>14, <1>15 DEF ReadInv, s
<1>17. s + 3 = (s + 2) + 1
  BY <1>4
<1> QED
  BY <1>1, <1>3, <1>6, <1>10, <1>11, <1>13, <1>16, <1>17 DEF ReadInv

LEMMA ReadPath ==
  ASSUME ReadInv, argv \in Seq(Arguments), SetPath
  PROVE  ReadInv'
<1> DEFINE s == Seen
           n == Len(line)
<1>1. /\ argv # <<>> /\ ~IsOption(Head(argv)) /\ bin_path = NoPath
      /\ switches' = switches
      /\ argv' = Tail(argv) /\ line' = line /\ bin_path' = Head(argv)
  BY DEF SetPath, InArgs, ends
<1>2. Rest' /\ Seen' = s + 1
  BY <1>1, TakeOne
<1>3. /\ n \in Nat /\ s \in Nat /\ s + 1 \in Own /\ s + 1 <= n
      /\ line[s + 1] = Head(argv) /\ Head(argv) \in Arguments
  BY <1>1, Reading
<1>4. /\ line[s + 1] # "--addr" /\ line[s + 1] \notin Switches /\ s + 1 \in Paths
      /\ bin_path' # NoPath
  BY <1>1, <1>3, ExitWords DEF Paths
<1>5. Own' = Own /\ Paths' = Paths /\ \A k : Known(k)' <=> Known(k)
  BY <1>1, LineStays
<1>6. Own \subseteq 1 .. n /\ Paths \subseteq Own
  BY DEF Own, Paths
<1>7. argv' # <<>> => s + 2 \in Own
  <2> SUFFICES ASSUME argv' # <<>> PROVE s + 2 \in Own
    OBVIOUS
  <2>1. argv' \in Seq(Arguments) /\ Len(argv') > 0
    BY <1>1
  <2>2. s + 1 = n - Len(argv')
    BY <1>1, <1>2 DEF Seen
  <2>3. s + 2 \in 1 .. n /\ (s + 2) - 1 = s + 1
    BY <1>3, <2>1, <2>2
  <2>4. ~IsAddress(line)[s + 2]
    BY <1>3, <1>4, <2>3, AddressFollows
  <2> QED
    BY <2>3, <2>4, OwnIs
<1>8. switches' = {line[k] : k \in {m \in Own : m <= s + 1}} \cap Switches
  <2>1. switches = {line[k] : k \in {m \in Own : m <= s}} \cap Switches
    BY DEF ReadInv
  <2>2. {m \in Own : m <= s + 1} = {m \in Own : m <= s} \cup {s + 1}
    <3>1. \A m \in Own : m <= s + 1 <=> m <= s \/ m = s + 1
      BY <1>3, <1>6
    <3> QED
      BY <1>3, <3>1
  <2> QED
    BY <1>1, <1>4, <2>1, <2>2
<1>9. \A k \in Own : k <= s + 1 => k <= s \/ k = s + 1
  BY <1>3, <1>6
<1>10. s + 1 <= s + 1
  BY <1>3
<1>11. \A k \in Own : ~(k <= s /\ k > s)
  BY <1>3, <1>6
<1> HIDE DEF s, n
<1>12. \A k \in Own \ Paths : k <= s + 1 => Known(k)
  BY <1>4, <1>9 DEF ReadInv, s
<1>13. \A m \in Paths : m <= s + 1 => m = s + 1
  BY <1>1, <1>6, <1>9, <1>11 DEF ReadInv, s
<1>14. s + 2 = (s + 1) + 1
  BY <1>3
<1> QED
  BY <1>1, <1>2, <1>4, <1>5, <1>7, <1>8, <1>10, <1>12, <1>13, <1>14 DEF ReadInv

(* The reasons for giving up on the command line are good ones.             *)
LEMMA BadArgumentIsBad ==
  ASSUME ReadInv, argv \in Seq(Arguments), BadArgument
  PROVE  ~WellFormed(line)
<1> DEFINE s == Seen
<1> SUFFICES ASSUME WellFormed(line) PROVE FALSE
  OBVIOUS
<1>1. argv # <<>>
  BY DEF BadArgument, InArgs
<1>2. /\ Len(line) \in Nat /\ s \in Nat /\ s + 1 \in Own /\ line[s + 1] = Head(argv)
      /\ Len(argv) > 1 <=> s + 1 < Len(line)
      /\ Len(argv) > 1 => argv[2] = line[s + 2]
      /\ (s + 1) + 1 = s + 2 /\ ~(s + 1 <= s)
  BY <1>1, Reading
<1>3. /\ \A k \in Own \ Paths : Known(k)
      /\ \E k : Paths = {k}
  BY <1>2, WellFormedIs, OnePath
<1> HIDE DEF s
<1>4. CASE Head(argv) = "--addr" /\ AddrValue = {}
  <2>1. s + 1 \notin Paths
    BY <1>2, <1>4, ExitWords DEF Paths
  <2>2. Head(argv) \notin Switches
    BY <1>4 DEF Switches
  <2>3. s + 1 < Len(line) /\ HexAddr(line[s + 2]) # {}
    BY <1>2, <1>3, <2>1, <2>2 DEF Known
  <2> QED
    BY <1>2, <1>4, <2>3 DEF AddrValue
<1>5. CASE Head(argv) \notin Switches \cup {"--addr"} /\ IsOption(Head(argv))
  BY <1>2, <1>3, <1>5 DEF Known, Paths
<1>6. CASE ~IsOption(Head(argv)) /\ bin_path # NoPath
  <2>1. s + 1 \in Paths
    BY <1>2, <1>6 DEF Paths
  <2>2. PICK k \in Paths : k <= s
    BY <1>6 DEF ReadInv, s
  <2>3. k = s + 1
    BY <1>3, <2>1, <2>2
  <2> QED
    BY <1>2, <2>2, <2>3
<1> QED
  BY <1>4, <1>5, <1>6 DEF BadArgument

LEMMA AllRead ==
  ASSUME ReadInv, argv = <<>>
  PROVE  WellFormed(line) <=> Usable
<1>1. Len(line) \in Nat /\ Seen = Len(line) /\ Own \subseteq 1 .. Len(line) /\ Paths \subseteq Own
  BY ExitWords DEF ReadInv, Seen, Own, Paths
<1>2. \A k \in Own : k <= Seen /\ ~(k > Seen)
  BY <1>1
<1>3. \A k \in Own \ Paths : Known(k)
  BY <1>2 DEF ReadInv
<1>4. {m \in Own : m <= Seen} = Own
  BY <1>2
<1>5. {"--step", "--trace"} \subseteq switches <=> {"--step", "--trace"} \subseteq {line[k] : k \in Own}
  <2>1. switches = {line[k] : k \in Own} \cap Switches
    BY <1>4 DEF ReadInv
  <2>2. {"--step", "--trace"} \subseteq Switches
    BY DEF Switches
  <2> QED
    BY <2>1, <2>2
<1>6. bin_path = NoPath => Paths = {}
  BY <1>1, <1>2 DEF ReadInv
<1>7. bin_path # NoPath => \E k : Paths = {k}
  <2> SUFFICES ASSUME bin_path # NoPath PROVE \E k : Paths = {k}
    OBVIOUS
  <2>1. PICK k \in Paths : \A m \in Paths : m <= Seen => m = k
    BY DEF ReadInv
  <2>2. Paths = {k}
    BY <1>1, <1>2, <2>1
  <2> QED
    BY <2>2
<1>8. bin_path # NoPath <=> Cardinality(Paths) = 1
  BY <1>1, <1>6, <1>7, OnePath
<1> QED
  BY <1>3, <1>5, <1>8, WellFormedIs DEF Usable

LEMMA InitExit == EInit => ExitInv
<1> SUFFICES ASSUME EInit PROVE ExitInv
  OBVIOUS
<1>1. /\ line \in CommandLines /\ argv = line /\ phase = "args"
      /\ switches = {} /\ bin_path = NoPath
      /\ cycle_count = 0 /\ stdout = <<>> /\ mem = Blank
  BY DEF EInit, cpu_reset
<1> DEFINE n == Len(line)
<1>2. line \in Seq(Arguments) /\ n \in Nat
  BY <1>1, ExitWords
<1>3. n - n = 0
  BY <1>2
<1>4. Seen = 0
  BY <1>1, <1>3 DEF Seen
<1>5. \A j \in 1 .. n : line[j] = line[0 + j]
  OBVIOUS
<1>6. Rest
  BY <1>1, <1>2, <1>4, <1>5 DEF Rest
<1>7. argv # <<>> => 0 + 1 \in Own
  <2> SUFFICES ASSUME line # <<>> PROVE 1 \in Own
    BY <1>1
  <2>1. 1 \in 1 .. n
    BY <1>2
  <2>2. ~IsAddress(line)[1]
    <3>1. ~(1 > 1)
      OBVIOUS
    <3> QED
      BY <1>2, <2>1, <3>1, AddressFollows, Zenon
  <2> QED
    BY <2>1, <2>2, OwnIs
<1>8. \A k \in Own : ~(k <= 0) /\ k > 0
  BY <1>2 DEF Own
<1>9. Paths \subseteq Own
  BY DEF Paths
<1>10. {m \in Own : m <= 0} = {}
  BY <1>8
<1>11. ReadInv
  BY <1>1, <1>4, <1>6, <1>7, <1>8, <1>9, <1>10 DEF ReadInv
<1> QED
  BY <1>1, <1>11 DEF ExitInv, PhaseInv, ExitCode

(* ReadInv, WellFormed and Acceptable say nothing of the rest of the state. *)
LEMMA ReadStays ==
  ASSUME ReadInv, UNCHANGED <<line, argv, switches, bin_path>>
  PROVE  ReadInv'
<1>1. Seen' = Seen
  BY DEF Seen
<1>2. Rest' <=> Rest
  BY <1>1 DEF Rest
<1> QED
  BY <1>1, <1>2, LineStays DEF ReadInv

(* One step of main keeps ExitInv: one case per action.                     *)
LEMMA StepExit ==
  EmulatorTypeOK /\ ArgsInv /\ ExitInv /\ [ENext]_evars => ExitInv'
<1> SUFFICES ASSUME EmulatorTypeOK, ArgsInv, ReadInv, PhaseInv, ExitCode, [ENext]_evars
             PROVE  ReadInv' /\ PhaseInv' /\ ExitCode'
  BY DEF ExitInv
<1>a. argv \in Seq(Arguments)
  BY DEF ArgsInv
<1>w. ASSUME line' = line PROVE WellFormed(line)' <=> WellFormed(line)
  BY <1>w
<1>f. ASSUME file' = file PROVE Acceptable' <=> Acceptable
  BY <1>f DEF Acceptable
<1>m. ASSUME UNCHANGED machine
      PROVE  cycle_count' = cycle_count /\ stdout' = stdout /\ mem' = mem /\ (halted' <=> halted)
  BY <1>m DEF machine, vars, cpu
<1>x. ASSUME Fail, phase \in {"args", "open", "load"}, ~(WellFormed(line) /\ Acceptable)
      PROVE  ReadInv' /\ PhaseInv' /\ ExitCode'
  <2>1. /\ phase' = "exited" /\ exit_code' = 1 /\ UNCHANGED machine
        /\ UNCHANGED <<line, file, argv, switches, bin_path>>
    BY <1>x DEF Fail, Exit, options
  <2> QED
    BY <1>w, <1>f, <1>m, <1>x, <2>1, ReadStays DEF PhaseInv, ExitCode
<1>1. CASE UNCHANGED evars
  <2>1. UNCHANGED machine /\ UNCHANGED <<line, file, phase, argv, switches, bin_path, exit_code>>
    BY <1>1 DEF evars, options, machine
  <2> QED
    BY <1>w, <1>f, <1>m, <2>1, ReadStays DEF PhaseInv, ExitCode
<1>2. CASE SetSwitch \/ SetAddr \/ SetPath
  <2>1. ReadInv'
    BY <1>2, <1>a, ReadSwitch, ReadAddr, ReadPath
  <2>2. phase = "args" /\ phase' = "args" /\ UNCHANGED machine
    BY <1>2 DEF SetSwitch, SetAddr, SetPath, InArgs
  <2> QED
    BY <1>m, <2>1, <2>2 DEF PhaseInv, ExitCode
<1>3. CASE BadArgument
  BY <1>3, <1>a, <1>x, BadArgumentIsBad DEF BadArgument, InArgs
<1>4. CASE ArgsDone
  <2>1. /\ phase = "args" /\ phase' = "open" /\ argv = <<>> /\ Usable /\ UNCHANGED machine
        /\ UNCHANGED <<line, file, argv, switches, bin_path>>
    BY <1>4 DEF ArgsDone, ends, options
  <2>2. WellFormed(line)
    BY <2>1, AllRead
  <2> QED
    BY <1>w, <1>m, <2>1, <2>2, ReadStays DEF PhaseInv, ExitCode
<1>5. CASE BadUsage
  BY <1>5, <1>x, AllRead DEF BadUsage
<1>6. CASE OpenFile
  <2>1. /\ phase = "open" /\ phase' = "load" /\ Acceptable /\ UNCHANGED machine
        /\ UNCHANGED <<line, file, argv, switches, bin_path>>
    BY <1>6 DEF OpenFile, ends, options
  <2> QED
    BY <1>w, <1>f, <1>m, <2>1, ReadStays DEF PhaseInv, ExitCode
<1>7. CASE BadFile
  BY <1>7, <1>x DEF BadFile
<1>8. CASE Load \/ Run \/ Pause
  <2>1. /\ phase \in {"load", "run", "pause"} /\ phase' \in {"run", "pause"}
        /\ UNCHANGED <<line, file, argv, switches, bin_path>>
    BY <1>8 DEF Load, Run, Pause, ends, options
  <2> QED
    BY <1>w, <1>f, <2>1, ReadStays DEF PhaseInv, ExitCode
<1>9. CASE StopRunning
  <2>1. /\ phase = "run" /\ halted /\ UNCHANGED machine
        /\ UNCHANGED <<line, file, argv, switches, bin_path>>
        /\ phase' = "dump" \/ (phase' = "exited" /\ exit_code' = 0)
    BY <1>9 DEF StopRunning, Exit, options
  <2>2. WellFormed(line) /\ Acceptable /\ halted
    BY <2>1 DEF PhaseInv
  <2>3. WellFormed(line)' /\ Acceptable' /\ halted'
    BY <1>w, <1>f, <1>m, <2>1, <2>2
  <2>4. PhaseInv' /\ ExitCode'
    BY <2>1, <2>3 DEF PhaseInv, ExitCode
  <2> QED
    BY <2>1, <2>4, ReadStays
<1>10. CASE DumpRow \/ DumpDone
  <2>1. /\ phase = "dump" /\ UNCHANGED machine
        /\ UNCHANGED <<line, file, argv, switches, bin_path>>
        /\ phase' = "dump" \/ (phase' = "exited" /\ exit_code' = 0)
    BY <1>10 DEF DumpRow, DumpDone, Dumping, Exit, ends, options
  <2>2. WellFormed(line) /\ Acceptable /\ halted
    BY <2>1 DEF PhaseInv
  <2>3. WellFormed(line)' /\ Acceptable' /\ halted'
    BY <1>w, <1>f, <1>m, <2>1, <2>2
  <2>4. PhaseInv' /\ ExitCode'
    BY <2>1, <2>3 DEF PhaseInv, ExitCode
  <2> QED
    BY <2>1, <2>4, ReadStays
<1> QED
  BY <1>1, <1>2, <1>3, <1>4, <1>5, <1>6, <1>7, <1>8, <1>9, <1>10 DEF ENext

(* The exit status can be trusted, for every command line, file, program    *)
(* and input: 0 says that the command line and the file were good and the   *)
(* program has halted, 1 that one of them was bad and nothing has run.      *)
THEOREM ExitCodeIsTrue == ESpec => []ExitCode
<1>1. ESpec => [](EmulatorTypeOK /\ ArgsInv)
  BY InitEmulator, StepEmulator, PTL DEF ESpec
<1>2. ExitInv => ExitCode
  BY DEF ExitInv
<1>3. EmulatorTypeOK /\ ArgsInv /\ ExitInv /\ [ENext]_evars => ExitInv'
  BY StepExit
<1> QED
  BY <1>1, <1>2, <1>3, InitExit, PTL DEF ESpec
=============================================================================

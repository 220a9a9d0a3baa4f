------------------------------ MODULE Branches -------------------------------
(* The processor with two observers: the call stack a program sees, and the *)
(* operands of the compare its conditional jumps still rely on.             *)
EXTENDS Machine

VARIABLE compared  \* history: the two words CMP last compared, while no
                   \* other instruction has written the flags; else NoCompare

NoCompare == <<>>

bvars == <<regs, pc, ir, flags, cycle_count, halted, mem, stdin, stdout, compared>>

(* CMP is the one instruction that leaves its operands in the registers, so *)
(* they can be read after the step as well as before it.                    *)
Observe ==
  LET i == Decode(ir') IN
  compared' = IF i.op = OP_CMP THEN <<regs[i.rs1], regs[i.rs2]>>
              ELSE IF i.op \in InstrWithResult THEN NoCompare
              ELSE compared

BInit == Init /\ compared = NoCompare
BNext == cpu_step /\ Observe
BSpec == BInit /\ [][BNext]_bvars

(* The flags a compare set stand until another ALU instruction (loads,      *)
(* stores, jumps, calls and returns in between leave them alone): ZF says   *)
(* whether the operands were equal, NF the sign of their difference.        *)
FlagsRemember ==
  compared # NoCompare =>
    /\ compared \in Word \X Word
    /\ "ZF" \in flags <=> compared[1] = compared[2]
    /\ "NF" \in flags <=> Negative(U16(compared[1] - compared[2]))

-----------------------------------------------------------------------------
(* A conditional jump taken on those flags agrees with the signed order of  *)
(* the two words, provided their difference fits a word: CMP always clears  *)
(* OF and JLT and JGT look at NF and ZF alone (control.c 68-98, alu.c       *)
(* 64-72), so past that range the code promises nothing.                    *)
SignedOrder(op, a, b) ==
  CASE op = OP_JEQ -> a = b
    [] op = OP_JNE -> a # b
    [] op = OP_JLT -> a < b
    [] op = OP_JGT -> a > b

BranchAgrees ==
  [][LET i == Decode(ir')
         a == Val(compared[1])
         b == Val(compared[2])
         next == U16(pc + 1)
     IN  (/\ compared # NoCompare
          /\ cycle_count' # cycle_count
          /\ i.op \in JumpOps \ {OP_JMP}
          /\ a - b \in -Half .. Half - 1)
         => pc' = IF SignedOrder(i.op, a, b) THEN U16(next + i.off) ELSE next
    ]_bvars

-----------------------------------------------------------------------------
(* The machine state as the abstract stack: the frames lie from STACK_BASE  *)
(* down to the word above the stack pointer, the newest lowest.             *)
sp == regs[SP]
FramesOf(m, s) == [k \in 1 .. STACK_BASE - s |-> Cell(m, STACK_BASE + 1 - k)]

(* The last instruction changed the stack in the program's own name: it     *)
(* wrote R7, or stored into a live frame.  A store leaves the registers     *)
(* alone, so its address can still be computed after it.                    *)
TouchesStack(i) ==
  \/ i.op \in InstrWithResult \cup {OP_LW} /\ i.rd = SP
  \/ i.op = OP_SW /\ EffectiveAddress(i) \in sp + 1 .. STACK_BASE

StackEffect ==
  LET i == Decode(ir)
  IN  IF i.op = OP_CALL THEN "call"
      ELSE IF i.op = OP_RET THEN "ret"
      ELSE IF TouchesStack(i) THEN "user"
      ELSE "other"

Stack == INSTANCE CallStack WITH
  Size   <- WordSize,
  Depth  <- STACK_BASE,
  frames <- FramesOf(mem, sp),
  inRam  <- sp <= STACK_BASE,
  pc     <- pc,
  did    <- StackEffect

(* The processor implements the call stack. *)
CallsNest == Stack!Spec
==============================================================================

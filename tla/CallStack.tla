------------------------------ MODULE CallStack ------------------------------
(* What CALL and RET promise a program, without registers or memory: a      *)
(* stack of return addresses.  The promise lasts while the stack stays in   *)
(* RAM.  The code checks no bound, so a return from the empty stack or a    *)
(* call with every word of RAM in use takes the stack pointer out of RAM,   *)
(* where nothing is promised any more; a program that writes R7 or stores   *)
(* into a live frame itself is on its own in the same way.                  *)
EXTENDS Integers, Sequences

CONSTANTS Size,    \* number of words of the address space
          Depth    \* the most return addresses the stack holds

Address == 0 .. Size - 1

VARIABLES frames,  \* the return addresses, newest last
          inRam,   \* the stack pointer is at STACK_BASE or below
          pc,      \* the program counter
          did      \* what the last instruction was to the stack:
                   \* "call", "ret", "user" or "other"

vars == <<frames, inRam, pc, did>>

Init == frames = <<>> /\ inRam = TRUE /\ pc = 0 /\ did = "other"

(* A call pushes the address after it. *)
Call ==
  /\ inRam /\ did' = "call" /\ pc' \in Address
  /\ Len(frames) < Depth
  /\ frames' = Append(frames, (pc + 1) % Size) /\ inRam' = TRUE

(* A return goes to the newest address and drops it. *)
Return ==
  /\ inRam /\ did' = "ret"
  /\ frames # <<>>
  /\ pc' = frames[Len(frames)]
  /\ frames' = SubSeq(frames, 1, Len(frames) - 1) /\ inRam' = TRUE

(* The stack leaves RAM at its bottom or at its top. *)
Underflow ==
  inRam /\ did' = "ret" /\ frames = <<>> /\ frames' = <<>> /\ inRam' = FALSE
    /\ pc' \in Address

Overflow ==
  inRam /\ did' = "call" /\ Len(frames) = Depth /\ frames' = <<>> /\ inRam' = FALSE
    /\ pc' \in Address

(* The program's own business. *)
User == inRam /\ did' = "user" /\ pc' \in Address

(* No other instruction has an effect on the stack. *)
Other ==
  /\ inRam /\ did' = "other" /\ pc' \in Address
  /\ UNCHANGED <<frames, inRam>>

Unpromised == ~inRam /\ pc' \in Address

Next == Call \/ Return \/ Underflow \/ Overflow \/ User \/ Other \/ Unpromised

Spec == Init /\ [][Next]_vars
==============================================================================

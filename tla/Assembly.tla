------------------------------ MODULE Assembly -------------------------------
(* What the assembler promises: it goes from a source file to its binary in *)
(* one step, whatever a source means.                                       *)
EXTENDS Integers

CONSTANTS Path,             \* file names
          NoPath,
          Capacity,         \* the most names a source may define
          WellFormed(_, _), \* the sources that are programs of so many names
          Image(_),         \* the memory image of a program
          BinaryWords(_),   \* the length of its binary
          Binary(_, _)      \* the file of so many words of an image
-----------------------------------------------------------------------------
(* The host may be out of memory, refuse to open the output, or have room   *)
(* for only some of its words.                                              *)
VARIABLES src, out,   \* the paths it is called with
          files,      \* from paths to what is there
          host,
          status

vars == <<src, out, files, host, status>>

(* What there is not enough memory for. *)
Memory == {"enough", "path", "source", "parsed", "image"}

Init ==
  /\ src = NoPath /\ out = NoPath
  /\ DOMAIN files = Path
  /\ host.memory \in Memory /\ host.writable \in BOOLEAN /\ host.room \in Nat
  /\ status = "idle"

Call(s, o) ==
  /\ status = "idle"
  /\ src' = s /\ out' = o /\ status' = "called"
  /\ UNCHANGED <<files, host>>

Translatable ==
  /\ files[src].kind = "text" /\ WellFormed(files[src].lines, Capacity)
  /\ host.writable
  /\ host.memory = "source" => files[src].lines = <<>>
  /\ host.memory \notin {"parsed", "image"}

Refuse ==
  /\ status = "called" /\ ~Translatable
  /\ status' = "failed"
  /\ UNCHANGED <<src, out, files, host>>

(* As many words as there is room for; if it is not all, the assembler may  *)
(* or may not have noticed.                                                 *)
Translate ==
  /\ status = "called" /\ Translatable
  /\ LET s == files[src].lines
         n == BinaryWords(s)
     IN  IF n <= host.room
           THEN /\ files' = [files EXCEPT ![out] = Binary(n, Image(s))]
                /\ status' = "ok"
           ELSE /\ files' = [files EXCEPT ![out] = Binary(host.room, Image(s))]
                /\ status' \in {"ok", "failed"}
  /\ UNCHANGED <<src, out, host>>

Next == (\E s, o \in Path : Call(s, o)) \/ Refuse \/ Translate

Spec == Init /\ [][Next]_vars
==============================================================================

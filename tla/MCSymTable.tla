----------------------------- MODULE MCSymTable ------------------------------
(* A table of four slots and hash values below eight.  Two names share the  *)
(* last slot, one collides with them after wrapping, one comes first and    *)
(* one hash is so high that its probes wrap the hash value itself.          *)
EXTENDS SymTable

ShortNames == {"a", "b", "c", "d", "e"}
LongNames  == {"a", "b", "long"}

MCHash(name) ==
  CASE name = "a" -> 3 [] name = "b" -> 3 [] name = "c" -> 7 [] name = "d" -> 0
    [] name = "e" -> 6 [] OTHER -> 1

Whole(name)  == name
MCCut(name) == IF name = "long" THEN "b" ELSE name

MCAddr == {0, 1}
==============================================================================

------------------------------- MODULE NameMap -------------------------------
(* What the symbol table promises the assembler: a map from names to        *)
(* addresses of bounded size, where a name keeps the first address it got.  *)
EXTENDS Integers

CONSTANTS Names,      \* the names a caller may pass
          Addresses,
          Capacity,   \* the most names the map holds
          NotFound    \* the answer to a lookup that fails

VARIABLES map,     \* a function from the names defined to their addresses
          size,    \* how many there are
          answer   \* the last call and what it returned

vars == <<map, size, answer>>

NoNames == [n \in {} |-> 0]

Init == map = NoNames /\ size = 0 /\ answer = <<"reset">>

Reset == map' = NoNames /\ size' = 0 /\ answer' = <<"reset">>

Define(name, addr) ==
  /\ size < Capacity
  /\ name \notin DOMAIN map
  /\ map' = [n \in DOMAIN map \cup {name} |-> IF n = name THEN addr ELSE map[n]]
  /\ size' = size + 1
  /\ answer' = <<"insert", name, addr, "ERR_OK">>

(* A full map refuses every name, the ones it has included.  That it then   *)
(* answers ERR_INTERNAL for a name it has is the code's order of checks     *)
(* (symtable.c 36), taken over here: symtable.h 27 allows either answer.    *)
Refuse(name, addr) ==
  /\ size >= Capacity \/ name \in DOMAIN map
  /\ answer' = <<"insert", name, addr,
                 IF size >= Capacity THEN "ERR_INTERNAL" ELSE "ERR_DUPLICATE_LABEL">>
  /\ UNCHANGED <<map, size>>

Lookup(name) ==
  /\ answer' = <<"lookup", name,
                 IF name \in DOMAIN map THEN map[name] ELSE NotFound>>
  /\ UNCHANGED <<map, size>>

Next ==
  \/ Reset
  \/ \E name \in Names, addr \in Addresses : Define(name, addr) \/ Refuse(name, addr)
  \/ \E name \in Names : Lookup(name)

Spec == Init /\ [][Next]_vars
==============================================================================

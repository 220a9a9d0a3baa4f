------------------------------ MODULE SymTable -------------------------------
(* The symbol table of the assembler (assembler/symtable.c): a hash table   *)
(* of fixed size with open addressing and linear probing.  Entries are      *)
(* never removed, except all of them at once.                               *)
EXTENDS Integers, FiniteSets

CONSTANTS
  Name,           \* the names a caller may pass: NUL-terminated, not empty
  Cut(_),         \* a name as a slot keeps it: its first SYM_NAME_MAX bytes
  hash_name(_),   \* FNV-1a, a uint32_t
  HashSize,       \* 2^32: hash values are below it
  SYM_CAPACITY,
  Addr,           \* uint16_t
  SYM_NOT_FOUND   \* no address

ASSUME TableAssumption ==
  /\ SYM_CAPACITY \in Nat \ {0}
  /\ HashSize \in Nat \ {0} /\ HashSize % SYM_CAPACITY = 0
  /\ \A name \in Name : hash_name(name) \in 0 .. HashSize - 1

ASSUME NameAssumption == \A name \in Name : Cut(name) \in Name

ASSUME AddrAssumption == SYM_NOT_FOUND \notin Addr

VARIABLES table,   \* static Symbol table[SYM_CAPACITY]: the used slots
          count,   \* static int count
          answer   \* history: the last call and what it returned

vars == <<table, count, answer>>

Slot  == 0 .. SYM_CAPACITY - 1
Probe == 0 .. SYM_CAPACITY - 1

used == DOMAIN table

Empty == [i \in {} |-> [name |-> 0, addr |-> 0]]
-----------------------------------------------------------------------------
(* The slot looked at by the probe: the sum is a uint32_t and may wrap. *)
SlotOf(name, probe) ==
  ((hash_name(name) + probe) % HashSize) % SYM_CAPACITY

(* strcmp compares the whole name with what is left of the stored one. *)
Holds(name, probe) == table[SlotOf(name, probe)].name = name

(* The probe at which the loops of insert and lookup stop: the first whose  *)
(* slot is free or holds the name.                                          *)
StopsAt(name, probe) ==
  /\ SlotOf(name, probe) \in used => Holds(name, probe)
  /\ \A q \in 0 .. probe - 1 : SlotOf(name, q) \in used /\ ~Holds(name, q)

\* Mutant: the count survives the reset.
symtable_reset_KeepsCount ==
  /\ table' = Empty /\ count' = count
  /\ answer' = <<"reset">>

symtable_reset ==
  /\ table' = Empty /\ count' = 0
  /\ answer' = <<"reset">>

InsertReturns(name, addr, rc) == answer' = <<"insert", name, addr, rc>>

InsertFails(name, addr, rc) ==
  InsertReturns(name, addr, rc) /\ UNCHANGED <<table, count>>

(* Insert: the table is full or the loop runs out; or the name takes a free *)
(* slot; or the name is there already.                                      *)
InsertFull(name, addr) ==
  /\ \/ count >= SYM_CAPACITY
     \/ \A probe \in Probe : SlotOf(name, probe) \in used /\ ~Holds(name, probe)
  /\ InsertFails(name, addr, "ERR_INTERNAL")

InsertNew(name, addr) ==
  /\ count < SYM_CAPACITY
  /\ \E probe \in Probe :
       /\ StopsAt(name, probe) /\ SlotOf(name, probe) \notin used
       /\ table' = [i \in used \cup {SlotOf(name, probe)} |->
                      IF i = SlotOf(name, probe)
                        THEN [name |-> Cut(name), addr |-> addr] ELSE table[i]]
  /\ count' = count + 1
  /\ InsertReturns(name, addr, "ERR_OK")

InsertDuplicate(name, addr) ==
  /\ count < SYM_CAPACITY
  /\ \E probe \in Probe : StopsAt(name, probe) /\ SlotOf(name, probe) \in used
  /\ InsertFails(name, addr, "ERR_DUPLICATE_LABEL")

symtable_insert(name, addr) ==
  \/ InsertFull(name, addr)
  \/ InsertNew(name, addr)
  \/ InsertDuplicate(name, addr)

\* Mutant: only the home slot is looked at.
Value_HomeOnly(name) ==
  IF SlotOf(name, 0) \in used /\ Holds(name, 0)
    THEN table[SlotOf(name, 0)].addr ELSE SYM_NOT_FOUND

(* What a lookup finds in the table as it stands. *)
Value(name) ==
  LET found == {probe \in Probe : StopsAt(name, probe) /\ SlotOf(name, probe) \in used}
  IN  IF found = {} THEN SYM_NOT_FOUND
      ELSE table[SlotOf(name, CHOOSE probe \in found : TRUE)].addr

symtable_lookup(name) ==
  /\ answer' = <<"lookup", name, Value(name)>>
  /\ UNCHANGED <<table, count>>

Init == table = Empty /\ count = 0 /\ answer = <<"reset">>

Next ==
  \/ symtable_reset
  \/ \E name \in Name, addr \in Addr : symtable_insert(name, addr)
  \/ \E name \in Name : symtable_lookup(name)

Spec == Init /\ [][Next]_vars
-----------------------------------------------------------------------------
Symbol == [name : Name, addr : Addr]

(* The table is one that probing can be trusted on: it counts its entries,  *)
(* no two of them have one name, and from the home slot of a name to the    *)
(* slot it is in there is no free slot, so that a probe for it never stops  *)
(* short (symtable.c 41-55 against 63-68; the count of line 49 guards the   *)
(* loop at line 36).                                                        *)
TableInv ==
  /\ used \subseteq Slot /\ table \in [used -> Symbol]
  /\ count = Cardinality(used)
  /\ \A i, j \in used : table[i].name = table[j].name => i = j
  /\ \A i \in used : \E probe \in Probe :
       /\ SlotOf(table[i].name, probe) = i
       /\ \A q \in 0 .. probe - 1 : SlotOf(table[i].name, q) \in used \ {i}

(* A table as a map: the names in it, each with its address. *)
Defined(t) == {t[i].name : i \in DOMAIN t}
SlotNamed(t, name) == CHOOSE i \in DOMAIN t : t[i].name = name
MapOf(t) == [name \in Defined(t) |-> t[SlotNamed(t, name)].addr]

Map == INSTANCE NameMap WITH
  Names     <- Name,
  Addresses <- Addr,
  Capacity  <- SYM_CAPACITY,
  NotFound  <- SYM_NOT_FOUND,
  map       <- MapOf(table),
  size      <- count

(* As long as no name is cut, the table is the map: a name that was         *)
(* inserted is found with its first address whatever came after it, a name  *)
(* that was not is not found, and insertion fails only for a name that is   *)
(* there or in a full table (symtable.h 26-39).                             *)
IsNameMap == Map!Spec

(* A name that insert has accepted can be looked up: "Returns the address,  *)
(* or SYM_NOT_FOUND if missing" (symtable.h 35).                            *)
AcceptedIsFound ==
  answer[1] = "insert" /\ answer[4] = "ERR_OK" => Value(answer[2]) = answer[3]
==============================================================================

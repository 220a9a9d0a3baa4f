--------------------------- MODULE AssemblerProofs ---------------------------
(* The symbol table implements a map from names to addresses, for every     *)
(* capacity, hash function and set of names; and invariants of the          *)
(* assembler for every source and host, over that map.  All as long as no   *)
(* name is so long that the table cuts it.                                  *)
EXTENDS AssemblerMain, FiniteSetTheorems, SequenceTheorems, WellFoundedInduction, TLAPS

WholeNames == \A name \in Name : Cut(name) = name

-----------------------------------------------------------------------------
(* Slots *)

(* Division with remainder, and that it is unique. *)
LEMMA Division ==
  ASSUME NEW x \in Int, NEW n \in Nat \ {0}
  PROVE  x \div n \in Int /\ x % n \in 0 .. n - 1 /\ x = n * (x \div n) + (x % n)
<1>1. x \div n \in Int
  OBVIOUS
<1>2. x % n \in 0 .. n - 1
  OBVIOUS
<1>3. x = n * (x \div n) + (x % n)
  OBVIOUS
<1> QED
  BY <1>1, <1>2, <1>3

LEMMA RemainderUnique ==
  ASSUME NEW n \in Nat \ {0}, NEW q \in Int, NEW r \in 0 .. n - 1
  PROVE  (n * q + r) % n = r
<1> DEFINE x == n * q + r
           q2 == x \div n
           r2 == x % n
<1>1. x \in Int /\ q2 \in Int /\ r2 \in 0 .. n - 1 /\ x = n * q2 + r2
  BY Division
<1>2. n * (q - q2) = r2 - r
  BY <1>1
<1>3. q - q2 \in Int /\ r2 - r > -n /\ r2 - r < n
  BY <1>1
<1> HIDE DEF x, q2, r2
<1>4. ASSUME NEW d \in Int, n * d > -n, n * d < n
      PROVE  d = 0
  <2>1. CASE d >= 1
    <3>1. n * d >= n
      BY <2>1
    <3> QED
      BY <1>4, <3>1
  <2>2. CASE d <= -1
    <3>1. n * d <= -n
      BY <2>2
    <3> QED
      BY <1>4, <3>1
  <2> QED
    BY <2>1, <2>2
<1>5. q - q2 = 0
  BY <1>2, <1>3, <1>4
<1>6. r2 = r
  BY <1>1, <1>2, <1>3, <1>5
<1> QED
  BY <1>6 DEF r2, x

(* A slot number is one of the table's. *)
LEMMA SlotRange ==
  ASSUME NEW name \in Name, NEW probe \in Nat
  PROVE  SlotOf(name, probe) \in Slot
<1>1. hash_name(name) + probe \in Int /\ HashSize \in Nat \ {0} /\ SYM_CAPACITY \in Nat \ {0}
  BY TableAssumption
<1>2. (hash_name(name) + probe) % HashSize \in Int
  BY <1>1
<1> QED
  BY <1>1, <1>2 DEF SlotOf, Slot

(* The probes of a name reach every slot, the wrap of the hash included. *)
LEMMA ProbesCoverSlots ==
  ASSUME NEW name \in Name, NEW slot \in Slot
  PROVE  \E probe \in Probe : SlotOf(name, probe) = slot
<1> DEFINE n == SYM_CAPACITY
           h == hash_name(name)
           q == h \div n
           r == h % n
           k == HashSize \div n
           p == IF slot >= r THEN slot - r ELSE slot - r + n
           up == IF slot >= r THEN q ELSE q + 1
<1>1. n \in Nat \ {0} /\ HashSize \in Nat \ {0} /\ h \in 0 .. HashSize - 1
  BY TableAssumption
<1>2. k \in Int /\ HashSize = n * k
  <2>1. HashSize = n * k + (HashSize % n) /\ k \in Int
    BY <1>1, Division
  <2> QED
    BY <2>1, TableAssumption
<1>3. q \in Int /\ r \in 0 .. n - 1 /\ h = n * q + r
  <2>1. h \in Int
    BY <1>1
  <2> QED
    BY <1>1, <2>1, Division
<1>4. slot \in 0 .. n - 1
  BY DEF Slot
<1> HIDE DEF n, h, q, r, k
<1>5. p \in 0 .. n - 1 /\ up \in Int
  BY <1>1, <1>3, <1>4
<1>6. h + p = n * up + slot
  <2>1. CASE slot >= r
    BY <1>1, <1>3, <1>4, <2>1
  <2>2. CASE ~(slot >= r)
    <3>1. n * (q + 1) = n * q + n
      BY <1>1, <1>3
    <3> QED
      BY <1>1, <1>3, <1>4, <2>2, <3>1
  <2> QED
    BY <2>1, <2>2
<1>7. n <= HashSize
  <2>1. CASE k >= 1
    BY <1>1, <1>2, <2>1
  <2>2. CASE k <= 0
    <3>1. n * k <= 0
      BY <1>1, <1>2, <2>2
    <3> QED
      BY <1>1, <1>2, <3>1
  <2> QED
    BY <1>2, <2>1, <2>2
<1> HIDE DEF p, up
<1>8. (h + p) % HashSize \in {h + p, h + p - HashSize}
  BY <1>1, <1>5, <1>7
<1>9. h + p - HashSize = n * (up - k) + slot
  <2>1. n * (up - k) = n * up - n * k /\ n * up \in Int /\ n * k \in Int
    BY <1>1, <1>2, <1>5
  <2>2. slot \in Int /\ h + p \in Int /\ HashSize \in Int
    BY <1>1, <1>4, <1>5
  <2> QED
    BY <1>1, <1>2, <1>5, <1>6, <2>1, <2>2
<1>10. (n * up + slot) % n = slot /\ (n * (up - k) + slot) % n = slot
  <2>1. up \in Int /\ up - k \in Int
    BY <1>2, <1>5
  <2>2. \A m \in Int : (n * m + slot) % n = slot
    BY <1>1, <1>4, RemainderUnique, Zenon
  <2> QED
    BY <2>1, <2>2, Zenon
<1>11. SlotOf(name, p) = slot
  BY <1>6, <1>8, <1>9, <1>10 DEF SlotOf, n, h
<1>12. p \in Probe
  BY <1>5 DEF Probe, n
<1> QED
  BY <1>11, <1>12

-----------------------------------------------------------------------------
(* The invariant *)

(* A probe that stops at a free slot proves the name absent. *)
LEMMA FreeMeansAbsent ==
  ASSUME TableInv, NEW name \in Name, NEW probe \in Probe,
         StopsAt(name, probe), SlotOf(name, probe) \notin used
  PROVE  \A slot \in used : table[slot].name # name
<1> SUFFICES ASSUME NEW slot \in used, table[slot].name = name PROVE FALSE
  OBVIOUS
<1>1. PICK p \in Probe :
        /\ SlotOf(name, p) = slot
        /\ \A q \in 0 .. p - 1 : SlotOf(name, q) \in used \ {slot}
  BY DEF TableInv
<1>2. p \in Int /\ probe \in Int /\ 0 <= p /\ 0 <= probe
  BY DEF Probe
<1>3. CASE probe < p
  BY <1>1, <1>2, <1>3
<1>4. CASE p < probe
  <2>1. ~Holds(name, p)
    BY <1>2, <1>4 DEF StopsAt
  <2> QED
    BY <1>1, <2>1 DEF Holds
<1>5. CASE p = probe
  BY <1>1, <1>5
<1> QED
  BY <1>2, <1>3, <1>4, <1>5

(* A name in the table stops its probe, at its own slot. *)
LEMMA PresentIsFound ==
  ASSUME TableInv, NEW slot \in used
  PROVE  \E probe \in Probe :
           StopsAt(table[slot].name, probe) /\ SlotOf(table[slot].name, probe) = slot
<1> DEFINE name == table[slot].name
<1>1. PICK p \in Probe :
        /\ SlotOf(name, p) = slot
        /\ \A q \in 0 .. p - 1 : SlotOf(name, q) \in used \ {slot}
  BY DEF TableInv
<1>2. Holds(name, p)
  BY <1>1 DEF Holds
<1>3. ASSUME NEW q \in 0 .. p - 1
      PROVE  SlotOf(name, q) \in used /\ ~Holds(name, q)
  <2>1. SlotOf(name, q) \in used /\ SlotOf(name, q) # slot
    BY <1>1
  <2>2. \A j \in used : table[j].name = table[slot].name => j = slot
    BY DEF TableInv
  <2> QED
    BY <2>1, <2>2 DEF Holds
<1> QED
  BY <1>1, <1>2, <1>3 DEF StopsAt

(* While the table counts fewer entries than slots, a slot is free. *)
LEMMA UsedIsFinite ==
  ASSUME TableInv
  PROVE  /\ IsFiniteSet(used) /\ count \in Nat
         /\ count < SYM_CAPACITY => \E slot \in Slot : slot \notin used
<1>1. SYM_CAPACITY \in Nat \ {0}
  BY TableAssumption
<1>2. IsFiniteSet(Slot) /\ Cardinality(Slot) = SYM_CAPACITY
  <2>1. 0 \in Int /\ SYM_CAPACITY - 1 \in Int /\ ~(0 > SYM_CAPACITY - 1)
        /\ SYM_CAPACITY - 1 - 0 + 1 = SYM_CAPACITY
    BY <1>1
  <2> QED
    BY <2>1, FS_Interval DEF Slot
<1>3. used \in SUBSET Slot /\ count = Cardinality(used)
  BY DEF TableInv
<1>4. IsFiniteSet(used)
  BY <1>2, <1>3, FS_Subset
<1>5. count \in Nat
  BY <1>3, <1>4, FS_CardinalityType
<1>6. ASSUME count < SYM_CAPACITY, \A slot \in Slot : slot \in used PROVE FALSE
  <2>1. used = Slot
    BY <1>3, <1>6
  <2> QED
    BY <1>1, <1>2, <1>3, <1>6, <2>1
<1> QED
  BY <1>4, <1>5, <1>6

LEMMA InitInv == Init => TableInv
<1> SUFFICES ASSUME Init PROVE TableInv
  OBVIOUS
<1>1. used = {} /\ table = Empty
  BY DEF Init, Empty, used
<1>2. count = Cardinality(used)
  BY <1>1, FS_EmptySet DEF Init
<1> QED
  BY <1>1, <1>2 DEF TableInv, Empty, used

(* A new entry keeps the table one that can be probed. *)
LEMMA InsertNewInv ==
  ASSUME WholeNames, TableInv, NEW name \in Name, NEW a \in Addr,
         InsertNew(name, a)
  PROVE  TableInv'
<1>1. PICK p \in Probe :
        /\ StopsAt(name, p) /\ SlotOf(name, p) \notin used
        /\ table' = [slot \in used \cup {SlotOf(name, p)} |->
                       IF slot = SlotOf(name, p)
                         THEN [name |-> Cut(name), addr |-> a] ELSE table[slot]]
  BY DEF InsertNew
<1> DEFINE s == SlotOf(name, p)
<1>2. s \in Slot
  BY SlotRange DEF Probe
<1>3. Cut(name) = name
  BY DEF WholeNames
<1>4. /\ used' = used \cup {s} /\ s \notin used
      /\ table'[s] = [name |-> name, addr |-> a]
      /\ \A slot \in used : table'[slot] = table[slot]
  BY <1>1, <1>3 DEF used
<1>5. \A slot \in used : table[slot].name # name
  BY <1>1, FreeMeansAbsent
<1>6. used' \subseteq Slot /\ table' \in [used' -> Symbol]
  <2>1. used \subseteq Slot /\ table \in [used -> Symbol]
    BY DEF TableInv
  <2>2. [name |-> name, addr |-> a] \in Symbol
    BY DEF Symbol
  <2> QED
    BY <1>1, <1>2, <1>3, <1>4, <2>1, <2>2
<1>7. count' = Cardinality(used')
  <2>1. Cardinality(used \cup {s}) = Cardinality(used) + 1
    BY <1>4, UsedIsFinite, FS_AddElement
  <2>2. count' = count + 1 /\ count = Cardinality(used)
    BY DEF InsertNew, TableInv
  <2> QED
    BY <1>4, <2>1, <2>2
<1>8. \A slot, j \in used' : table'[slot].name = table'[j].name => slot = j
  <2>1. \A slot, j \in used : table[slot].name = table[j].name => slot = j
    BY DEF TableInv
  <2> QED
    BY <1>4, <1>5, <2>1
<1>9. ASSUME NEW slot \in used'
      PROVE  \E probe \in Probe :
               /\ SlotOf(table'[slot].name, probe) = slot
               /\ \A q \in 0 .. probe - 1 : SlotOf(table'[slot].name, q) \in used' \ {slot}
  <2>1. CASE slot = s
    <3>1. \A q \in 0 .. p - 1 : SlotOf(name, q) \in used
      BY <1>1 DEF StopsAt
    <3>2. table'[slot].name = name
      BY <1>4, <2>1
    <3> QED
      BY <1>1, <1>4, <2>1, <3>1, <3>2
  <2>2. CASE slot # s
    <3>1. slot \in used /\ table'[slot].name = table[slot].name
      BY <1>4, <2>2
    <3>2. PICK probe \in Probe :
            /\ SlotOf(table[slot].name, probe) = slot
            /\ \A q \in 0 .. probe - 1 : SlotOf(table[slot].name, q) \in used \ {slot}
      BY <3>1 DEF TableInv
    <3> QED
      BY <1>4, <3>1, <3>2
  <2> QED
    BY <2>1, <2>2
<1> QED
  BY <1>6, <1>7, <1>8, <1>9 DEF TableInv, used, SlotOf

LEMMA StepInv == WholeNames /\ TableInv /\ [Next]_vars => TableInv'
<1> SUFFICES ASSUME WholeNames, TableInv, [Next]_vars PROVE TableInv'
  OBVIOUS
<1>1. ASSUME table' = table, count' = count PROVE TableInv'
  BY <1>1 DEF TableInv, used, SlotOf
<1>2. CASE symtable_reset
  <2>1. used' = {} /\ table' = Empty
    BY <1>2 DEF symtable_reset, Empty, used
  <2>2. count' = Cardinality(used')
    BY <1>2, <2>1, FS_EmptySet DEF symtable_reset
  <2> QED
    BY <2>1, <2>2 DEF TableInv, Empty, used
<1>3. ASSUME NEW name \in Name, NEW a \in Addr, symtable_insert(name, a)
      PROVE  TableInv'
  <2>1. CASE InsertNew(name, a)
    BY <2>1, InsertNewInv
  <2>2. CASE InsertFull(name, a) \/ InsertDuplicate(name, a)
    BY <1>1, <2>2 DEF InsertFull, InsertDuplicate, InsertFails
  <2> QED
    BY <1>3, <2>1, <2>2 DEF symtable_insert
<1>4. ASSUME NEW name \in Name, symtable_lookup(name) PROVE TableInv'
  BY <1>1, <1>4 DEF symtable_lookup
<1>5. CASE UNCHANGED vars
  BY <1>1, <1>5 DEF vars
<1> QED
  BY <1>2, <1>3, <1>4, <1>5 DEF Next

(* No history of insertions breaks the table: what probing relies on holds  *)
(* after every one of them.                                                 *)
THEOREM TableCanBeProbed == WholeNames => (Spec => []TableInv)
<1> SUFFICES ASSUME WholeNames PROVE Spec => []TableInv
  OBVIOUS
<1>1. TableInv /\ [Next]_vars => TableInv'
  BY StepInv
<1> QED
  BY InitInv, <1>1, PTL DEF Spec

-----------------------------------------------------------------------------
(* The refinement *)

(* In a table without two entries of one name, a slot and its name stand    *)
(* for each other.                                                          *)
LEMMA MapOfTable ==
  ASSUME NEW t, \A slot, j \in DOMAIN t : t[slot].name = t[j].name => slot = j
  PROVE  /\ DOMAIN MapOf(t) = Defined(t)
         /\ \A slot \in DOMAIN t : /\ t[slot].name \in Defined(t)
                                   /\ MapOf(t)[t[slot].name] = t[slot].addr
<1>1. ASSUME NEW slot \in DOMAIN t
      PROVE  SlotNamed(t, t[slot].name) = slot
  <2> DEFINE j == SlotNamed(t, t[slot].name)
  <2>1. j \in DOMAIN t /\ t[j].name = t[slot].name
    BY DEF SlotNamed
  <2> HIDE DEF j
  <2>2. j = slot
    BY <2>1
  <2> QED
    BY <2>2 DEF j
<1>2. \A slot \in DOMAIN t : t[slot].name \in Defined(t)
  BY DEF Defined
<1> QED
  BY <1>1, <1>2 DEF MapOf

LEMMA MapNow ==
  ASSUME TableInv
  PROVE  /\ DOMAIN MapOf(table) = Defined(table)
         /\ \A slot \in used : MapOf(table)[table[slot].name] = table[slot].addr
<1>1. \A slot, j \in DOMAIN table : table[slot].name = table[j].name => slot = j
  BY DEF TableInv, used
<1> QED
  BY <1>1, MapOfTable DEF used

(* A lookup in the table is a lookup in the map. *)
LEMMA ValueIsMapped ==
  ASSUME TableInv, NEW name \in Name
  PROVE  Value(name) = IF name \in DOMAIN MapOf(table) THEN MapOf(table)[name]
                       ELSE SYM_NOT_FOUND
<1> DEFINE found == {probe \in Probe : StopsAt(name, probe) /\ SlotOf(name, probe) \in used}
<1>1. CASE name \in Defined(table)
  <2>1. PICK slot \in used : table[slot].name = name
    BY <1>1 DEF Defined, used
  <2>2. found # {}
    BY <2>1, PresentIsFound
  <2> DEFINE p == CHOOSE probe \in found : TRUE
  <2>3. p \in found
    BY <2>2
  <2> HIDE DEF p
  <2>4. SlotOf(name, p) \in used /\ table[SlotOf(name, p)].name = name
    BY <2>3 DEF StopsAt, Holds
  <2>5. Value(name) = table[SlotOf(name, p)].addr
    BY <2>2 DEF Value, p
  <2> QED
    BY <1>1, <2>4, <2>5, MapNow
<1>2. CASE name \notin Defined(table)
  <2>1. found = {}
    BY <1>2 DEF StopsAt, Holds, Defined, used
  <2> QED
    BY <1>2, <2>1, MapNow DEF Value
<1> QED
  BY <1>1, <1>2

LEMMA EmptyTable == MapOf(Empty) = Map!NoNames
<1>1. Defined(Empty) = {}
  BY DEF Defined, Empty
<1> QED
  BY <1>1 DEF MapOf, Map!NoNames

LEMMA InitRefines == Init => Map!Init
BY EmptyTable DEF Init, Map!Init

(* A new entry extends the map by one name. *)
LEMMA NewRefines ==
  ASSUME WholeNames, TableInv, TableInv', NEW name \in Name, NEW a \in Addr,
         InsertNew(name, a)
  PROVE  Map!Define(name, a)
<1>1. PICK p \in Probe :
        /\ StopsAt(name, p) /\ SlotOf(name, p) \notin used
        /\ table' = [slot \in used \cup {SlotOf(name, p)} |->
                       IF slot = SlotOf(name, p)
                         THEN [name |-> Cut(name), addr |-> a] ELSE table[slot]]
  BY DEF InsertNew
<1> DEFINE s == SlotOf(name, p)
<1>2. /\ used' = used \cup {s} /\ s \notin used
      /\ table'[s] = [name |-> name, addr |-> a]
      /\ \A slot \in used : table'[slot] = table[slot]
  BY <1>1 DEF used, WholeNames
<1> HIDE DEF s
<1>3. Defined(table') = Defined(table) \cup {name}
  BY <1>2 DEF Defined, used
<1>4. name \notin Defined(table)
  BY <1>1, FreeMeansAbsent DEF Defined, used
<1>5. /\ DOMAIN MapOf(table) = Defined(table)
      /\ \A slot \in used : MapOf(table)[table[slot].name] = table[slot].addr
  BY MapNow
<1>6. /\ DOMAIN MapOf(table') = Defined(table')
      /\ \A slot \in used' : MapOf(table')[table'[slot].name] = table'[slot].addr
  <2>1. \A slot, j \in DOMAIN table' : table'[slot].name = table'[j].name => slot = j
    BY DEF TableInv, used
  <2> QED
    BY <2>1, MapOfTable DEF used
<1>7. MapOf(table')[name] = a
  BY <1>2, <1>6
<1>8. ASSUME NEW n \in Defined(table)
      PROVE  MapOf(table')[n] = MapOf(table)[n]
  <2>1. PICK slot \in used : table[slot].name = n
    BY DEF Defined, used
  <2> QED
    BY <1>2, <1>5, <1>6, <2>1
<1>9. MapOf(table') = [n \in Defined(table) \cup {name} |->
                         IF n = name THEN a ELSE MapOf(table)[n]]
  <2>1. MapOf(table') = [n \in Defined(table') |-> MapOf(table')[n]]
    BY DEF MapOf
  <2> QED
    BY <1>3, <1>4, <1>7, <1>8, <2>1
<1> QED
  BY <1>4, <1>5, <1>9 DEF InsertNew, InsertReturns, Map!Define

(* A refused name is one the map refuses. *)
LEMMA RefusalRefines ==
  ASSUME TableInv, NEW name \in Name, NEW a \in Addr,
         InsertFull(name, a) \/ InsertDuplicate(name, a)
  PROVE  Map!Refuse(name, a)
<1>1. DOMAIN MapOf(table) = Defined(table)
  BY MapNow
<1>2. table' = table /\ count' = count
  BY DEF InsertFull, InsertDuplicate, InsertFails
<1>3. count \in Nat /\ SYM_CAPACITY \in Nat
  BY UsedIsFinite, TableAssumption
<1>4. CASE InsertFull(name, a)
  <2>1. count >= SYM_CAPACITY
    <3>1. CASE \A probe \in Probe : SlotOf(name, probe) \in used
      <4>1. \A slot \in Slot : slot \in used
        BY <3>1, ProbesCoverSlots
      <4> QED
        BY <1>3, <4>1, UsedIsFinite
    <3> QED
      BY <1>4, <3>1 DEF InsertFull
  <2> QED
    BY <1>2, <1>4, <2>1 DEF InsertFull, InsertFails, InsertReturns, Map!Refuse
<1>5. CASE InsertDuplicate(name, a)
  <2>1. ~(count >= SYM_CAPACITY)
    BY <1>3, <1>5 DEF InsertDuplicate
  <2>2. name \in Defined(table)
    BY <1>5 DEF InsertDuplicate, StopsAt, Holds, Defined, used
  <2> QED
    BY <1>1, <1>2, <1>5, <2>1, <2>2
       DEF InsertDuplicate, InsertFails, InsertReturns, Map!Refuse
<1> QED
  BY <1>4, <1>5

LEMMA StepRefines ==
  WholeNames /\ TableInv /\ [Next]_vars => [Map!Next]_(Map!vars)
<1> SUFFICES ASSUME WholeNames, TableInv, [Next]_vars PROVE [Map!Next]_(Map!vars)
  OBVIOUS
<1>1. TableInv'
  BY StepInv
<1>2. CASE symtable_reset
  BY <1>2, EmptyTable DEF symtable_reset, Map!Next, Map!Reset
<1>3. ASSUME NEW name \in Name, NEW a \in Addr, symtable_insert(name, a)
      PROVE  Map!Next
  <2>1. CASE InsertNew(name, a)
    BY <1>1, <2>1, NewRefines DEF Map!Next
  <2>2. CASE InsertFull(name, a) \/ InsertDuplicate(name, a)
    BY <2>2, RefusalRefines DEF Map!Next
  <2> QED
    BY <1>3, <2>1, <2>2 DEF symtable_insert
<1>4. ASSUME NEW name \in Name, symtable_lookup(name) PROVE Map!Next
  BY <1>4, ValueIsMapped DEF symtable_lookup, Map!Next, Map!Lookup
<1>5. CASE UNCHANGED vars
  BY <1>5 DEF vars, Map!vars
<1> QED
  BY <1>2, <1>3, <1>4, <1>5 DEF Next

(* The hash table implements the map. *)
THEOREM TableImplementsMap == WholeNames => (Spec => IsNameMap)
<1> SUFFICES ASSUME WholeNames PROVE Spec => IsNameMap
  OBVIOUS
<1>1. TableInv /\ [Next]_vars => [Map!Next]_(Map!vars)
  BY StepRefines
<1>2. Spec => []TableInv
  BY TableCanBeProbed
<1> QED
  BY InitRefines, <1>1, <1>2, PTL DEF Spec, IsNameMap, Map!Spec
-----------------------------------------------------------------------------
(* What the lexer hands over *)

Less == {ss \in Nat \X Nat : ss[1] < ss[2]}

LEMMA LessWF == IsWellFoundedOn(Less, Nat)
BY NatLessThanWellFounded, Zenon DEF OpToRel, Less

LEMMA Least ==
  ASSUME NEW S \in SUBSET Nat, S # {}
  PROVE  LET m == CHOOSE k \in S : \A j \in S : k <= j
         IN  m \in S /\ \A j \in S : m <= j
<1>1. PICK m \in S : \A k \in S : ~ (<<k, m>> \in Less)
  BY LessWF, WFMin
<1>2. \A k \in S : ~(k < m)
  BY <1>1 DEF Less
<1>3. \A k \in S : m <= k
  BY <1>2
<1> QED
  BY <1>3

(* A token whose text is as its kind says. *)
Numbers == [sign : {1, -1}, wellformed : BOOLEAN, digits : Nat]

GoodToken(t) ==
  /\ t.kind = "TOK_STRING" => Len(t.text) \in Nat
  /\ t.kind \in {"TOK_LABEL", "TOK_IDENT"} => t.text \in Name
  /\ t.kind = "TOK_NUMBER" => t.text \in Numbers

LEMMA UpToNulIsSeq ==
  ASSUME NEW chars \in Seq(Nat)
  PROVE  Len(UpToNul(chars)) \in Nat
<1> DEFINE nuls == {k \in 1 .. Len(chars) : chars[k] = 0}
           m    == CHOOSE k \in nuls : \A j \in nuls : k <= j
<1>1. CASE nuls = {}
  BY <1>1 DEF UpToNul
<1>2. CASE nuls # {}
  <2>1. nuls \in SUBSET Nat
    OBVIOUS
  <2>2. m \in nuls
    BY <1>2, <2>1, Least
  <2> HIDE DEF m
  <2>3. m \in 1 .. Len(chars) /\ m - 1 \in Int /\ Len(chars) \in Nat
    BY <2>2
  <2>4. \A k \in 1 .. m - 1 : chars[k] \in Nat
    BY <2>3
  <2>5. SubSeq(chars, 1, m - 1) \in Seq(Nat)
    BY <2>3, <2>4, SubSeqProperties
  <2>6. UpToNul(chars) = SubSeq(chars, 1, m - 1)
    BY <1>2 DEF UpToNul, m
  <2> QED
    BY <2>5, <2>6
<1> QED
  BY <1>1, <1>2

LEMMA TokenIsGood ==
  ASSUME NEW x \in Lexemes(Name), x.class \notin {"comment", "unknown"}
  PROVE  GoodToken(TokenOf(x))
<1>1. CASE x.class = "string"
  <2>1. x.text \in Seq(Nat)
    BY <1>1 DEF Lexemes, Comment, Unknown
  <2> QED
    BY <1>1, <2>1, UpToNulIsSeq DEF TokenOf, Token, GoodToken
<1>2. CASE x.class = "number"
  <2>1. x.text \in Numbers
    BY <1>2 DEF Lexemes, Numbers, Comment, Unknown
  <2> QED
    BY <1>2, <2>1 DEF TokenOf, Token, GoodToken
<1>3. CASE x.class = "ident"
  <2>1. x.text \in Name
    BY <1>3 DEF Lexemes, Comment, Unknown
  <2>2. TokenOf(x).text = x.text
    BY <1>3 DEF TokenOf, Token
  <2>3. TokenOf(x).kind \notin {"TOK_NUMBER", "TOK_STRING"}
    BY <1>3 DEF TokenOf, Token
  <2> QED
    BY <2>1, <2>2, <2>3 DEF GoodToken
<1> QED
  BY <1>1, <1>2, <1>3 DEF Lexemes, Comment, Unknown

GoodTokens(s) ==
  /\ \E S : s \in Seq(S)
  /\ \A k \in 1 .. Len(s) : GoodToken(s[k])

LEMMA LengthOfFunction ==
  ASSUME NEW n \in Nat, NEW S, NEW f \in [1 .. n -> S]
  PROVE  f \in Seq(S) /\ Len(f) = n
<1>1. f \in Seq(S)
  BY SeqDef
<1>2. Len(f) \in Nat /\ DOMAIN f = 1 .. Len(f)
  BY <1>1, LenProperties
<1>3. DOMAIN f = 1 .. n
  OBVIOUS
<1> QED
  BY <1>1, <1>2, <1>3

LEMMA LexedIsGood ==
  ASSUME NEW x \in Seq(Lexemes(Name))
  PROVE  GoodTokens(lex_line(x).tokens)
<1> DEFINE stops == {k \in 1 .. Len(x) : Stops(x, k)}
           end   == CHOOSE k \in stops : \A j \in stops : k <= j
           n     == IF stops = {} THEN Len(x) ELSE end - 1
           t     == [k \in 1 .. n |-> TokenOf(x[k])]
<1>1. lex_line(x).tokens = t
  BY DEF lex_line
<1>2. Len(x) \in Nat
  OBVIOUS
<1>3. n \in 0 .. Len(x) /\ \A k \in 1 .. n : ~Stops(x, k)
  <2>1. CASE stops = {}
    BY <1>2, <2>1
  <2>2. CASE stops # {}
    <3>1. stops \in SUBSET Nat
      OBVIOUS
    <3>2. end \in stops /\ \A j \in stops : end <= j
      BY <2>2, <3>1, Least
    <3> HIDE DEF end
    <3>3. end \in 1 .. Len(x) /\ n = end - 1
      BY <2>2, <3>2
    <3>4. ASSUME NEW k \in 1 .. n PROVE k \notin stops
      BY <1>2, <3>2, <3>3
    <3>5. \A k \in 1 .. n : k \in 1 .. Len(x)
      BY <1>2, <3>3
    <3> QED
      BY <1>2, <3>3, <3>4, <3>5
  <2> QED
    BY <2>1, <2>2
<1> HIDE DEF n
<1>4. ASSUME NEW k \in 1 .. n PROVE GoodToken(t[k])
  <2>1. x[k] \in Lexemes(Name) /\ ~Stops(x, k)
    BY <1>2, <1>3, ElementOfSeq
  <2>2. x[k].class \notin {"comment", "unknown"}
    BY <2>1 DEF Stops
  <2> QED
    BY <2>1, <2>2, TokenIsGood
<1>5. t \in [1 .. n -> {t[k] : k \in 1 .. n}]
  OBVIOUS
<1>6. t \in Seq({t[k] : k \in 1 .. n}) /\ Len(t) = n
  BY <1>3, <1>5, LengthOfFunction
<1> HIDE DEF t
<1> QED
  BY <1>1, <1>4, <1>6 DEF GoodTokens

-----------------------------------------------------------------------------
(* What the parser makes of it *)

LEMMA NumberIsInt ==
  ASSUME NEW n \in Numbers
  PROVE  parse_number(n) \in Int
<1> DEFINE v == n.sign * (IF n.digits > LONG_MAX THEN LONG_MAX ELSE n.digits)
<1>1. n.sign \in {1, -1} /\ n.digits \in Nat /\ LONG_MAX \in Nat /\ INT32 \in Nat \ {0}
  BY IntAssumption DEF Numbers
<1>2. v \in Int
  BY <1>1
<1> HIDE DEF v
<1>3. \A h \in Int : ((v + h) % INT32) - h \in Int
  BY <1>1, <1>2
<1>4. INT32 \div 2 \in Int
  BY <1>1
<1> QED
  BY <1>3, <1>4 DEF parse_number, Int32, v

(* A ParsedLine whose label is a name or missing, whose constant, if it is  *)
(* a .equ, has a name and a value, and whose string has a length.           *)
GoodLine(l) ==
  /\ DOMAIN l = DOMAIN Zeroed
  /\ l.address \in uint16_t
  /\ l.label \in Name \cup {NoName}
  /\ Is(l, "DIR_EQU") => l.name \in Name /\ l.value.val \in Int
  /\ Len(l.str) \in Nat

(* A line on its way through the parser: only its label is filled in. *)
LabelOnly(l) ==
  /\ l = [Zeroed EXCEPT !.label = l.label]
  /\ l.label \in Name \cup {NoName}

LEMMA ZeroedIsLabelOnly == LabelOnly(Zeroed)
BY DEF LabelOnly, Zeroed

LEMMA ZeroUint16 == 0 \in uint16_t
BY DEF uint16_t

LEMMA LabelOnlyIsGood ==
  ASSUME NEW l, LabelOnly(l), NEW kind, kind # "PL_DIRECTIVE"
  PROVE  GoodLine([l EXCEPT !.kind = kind]) /\ GoodLine(l)
BY ZeroUint16 DEF LabelOnly, GoodLine, Zeroed, Is, NoOperand, Operand

LEMMA ZeroedIsGood == GoodLine(Zeroed)
BY ZeroUint16 DEF GoodLine, Zeroed, Is

LEMMA InstructionIsGood ==
  ASSUME NEW l, LabelOnly(l), NEW name, NEW args
  PROVE  GoodLine(parse_instruction(name, args, l).line)
<1> DEFINE m == [l EXCEPT !.kind = "PL_INSTR", !.mnemonic = name]
<1>1. GoodLine(m)
  BY ZeroUint16 DEF LabelOnly, GoodLine, Zeroed, Is
<1>2. \A ops : GoodLine([m EXCEPT !.ops = ops])
  BY ZeroUint16 DEF LabelOnly, GoodLine, Zeroed, Is
<1> HIDE DEF m
<1> QED
  BY <1>1, <1>2 DEF parse_instruction, Parsed, Refused, m

LEMMA DirectiveIsGood ==
  ASSUME NEW l, LabelOnly(l), NEW name, NEW args, GoodTokens(args)
  PROVE  GoodLine(parse_directive(name, args, l).line)
<1> DEFINE dir(d)    == [l EXCEPT !.kind = "PL_DIRECTIVE", !.dir = d]
           filled(d) == [dir(d) EXCEPT !.value = fill_value_operand(args[1])]
           defined   == [dir("DIR_EQU") EXCEPT !.name = args[1].text]
           is(k, kind) == Len(args) >= k /\ args[k].kind = kind
<1>1. \A d : d # "DIR_EQU" =>
        /\ GoodLine(dir(d)) /\ GoodLine(filled(d))
        /\ \A str : Len(str) \in Nat => GoodLine([dir(d) EXCEPT !.str = str])
  BY ZeroUint16 DEF LabelOnly, GoodLine, Zeroed, Is
<1>2. ASSUME is(1, "TOK_IDENT"), is(2, "TOK_NUMBER")
      PROVE  /\ GoodLine(defined)
             /\ GoodLine([defined EXCEPT !.value = fill_value_operand(args[2])])
  <2>1. GoodToken(args[1]) /\ GoodToken(args[2])
    BY <1>2 DEF GoodTokens
  <2>2. args[1].text \in Name /\ args[2].text \in Numbers
    BY <1>2, <2>1 DEF GoodToken
  <2>3. fill_value_operand(args[2]).val \in Int
    BY <1>2, <2>2, NumberIsInt DEF fill_value_operand, Operand
  <2> QED
    BY <2>2, <2>3, ZeroUint16 DEF LabelOnly, GoodLine, Zeroed, Is, NoOperand, Operand
<1> HIDE DEF dir, filled, defined, is
<1>3. parse_directive(name, args, l).line \in
        {dir("DIR_ORG"), dir("DIR_WORD"), filled("DIR_ORG"), filled("DIR_WORD")}
      \/ /\ is(1, "TOK_STRING")
         /\ parse_directive(name, args, l).line = [dir("DIR_ASCII") EXCEPT !.str = args[1].text]
      \/ /\ is(1, "TOK_IDENT") /\ is(2, "TOK_NUMBER")
         /\ parse_directive(name, args, l).line \in
              {defined, [defined EXCEPT !.value = fill_value_operand(args[2])]}
  BY DEF parse_directive, Parsed, Refused, dir, filled, defined, is
<1>4. is(1, "TOK_STRING") => Len(args[1].text) \in Nat
  BY DEF GoodTokens, GoodToken, is
<1> QED
  BY <1>1, <1>2, <1>3, <1>4

LEMMA TailIsGood ==
  ASSUME NEW s, GoodTokens(s), s # <<>>
  PROVE  GoodTokens(Tail(s)) /\ GoodToken(s[1])
<1>1. PICK S : s \in Seq(S)
  BY DEF GoodTokens
<1>2. /\ Tail(s) \in Seq(S) /\ Len(Tail(s)) = Len(s) - 1
      /\ \A k \in 1 .. Len(Tail(s)) : Tail(s)[k] = s[k + 1]
  BY <1>1, HeadTailProperties
<1>3. Len(s) \in Nat \ {0}
  BY <1>1, EmptySeq
<1>4. \A k \in 1 .. Len(s) - 1 : k + 1 \in 1 .. Len(s)
  BY <1>3
<1>5. 1 \in 1 .. Len(s)
  BY <1>3
<1> QED
  BY <1>2, <1>4, <1>5 DEF GoodTokens

LEMMA ParsedIsGood ==
  ASSUME NEW tokens, GoodTokens(tokens)
  PROVE  GoodLine(parse_line(tokens).line)
<1> DEFINE labelled == tokens # <<>> /\ tokens[1].kind = "TOK_LABEL"
           rest == IF labelled THEN Tail(tokens) ELSE tokens
           l    == IF labelled THEN [Zeroed EXCEPT !.label = tokens[1].text] ELSE Zeroed
           kind == IF labelled THEN "PL_LABEL" ELSE "PL_EMPTY"
<1>1. GoodTokens(rest)
  BY TailIsGood
<1>2. LabelOnly(l)
  <2>1. CASE labelled
    <3>1. tokens[1].text \in Name
      BY <2>1, TailIsGood DEF GoodToken
    <3> QED
      BY <2>1, <3>1 DEF LabelOnly, Zeroed
  <2>2. CASE ~labelled
    BY <2>2, ZeroedIsLabelOnly
  <2> QED
    BY <2>1, <2>2
<1> HIDE DEF rest, l
<1>3. GoodLine(l) /\ GoodLine([l EXCEPT !.kind = kind])
  <2>1. kind # "PL_DIRECTIVE"
    OBVIOUS
  <2> HIDE DEF kind
  <2> QED
    BY <1>2, <2>1, LabelOnlyIsGood
<1>4. rest # <<>> => /\ GoodLine(parse_directive(rest[1].text, Tail(rest), l).line)
                     /\ GoodLine(parse_instruction(rest[1].text, Tail(rest), l).line)
  BY <1>1, <1>2, TailIsGood, DirectiveIsGood, InstructionIsGood
<1> QED
  BY <1>3, <1>4 DEF parse_line, Parsed, Refused, rest, l

-----------------------------------------------------------------------------
(* The table as the assembler uses it *)

LEMMA AddrIsUint16 == \A a \in uint16_t : a \in Addr
<1>1. Addr = 0 .. MEM_SIZE - 1
  BY AssemblerAssumption
<1>2. MEM_SIZE \in Nat /\ \A a \in uint16_t : a \in Nat /\ a < MEM_SIZE
  BY DEF MEM_SIZE, uint16_t
<1> QED
  BY <1>1, <1>2

Extends(m, m2) == \A n \in DOMAIN m : n \in DOMAIN m2 /\ m2[n] = m[n]

Maps(m, name, value) == name \in DOMAIN m /\ m[name] = value

(* A definition that is not refused gives the name its value and leaves all *)
(* others what they are.                                                    *)
LEMMA DefinitionExtends ==
  ASSUME WholeNames, TableInv, NEW name \in Name, NEW value \in Addr,
         symtable_insert(name, value)
  PROVE  /\ TableInv'
         /\ answer'[4] = "ERR_OK" =>
              /\ Maps(MapOf(table'), name, value)
              /\ Extends(MapOf(table), MapOf(table'))
<1>1. TableInv'
  <2>1. Next
    BY DEF Next
  <2> QED
    BY <2>1, StepInv
<1>2. CASE InsertNew(name, value)
  <2>1. Map!Define(name, value)
    BY <1>1, <1>2, NewRefines
  <2> QED
    BY <1>1, <2>1 DEF Map!Define, Maps, Extends
<1>3. CASE InsertFull(name, value) \/ InsertDuplicate(name, value)
  <2>1. answer'[4] # "ERR_OK"
    BY <1>3 DEF InsertFull, InsertDuplicate, InsertFails, InsertReturns
  <2> QED
    BY <1>1, <2>1
<1> QED
  BY <1>2, <1>3 DEF symtable_insert

(* What the map says, a lookup answers. *)
LEMMA MappedIsFound ==
  ASSUME TableInv, NEW name \in Name, NEW value, Maps(MapOf(table), name, value)
  PROVE  Value(name) = value
BY ValueIsMapped DEF Maps

-----------------------------------------------------------------------------
(* The invariant *)

LabelIn(m, l)    == l.label # NoName => Maps(m, l.label, l.address)
ConstantIn(m, l) == Is(l, "DIR_EQU") => Maps(m, l.name, l.value.val % 65536)

LinesInv ==
  /\ sf \in Seq(Seq(Lexemes(Name)))
  /\ \A k \in DOMAIN parsed : GoodLine(parsed[k])

CallInv ==
  /\ phase \in {"idle", "called"} => \E setup \in Setups : files = setup.files
  /\ phase = "called" => src_path \in Path

(* A line that is given its place has its label in the table already. *)
PlaceInv ==
  phase = "place" =>
    /\ i \in DOMAIN parsed
    /\ n_errors = 0 => LabelIn(MapOf(table), parsed[i])

NamesInv ==
  n_errors = 0 =>
    \A k \in Placed : LabelIn(MapOf(table), parsed[k]) /\ ConstantIn(MapOf(table), parsed[k])

AssemblerInv ==
  AssemblerTypeOK /\ TableInv /\ LinesInv /\ CallInv /\ PlaceInv /\ NamesInv

LEMMA NamesHold == AssemblerInv => LabelsHold
<1> SUFFICES ASSUME AssemblerInv, n_errors = 0, NEW k \in Placed
             PROVE  LabelHolds(parsed[k]) /\ ConstantHolds(parsed[k])
  BY DEF LabelsHold
<1>1. k \in DOMAIN parsed
  BY DEF Placed
<1>2. /\ GoodLine(parsed[k])
      /\ LabelIn(MapOf(table), parsed[k]) /\ ConstantIn(MapOf(table), parsed[k])
  BY <1>1 DEF AssemblerInv, LinesInv, NamesInv
<1>3. LabelHolds(parsed[k])
  BY <1>2, MappedIsFound DEF AssemblerInv, LabelHolds, LabelIn, GoodLine
<1>4. ConstantHolds(parsed[k])
  BY <1>2, MappedIsFound DEF AssemblerInv, ConstantHolds, ConstantIn, GoodLine
<1> QED
  BY <1>3, <1>4

LEMMA FreshInv ==
  ASSUME Fresh, NEW setup \in Setups, files = setup.files
  PROVE  AssemblerInv
<1>1. TableInv
  BY InitInv DEF Fresh
<1>2. Len(sf) = 0 /\ DOMAIN parsed = {} /\ DOMAIN image = {} /\ sf \in Seq(Seq(Lexemes(Name)))
  BY DEF Fresh, NoImage
<1>3. AssemblerTypeOK
  BY <1>2, ZeroUint16 DEF Fresh, AssemblerTypeOK, Phase
<1> QED
  BY <1>1, <1>2, <1>3 DEF Fresh, AssemblerInv, LinesInv, CallInv, PlaceInv, NamesInv, Placed

(* A step that leaves the table and the lines alone. *)
Quiet ==
  /\ table' = table /\ count' = count /\ sf' = sf /\ parsed' = parsed
  /\ phase' # "place" /\ (n_errors' = 0 => n_errors = 0)
  /\ \A k \in Placed' : k \in Placed \/ (k = i /\ phase = "place" /\ ~Is(pl, "DIR_EQU"))

LEMMA QuietStep == AssemblerInv /\ Quiet /\ AssemblerTypeOK' /\ CallInv' => AssemblerInv'
<1> SUFFICES ASSUME AssemblerInv, Quiet, AssemblerTypeOK', CallInv' PROVE AssemblerInv'
  OBVIOUS
<1> USE DEF Quiet
<1>1. TableInv'
  BY DEF AssemblerInv, TableInv, used, SlotOf
<1>2. LinesInv'
  BY DEF AssemblerInv, LinesInv
<1>3. PlaceInv'
  BY DEF PlaceInv
<1>4. NamesInv'
  <2> SUFFICES ASSUME n_errors' = 0, NEW k \in Placed'
               PROVE  LabelIn(MapOf(table), parsed[k]) /\ ConstantIn(MapOf(table), parsed[k])
    BY DEF NamesInv
  <2>1. CASE k \in Placed
    BY <2>1 DEF AssemblerInv, NamesInv
  <2>2. CASE k = i /\ phase = "place" /\ ~Is(pl, "DIR_EQU")
    BY <2>2 DEF AssemblerInv, PlaceInv, ConstantIn, pl
  <2> QED
    BY <2>1, <2>2
<1> QED
  BY <1>1, <1>2, <1>3, <1>4 DEF AssemblerInv

-----------------------------------------------------------------------------
(* The steps *)

LEMMA Mod16 == \A x \in Int : x % 65536 \in uint16_t
BY DEF uint16_t

LEMMA Uint16Nat == \A x \in uint16_t : x \in Nat
BY DEF uint16_t

LEMMA Sizes ==
  ASSUME NEW l, GoodLine(l)
  PROVE  line_size(l) \in Nat
<1>1. \A n \in Nat : (n + 1 + 1) \div 2 \in Nat
  OBVIOUS
<1> QED
  BY <1>1 DEF line_size, GoodLine

LEMMA StartKeeps ==
  ASSUME WholeNames, AssemblerInv, NotStarted \/ Start
  PROVE  AssemblerInv'
<1>1. CASE NotStarted
  <2>1. AssemblerTypeOK' /\ CallInv'
    BY <1>1 DEF NotStarted, CannotStart, Return, AssemblerInv, AssemblerTypeOK, CallInv, Phase,
       symbols, call, pass1, pass2
  <2>2. phase = "called" /\ phase' = "returned"
    BY <1>1 DEF NotStarted, CannotStart, Return
  <2>3. table' = table /\ count' = count /\ sf' = sf /\ parsed' = parsed /\ n_errors' = n_errors
    BY <1>1 DEF NotStarted, symbols, pass1
  <2>4. \A k \in Placed' : k \in Placed
    BY <2>2, <2>3 DEF Placed
  <2>5. phase' # "place" /\ (n_errors' = 0 => n_errors = 0)
    BY <2>2, <2>3
  <2> QED
    BY <2>1, <2>3, <2>4, <2>5, QuietStep DEF Quiet
<1>2. CASE Start
  <2>1. PICK setup \in Setups : files = setup.files /\ src_path \in Path
    BY <1>2 DEF AssemblerInv, CallInv, Start
  <2>2. sf' \in Seq(Seq(Lexemes(Name)))
    BY <1>2, <2>1, SourceAssumption DEF Start
  <2>3. /\ Len(sf') \in Nat /\ DOMAIN parsed' = 1 .. Len(sf')
        /\ \A k \in DOMAIN parsed' : parsed'[k] = Zeroed
    BY <1>2, <2>2 DEF Start
  <2>4. GoodLine(Zeroed)
    BY ZeroedIsGood
  <2>5. LinesInv'
    BY <2>2, <2>3, <2>4 DEF LinesInv
  <2>6. TableInv'
    <3>1. symtable_reset
      BY <1>2 DEF Start
    <3>2. Next
      BY <3>1 DEF Next
    <3> QED
      BY <3>2, StepInv DEF AssemblerInv
  <2>7. phase' = "line" /\ i' = 1 /\ n_errors' = 0 /\ addr' = 0
    BY <1>2 DEF Start
  <2>8. AssemblerTypeOK'
    <3>1. UNCHANGED <<highest, n_words, image>>
      BY <1>2 DEF Start, pass2
    <3>2. \A k \in DOMAIN parsed' : parsed'[k].address \in uint16_t
      BY <2>3, <2>4 DEF GoodLine
    <3>3. i' \in 1 .. Len(sf') + 1
      BY <2>3, <2>7
    <3> QED
      BY <2>3, <2>7, <3>1, <3>2, <3>3, ZeroUint16 DEF AssemblerInv, AssemblerTypeOK, Phase
  <2>9. Placed' = {}
    BY <2>3, <2>7 DEF Placed
  <2>10. CallInv' /\ PlaceInv' /\ NamesInv'
    BY <2>7, <2>9 DEF CallInv, PlaceInv, NamesInv
  <2> QED
    BY <2>5, <2>6, <2>8, <2>10 DEF AssemblerInv
<1> QED
  BY <1>1, <1>2

(* What the current line holds, once it is read. *)
LEMMA ReadLineIsGood ==
  ASSUME AssemblerInv, InPass1
  PROVE  i \in DOMAIN parsed /\ GoodLine(LineParsed.line)
<1>1. i \in 1 .. Len(sf) /\ DOMAIN parsed = 1 .. Len(sf)
  BY DEF AssemblerInv, AssemblerTypeOK, LinesInv, InPass1
<1>2. sf[i] \in Seq(Lexemes(Name))
  BY <1>1, ElementOfSeq DEF AssemblerInv, LinesInv
<1> QED
  BY <1>1, <1>2, LexedIsGood, ParsedIsGood DEF LineParsed, Lexed

(* One line replaced by another. *)
LEMMA LineReplaced ==
  ASSUME AssemblerInv, NEW l, GoodLine(l), i \in DOMAIN parsed,
         parsed' = [parsed EXCEPT ![i] = l], UNCHANGED sf
  PROVE  /\ LinesInv'
         /\ DOMAIN parsed' = 1 .. Len(sf')
         /\ \A k \in DOMAIN parsed' : parsed'[k].address \in uint16_t
         /\ parsed'[i] = l
         /\ \A k \in DOMAIN parsed : k # i => parsed'[k] = parsed[k]
BY DEF AssemblerInv, LinesInv, AssemblerTypeOK, GoodLine

LEMMA LineFailsKeeps ==
  ASSUME AssemblerInv, LineFails
  PROVE  AssemblerInv'
<1>1. i \in DOMAIN parsed /\ GoodLine(LineParsed.line)
  BY ReadLineIsGood DEF LineFails
<1>2. /\ LinesInv' /\ DOMAIN parsed' = 1 .. Len(sf')
      /\ \A k \in DOMAIN parsed' : parsed'[k].address \in uint16_t
  <2>1. CASE Lexed.ok
    <3>1. parsed' = [parsed EXCEPT ![i] = LineParsed.line] /\ UNCHANGED sf
      BY <2>1 DEF LineFails
    <3> QED
      BY <1>1, <3>1, LineReplaced
  <2>2. CASE ~Lexed.ok
    BY <2>2 DEF LineFails, AssemblerInv, LinesInv, AssemblerTypeOK
  <2> QED
    BY <2>1, <2>2
<1>3. UNCHANGED <<table, count, sf, phase, addr, highest, n_words, image>>
  BY DEF LineFails, symbols, pass2
<1>4. n_errors' \in Nat /\ n_errors' # 0 /\ i' \in 1 .. Len(sf') + 1
  BY <1>1, <1>3 DEF LineFails, AssemblerInv, AssemblerTypeOK, LinesInv
<1>5. TableInv'
  BY <1>3 DEF AssemblerInv, TableInv, used, SlotOf
<1>6. AssemblerTypeOK'
  BY <1>2, <1>3, <1>4 DEF AssemblerInv, AssemblerTypeOK
<1>7. phase' = "line"
  BY <1>3 DEF LineFails, InPass1
<1>8. CallInv' /\ PlaceInv' /\ NamesInv'
  BY <1>4, <1>7 DEF CallInv, PlaceInv, NamesInv
<1> QED
  BY <1>2, <1>5, <1>6, <1>8 DEF AssemblerInv

LEMMA GoodAddressed ==
  ASSUME NEW l, GoodLine(l), NEW a \in uint16_t
  PROVE  /\ GoodLine([l EXCEPT !.address = a])
         /\ [l EXCEPT !.address = a].address = a /\ [l EXCEPT !.address = a].label = l.label
BY DEF GoodLine, Zeroed, Is

(* What a map says of a line, a map that extends it says. *)
LEMMA ExtendedSays ==
  ASSUME NEW m, NEW m2, Extends(m, m2), NEW l
  PROVE  /\ LabelIn(m, l) => LabelIn(m2, l)
         /\ ConstantIn(m, l) => ConstantIn(m2, l)
BY DEF Extends, LabelIn, ConstantIn, Maps

LEMMA DefineLabelKeeps ==
  ASSUME WholeNames, AssemblerInv, DefineLabel
  PROVE  AssemblerInv'
<1> DEFINE l == [LineParsed.line EXCEPT !.address = addr]
<1>1. addr \in uint16_t /\ n_errors \in Nat /\ TableInv
  BY DEF AssemblerInv, AssemblerTypeOK
<1>2. i \in DOMAIN parsed /\ GoodLine(l) /\ l.address = addr /\ l.label = LineParsed.line.label
  BY <1>1, ReadLineIsGood, GoodAddressed DEF DefineLabel
<1>3. parsed' = [parsed EXCEPT ![i] = l]
  BY DEF DefineLabel
<1> HIDE DEF l
<1>4. /\ UNCHANGED <<sf, i, addr, highest, n_words, image, files>>
      /\ phase = "line" /\ phase' = "place"
  BY DEF DefineLabel, pass2, InPass1
<1>5. /\ LinesInv' /\ DOMAIN parsed' = 1 .. Len(sf')
      /\ \A k \in DOMAIN parsed' : parsed'[k].address \in uint16_t
      /\ parsed'[i] = l
      /\ \A k \in DOMAIN parsed : k # i => parsed'[k] = parsed[k]
  BY <1>2, <1>3, <1>4, LineReplaced
<1>6. /\ TableInv' /\ n_errors' \in Nat
      /\ n_errors' = 0 => /\ n_errors = 0
                          /\ Extends(MapOf(table), MapOf(table'))
                          /\ LabelIn(MapOf(table'), l)
  <2>1. CASE l.label # NoName
    <3>1. l.label \in Name
      BY <1>2, <2>1 DEF GoodLine
    <3>2. Define(l.label, addr)
      BY <1>2, <2>1 DEF DefineLabel
    <3>3. addr \in Addr /\ symtable_insert(l.label, addr)
      BY <1>1, <3>2, AddrIsUint16 DEF Define
    <3>4. /\ TableInv'
          /\ answer'[4] = "ERR_OK" =>
               Maps(MapOf(table'), l.label, addr) /\ Extends(MapOf(table), MapOf(table'))
      BY <1>1, <3>1, <3>3, DefinitionExtends
    <3>5. n_errors' = IF answer'[4] = "ERR_OK" THEN n_errors ELSE n_errors + 1
      BY <3>2 DEF Define
    <3> QED
      BY <1>1, <1>2, <3>4, <3>5 DEF LabelIn
  <2>2. CASE l.label = NoName
    <3>1. table' = table /\ count' = count /\ n_errors' = n_errors
      BY <1>2, <2>2 DEF DefineLabel, symbols
    <3> QED
      BY <1>1, <2>2, <3>1 DEF LabelIn, Extends, TableInv, used, SlotOf
  <2> QED
    BY <2>1, <2>2
<1>7. AssemblerTypeOK'
  BY <1>4, <1>5, <1>6 DEF AssemblerInv, AssemblerTypeOK, Phase
<1>8. CallInv' /\ PlaceInv'
  <2>1. CallInv'
    BY <1>4 DEF CallInv
  <2>2. i' = i /\ i \in DOMAIN parsed' /\ parsed'[i] = l
    BY <1>2, <1>3, <1>4, <1>5
  <2>3. n_errors' = 0 => LabelIn(MapOf(table'), parsed'[i'])
    BY <1>6, <2>2
  <2> QED
    BY <2>1, <2>2, <2>3 DEF PlaceInv
<1>9. NamesInv'
  <2> SUFFICES ASSUME n_errors' = 0, NEW k \in Placed'
               PROVE  LabelIn(MapOf(table'), parsed'[k]) /\ ConstantIn(MapOf(table'), parsed'[k])
    BY DEF NamesInv
  <2>1. k \in Placed /\ k # i
    BY <1>3, <1>4, <1>5 DEF Placed, AssemblerInv, AssemblerTypeOK
  <2>2. parsed'[k] = parsed[k]
    BY <1>5, <2>1 DEF Placed
  <2>3. LabelIn(MapOf(table), parsed[k]) /\ ConstantIn(MapOf(table), parsed[k])
    BY <1>6, <2>1 DEF AssemblerInv, NamesInv
  <2> QED
    BY <1>6, <2>2, <2>3, ExtendedSays
<1> QED
  BY <1>5, <1>6, <1>7, <1>8, <1>9 DEF AssemblerInv

(* The line that gets its place is among those placed. *)
LEMMA PlaceLine ==
  ASSUME AssemblerInv, InPlace, NextLine
  PROVE  /\ i \in DOMAIN parsed /\ i' \in 1 .. Len(sf') + 1
         /\ UNCHANGED <<sf, parsed, highest, image, n_words>> /\ phase' = "line"
         /\ \A k \in Placed' : k \in Placed \/ k = i
         /\ GoodLine(pl)
<1>1. i \in DOMAIN parsed /\ DOMAIN parsed = 1 .. Len(sf) /\ Len(sf) \in Nat
  BY DEF AssemblerInv, PlaceInv, InPlace, AssemblerTypeOK, LinesInv
<1>2. UNCHANGED <<sf, parsed, highest, image, n_words>> /\ phase' = "line" /\ i' = i + 1
  BY DEF NextLine, pass2
<1>3. i' \in 1 .. Len(sf') + 1
  BY <1>1, <1>2
<1>4. \A k \in Placed' : k \in Placed \/ k = i
  BY <1>1, <1>2 DEF Placed, InPlace
<1> QED
  BY <1>1, <1>2, <1>3, <1>4 DEF AssemblerInv, LinesInv, pl

LEMMA DefineConstantKeeps ==
  ASSUME WholeNames, AssemblerInv, DefineConstant
  PROVE  AssemblerInv'
<1> DEFINE v == pl.value.val % 65536
<1>1. n_errors \in Nat /\ TableInv /\ addr \in uint16_t
  BY DEF AssemblerInv, AssemblerTypeOK
<1>2. /\ i \in DOMAIN parsed /\ i' \in 1 .. Len(sf') + 1
      /\ UNCHANGED <<sf, parsed, highest, image, n_words>> /\ phase' = "line"
      /\ \A k \in Placed' : k \in Placed \/ k = i
      /\ GoodLine(pl)
  BY PlaceLine DEF DefineConstant
<1>3. InPlace /\ Is(pl, "DIR_EQU") /\ Define(pl.name, v) /\ addr' = addr
  BY DEF DefineConstant
<1>4. pl.name \in Name /\ v \in Addr
  BY <1>2, <1>3, Mod16, AddrIsUint16 DEF GoodLine
<1>5. /\ TableInv'
      /\ answer'[4] = "ERR_OK" =>
           Maps(MapOf(table'), pl.name, v) /\ Extends(MapOf(table), MapOf(table'))
  BY <1>1, <1>3, <1>4, DefinitionExtends DEF Define
<1>6. n_errors' = IF answer'[4] = "ERR_OK" THEN n_errors ELSE n_errors + 1
  BY <1>3 DEF Define
<1>7. n_errors' \in Nat /\ (n_errors' = 0 => answer'[4] = "ERR_OK" /\ n_errors = 0)
  BY <1>1, <1>6
<1>8. AssemblerTypeOK' /\ LinesInv'
  BY <1>1, <1>2, <1>3, <1>7 DEF AssemblerInv, AssemblerTypeOK, LinesInv, Phase
<1>9. CallInv' /\ PlaceInv'
  BY <1>2 DEF CallInv, PlaceInv
<1>10. NamesInv'
  <2> SUFFICES ASSUME n_errors' = 0, NEW k \in Placed'
               PROVE  LabelIn(MapOf(table'), parsed[k]) /\ ConstantIn(MapOf(table'), parsed[k])
    BY <1>2 DEF NamesInv
  <2>1. Maps(MapOf(table'), pl.name, v) /\ Extends(MapOf(table), MapOf(table')) /\ n_errors = 0
    BY <1>5, <1>7
  <2>2. CASE k \in Placed
    BY <2>1, <2>2, ExtendedSays DEF AssemblerInv, NamesInv
  <2>3. CASE k = i
    <3>1. LabelIn(MapOf(table), parsed[i])
      BY <1>3, <2>1 DEF AssemblerInv, PlaceInv, InPlace
    <3>2. ConstantIn(MapOf(table'), parsed[i])
      BY <2>1 DEF ConstantIn, pl
    <3> QED
      BY <2>1, <2>3, <3>1, <3>2, ExtendedSays
  <2> QED
    BY <1>2, <2>2, <2>3
<1> QED
  BY <1>5, <1>8, <1>9, <1>10 DEF AssemblerInv

LEMMA PlaceKeeps ==
  ASSUME AssemblerInv, SetOrigin \/ Advance
  PROVE  AssemblerInv'
<1>1. /\ i \in DOMAIN parsed /\ i' \in 1 .. Len(sf') + 1
      /\ UNCHANGED <<sf, parsed, highest, image, n_words>> /\ phase' = "line"
      /\ \A k \in Placed' : k \in Placed \/ k = i
      /\ GoodLine(pl)
  BY PlaceLine DEF SetOrigin, Advance
<1>2. InPlace /\ ~Is(pl, "DIR_EQU") /\ table' = table /\ count' = count
  BY DEF SetOrigin, Advance, symbols, Is
<1>3. addr' \in uint16_t /\ n_errors' \in Nat /\ (n_errors' = 0 => n_errors = 0)
  <2>1. addr \in uint16_t /\ n_errors \in Nat
    BY DEF AssemblerInv, AssemblerTypeOK
  <2>2. CASE SetOrigin
    BY <2>1, <2>2 DEF SetOrigin
  <2>3. CASE Advance
    <3>1. addr + line_size(pl) \in Int
      BY <1>1, <2>1, Uint16Nat, Sizes
    <3> QED
      BY <2>1, <2>3, <3>1, Mod16 DEF Advance
  <2> QED
    BY <2>2, <2>3
<1>4. AssemblerTypeOK' /\ CallInv'
  BY <1>1, <1>3 DEF AssemblerInv, AssemblerTypeOK, CallInv, Phase
<1>5. Quiet
  BY <1>1, <1>2, <1>3 DEF Quiet, InPlace
<1> QED
  BY <1>4, <1>5, QuietStep

LEMMA EndOfPass1Keeps ==
  ASSUME AssemblerInv, EndOfPass1
  PROVE  AssemblerInv'
<1>1. addr \in uint16_t /\ Len(sf) \in Nat
  BY DEF AssemblerInv, AssemblerTypeOK, LinesInv
<1>2. /\ table' = table /\ count' = count /\ sf' = sf /\ parsed' = parsed /\ addr' = addr
      /\ n_errors' = n_errors /\ i' = 1 /\ n_words' = 0 /\ image' = NoImage
      /\ phase = "line" /\ i = Len(sf) + 1 /\ phase' \in {"emit", "returned"}
  BY DEF EndOfPass1, symbols, pass1, Return
<1>3. highest' \in uint16_t
  <2>1. highest' = IF addr = 0 THEN 0 ELSE addr - 1
    BY DEF EndOfPass1
  <2> QED
    BY <1>1, <2>1 DEF uint16_t
<1>4. AssemblerTypeOK'
  <2>1. DOMAIN image' = {} /\ 1 \in 1 .. Len(sf) + 1
    BY <1>1, <1>2 DEF NoImage
  <2> QED
    BY <1>2, <1>3, <2>1, ZeroUint16 DEF AssemblerInv, AssemblerTypeOK, Phase
<1>5. CallInv'
  BY <1>2 DEF CallInv
<1>6. Quiet
  <2>1. \A k \in Placed' : k \in Placed
    BY <1>1, <1>2 DEF Placed, AssemblerInv, AssemblerTypeOK
  <2> QED
    BY <1>2, <2>1 DEF Quiet
<1> QED
  BY <1>4, <1>5, <1>6, QuietStep

-----------------------------------------------------------------------------
(* Pass 2 *)

(* A step of pass 2 changes at most the operands of its line, and emits to  *)
(* uint16_t addresses.                                                      *)
Emission(l) ==
  /\ phase = "emit" /\ phase' = "emit" /\ i \in DOMAIN parsed /\ i' = i + 1
  /\ table' = table /\ count' = count /\ sf' = sf
  /\ addr' = addr /\ highest' = highest /\ files' = files
  /\ parsed' = [parsed EXCEPT ![i] = l]
  /\ l.label = parsed[i].label /\ l.address = parsed[i].address
  /\ Is(l, "DIR_EQU") => l = parsed[i]
  /\ GoodLine(l)
  /\ n_words' \in uint16_t /\ DOMAIN image' \subseteq uint16_t
  /\ n_errors' \in Nat /\ (n_errors' = 0 => n_errors = 0)

LEMMA EmissionKeeps ==
  ASSUME AssemblerInv, NEW l, Emission(l)
  PROVE  AssemblerInv'
<1> USE DEF Emission
<1>1. /\ LinesInv' /\ DOMAIN parsed' = 1 .. Len(sf')
      /\ \A k \in DOMAIN parsed' : parsed'[k].address \in uint16_t
      /\ parsed'[i] = l
      /\ \A k \in DOMAIN parsed : k # i => parsed'[k] = parsed[k]
  BY LineReplaced
<1>2. TableInv'
  BY DEF AssemblerInv, TableInv, used, SlotOf
<1>3. i' \in 1 .. Len(sf') + 1
  BY DEF AssemblerInv, AssemblerTypeOK, LinesInv
<1>4. AssemblerTypeOK'
  BY <1>1, <1>3 DEF AssemblerInv, AssemblerTypeOK
<1>5. CallInv' /\ PlaceInv'
  BY DEF CallInv, PlaceInv
<1>6. NamesInv'
  <2> SUFFICES ASSUME n_errors' = 0, NEW k \in Placed'
               PROVE  LabelIn(MapOf(table), parsed'[k]) /\ ConstantIn(MapOf(table), parsed'[k])
    BY DEF NamesInv
  <2>1. k \in DOMAIN parsed /\ k \in Placed
    BY <1>1 DEF Placed, AssemblerInv, AssemblerTypeOK
  <2>2. LabelIn(MapOf(table), parsed[k]) /\ ConstantIn(MapOf(table), parsed[k])
    BY <2>1 DEF AssemblerInv, NamesInv
  <2>3. CASE k = i
    BY <1>1, <2>2, <2>3 DEF LabelIn, ConstantIn
  <2>4. CASE k # i
    BY <1>1, <2>1, <2>2, <2>4
  <2> QED
    BY <2>3, <2>4
<1> QED
  BY <1>1, <1>2, <1>4, <1>5, <1>6 DEF AssemblerInv

LEMMA EmitFits ==
  ASSUME AssemblerInv, NEW words, Len(words) \in Nat, Emit(words), i \in DOMAIN parsed
  PROVE  n_words' \in uint16_t /\ DOMAIN image' \subseteq uint16_t
<1> DEFINE cells == {(pl.address + k) % 65536 : k \in 0 .. Len(words) - 1}
<1>1. pl.address \in Nat /\ n_words \in Nat /\ DOMAIN image \subseteq uint16_t
  BY Uint16Nat DEF AssemblerInv, AssemblerTypeOK, pl
<1>2. cells \subseteq uint16_t
  <2>1. ASSUME NEW k \in 0 .. Len(words) - 1 PROVE (pl.address + k) % 65536 \in uint16_t
    <3>1. pl.address + k \in Int
      BY <1>1
    <3> QED
      BY <3>1, Mod16
  <2> QED
    BY <2>1
<1>3. DOMAIN image' = DOMAIN image \cup cells
  BY DEF Emit
<1>4. n_words + Len(words) \in Int /\ n_words' = (n_words + Len(words)) % 65536
  BY <1>1 DEF Emit
<1> HIDE DEF cells
<1> QED
  BY <1>1, <1>2, <1>3, <1>4, Mod16

(* The line of pass 2, and what all its steps do. *)
LEMMA EmissionLine ==
  ASSUME AssemblerInv, InPass2, NextEmission
  PROVE  /\ phase = "emit" /\ phase' = "emit" /\ i \in DOMAIN parsed /\ i' = i + 1
         /\ table' = table /\ count' = count /\ sf' = sf
         /\ addr' = addr /\ highest' = highest /\ files' = files
         /\ GoodLine(pl) /\ pl = parsed[i]
         /\ n_errors \in Nat /\ n_words \in uint16_t /\ DOMAIN image \subseteq uint16_t
<1>1. i \in DOMAIN parsed
  BY DEF AssemblerInv, AssemblerTypeOK, LinesInv, InPass2
<1>2. GoodLine(pl) /\ pl = parsed[i]
  BY <1>1 DEF AssemblerInv, LinesInv, pl
<1> QED
  BY <1>1, <1>2 DEF AssemblerInv, AssemblerTypeOK, InPass2, NextEmission, symbols

LEMMA OneWord == \A w : Len(<<w>>) \in Nat
OBVIOUS

LEMMA EmitInstrKeeps ==
  ASSUME AssemblerInv, EmitInstr
  PROVE  AssemblerInv'
<1> DEFINE l == [pl EXCEPT !.ops = ResolvedOps]
<1>1. InPass2 /\ NextEmission /\ IsInstr(pl)
  BY DEF EmitInstr
<1>2. GoodLine(l) /\ l.label = pl.label /\ l.address = pl.address /\ ~Is(l, "DIR_EQU")
  BY <1>1, EmissionLine DEF GoodLine, Zeroed, Is, IsInstr
<1>3. parsed' = [parsed EXCEPT ![i] = l]
  BY DEF EmitInstr, pl
<1>4. EmitNothing(1) \/ \E w : Emit(<<w>>) /\ n_errors' = n_errors
  BY DEF EmitInstr
<1> HIDE DEF l
<1>5. /\ n_words' \in uint16_t /\ DOMAIN image' \subseteq uint16_t
      /\ n_errors' \in Nat /\ (n_errors' = 0 => n_errors = 0)
  <2>1. CASE EmitNothing(1)
    BY <1>1, <2>1, EmissionLine DEF EmitNothing
  <2>2. CASE \E w : Emit(<<w>>) /\ n_errors' = n_errors
    <3>1. PICK w : Emit(<<w>>) /\ n_errors' = n_errors
      BY <2>2
    <3> QED
      BY <1>1, <3>1, EmissionLine, EmitFits, OneWord
  <2> QED
    BY <1>4, <2>1, <2>2
<1>6. Emission(l)
  BY <1>1, <1>2, <1>3, <1>5, EmissionLine DEF Emission
<1> QED
  BY <1>6, EmissionKeeps

LEMMA EmitWordKeeps ==
  ASSUME AssemblerInv, EmitWord
  PROVE  AssemblerInv'
<1> DEFINE value == resolve_operand(pl.value)
           l == [pl EXCEPT !.value = value]
           w == WordValue(value)
<1>1. InPass2 /\ NextEmission /\ Is(pl, "DIR_WORD")
  BY DEF EmitWord
<1>2. GoodLine(l) /\ l.label = pl.label /\ l.address = pl.address /\ ~Is(l, "DIR_EQU")
  BY <1>1, EmissionLine DEF GoodLine, Zeroed, Is
<1>3. parsed' = [parsed EXCEPT ![i] = l]
  BY DEF EmitWord, pl
<1>4. EmitNothing(1) \/ (Emit(<<w>>) /\ n_errors' = n_errors)
  BY DEF EmitWord
<1> HIDE DEF l, w
<1>5. /\ n_words' \in uint16_t /\ DOMAIN image' \subseteq uint16_t
      /\ n_errors' \in Nat /\ (n_errors' = 0 => n_errors = 0)
  <2>1. CASE EmitNothing(1)
    BY <1>1, <2>1, EmissionLine DEF EmitNothing
  <2>2. CASE Emit(<<w>>) /\ n_errors' = n_errors
    BY <1>1, <2>2, EmissionLine, EmitFits, OneWord
  <2> QED
    BY <1>4, <2>1, <2>2
<1>6. Emission(l)
  BY <1>1, <1>2, <1>3, <1>5, EmissionLine DEF Emission
<1> QED
  BY <1>6, EmissionKeeps

LEMMA LengthOf ==
  ASSUME NEW n \in Nat, NEW f, f = [k \in 1 .. n |-> f[k]]
  PROVE  Len(f) = n
<1>1. f \in [1 .. n -> {f[k] : k \in 1 .. n}]
  OBVIOUS
<1> QED
  BY <1>1, LengthOfFunction

LEMMA EmitRestKeeps ==
  ASSUME AssemblerInv, EmitAscii \/ EmitNone
  PROVE  AssemblerInv'
<1>1. InPass2 /\ NextEmission /\ parsed' = parsed
  BY DEF EmitAscii, EmitNone
<1>2. /\ n_words' \in uint16_t /\ DOMAIN image' \subseteq uint16_t
      /\ n_errors' \in Nat /\ (n_errors' = 0 => n_errors = 0)
  <2>1. CASE EmitAscii
    <3> DEFINE n == Len(pl.str) \div 2 + 1
               words == [k \in 1 .. n |-> Byte(2 * k - 2) + 256 * Byte(2 * k - 1)]
    <3>1. Len(pl.str) \in Nat
      BY <1>1, EmissionLine DEF GoodLine
    <3>2. n \in Nat
      <4>1. \A m \in Nat : m \div 2 + 1 \in Nat
        OBVIOUS
      <4> QED
        BY <3>1, <4>1
    <3>3. Emit(words) /\ n_errors' = n_errors
      BY <2>1 DEF EmitAscii
    <3>4. words = [k \in 1 .. n |-> words[k]]
      OBVIOUS
    <3> HIDE DEF words, n
    <3>5. Len(words) \in Nat
      BY <3>2, <3>4, LengthOf
    <3> QED
      BY <1>1, <3>3, <3>5, EmissionLine, EmitFits
  <2>2. CASE EmitNone
    BY <1>1, <2>2, EmissionLine DEF EmitNone, EmitNothing
  <2> QED
    BY <2>1, <2>2
<1>3. i' \in 1 .. Len(sf') + 1
  BY <1>1, EmissionLine DEF AssemblerInv, AssemblerTypeOK, LinesInv
<1>4. AssemblerTypeOK'
  BY <1>1, <1>2, <1>3, EmissionLine DEF AssemblerInv, AssemblerTypeOK
<1>5. CallInv'
  BY <1>1, EmissionLine DEF CallInv
<1>6. Quiet
  <2>1. \A k \in Placed' : k \in Placed
    BY <1>1, EmissionLine DEF Placed
  <2> QED
    BY <1>1, <1>2, <2>1, EmissionLine DEF Quiet
<1> QED
  BY <1>4, <1>5, <1>6, QuietStep

LEMMA FinaliseKeeps ==
  ASSUME AssemblerInv, Reject \/ CannotOpen \/ WriteImage
  PROVE  AssemblerInv'
<1>1. /\ table' = table /\ count' = count /\ sf' = sf /\ parsed' = parsed /\ addr' = addr
      /\ highest' = highest /\ n_words' = n_words /\ image' = image /\ i' = i
      /\ n_errors' = n_errors /\ phase = "emit" /\ phase' = "returned"
  BY DEF Reject, CannotOpen, WriteImage, Finished, Return, symbols, pass1, pass2
<1>2. AssemblerTypeOK' /\ CallInv'
  BY <1>1 DEF AssemblerInv, AssemblerTypeOK, CallInv, Phase
<1>3. Quiet
  BY <1>1 DEF Quiet, Placed
<1> QED
  BY <1>2, <1>3, QuietStep

LEMMA CallKeeps ==
  ASSUME AssemblerInv, NEW src \in Path, NEW out \in Path, assemble_file(src, out)
  PROVE  AssemblerInv'
<1>1. /\ table' = table /\ count' = count /\ sf' = sf /\ parsed' = parsed /\ addr' = addr
      /\ highest' = highest /\ n_words' = n_words /\ image' = image /\ i' = i
      /\ n_errors' = n_errors /\ phase = "idle" /\ phase' = "called"
      /\ files' = files /\ src_path' = src
  BY DEF assemble_file, symbols, pass1, pass2
<1>2. AssemblerTypeOK' /\ CallInv'
  BY <1>1 DEF AssemblerInv, AssemblerTypeOK, CallInv, Phase
<1>3. Quiet
  BY <1>1 DEF Quiet, Placed
<1> QED
  BY <1>2, <1>3, QuietStep

LEMMA StutterKeeps ==
  ASSUME AssemblerInv, UNCHANGED avars
  PROVE  AssemblerInv'
<1>1. /\ table' = table /\ count' = count /\ sf' = sf /\ parsed' = parsed /\ addr' = addr
      /\ highest' = highest /\ n_words' = n_words /\ image' = image /\ i' = i
      /\ n_errors' = n_errors /\ phase' = phase /\ files' = files /\ src_path' = src_path
  BY DEF avars, symbols, call, pass1, pass2
<1>2. TableInv'
  BY <1>1 DEF AssemblerInv, TableInv, used, SlotOf
<1>3. AssemblerTypeOK' /\ LinesInv' /\ CallInv'
  BY <1>1 DEF AssemblerInv, AssemblerTypeOK, LinesInv, CallInv
<1>4. PlaceInv' /\ NamesInv'
  BY <1>1 DEF AssemblerInv, PlaceInv, NamesInv, Placed
<1> QED
  BY <1>2, <1>3, <1>4 DEF AssemblerInv

LEMMA InvIsInductive == WholeNames /\ AssemblerInv /\ [ANext]_avars => AssemblerInv'
<1> SUFFICES ASSUME WholeNames, AssemblerInv, [ANext]_avars PROVE AssemblerInv'
  OBVIOUS
<1>1. ASSUME NEW src \in Path, NEW out \in Path, assemble_file(src, out) PROVE AssemblerInv'
  BY <1>1, CallKeeps
<1>2. CASE Step
  <2>1. CASE NotStarted \/ Start
    BY <2>1, StartKeeps
  <2>2. CASE LineFails
    BY <2>2, LineFailsKeeps
  <2>3. CASE DefineLabel
    BY <2>3, DefineLabelKeeps
  <2>4. CASE DefineConstant
    BY <2>4, DefineConstantKeeps
  <2>5. CASE SetOrigin \/ Advance
    BY <2>5, PlaceKeeps
  <2>6. CASE EndOfPass1
    BY <2>6, EndOfPass1Keeps
  <2>7. CASE EmitInstr
    BY <2>7, EmitInstrKeeps
  <2>8. CASE EmitWord
    BY <2>8, EmitWordKeeps
  <2>9. CASE EmitAscii \/ EmitNone
    BY <2>9, EmitRestKeeps
  <2>10. CASE Reject \/ CannotOpen \/ WriteImage
    BY <2>10, FinaliseKeeps
  <2> QED
    BY <1>2, <2>1, <2>2, <2>3, <2>4, <2>5, <2>6, <2>7, <2>8, <2>9, <2>10 DEF Step
<1>3. CASE UNCHANGED avars
  BY <1>3, StutterKeeps
<1> QED
  BY <1>1, <1>2, <1>3 DEF ANext

LEMMA AInitInv == AInit => AssemblerInv
BY FreshInv DEF AInit

LEMMA InvHolds == WholeNames => (ASpec => []AssemblerInv)
<1> SUFFICES ASSUME WholeNames PROVE ASpec => []AssemblerInv
  OBVIOUS
<1>1. AssemblerInv /\ [ANext]_avars => AssemblerInv'
  BY InvIsInductive
<1> QED
  BY <1>1, AInitInv, PTL DEF ASpec

LEMMA InvGivesTypes == AssemblerInv => AssemblerTypeOK
BY DEF AssemblerInv

(* Whatever the source, every address of the two passes, of the image and   *)
(* of its end is a uint16_t, and a pass is never past the line behind the   *)
(* last one.                                                                *)
THEOREM AssemblerTypes == WholeNames => (ASpec => []AssemblerTypeOK)
<1> SUFFICES ASSUME WholeNames PROVE ASpec => []AssemblerTypeOK
  OBVIOUS
<1>1. ASpec => []AssemblerInv
  BY InvHolds
<1> QED
  BY <1>1, InvGivesTypes, PTL

(* Whatever the source and the table's size and hash, a name means what the *)
(* line that defines it says, from that line on to the end of pass 2, as    *)
(* long as no line has an error.                                            *)
THEOREM LabelsHoldInBothPasses == WholeNames => (ASpec => []LabelsHold)
<1> SUFFICES ASSUME WholeNames PROVE ASpec => []LabelsHold
  OBVIOUS
<1>1. ASpec => []AssemblerInv
  BY InvHolds
<1> QED
  BY <1>1, NamesHold, PTL

-----------------------------------------------------------------------------
(* The program *)

(* What main has of its command line. *)
MainInv ==
  /\ argv \in Seq(Path)
  /\ source \in Path \cup {NoPath} /\ output \in Path \cup {NoPath}
  /\ source # NoPath => ~source.dash

LEMMA MainStarts == MInit => AInit /\ MainInv
<1> SUFFICES ASSUME MInit PROVE AInit /\ MainInv
  OBVIOUS
<1>1. PICK setup \in Setups : files = setup.files /\ host = setup.host /\ line = setup.line
  BY DEF MInit
<1>2. AInit
  BY <1>1 DEF MInit, AInit
<1>3. argv \in Seq(Path)
  BY <1>1, MainAssumption DEF MInit
<1> QED
  BY <1>2, <1>3 DEF MInit, MainInv

LEMMA Rest ==
  ASSUME NEW args \in Seq(Path), NEW n \in 1 .. Len(args)
  PROVE  SubSeq(args, n + 1, Len(args)) \in Seq(Path)
BY SubSeqProperties

LEMMA MainKeeps == MainInv /\ [MNext]_mvars => MainInv'
<1> SUFFICES ASSUME MainInv, [MNext]_mvars PROVE MainInv'
  OBVIOUS
<1>1. CASE UNCHANGED mvars \/ Help \/ BadArgument \/ NoSource \/ OutOfMemory \/ CallAssembler
            \/ Assemble \/ Finish
  <2>1. argv' = argv /\ source' = source /\ output' = output
    BY <1>1 DEF mvars, arguments, Help, BadArgument, NoSource, OutOfMemory, CallAssembler,
                Assemble, Finish, Quit
  <2> QED
    BY <2>1 DEF MainInv
<1>2. CASE SetOutput
  <2>1. Len(argv) \in Nat /\ argv \in Seq(Path) /\ Len(argv) > 1
    BY <1>2 DEF SetOutput, MainInv
  <2>2. argv[2] \in Path /\ SubSeq(argv, 3, Len(argv)) \in Seq(Path)
    BY <2>1, Rest, ElementOfSeq
  <2> QED
    BY <1>2, <2>2 DEF SetOutput, Skip, MainInv
<1>3. CASE SetSwitch
  <2>1. argv' \in Seq(Path)
    BY <1>3, Rest DEF SetSwitch, InArgs, Skip, MainInv
  <2> QED
    BY <1>3, <2>1 DEF SetSwitch, Skip, MainInv
<1>4. CASE SetSource
  <2>1. argv' \in Seq(Path)
    BY <1>4, Rest DEF SetSource, InArgs, Skip, MainInv
  <2>2. Head(argv) \in Path
    BY <1>4 DEF SetSource, InArgs, MainInv
  <2> QED
    BY <1>4, <2>1, <2>2 DEF SetSource, InArgs, Skip, MainInv
<1> QED
  BY <1>1, <1>2, <1>3, <1>4 DEF MNext

(* main hands assemble_file two paths, or leaves it alone. *)
LEMMA MainSteps == MainInv /\ [MNext]_mvars => [ANext]_avars
<1> SUFFICES ASSUME MainInv, [MNext]_mvars PROVE [ANext]_avars
  OBVIOUS
<1>1. CASE CallAssembler
  <2>1. source \in Path /\ ~source.dash
    BY <1>1 DEF CallAssembler, MainInv
  <2>2. derive_output_path(source) \in Path
    BY <2>1, MainAssumption DEF derive_output_path
  <2>3. (IF output = NoPath THEN derive_output_path(source) ELSE output) \in Path
    BY <2>2 DEF MainInv
  <2> QED
    BY <1>1, <2>1, <2>3 DEF CallAssembler, ANext
<1>2. CASE Assemble
  BY <1>2 DEF Assemble, ANext
<1>3. CASE UNCHANGED mvars \/ Help \/ SetOutput \/ SetSwitch \/ SetSource \/ BadArgument
            \/ NoSource \/ OutOfMemory \/ Finish
  BY <1>3 DEF mvars, Help, SetOutput, SetSwitch, SetSource, BadArgument, NoSource, OutOfMemory,
              Finish, Quit, Skip
<1> QED
  BY <1>1, <1>2, <1>3 DEF MNext

(* Whatever the command line, the program is a run of the assembler: one    *)
(* call of assemble_file with two paths, made and finished step by step, or *)
(* none (main.c 73-96).                                                     *)
THEOREM ProgramRunsAssembler == MSpec => ASpec
<1>1. MSpec => []MainInv
  BY MainStarts, MainKeeps, PTL DEF MSpec
<1> QED
  BY <1>1, MainStarts, MainSteps, PTL DEF MSpec, ASpec

(* So the program, too, keeps the types and the names of every source.      *)
THEOREM ProgramKeepsNames == WholeNames => (MSpec => [](AssemblerTypeOK /\ LabelsHold))
<1> SUFFICES ASSUME WholeNames PROVE MSpec => [](AssemblerTypeOK /\ LabelsHold)
  OBVIOUS
<1>1. (ASpec => []AssemblerTypeOK) /\ (ASpec => []LabelsHold)
  BY AssemblerTypes, LabelsHoldInBothPasses
<1> QED
  BY <1>1, ProgramRunsAssembler, PTL
=============================================================================

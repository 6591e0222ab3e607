--------------------------- MODULE HashTableProofs ---------------------------
(***************************************************************************)
(* Proofs about the hash table, for any keys, values and hash function and *)
(* for any number of times the table grows.                                *)
(***************************************************************************)
EXTENDS HashTable, FiniteSetTheorems, FunctionTheorems, WellFoundedInduction, TLAPS

\* A slot: empty, or a key with its value.
Entry == {Empty} \cup [key : Key, value : Value]

\* The slots in use among the first n.
Filled(e, n) == {j \in 0 .. n - 1 : e[j].key # NULL}

\* A search for k in the c slots of e stops at slot j, and not before.
StopsAt(e, c, k, j) ==
  \E d \in 0 .. c - 1 :
    /\ Place(k, d, c) = j
    /\ e[j].key \in {NULL, k}
    /\ \A x \in 0 .. d - 1 : e[Place(k, x, c)].key \notin {NULL, k}

\* c slots in which every key is where a search for it stops.
Table(e, c) ==
  /\ e \in [0 .. c - 1 -> Entry]
  /\ \A j \in Filled(e, c) : StopsAt(e, c, e[j].key, j)

\* struct ht.
TableInv ==
  /\ hash \in [Key -> HashValues]
  /\ capacity \in Nat \ {0}
  /\ Table(entries, capacity)
  /\ length = Cardinality(Filled(entries, capacity))
  /\ 2 * length <= capacity

\* The call under way; after ht_expand there is room for one more item.
CallInv ==
  /\ pc \in {"idle", "expand", "move", "set_entry"}
  /\ pc = "idle" => key = NULL /\ value = NULL
  /\ pc # "idle" => key \in Key /\ value \in Value /\ it = -1
  /\ pc = "set_entry" => 2 * (length + 1) <= capacity
  /\ i \in Nat

\* The first n slots of e have been moved to f, of c slots, and nothing else.
Moved(e, n, f, c) ==
  /\ \A j \in Filled(e, n) : \E x \in 0 .. c - 1 : f[x] = e[j]
  /\ \A x \in Filled(f, c) : \E j \in 0 .. n - 1 : f[x] = e[j]
  /\ Cardinality(Filled(f, c)) = Cardinality(Filled(e, n))

\* ht_expand: the table being filled is one too.
ExpandInv ==
  pc = "move" =>
    /\ i <= capacity
    /\ Table(new_entries, 2 * capacity)
    /\ Moved(entries, i, new_entries, 2 * capacity)

\* An iterator has given the items of the slots before its index.
Item(j) == <<entries[j].key, entries[j].value, j>>

IterInv ==
  /\ it \in -1 .. capacity
  /\ it # -1 => seen = {Item(j) : j \in Filled(entries, it)}

IInv == TableInv /\ CallInv /\ ExpandInv /\ IterInv
-----------------------------------------------------------------------------
(* Arithmetic of the index.                                                *)

\* The remainder is unique.
LEMMA Wrap ==
  ASSUME NEW c \in Nat \ {0}, NEW q \in Int, NEW j \in 0 .. c - 1
  PROVE  (c * q + j) % c = j
<1> DEFINE a == c * q + j  r == a % c  p == a \div c
<1>1. a \in Int /\ p \in Int /\ r \in 0 .. c-1 /\ a = c * p + r
  OBVIOUS
<1>2. c * (q - p) = r - j
  BY <1>1
<1>3. q - p >= 1 => c * (q-p) >= c
  BY <1>1
<1>4. q - p <= -1 => c * (q-p) <= -c
  BY <1>1
<1> QED BY <1>1, <1>2, <1>3, <1>4

\* Stepping through c slots from any start meets every slot.
LEMMA Turn ==
  ASSUME NEW c \in Nat \ {0}, NEW h \in Nat, NEW j \in 0 .. c - 1
  PROVE  \E d \in 0 .. c - 1 : (h + d) % c = j
<1> DEFINE r == h % c  q == h \div c
<1>1. r \in 0 .. c - 1 /\ q \in Int /\ h = c * q + r
  OBVIOUS
<1> HIDE DEF r, q
<1>2. CASE r <= j
  <2>1. h + (j - r) = c * q + j
    BY <1>1
  <2>2. (h + (j - r)) % c = j
    BY <1>1, <2>1, Wrap
  <2>3. j - r \in 0 .. c - 1
    BY <1>1, <1>2
  <2> QED BY <2>2, <2>3
<1>3. CASE r > j
  <2>1. h + (j + c - r) = c * (q + 1) + j
    BY <1>1
  <2>2. (h + (j + c - r)) % c = j
    BY <1>1, <2>1, Wrap
  <2>3. j + c - r \in 0 .. c - 1
    BY <1>1, <1>3
  <2> QED BY <2>2, <2>3
<1> QED BY <1>1, <1>2, <1>3

\* A nonempty set of numbers has a least one.
LEMMA Least ==
  ASSUME NEW S \in SUBSET Nat, S # {}
  PROVE  \E d \in S : \A x \in S : d <= x
<1>1. PICK d \in S : \A x \in S : ~(<<x, d>> \in OpToRel(<, Nat))
  BY NatLessThanWellFounded, WFMin
<1>2. \A x \in S : ~(x < d)
  BY <1>1 DEF OpToRel
<1> QED BY <1>2
-----------------------------------------------------------------------------
(* Searching.                                                              *)

\* Every index the loop looks at is one of the table.
LEMMA PlaceType ==
  ASSUME hash \in [Key -> HashValues], NEW c \in Nat \ {0}, NEW k \in Key, NEW d \in Nat
  PROVE  Place(k, d, c) \in 0 .. c - 1
<1>1. hash[k] \in Nat
  BY TableAssumption
<1> QED BY <1>1 DEF Place

\* A search that can stop does stop at Slot.
LEMMA SlotStops ==
  ASSUME NEW e, NEW c \in Nat \ {0}, NEW k, Stops(e, c, k) # {}
  PROVE  StopsAt(e, c, k, Slot(e, c, k))
<1> DEFINE S == Stops(e, c, k)
           m == CHOOSE d \in S : \A x \in S : d <= x
<1>1. S \subseteq 0 .. c - 1
  BY DEF Stops
<1>2. m \in S /\ \A x \in S : m <= x
  BY <1>1, Least
<1>3. Slot(e, c, k) = Place(k, m, c)
  BY DEF Slot
<1>4. e[Place(k, m, c)].key \in {NULL, k}
  BY <1>2 DEF Stops
<1>5. \A x \in 0 .. m - 1 : x \in 0 .. c - 1 /\ x \notin S
  BY <1>1, <1>2
<1>6. \A x \in 0 .. m - 1 : e[Place(k, x, c)].key \notin {NULL, k}
  BY <1>5 DEF Stops
<1> HIDE DEF m
<1> QED BY <1>1, <1>2, <1>3, <1>4, <1>6 DEF StopsAt

\* A search stops at one slot only.
LEMMA SlotUnique ==
  ASSUME NEW e, NEW c \in Nat \ {0}, NEW k, NEW j, StopsAt(e, c, k, j)
  PROVE  Slot(e, c, k) = j /\ Stops(e, c, k) # {}
<1>1. PICK d \in 0 .. c - 1 :
        /\ Place(k, d, c) = j
        /\ e[j].key \in {NULL, k}
        /\ \A x \in 0 .. d - 1 : e[Place(k, x, c)].key \notin {NULL, k}
  BY DEF StopsAt
<1>2. d \in Stops(e, c, k)
  BY <1>1 DEF Stops
<1>3. StopsAt(e, c, k, Slot(e, c, k))
  BY <1>2, SlotStops
<1>4. PICK m \in 0 .. c - 1 :
        /\ Place(k, m, c) = Slot(e, c, k)
        /\ e[Slot(e, c, k)].key \in {NULL, k}
        /\ \A x \in 0 .. m - 1 : e[Place(k, x, c)].key \notin {NULL, k}
  BY <1>3 DEF StopsAt
<1>5. ~(d < m) /\ ~(m < d)
  <2>1. ASSUME d < m PROVE FALSE
    <3>1. d \in 0 .. m - 1
      BY <2>1
    <3> QED BY <1>1, <1>4, <3>1
  <2>2. ASSUME m < d PROVE FALSE
    <3>1. m \in 0 .. d - 1
      BY <2>2
    <3> QED BY <1>1, <1>4, <3>1
  <2> QED BY <2>1, <2>2
<1>6. d = m
  BY <1>5
<1> QED BY <1>1, <1>2, <1>4, <1>6

\* Where a search stops.
LEMMA StopsAtType ==
  ASSUME hash \in [Key -> HashValues], NEW e, NEW c \in Nat \ {0}, NEW k \in Key,
         NEW j, StopsAt(e, c, k, j)
  PROVE  j \in 0 .. c - 1 /\ e[j].key \in {NULL, k}
BY PlaceType DEF StopsAt

\* An empty slot ends every search.
LEMMA RoomStops ==
  ASSUME hash \in [Key -> HashValues], NEW e, NEW c \in Nat \ {0}, NEW k \in Key,
         NEW j \in 0 .. c - 1, e[j].key = NULL
  PROVE  Stops(e, c, k) # {}
<1>1. hash[k] \in Nat
  BY TableAssumption
<1>2. PICK d \in 0 .. c - 1 : (hash[k] + d) % c = j
  BY <1>1, Turn
<1>3. d \in Stops(e, c, k)
  BY <1>2 DEF Stops, Place
<1> QED BY <1>3

\* The slots in use can be counted, and are not all of them if they are fewer.
LEMMA FilledFinite ==
  ASSUME NEW e, NEW n \in Nat
  PROVE  /\ IsFiniteSet(Filled(e, n))
         /\ Cardinality(Filled(e, n)) \in Nat
         /\ Cardinality(Filled(e, n)) < n => \E j \in 0 .. n - 1 : e[j].key = NULL
<1>1. IsFiniteSet(0 .. n - 1) /\ Cardinality(0 .. n - 1) = n
  BY FS_Interval
<1>2. Filled(e, n) \in SUBSET (0 .. n - 1)
  BY DEF Filled
<1>3. IsFiniteSet(Filled(e, n)) /\ Cardinality(Filled(e, n)) \in Nat
  BY <1>1, <1>2, FS_Subset, FS_CardinalityType
<1>4. ASSUME \A j \in 0 .. n - 1 : e[j].key # NULL
      PROVE  Filled(e, n) = 0 .. n - 1
  BY <1>4 DEF Filled
<1> QED BY <1>1, <1>3, <1>4

\* A slot in use holds a key and a value.
LEMMA FilledEntry ==
  ASSUME NEW e, NEW c \in Nat \ {0}, NEW n \in 0 .. c, Table(e, c),
         NEW j \in Filled(e, n)
  PROVE  /\ j \in 0 .. c - 1 /\ e[j] \in [key : Key, value : Value]
         /\ j \in Filled(e, c)
<1>1. j \in 0 .. c - 1 /\ e[j].key # NULL
  BY DEF Filled
<1>2. e[j] \in Entry
  BY <1>1 DEF Table
<1>3. e[j] # Empty
  BY <1>1 DEF Empty
<1> QED BY <1>1, <1>2, <1>3 DEF Entry, Filled

\* No key is in two slots, and a search for a key that is there finds it.
LEMMA KeyOnce ==
  ASSUME NEW e, NEW c \in Nat \ {0}, Table(e, c), NEW j \in Filled(e, c)
  PROVE  /\ Slot(e, c, e[j].key) = j
         /\ \A x \in Filled(e, c) : e[x].key = e[j].key => x = j
<1>1. \A x \in Filled(e, c) : Slot(e, c, e[x].key) = x
  <2> TAKE x \in Filled(e, c)
  <2>1. StopsAt(e, c, e[x].key, x)
    BY DEF Table
  <2> QED BY <2>1, SlotUnique
<1> QED BY <1>1

\* A search for a key that is not there ends at an empty slot.
LEMMA SlotOfAbsent ==
  ASSUME hash \in [Key -> HashValues], NEW e, NEW c \in Nat \ {0}, Table(e, c),
         NEW k \in Key, Stops(e, c, k) # {},
         \A j \in Filled(e, c) : e[j].key # k
  PROVE  e[Slot(e, c, k)] = Empty
<1> DEFINE s == Slot(e, c, k)
<1>1. s \in 0 .. c - 1 /\ e[s].key \in {NULL, k}
  BY SlotStops, StopsAtType
<1>2. e[s].key = NULL
  BY <1>1 DEF Filled
<1>3. e[s] \in Entry
  BY <1>1 DEF Table
<1> HIDE DEF s
<1>4. e[s] \notin [key : Key, value : Value]
  BY <1>2, TableAssumption
<1> QED BY <1>3, <1>4 DEF Entry, s

\* Storing an item where the search for its key stops.
Put(e, c, r) == [e EXCEPT ![Slot(e, c, r.key)] = r]

\* ht_set_entry and the loop of ht_expand: a key is put where the search for
\* it stops, and every other key is still found.
LEMMA PutTable ==
  ASSUME hash \in [Key -> HashValues], NEW e, NEW c \in Nat \ {0}, Table(e, c),
         NEW r \in [key : Key, value : Value], Stops(e, c, r.key) # {}
  PROVE  LET s == Slot(e, c, r.key)
             f == Put(e, c, r)
         IN  /\ s \in 0 .. c - 1 /\ e[s].key \in {NULL, r.key}
             /\ Filled(f, c) = Filled(e, c) \cup {s}
             /\ f[s] = r /\ \A j \in 0 .. c - 1 : j # s => f[j] = e[j]
             /\ \A j \in Filled(e, c) : e[j].key = r.key => j = s
             /\ Table(f, c)
<1> DEFINE k == r.key
           s == Slot(e, c, r.key)
           f == Put(e, c, r)
<1>0. k \in Key /\ k # NULL
  BY TableAssumption
<1>1. StopsAt(e, c, k, s)
  BY SlotStops
<1>2. s \in 0 .. c - 1 /\ e[s].key \in {NULL, k}
  BY <1>0, <1>1, StopsAtType
<1>3. e \in [0 .. c - 1 -> Entry]
  BY DEF Table
<1>4. /\ f[s] = r /\ f \in [0 .. c - 1 -> Entry]
      /\ \A j \in 0 .. c - 1 : j # s => f[j] = e[j]
  <2>1. r \in Entry
    BY DEF Entry
  <2> QED BY <1>2, <1>3, <2>1 DEF Put
<1> HIDE DEF f, s
<1>5. Filled(f, c) = Filled(e, c) \cup {s}
  BY <1>0, <1>2, <1>4 DEF Filled
<1>6. \A j \in Filled(e, c) : e[j].key = k => j = s
  BY KeyOnce DEF s
<1>7. ASSUME NEW j \in Filled(f, c) PROVE StopsAt(f, c, f[j].key, j)
  <2> DEFINE q == f[j].key
  <2>1. j \in 0 .. c - 1
    BY DEF Filled
  <2>2. q \in Key /\ StopsAt(e, c, q, j) /\ (j # s => q # k)
    <3>1. CASE j = s
      BY <1>0, <1>1, <1>4, <3>1
    <3>2. CASE j # s
      <4>1. j \in Filled(e, c) /\ f[j] = e[j]
        BY <1>4, <1>5, <2>1, <3>2
      <4>2. StopsAt(e, c, e[j].key, j)
        BY <4>1 DEF Table
      <4>3. e[j].key \in Key
        BY <4>1, FilledEntry
      <4> QED BY <1>6, <3>2, <4>1, <4>2, <4>3
    <3> QED BY <3>1, <3>2
  <2>3. PICK d \in 0 .. c - 1 :
          /\ Place(q, d, c) = j
          /\ e[j].key \in {NULL, q}
          /\ \A x \in 0 .. d - 1 : e[Place(q, x, c)].key \notin {NULL, q}
    BY <2>2 DEF StopsAt
  <2>4. ASSUME NEW x \in 0 .. d - 1 PROVE f[Place(q, x, c)].key \notin {NULL, q}
    <3>1. Place(q, x, c) \in 0 .. c - 1
      BY <2>2, PlaceType
    <3>2. CASE Place(q, x, c) = s
      <4>1. e[s].key \notin {NULL, q}
        BY <2>3, <3>2
      <4>2. e[s].key = k /\ k # q
        BY <1>2, <4>1
      <4> QED BY <1>0, <1>4, <3>2, <4>2
    <3>3. CASE Place(q, x, c) # s
      BY <1>4, <2>3, <3>1, <3>3
    <3> QED BY <3>2, <3>3
  <2>5. f[j].key \in {NULL, q}
    OBVIOUS
  <2> HIDE DEF q
  <2>6. StopsAt(f, c, q, j)
    BY <2>3, <2>4, <2>5 DEF StopsAt
  <2> QED BY <2>6 DEF q
<1>8. Table(f, c)
  BY <1>4, <1>7 DEF Table
<1> QED BY <1>2, <1>4, <1>5, <1>6, <1>8 DEF f, s
-----------------------------------------------------------------------------
(* The invariant.                                                          *)

\* A cleared array is an empty table.
LEMMA ClearedTable ==
  ASSUME NEW c \in Nat \ {0}
  PROVE  Table(Cleared(c), c) /\ Filled(Cleared(c), c) = {}
<1>1. Filled(Cleared(c), c) = {}
  BY DEF Filled, Cleared, Empty
<1>2. Cleared(c) \in [0 .. c - 1 -> Entry]
  BY DEF Cleared, Entry
<1> QED BY <1>1, <1>2 DEF Table

\* The empty table of ht_create.
LEMMA InitIInv == Init => IInv
<1> SUFFICES ASSUME Init PROVE IInv
  OBVIOUS
<1>1. TableInv
  <2>1. INITIAL_CAPACITY \in Nat \ {0}
    BY TableAssumption
  <2> QED BY <2>1, ClearedTable, FS_EmptySet DEF Init, TableInv
<1>2. CallInv /\ ExpandInv /\ IterInv
  BY TableAssumption DEF Init, CallInv, ExpandInv, IterInv
<1> QED BY <1>1, <1>2 DEF IInv

\* At most half of the slots are in use, so that there always is an empty one.
LEMMA TableStops ==
  ASSUME TableInv, NEW k \in Key
  PROVE  Stops(entries, capacity, k) # {}
<1>1. length \in Nat /\ length < capacity
  BY FilledFinite DEF TableInv
<1>2. PICK j \in 0 .. capacity - 1 : entries[j].key = NULL
  BY <1>1, FilledFinite DEF TableInv
<1> QED BY <1>2, RoomStops DEF TableInv

\* The same for the table ht_expand fills.
LEMMA NewTableStops ==
  ASSUME TableInv, ExpandInv, pc = "move", i \in Nat, NEW k \in Key
  PROVE  Stops(new_entries, 2 * capacity, k) # {}
<1> DEFINE F == Filled(entries, i)  G == Filled(entries, capacity)
<1>1. F \in SUBSET G
  BY DEF Filled, TableInv, ExpandInv
<1>2. IsFiniteSet(G) /\ Cardinality(F) <= Cardinality(G)
  BY <1>1, FilledFinite, FS_Subset DEF TableInv
<1>3. Cardinality(F) \in Nat
  BY FilledFinite
<1>4. /\ Cardinality(Filled(new_entries, 2 * capacity)) < 2 * capacity
      /\ 2 * capacity \in Nat \ {0}
  BY <1>2, <1>3, FilledFinite DEF TableInv, ExpandInv, Moved
<1>5. PICK j \in 0 .. 2 * capacity - 1 : new_entries[j].key = NULL
  BY <1>4, FilledFinite
<1> QED BY <1>4, <1>5, RoomStops DEF TableInv

\* Steps that leave the table alone.
LEMMA SameTable ==
  ASSUME TableInv, hash' = hash, UNCHANGED table
  PROVE  TableInv'
BY DEF TableInv, table, Table, StopsAt, Place, Filled

\* Steps that leave the table and the iterator alone.
LEMMA SameIter ==
  ASSUME IterInv, UNCHANGED <<table, iterator>>
  PROVE  IterInv'
BY DEF IterInv, iterator, table, Item, Filled

\* ht_set and the failure of ht_expand.
LEMMA SetIInv ==
  ASSUME IInv, NEW k \in Key, NEW v \in Value, ht_set(k, v)
  PROVE  IInv'
<1> USE DEF ht_set, IInv
<1>1. TableInv'
  BY SameTable
<1>2. length \in Nat /\ capacity \in Nat \ {0}
  BY FilledFinite DEF TableInv
<1>3. CallInv'
  BY <1>2 DEF CallInv, table, iterator
<1>4. ExpandInv'
  BY DEF ExpandInv
<1>5. IterInv'
  BY SameIter
<1> QED BY <1>1, <1>3, <1>4, <1>5

\* calloc gives ht_expand an empty table.
LEMMA AllocIInv ==
  ASSUME IInv, ExpandAlloc
  PROVE  IInv'
<1> USE DEF ExpandAlloc, IInv
<1>1. TableInv'
  BY SameTable
<1>2. CallInv'
  BY DEF CallInv, Done, args, iterator, table
<1>3. ExpandInv'
  <2>1. CASE pc' # "move"
    BY <2>1 DEF ExpandInv
  <2>2. CASE pc' = "move"
    <3> DEFINE c == 2 * capacity
    <3>1. i' = 0 /\ new_entries' = Cleared(c) /\ UNCHANGED <<hash, table>>
      BY <2>2 DEF Done
    <3>2. c \in Nat \ {0} /\ capacity \in Nat
      BY DEF TableInv
    <3>3. Table(new_entries', c) /\ Filled(new_entries', c) = {}
      BY <3>1, <3>2, ClearedTable
    <3>4. Filled(entries, 0) = {}
      BY DEF Filled
    <3>5. Table(new_entries, 2 * capacity)'
      BY <3>1, <3>3 DEF table, Table, StopsAt, Place, Filled
    <3>6. Moved(entries, i, new_entries, 2 * capacity)'
      BY <3>1, <3>3, <3>4 DEF table, Moved, Filled
    <3> QED BY <3>1, <3>2, <3>5, <3>6 DEF ExpandInv, table
  <2> QED BY <2>1, <2>2
<1>4. IterInv'
  BY SameIter
<1> QED BY <1>1, <1>2, <1>3, <1>4

\* One slot is moved: its key is not yet in the new table.
LEMMA MoveIInv ==
  ASSUME IInv, ExpandMove
  PROVE  IInv'
<1> DEFINE c == 2 * capacity
           f == new_entries
           s == Slot(f, c, entries[i].key)
<1> USE DEF IInv
<1>1. /\ pc = "move" /\ i < capacity /\ i' = i + 1 /\ i \in Nat
      /\ UNCHANGED <<hash, table, pc, args, iterator>>
  BY DEF ExpandMove, CallInv
<1>2. /\ hash \in [Key -> HashValues] /\ capacity \in Nat \ {0} /\ c \in Nat \ {0}
      /\ Table(entries, capacity) /\ Table(f, c) /\ Moved(entries, i, f, c)
  BY <1>1 DEF TableInv, ExpandInv
<1>3. TableInv' /\ CallInv' /\ IterInv'
  BY <1>1, SameTable, SameIter DEF CallInv, table, args, iterator
<1>4. CASE entries[i].key = NULL
  <2>1. new_entries' = f
    BY <1>4 DEF ExpandMove
  <2>2. Filled(entries, i + 1) = Filled(entries, i)
    BY <1>1, <1>4 DEF Filled
  <2>3. Moved(entries, i + 1, f, c)
    BY <1>1, <1>2, <2>2 DEF Moved
  <2>4. Table(new_entries, 2 * capacity)'
    BY <1>1, <1>2, <2>1 DEF table, Table, StopsAt, Place, Filled
  <2>5. Moved(entries, i, new_entries, 2 * capacity)'
    BY <1>1, <2>1, <2>3 DEF table, Moved, Filled
  <2> QED BY <1>1, <1>2, <1>3, <2>4, <2>5 DEF ExpandInv, table
<1>5. CASE entries[i].key # NULL
  <2> DEFINE r == entries[i]
             g == [f EXCEPT ![s] = r]
  <2>1. new_entries' = g
    BY <1>5 DEF ExpandMove
  <2>2. i \in Filled(entries, capacity) /\ r \in [key : Key, value : Value]
    <3>1. i \in Filled(entries, capacity)
      BY <1>1, <1>2, <1>5 DEF Filled
    <3> QED BY <1>2, <3>1, FilledEntry
  <2>3. \A x \in Filled(f, c) : f[x].key # r.key
    <3>1. SUFFICES ASSUME NEW x \in Filled(f, c), f[x].key = r.key PROVE FALSE
      OBVIOUS
    <3>2. PICK j \in 0 .. i - 1 : f[x] = entries[j]
      BY <1>2 DEF Moved
    <3>3. j \in Filled(entries, capacity) /\ entries[j].key = r.key /\ j # i
      BY <1>1, <1>2, <1>5, <3>1, <3>2 DEF Filled
    <3> QED BY <1>2, <2>2, <3>3, KeyOnce
  <2>4. Stops(f, c, r.key) # {}
    BY <1>1, <2>2, NewTableStops
  <2> HIDE DEF r, c, f
  <2>5. /\ s \in 0 .. c - 1 /\ f[s].key \in {NULL, r.key}
        /\ Filled(g, c) = Filled(f, c) \cup {s}
        /\ g[s] = r /\ \A j \in 0 .. c - 1 : j # s => g[j] = f[j]
        /\ Table(g, c)
    <3>1. s = Slot(f, c, r.key) /\ g = Put(f, c, r)
      BY DEF r, Put
    <3> HIDE DEF s, g
    <3> QED BY <1>2, <2>2, <2>4, <3>1, PutTable
  <2> HIDE DEF s, g
  <2>6. s \notin Filled(f, c) /\ f[s].key = NULL
    BY <2>2, <2>3, <2>5, TableAssumption DEF Filled
  <2>7. Filled(entries, i + 1) = Filled(entries, i) \cup {i} /\ i \notin Filled(entries, i)
    BY <1>1, <1>5 DEF Filled
  <2>8. Cardinality(Filled(g, c)) = Cardinality(Filled(entries, i + 1))
    <3>1. IsFiniteSet(Filled(f, c)) /\ IsFiniteSet(Filled(entries, i))
      BY <1>1, <1>2, FilledFinite
    <3>2. /\ Cardinality(Filled(g, c)) = Cardinality(Filled(f, c)) + 1
          /\ Cardinality(Filled(entries, i + 1)) = Cardinality(Filled(entries, i)) + 1
      BY <2>5, <2>6, <2>7, <3>1, FS_AddElement
    <3> QED BY <1>2, <3>2 DEF Moved
  <2>9. ASSUME NEW j \in Filled(entries, i + 1) PROVE \E x \in 0 .. c - 1 : g[x] = entries[j]
    <3>1. CASE j = i
      BY <2>5, <3>1 DEF r
    <3>2. CASE j \in Filled(entries, i)
      <4>1. PICK x \in 0 .. c - 1 : f[x] = entries[j]
        BY <1>2, <3>2 DEF Moved
      <4>2. x # s
        BY <2>6, <3>2, <4>1 DEF Filled
      <4> QED BY <2>5, <4>1, <4>2
    <3> QED BY <2>7, <3>1, <3>2
  <2>10. ASSUME NEW x \in Filled(g, c) PROVE \E j \in 0 .. i : g[x] = entries[j]
    <3>1. CASE x = s
      BY <1>1, <2>5, <3>1 DEF r
    <3>2. CASE x # s
      <4>1. x \in Filled(f, c) /\ g[x] = f[x]
        BY <2>5, <3>2 DEF Filled
      <4>2. PICK j \in 0 .. i - 1 : f[x] = entries[j]
        BY <1>2, <4>1 DEF Moved
      <4> QED BY <1>1, <4>1, <4>2
    <3> QED BY <3>1, <3>2
  <2>11. Moved(entries, i + 1, g, c)
    BY <1>1, <2>8, <2>9, <2>10 DEF Moved
  <2>12. Table(new_entries, 2 * capacity)'
    BY <1>1, <2>1, <2>5 DEF c, table, Table, StopsAt, Place, Filled
  <2>13. Moved(entries, i, new_entries, 2 * capacity)'
    BY <1>1, <2>1, <2>11 DEF c, table, Moved, Filled
  <2> QED BY <1>1, <1>2, <1>3, <2>12, <2>13 DEF ExpandInv, table
<1> QED BY <1>4, <1>5

\* The new table replaces the old one; it holds as many items.
LEMMA SwapIInv ==
  ASSUME IInv, ExpandSwap
  PROVE  IInv'
<1> DEFINE c == 2 * capacity
<1> USE DEF IInv
<1>1. /\ pc = "move" /\ pc' = "set_entry" /\ i = capacity
      /\ entries' = new_entries /\ capacity' = c
      /\ UNCHANGED <<hash, length, args, i, iterator>>
  BY DEF ExpandSwap
<1>2. /\ hash \in [Key -> HashValues] /\ capacity \in Nat \ {0} /\ c \in Nat \ {0}
      /\ Table(new_entries, c) /\ length = Cardinality(Filled(new_entries, c))
      /\ length \in Nat /\ 2 * length <= capacity
  BY <1>1, FilledFinite DEF TableInv, ExpandInv, Moved
<1>3. TableInv'
  <2>1. Table(entries, capacity)'
    BY <1>1, <1>2 DEF Table, StopsAt, Place, Filled
  <2>2. Filled(entries, capacity)' = Filled(new_entries, c)
    BY <1>1 DEF Filled
  <2> QED BY <1>1, <1>2, <2>1, <2>2 DEF TableInv
<1>4. CallInv'
  BY <1>1, <1>2 DEF CallInv, args, iterator
<1>5. ExpandInv' /\ IterInv'
  BY <1>1, <1>2 DEF ExpandInv, IterInv, CallInv, iterator
<1> QED BY <1>3, <1>4, <1>5

\* ht_set_entry.
LEMMA SetEntryIInv ==
  ASSUME IInv, SetEntry
  PROVE  IInv'
<1> DEFINE r == [key |-> key, value |-> value]
           s == Slot(entries, capacity, key)
           F == Filled(entries, capacity)
<1> USE DEF IInv
<1>1. /\ pc = "set_entry" /\ Done /\ it = -1 /\ key \in Key /\ value \in Value
      /\ UNCHANGED <<hash, capacity, new_entries, i, iterator>>
  BY DEF SetEntry, CallInv
<1>2. CallInv' /\ ExpandInv'
  BY <1>1 DEF Done, CallInv, ExpandInv, iterator
<1>3. IterInv'
  BY <1>1 DEF IterInv, iterator
<1>4. TableInv'
  <2>1. CASE UNCHANGED <<entries, length>>
    BY <1>1, <2>1, SameTable DEF table
  <2>2. CASE /\ entries' = [entries EXCEPT ![s] = r]
             /\ length' = IF entries[s].key = NULL THEN length + 1 ELSE length
    <3>1. /\ hash \in [Key -> HashValues] /\ capacity \in Nat \ {0}
          /\ Table(entries, capacity) /\ length = Cardinality(F) /\ length \in Nat
          /\ 2 * (length + 1) <= capacity
      BY <1>1, FilledFinite DEF TableInv, CallInv
    <3>2. r \in [key : Key, value : Value] /\ r.key = key
      BY <1>1
    <3>3. Stops(entries, capacity, r.key) # {}
      BY <3>2, TableStops
    <3>4. entries' = Put(entries, capacity, r)
      BY <2>2 DEF Put
    <3> HIDE DEF r
    <3>5. /\ s \in 0 .. capacity - 1 /\ entries[s].key \in {NULL, key}
          /\ Filled(entries', capacity) = F \cup {s}
          /\ Table(entries', capacity)
      <4>1. s = Slot(entries, capacity, r.key)
        BY <3>2
      <4> HIDE DEF s, F
      <4>2. /\ s \in 0 .. capacity - 1 /\ entries[s].key \in {NULL, r.key}
            /\ Filled(entries', capacity) = Filled(entries, capacity) \cup {s}
            /\ Table(entries', capacity)
        BY <3>1, <3>2, <3>3, <3>4, <4>1, PutTable
      <4> QED BY <3>2, <4>2 DEF F
    <3>6. Table(entries, capacity)'
      BY <1>1, <3>5 DEF Table, StopsAt, Place, Filled
    <3>7. s \in F <=> entries[s].key # NULL
      BY <3>5 DEF Filled
    <3>8. IsFiniteSet(F)
      BY <3>1, FilledFinite
    <3> HIDE DEF s, F
    <3>9. length' = Cardinality(F \cup {s})
      BY <2>2, <3>1, <3>7, <3>8, FS_AddElement
    <3>10. Filled(entries, capacity)' = Filled(entries', capacity)
      BY <1>1 DEF Filled
    <3>11. 2 * length' <= capacity
      BY <2>2, <3>1
    <3> QED BY <1>1, <3>1, <3>5, <3>6, <3>9, <3>10, <3>11 DEF TableInv
  <2> QED BY <2>1, <2>2 DEF SetEntry
<1> QED BY <1>2, <1>3, <1>4

\* ht_iterator and ht_next: the slots between two items are empty.
LEMMA IterateIInv ==
  ASSUME IInv, ht_iterator \/ ht_next
  PROVE  IInv'
<1> USE DEF IInv
<1>1. UNCHANGED <<hash, table, pc, args, new_entries, i>>
  BY DEF ht_iterator, ht_next
<1>2. TableInv'
  BY <1>1, SameTable
<1>3. it # -1 => pc = "idle"
  BY DEF CallInv
<1>4. CallInv' /\ ExpandInv'
  BY <1>1, <1>3 DEF CallInv, ExpandInv, table, args, ht_iterator, ht_next
<1>5. CASE ht_iterator
  <2>1. Filled(entries, 0) = {}
    BY DEF Filled
  <2> QED BY <1>1, <1>2, <1>4, <1>5, <2>1
          DEF ht_iterator, IterInv, TableInv, table, Item, Filled
<1>6. CASE ht_next
  <2>1. CASE it' = -1
    BY <1>1, <1>2, <1>4, <2>1 DEF IterInv, TableInv, table
  <2>2. CASE it' # -1
    <3>1. PICK j \in Ahead :
            /\ \A x \in Ahead : j <= x
            /\ it' = j + 1
            /\ seen' = seen \cup {Item(j)}
      BY <1>6, <2>2 DEF ht_next, Item
    <3>2. capacity \in Nat /\ it \in 0 .. capacity /\ j \in it .. capacity - 1
      BY <1>6, <3>1 DEF ht_next, IterInv, TableInv, Ahead
    <3>3. \A x \in it .. j - 1 : entries[x].key = NULL
      <4> TAKE x \in it .. j - 1
      <4>1. x \in it .. capacity - 1 /\ ~(j <= x)
        BY <3>2
      <4> QED BY <3>1, <4>1 DEF Ahead
    <3>4. Filled(entries, j + 1) = Filled(entries, it) \cup {j}
      BY <3>1, <3>2, <3>3 DEF Filled, Ahead
    <3>5. seen' = {Item(x) : x \in Filled(entries, it')}
      BY <1>6, <3>1, <3>4 DEF IterInv, ht_next
    <3>6. (seen = {Item(x) : x \in Filled(entries, it)})'
      BY <1>1, <3>5 DEF table, Item, Filled
    <3>7. it' \in 0 .. capacity /\ capacity' = capacity
      BY <1>1, <3>1, <3>2 DEF table
    <3> QED BY <1>2, <1>4, <3>6, <3>7 DEF IterInv
  <2> QED BY <2>1, <2>2
<1> QED BY <1>5, <1>6

\* Every step of the table and of its iterator preserves the invariant.
LEMMA NextIInv == IInv /\ [Next]_vars => IInv'
<1> SUFFICES ASSUME IInv, [Next]_vars PROVE IInv'
  OBVIOUS
<1>1. CASE UNCHANGED vars
  <2>1. TableInv' /\ IterInv'
    BY <1>1, SameTable, SameIter DEF vars, IInv
  <2>2. CallInv' /\ ExpandInv'
    BY <1>1 DEF vars, args, table, iterator, IInv, CallInv, ExpandInv,
                Table, StopsAt, Place, Moved, Filled
  <2> QED BY <2>1, <2>2 DEF IInv
<1> QED
  BY <1>1, SetIInv, AllocIInv, MoveIInv, SwapIInv, SetEntryIInv, IterateIInv DEF Next

\* The invariant holds in every state of the table.
THEOREM Invariance == Spec => []IInv
BY InitIInv, NextIInv, PTL DEF Spec

\* The counters and the slots of struct ht keep their types.
THEOREM TypeCorrect == Spec => []TypeOK
<1>1. IInv => TypeOK
  <2> SUFFICES ASSUME IInv PROVE TypeOK
    OBVIOUS
  <2>1. length \in Nat
    BY FilledFinite DEF IInv, TableInv
  <2>2. Entry \subseteq [key : Key \cup {NULL}, value : Value \cup {NULL}]
    BY DEF Entry, Empty
  <2>3. entries \in [0 .. capacity - 1 -> [key : Key \cup {NULL}, value : Value \cup {NULL}]]
    BY <2>2 DEF IInv, TableInv, Table
  <2> QED BY <2>1, <2>3 DEF IInv, TableInv, CallInv, IterInv, TypeOK
<1> QED BY <1>1, Invariance, PTL

\* The loops of ht_get, of ht_set_entry and of the moves of ht_expand end for
\* every key, whatever the hash function and however full the table is.
THEOREM SearchesEnd == Spec => []ProbingEnds
<1>1. IInv => ProbingEnds
  BY TableStops, NewTableStops DEF IInv, CallInv, ProbingEnds
<1> QED BY <1>1, Invariance, PTL

\* ht_length counts the items, also after an update, a failed ht_set or a
\* growth, and the table is never more than half full.
THEOREM LengthCorrect == Spec => []LengthIsExact
<1>1. IInv => LengthIsExact
  BY DEF IInv, TableInv, Filled, LengthIsExact, ht_length
<1> QED BY <1>1, Invariance, PTL

\* ht_get finds every key that was set, and no key is in the table twice.
THEOREM KeysFound == Spec => []KeysAreFound
<1>1. IInv => KeysAreFound
  <2> SUFFICES ASSUME IInv, NEW j \in 0 .. capacity - 1, entries[j].key # NULL
               PROVE  Slot(entries, capacity, entries[j].key) = j
    BY DEF KeysAreFound
  <2>1. j \in Filled(entries, capacity)
    BY DEF Filled
  <2> QED BY <2>1, KeyOnce DEF IInv, TableInv
<1> QED BY <1>1, Invariance, PTL
-----------------------------------------------------------------------------
(* The table implements a map.                                             *)

\* The slots in use.
Used == Filled(entries, capacity)

\* ht_get returns the value stored with the key, and NULL for any other key.
GetsStored ==
  \A k \in Key :
    /\ \A j \in Used : entries[j].key = k =>
         ht_get(k) = entries[j].value /\ ht_get(k) \in Value
    /\ (\A j \in Used : entries[j].key # k) => ht_get(k) = NULL

\* Every table that probing keeps in order answers ht_get so.
LEMMA GetStored == TableInv => GetsStored
<1> SUFFICES ASSUME TableInv, NEW k \in Key
             PROVE  /\ \A j \in Used : entries[j].key = k =>
                         ht_get(k) = entries[j].value /\ ht_get(k) \in Value
                    /\ (\A j \in Used : entries[j].key # k) => ht_get(k) = NULL
  BY DEF GetsStored
<1>1. /\ hash \in [Key -> HashValues] /\ capacity \in Nat \ {0}
      /\ Table(entries, capacity)
  BY DEF TableInv
<1>2. ASSUME NEW j \in Used, entries[j].key = k
      PROVE  ht_get(k) = entries[j].value /\ ht_get(k) \in Value
  <2>1. Slot(entries, capacity, k) = j
    BY <1>1, <1>2, KeyOnce DEF Used
  <2>2. entries[j] \in [key : Key, value : Value]
    BY <1>1, FilledEntry DEF Used
  <2> QED BY <2>1, <2>2 DEF ht_get
<1>3. ASSUME \A j \in Used : entries[j].key # k
      PROVE  ht_get(k) = NULL
  <2>1. entries[Slot(entries, capacity, k)] = Empty
    BY <1>1, <1>3, TableStops, SlotOfAbsent DEF Used
  <2> QED BY <2>1 DEF ht_get, Empty
<1> QED BY <1>2, <1>3

\* Tables with the same items give the same answers.
LEMMA SameItems ==
  ASSUME TableInv, TableInv',
         \A j \in Used : \E x \in Used' : entries'[x] = entries[j],
         \A x \in Used' : \E j \in Used : entries'[x] = entries[j]
  PROVE  \A k \in Key : ht_get(k)' = ht_get(k)
<1> TAKE k \in Key
<1>0. GetsStored /\ GetsStored'
  BY GetStored, PTL
<1>1. CASE \E j \in Used : entries[j].key = k
  <2>1. PICK j \in Used : entries[j].key = k
    BY <1>1
  <2>2. PICK x \in Used' : entries'[x] = entries[j]
    OBVIOUS
  <2>3. ht_get(k) = entries[j].value
    BY <1>0, <2>1 DEF GetsStored
  <2>4. ht_get(k)' = entries'[x].value
    BY <1>0, <2>1, <2>2 DEF GetsStored
  <2> QED BY <2>2, <2>3, <2>4
<1>2. CASE ~(\E j \in Used : entries[j].key = k)
  <2>1. \A x \in Used' : entries'[x].key # k
    BY <1>2
  <2>2. ht_get(k) = NULL
    BY <1>0, <1>2 DEF GetsStored
  <2>3. ht_get(k)' = NULL
    BY <1>0, <2>1 DEF GetsStored
  <2> QED BY <2>2, <2>3
<1> QED BY <1>1, <1>2

\* The map the table stands for.
Map == [k \in Stored |-> ht_get(k)]

\* The same answers are the same map.
LEMMA SameMap ==
  ASSUME \A k \in Key : ht_get(k)' = ht_get(k)
  PROVE  Map' = Map
<1>1. Stored' = Stored
  BY DEF Stored
<1>2. \A k \in Stored : k \in Key
  BY DEF Stored
<1> QED BY <1>1, <1>2 DEF Map

\* ht_expand loses no item and adds none.
LEMMA SwapMap ==
  ASSUME IInv, IInv', ExpandSwap
  PROVE  Map' = Map
<1> DEFINE c == 2 * capacity
<1>1. /\ entries' = new_entries /\ capacity' = c /\ capacity \in Nat
      /\ Moved(entries, capacity, new_entries, c)
  BY DEF IInv, ExpandSwap, ExpandInv, TableInv
<1>2. Used' = Filled(new_entries, c)
  BY <1>1 DEF Used, Filled
<1>3. ASSUME NEW j \in Used PROVE \E x \in Used' : entries'[x] = entries[j]
  <2>1. PICK x \in 0 .. c - 1 : new_entries[x] = entries[j]
    BY <1>1 DEF Moved, Used
  <2>2. x \in Used'
    BY <1>2, <2>1 DEF Used, Filled
  <2> QED BY <1>1, <2>1, <2>2
<1>4. ASSUME NEW x \in Used' PROVE \E j \in Used : entries'[x] = entries[j]
  <2>1. PICK j \in 0 .. capacity - 1 : new_entries[x] = entries[j]
    BY <1>1, <1>2 DEF Moved
  <2>2. j \in Used
    BY <1>2, <2>1 DEF Used, Filled
  <2> QED BY <1>1, <2>1, <2>2
<1> QED BY <1>3, <1>4, SameItems, SameMap DEF IInv

\* ht_set_entry binds its key to its value, and no other key to another one.
LEMMA SetEntryMap ==
  ASSUME IInv, IInv', SetEntry, entries' # entries
  PROVE  \E k \in Key, v \in Value : Abstract!Set(k, v)
<1> DEFINE r == [key |-> key, value |-> value]
           s == Slot(entries, capacity, key)
<1>1. /\ key \in Key /\ value \in Value /\ capacity' = capacity
      /\ hash \in [Key -> HashValues] /\ capacity \in Nat \ {0}
      /\ Table(entries, capacity)
  BY DEF IInv, SetEntry, CallInv, TableInv
<1>2. entries' = Put(entries, capacity, r)
  BY DEF SetEntry, Put
<1>3. r \in [key : Key, value : Value] /\ r.key = key /\ r.value = value
  BY <1>1
<1>4. Stops(entries, capacity, r.key) # {}
  BY <1>3, TableStops DEF IInv
<1>5. s = Slot(entries, capacity, r.key)
  BY <1>3
<1> HIDE DEF r, s
<1>6. /\ s \in 0 .. capacity - 1 /\ entries[s].key \in {NULL, r.key}
      /\ Filled(entries', capacity) = Filled(entries, capacity) \cup {s}
      /\ entries'[s] = r
      /\ \A j \in 0 .. capacity - 1 : j # s => entries'[j] = entries[j]
  BY <1>1, <1>2, <1>3, <1>4, <1>5, PutTable
<1>7. Used' = Used \cup {s} /\ Used \subseteq 0 .. capacity - 1
  BY <1>1, <1>6 DEF Used, Filled
<1>8. GetsStored /\ GetsStored'
  BY GetStored, PTL DEF IInv
<1>9. ASSUME NEW k \in Key, k = key PROVE ht_get(k)' = value
  <2>1. s \in Used' /\ entries'[s].key = k /\ entries'[s].value = value
    BY <1>3, <1>6, <1>7, <1>9
  <2> QED BY <1>8, <2>1 DEF GetsStored
<1>10. ASSUME NEW k \in Key, k # key PROVE ht_get(k)' = ht_get(k)
  <2>1. CASE \E j \in Used : entries[j].key = k
    <3>1. PICK j \in Used : entries[j].key = k
      BY <2>1
    <3>2. j # s
      BY <1>3, <1>6, <1>10, <3>1, TableAssumption
    <3>3. j \in Used' /\ entries'[j] = entries[j]
      BY <1>6, <1>7, <3>2
    <3>4. ht_get(k) = entries[j].value
      BY <1>8, <3>1 DEF GetsStored
    <3>5. ht_get(k)' = entries'[j].value
      BY <1>8, <3>1, <3>3 DEF GetsStored
    <3> QED BY <3>3, <3>4, <3>5
  <2>2. CASE \A j \in Used : entries[j].key # k
    <3>1. \A j \in Used' : entries'[j].key # k
      BY <1>3, <1>6, <1>7, <1>10, <2>2
    <3>2. ht_get(k) = NULL
      BY <1>8, <2>2 DEF GetsStored
    <3>3. ht_get(k)' = NULL
      BY <1>8, <3>1 DEF GetsStored
    <3> QED BY <3>2, <3>3
  <2> QED BY <2>1, <2>2
<1>11. Stored' = Stored \cup {key}
  <2>1. value # NULL
    BY <1>1, TableAssumption
  <2>2. \A k \in Key : ht_get(k)' = IF k = key THEN value ELSE ht_get(k)
    BY <1>9, <1>10
  <2> QED BY <1>1, <2>1, <2>2 DEF Stored
<1>12. Map' = [j \in Stored \cup {key} |-> IF j = key THEN value ELSE Map[j]]
  <2>1. \A j \in Stored : j \in Key
    BY DEF Stored
  <2>2. \A k \in Key : ht_get(k)' = IF k = key THEN value ELSE ht_get(k)
    BY <1>9, <1>10
  <2> QED BY <1>1, <1>11, <2>1, <2>2 DEF Map
<1>13. Abstract!Set(key, value)
  BY <1>12 DEF Abstract!Set, Map
<1> QED BY <1>1, <1>13

\* Every step of the table sets one binding of the map, or none.
LEMMA MapStep ==
  ASSUME IInv, IInv', [Next]_vars
  PROVE  [Abstract!Next]_Map
<1>1. CASE entries' = entries /\ capacity' = capacity
  <2>1. Used' = Used
    BY <1>1 DEF Used, Filled
  <2> QED BY <1>1, <2>1, SameItems, SameMap DEF IInv
<1>2. CASE ExpandSwap
  BY <1>2, SwapMap
<1>3. CASE SetEntry
  <2>1. CASE entries' = entries
    BY <1>1, <1>3, <2>1 DEF SetEntry
  <2>2. CASE entries' # entries
    BY <1>3, <2>2, SetEntryMap DEF Abstract!Next
  <2> QED BY <2>1, <2>2
<1> QED
  BY <1>1, <1>2, <1>3
     DEF Next, ht_set, ExpandAlloc, ExpandMove, ht_iterator, ht_next, vars, table

\* The hash table implements the map of ht.h: however keys collide, and at
\* every point of a growth that succeeds or runs out of memory, ht_get answers
\* as the map would.
THEOREM TableImplementsMap == Spec => ImplementsMap
<1>1. Init => Abstract!Init
  <2> SUFFICES ASSUME Init PROVE Map = [k \in {} |-> k]
    BY DEF Abstract!Init, Map
  <2>1. IInv
    BY InitIInv
  <2>2. Used = {}
    BY TableAssumption, ClearedTable DEF Init, Used
  <2>3. \A k \in Key : ht_get(k) = NULL
    BY <2>1, <2>2, GetStored DEF GetsStored, IInv
  <2>4. Stored = {}
    BY <2>3 DEF Stored
  <2> QED BY <2>4 DEF Map
<1>2. IInv /\ IInv' /\ [Next]_vars => [Abstract!Next]_Map
  BY MapStep
<1> QED
  BY <1>1, <1>2, Invariance, PTL DEF Spec, ImplementsMap, Abstract!Spec, Map
-----------------------------------------------------------------------------
(* The iterator.                                                           *)

\* Items of different slots are different.
LEMMA ItemsCounted ==
  ASSUME NEW S, IsFiniteSet(S)
  PROVE  Cardinality({Item(j) : j \in S}) = Cardinality(S)
<1> DEFINE T == {Item(j) : j \in S}
           f == [j \in S |-> Item(j)]
<1>1. f \in Bijection(S, T)
  <2>1. f \in [S -> T] /\ \A t \in T : \E j \in S : f[j] = t
    OBVIOUS
  <2>2. \A a, b \in S : f[a] = f[b] => a = b
    BY DEF Item
  <2> QED BY <2>1, <2>2, Fun_IsBij
<1> QED BY <1>1, FS_Bijection DEF ExistsBijection

\* An iteration that ends has given every item of the table, each once, with
\* the value ht_get has for its key.
THEOREM IterationsComplete == Spec => IterationComplete
<1> DEFINE A == it # -1 /\ it' = -1 =>
                  /\ {<<s[1], s[2]>> : s \in seen} = {<<k, ht_get(k)>> : k \in Stored}
                  /\ Cardinality(seen) = ht_length
<1>1. ASSUME IInv, Next, it # -1, it' = -1 PROVE A
  <2>1. ht_next /\ Ahead = {}
    <3>1. ht_next
      BY <1>1 DEF Next, ht_set, ExpandAlloc, ExpandMove, ExpandSwap, SetEntry,
                  ht_iterator, iterator
    <3>2. \A j \in Ahead : j + 1 # -1
      BY <1>1 DEF Ahead, IInv, IterInv, TableInv
    <3> QED BY <1>1, <3>1, <3>2 DEF ht_next
  <2>2. Filled(entries, it) = Used
    BY <1>1, <2>1 DEF Ahead, Used, Filled, IInv, IterInv, TableInv
  <2>3. seen = {Item(j) : j \in Used}
    BY <1>1, <2>2 DEF IInv, IterInv
  <2>4. IsFiniteSet(Used) /\ ht_length = Cardinality(Used)
    BY <1>1, FilledFinite DEF IInv, TableInv, Used, ht_length
  <2>5. Cardinality(seen) = ht_length
    BY <2>3, <2>4, ItemsCounted
  <2>6. GetsStored
    BY <1>1, GetStored DEF IInv
  <2>7. \A j \in Used : entries[j] \in [key : Key, value : Value]
    BY <1>1, FilledEntry DEF IInv, TableInv, Used
  <2>8. ASSUME NEW j \in Used
        PROVE  /\ entries[j].key \in Stored
               /\ entries[j].value = ht_get(entries[j].key)
    BY <2>6, <2>7, TableAssumption DEF GetsStored, Stored
  <2>9. ASSUME NEW k \in Stored PROVE \E j \in Used : entries[j].key = k
    BY <2>6 DEF GetsStored, Stored
  <2>10. {<<s[1], s[2]>> : s \in seen} = {<<entries[j].key, entries[j].value>> : j \in Used}
    <3>1. \A j \in Used : Item(j)[1] = entries[j].key /\ Item(j)[2] = entries[j].value
      BY DEF Item
    <3> QED BY <2>3, <3>1
  <2>11. {<<entries[j].key, entries[j].value>> : j \in Used} = {<<k, ht_get(k)>> : k \in Stored}
    BY <2>8, <2>9
  <2> QED BY <2>5, <2>10, <2>11
<1>2. IInv /\ [Next]_vars => [A]_vars
  BY <1>1
<1> QED
  BY <1>2, Invariance, PTL DEF Spec, IterationComplete
=============================================================================

----------------------------- MODULE HashTable ------------------------------
(***************************************************************************)
(* The hash table of serial_control (ht.c): open addressing with linear    *)
(* probing, doubled when it is half full.  The hash function is arbitrary: *)
(* it is chosen once, in Init, so that every pattern of collisions is      *)
(* covered.  Growing is modelled entry by entry, and every allocation may  *)
(* fail.                                                                   *)
(***************************************************************************)
EXTENDS Integers, FiniteSets

CONSTANTS
  Key, Value,
  NULL,              \* no key, no value
  HashValues,        \* results of hash_key
  INITIAL_CAPACITY,
  MaxCapacity        \* bound: a table larger than this is not allocated

ASSUME TableAssumption ==
  /\ NULL \notin Key \cup Value
  /\ HashValues \subseteq Nat
  /\ INITIAL_CAPACITY \in Nat \ {0}

VARIABLES
  hash,                       \* hash_key
  entries, capacity, length,  \* struct ht
  pc, key, value,             \* ht_set: where it is, and its arguments
  new_entries, i,             \* ht_expand
  it, seen                    \* an iterator: its index, -1 for none; keys it gave

table == <<entries, capacity, length>>
args == <<key, value>>
iterator == <<it, seen>>
vars == <<hash, table, pc, args, new_entries, i, iterator>>

Empty == [key |-> NULL, value |-> NULL]

\* calloc of n slots.
Cleared(n) == [j \in 0 .. n - 1 |-> Empty]

Init ==
  /\ hash \in [Key -> HashValues]
  /\ entries = Cleared(INITIAL_CAPACITY)
  /\ capacity = INITIAL_CAPACITY
  /\ length = 0
  /\ pc = "idle" /\ key = NULL /\ value = NULL
  /\ new_entries = <<>> /\ i = 0
  /\ it = -1 /\ seen = {}
-----------------------------------------------------------------------------
(* Linear probing, shared by ht_get and ht_set_entry.                      *)

\* The slot d places after the one k hashes to, in a table of c slots.  (The
\* code masks the hash with c - 1: c is a power of two.)
Place(k, d, c) == (hash[k] + d) % c

\* The distances at which the loop looking for k in e may stop.
Stops(e, c, k) == {d \in 0 .. c - 1 : e[Place(k, d, c)].key \in {NULL, k}}

\* Where it stops.
Slot(e, c, k) ==
  Place(k, CHOOSE d \in Stops(e, c, k) : \A x \in Stops(e, c, k) : d <= x, c)

ht_get(k) == entries[Slot(entries, capacity, k)].value

ht_length == length
-----------------------------------------------------------------------------
(* ht_set.                                                                 *)

\* Mutant of ht_set: the table grows when it is full.
ht_set_full(k, v) ==
  /\ pc = "idle" /\ it = -1
  /\ key' = k /\ value' = v
  /\ pc' = IF length >= capacity THEN "expand" ELSE "set_entry"
  /\ UNCHANGED <<hash, table, new_entries, i, iterator>>

\* Not called during an iteration (ht.h).
ht_set(k, v) ==
  /\ pc = "idle" /\ it = -1
  /\ key' = k /\ value' = v
  /\ pc' = IF length >= capacity \div 2 THEN "expand" ELSE "set_entry"
  /\ UNCHANGED <<hash, table, new_entries, i, iterator>>

\* The call ends and its arguments are gone.
Done == pc' = "idle" /\ key' = NULL /\ value' = NULL

ExpandAlloc ==
  /\ pc = "expand"
  /\ \/ Done /\ UNCHANGED <<new_entries, i>>
     \/ /\ 2 * capacity <= MaxCapacity
        /\ new_entries' = Cleared(2 * capacity)
        /\ i' = 0
        /\ pc' = "move"
        /\ UNCHANGED args
  /\ UNCHANGED <<hash, table, iterator>>

\* Mutant of ExpandMove: the entry is placed with the old capacity.
ExpandMoveOldIndex ==
  /\ pc = "move" /\ i < capacity
  /\ new_entries' =
       IF entries[i].key = NULL THEN new_entries
       ELSE [new_entries EXCEPT ![Slot(new_entries, capacity, entries[i].key)] = entries[i]]
  /\ i' = i + 1
  /\ UNCHANGED <<hash, table, pc, args, iterator>>

\* Mutant of ExpandMove: the entry keeps its slot.
ExpandMoveInPlace ==
  /\ pc = "move" /\ i < capacity
  /\ new_entries' = [new_entries EXCEPT ![i] = entries[i]]
  /\ i' = i + 1
  /\ UNCHANGED <<hash, table, pc, args, iterator>>

\* One iteration of the loop of ht_expand.
ExpandMove ==
  /\ pc = "move" /\ i < capacity
  /\ new_entries' =
       IF entries[i].key = NULL THEN new_entries
       ELSE [new_entries EXCEPT ![Slot(new_entries, 2 * capacity, entries[i].key)] = entries[i]]
  /\ i' = i + 1
  /\ UNCHANGED <<hash, table, pc, args, iterator>>

\* Mutant of ExpandSwap: the capacity is not updated.
ExpandSwapOldCapacity ==
  /\ pc = "move" /\ i = capacity
  /\ entries' = new_entries
  /\ new_entries' = <<>>
  /\ pc' = "set_entry"
  /\ UNCHANGED <<hash, capacity, length, args, i, iterator>>

ExpandSwap ==
  /\ pc = "move" /\ i = capacity
  /\ entries' = new_entries
  /\ capacity' = 2 * capacity
  /\ new_entries' = <<>>
  /\ pc' = "set_entry"
  /\ UNCHANGED <<hash, length, args, i, iterator>>

\* Mutant of SetEntry: an update counts as a new item.
SetEntryCountsUpdate ==
  LET s == Slot(entries, capacity, key) IN
  /\ pc = "set_entry"
  /\ \/ entries[s].key = NULL /\ UNCHANGED <<entries, length>>
     \/ /\ entries' = [entries EXCEPT ![s] = [key |-> key, value |-> value]]
        /\ length' = length + 1
  /\ Done
  /\ UNCHANGED <<hash, capacity, new_entries, i, iterator>>

\* ht_set_entry: the value of the key is replaced, or the key is added unless
\* strdup fails.
SetEntry ==
  LET s == Slot(entries, capacity, key) IN
  /\ pc = "set_entry"
  /\ \/ entries[s].key = NULL /\ UNCHANGED <<entries, length>>
     \/ /\ entries' = [entries EXCEPT ![s] = [key |-> key, value |-> value]]
        /\ length' = IF entries[s].key = NULL THEN length + 1 ELSE length
  /\ Done
  /\ UNCHANGED <<hash, capacity, new_entries, i, iterator>>
-----------------------------------------------------------------------------
(* The iterator.                                                           *)

ht_iterator ==
  /\ pc = "idle" /\ it = -1
  /\ it' = 0
  /\ seen' = {}
  /\ UNCHANGED <<hash, table, pc, args, new_entries, i>>

\* The filled slots the iterator has still to visit.
Ahead == {j \in it .. capacity - 1 : entries[j].key # NULL}

\* Mutant of ht_next: the last slot is not looked at.
ht_next_short ==
  /\ it # -1
  /\ LET ahead == Ahead \ {capacity - 1} IN
     \/ /\ ahead = {}
        /\ it' = -1 /\ UNCHANGED seen
     \/ \E j \in ahead :
          /\ \A x \in ahead : j <= x
          /\ it' = j + 1
          /\ seen' = seen \cup {<<entries[j].key, entries[j].value, j>>}
  /\ UNCHANGED <<hash, table, pc, args, new_entries, i>>

\* The next filled slot, or the end of the iteration.
ht_next ==
  /\ it # -1
  /\ \/ /\ Ahead = {}
        /\ it' = -1 /\ UNCHANGED seen
     \/ \E j \in Ahead :
          /\ \A x \in Ahead : j <= x
          /\ it' = j + 1
          /\ seen' = seen \cup {<<entries[j].key, entries[j].value, j>>}
  /\ UNCHANGED <<hash, table, pc, args, new_entries, i>>

Next ==
  \/ \E k \in Key, v \in Value : ht_set(k, v)
  \/ ExpandAlloc \/ ExpandMove \/ ExpandSwap \/ SetEntry
  \/ ht_iterator \/ ht_next

Spec == Init /\ [][Next]_vars
-----------------------------------------------------------------------------
(* Properties.                                                             *)

TypeOK ==
  /\ hash \in [Key -> HashValues]
  /\ capacity \in Nat \ {0}
  /\ entries \in [0 .. capacity - 1 -> [key : Key \cup {NULL}, value : Value \cup {NULL}]]
  /\ length \in Nat
  /\ pc \in {"idle", "expand", "move", "set_entry"}
  /\ key \in Key \cup {NULL} /\ value \in Value \cup {NULL}
  /\ i \in Nat
  /\ it \in -1 .. capacity

\* The loops of ht_get and ht_set_entry run until they meet the key or an empty
\* slot: there always is one, in the table and in the one being filled.
ProbingEnds ==
  \A k \in Key : /\ Stops(entries, capacity, k) # {}
                 /\ pc = "move" => Stops(new_entries, 2 * capacity, k) # {}

\* ht_length is the number of items, and at most half of the slots are in use.
LengthIsExact ==
  /\ ht_length = Cardinality({j \in 0 .. capacity - 1 : entries[j].key # NULL})
  /\ 2 * length <= capacity

\* Every key in the table is where a search for it stops, so that it is found
\* and never added twice, however the keys collide and however often the table
\* has grown.
KeysAreFound ==
  \A j \in 0 .. capacity - 1 :
    entries[j].key # NULL => Slot(entries, capacity, entries[j].key) = j

Stored == {k \in Key : ht_get(k) # NULL}

Abstract == INSTANCE KeyMap WITH map <- [k \in Stored |-> ht_get(k)]

\* The table implements a map: growing it, half-way through or finished, or
\* running out of memory changes no binding.
ImplementsMap == Abstract!Spec

\* ht_next gives every item of the table exactly once.
IterationComplete ==
  [][it # -1 /\ it' = -1 =>
       /\ {<<s[1], s[2]>> : s \in seen} = {<<k, ht_get(k)>> : k \in Stored}
       /\ Cardinality(seen) = ht_length]_vars
=============================================================================

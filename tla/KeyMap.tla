------------------------------- MODULE KeyMap -------------------------------
(***************************************************************************)
(* What ht.h promises: a map from keys to values.  A set that runs out of  *)
(* memory changes nothing.                                                 *)
(***************************************************************************)
CONSTANTS Key, Value

VARIABLE map   \* a function from some of the keys to values

Init == map = [k \in {} |-> k]

Set(k, v) ==
  map' = [j \in DOMAIN map \cup {k} |-> IF j = k THEN v ELSE map[j]]

Next == \E k \in Key, v \in Value : Set(k, v)

Spec == Init /\ [][Next]_map
=============================================================================

---------------------------- MODULE MCHashTable -----------------------------
(* A table that starts with two slots and grows twice.  A hash function    *)
(* and its renamings under permutations of the keys are one case.          *)
EXTENDS HashTable, TLC

Symmetry == Permutations(Key) \cup Permutations(Value)
=============================================================================

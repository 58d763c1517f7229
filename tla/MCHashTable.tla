---------------------------- MODULE MCHashTable -----------------------------
(* HashTable on small instances: a table of two buckets that grows to eight*)
(* with collisions before and after each growth, and a key that is the     *)
(* beginning of another.                                                   *)
EXTENDS HashTable, TLC

Clashing == {<<2>>, <<2, 2>>, <<4>>, <<1>>, <<8>>}
NodeAddresses == Permutations(Nodes)
=============================================================================

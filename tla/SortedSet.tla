----------------------------- MODULE SortedSet ------------------------------
(***************************************************************************)
(* What the red-black tree of src/common/rb.c promises: a set of integers  *)
(* in order.  Node addresses are the keys themselves.                      *)
(***************************************************************************)
EXTENDS Integers, FiniteSets

CONSTANTS
  Keys,     \* the integers that may be keys
  NULL      \* "there is none"

VARIABLES
  set,      \* the keys in the set
  answer    \* the key the last call added or removed, if any

vars == <<set, answer>>

Greatest(S) == IF S = {} THEN NULL ELSE CHOOSE m \in S : \A k \in S : k <= m
Least(S) == IF S = {} THEN NULL ELSE CHOOSE m \in S : \A k \in S : m <= k

Init == set = {} /\ answer = NULL

\* A key is added, unless it is there already or there is no memory.
Add(k) ==
  \/ k \notin set /\ set' = set \cup {k} /\ answer' = k
  \/ answer' = NULL /\ UNCHANGED set

Remove(k) ==
  /\ k \in set
  /\ set' = set \ {k}
  /\ answer' = k

Clear == set' = {} /\ answer' = NULL

Next == Clear \/ \E k \in Keys : Add(k) \/ Remove(k)

Spec == Init /\ [][Next]_vars
=============================================================================

---------------------------- MODULE MCCoroutine -----------------------------
(* Coroutine on small instances.                                           *)
EXTENDS Coroutine, TLC

Addresses == Permutations(Co)
=============================================================================

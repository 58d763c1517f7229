---------------------------- MODULE MCArrayHeap -----------------------------
(* Instances of ArrayHeap for TLC.                                         *)
EXTENDS ArrayHeap, TLC

OneString == {"s"}

\* Addresses are interchangeable, and so are registers.
Symmetry == Permutations(Addr) \cup Permutations(Regs)
=============================================================================

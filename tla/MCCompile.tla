----------------------------- MODULE MCCompile ------------------------------
(* The compiler and the machine on the programs of Samples, compared with  *)
(* Meaning.                                                                *)
EXTENDS Samples, Compilation

Spec == Init /\ [][Next]_vars
=============================================================================

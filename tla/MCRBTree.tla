------------------------------ MODULE MCRBTree ------------------------------
(* RBTree on small sets of keys.                                           *)
EXTENDS RBTree
=============================================================================

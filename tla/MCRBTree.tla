------------------------------ MODULE MCRBTree ------------------------------
(* Small instances of RBTree for TLC.                                      *)
EXTENDS RBTree
=============================================================================

------------------------------ MODULE MCKTask ------------------------------
(* Small instances of KTask for TLC.                                       *)
EXTENDS KTask, TLC

CONSTANTS b1, b2, b3

\* Blocks are interchangeable: no operation compares them but for equality.
BlockSymmetry == Permutations(Block)

=============================================================================

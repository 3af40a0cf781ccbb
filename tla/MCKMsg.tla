------------------------------ MODULE MCKMsg -------------------------------
(* Small instances of KMsg for TLC.                                        *)
EXTENDS KMsg, TLC

CONSTANTS b1, b2, b3

\* Blocks are interchangeable: no operation compares them but for equality.
BlockSymmetry == Permutations(Block)
=============================================================================

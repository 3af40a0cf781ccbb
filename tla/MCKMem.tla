------------------------------- MODULE MCKMem -------------------------------
(* Small instances of KMem for TLC.                                        *)
EXTENDS KMem
=============================================================================

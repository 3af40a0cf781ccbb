------------------------------- MODULE MCKcd -------------------------------
(* Small instances of Kcd for TLC. *)
EXTENDS Kcd
=============================================================================

-------------------------------- MODULE MCAe --------------------------------
(* The repository's tests, run by TLC. *)
EXTENDS Ae
=============================================================================

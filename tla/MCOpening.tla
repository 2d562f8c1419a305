------------------------------ MODULE MCOpening ------------------------------
(* Small instances of Opening for TLC. *)
EXTENDS Opening

CONSTANTS m1, m2
=============================================================================

------------------------------ MODULE MCWatch ------------------------------
(* Watch for TLC: time is counted in units of ten seconds. *)
EXTENDS Watch
============================================================================

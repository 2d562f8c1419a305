------------------------------ MODULE MCVolumes ------------------------------
(* Small instances of Volumes for TLC. *)
EXTENDS Volumes, TLC

CONSTANTS sda, usb, ticker, handler

Symmetric == Permutations(Drive) \cup Permutations(Writer)
=============================================================================

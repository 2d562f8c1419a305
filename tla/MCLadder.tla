------------------------------- MODULE MCLadder -------------------------------
(* Two rungs: Ladder with small numbers, in the proportions of the code. *)
EXTENDS Ladder

MCWidth  == [l \in Rung |-> IF l = 0 THEN 2 ELSE 4]
MCRetain == [l \in Rung |-> IF l = 0 THEN 11 ELSE 14]
=============================================================================

------------------------------- MODULE MCStreak -------------------------------
(* Streak on the two rungs of MCLadder. *)
EXTENDS Streak

MCWidth  == [l \in Rung |-> IF l = 0 THEN 2 ELSE 4]
MCRetain == [l \in Rung |-> IF l = 0 THEN 11 ELSE 14]
=============================================================================

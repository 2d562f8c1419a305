------------------------------- MODULE MCAlerts -------------------------------
(* Small instances of Alerts for TLC. *)
EXTENDS Alerts

CONSTANTS de, bg, x, y

\* The ids in order.
Ranks == [n \in Node |-> IF n = de THEN 0 ELSE 1]
=============================================================================

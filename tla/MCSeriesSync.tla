---------------------------- MODULE MCSeriesSync ----------------------------
(* Small instances of SeriesSync for TLC. *)
EXTENDS SeriesSync, TLC

CONSTANTS b, c, cpu, mem

\* Two rungs: one instant and two.
Widths == [l \in Rung |-> l + 1]

=============================================================================

------------------------------- MODULE MCMesh -------------------------------
(* Small meshes of Mesh for TLC: a and b are ordinary members, c is the node *)
(* operators decide about and, in some of them, a push-only one.             *)
EXTENDS Mesh, TLC

CONSTANTS a, b, c

\* Everybody knows everybody that can be reached.
FullMesh == {l \in Node \X (Node \ PushOnlyNode) : l[1] # l[2]}

\* a and c were each pointed at b, and know nobody else.
Star == {<<a, b>>, <<c, b>>}

\* b removed c before removals were announced; a never heard of it.
LegacyAtB == {<<b, c>>}
AllButLegacy == FullMesh \ LegacyAtB

NoPairs == {}

\* One decision on each dashboard; at the same instant the clocks of a and b
\* may be either way round, as b's is the later one.
OneEach == [n \in Node |-> CASE n = a -> {1} [] n = b -> {2} [] OTHER -> {}]

\* The clock of b is behind that of a.
BehindAtB == [n \in Node |-> CASE n = a -> {2} [] n = b -> {1} [] OTHER -> {}]

\* Only a's operator acts.
OnlyAtA == [n \in Node |-> IF n = a THEN {1} ELSE {}]

\* a's operator acts once and c's once, with the later stamp.
FirstAThenC == [n \in Node |-> CASE n = a -> {1} [] n = c -> {2} [] OTHER -> {}]

=============================================================================

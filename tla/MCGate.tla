-------------------------------- MODULE MCGate --------------------------------
EXTENDS Gate, TLC

CONSTANTS h1, h2, h3, h4, p1, p2

\* h1 has a browser and h4 is the host itself: the others are alike.
Symmetry == Permutations({h2, h3}) \cup Permutations({p1, p2})
=============================================================================

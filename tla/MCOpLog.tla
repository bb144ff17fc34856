------------------------------ MODULE MCOpLog ------------------------------
EXTENDS OpLog, TLC

CONSTANTS i1, i2, p1, p2

MCItems == {i1, i2}
MCProcs == {p1, p2}
MCMaxOps == 5

\* Items are only tested for membership and processes run the same code.
MCSymmetry == Permutations(MCItems) \cup Permutations(MCProcs)
=============================================================================

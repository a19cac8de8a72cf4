---------------------------- MODULE MCStaticPool ----------------------------
EXTENDS StaticPool, TLC

CONSTANTS r1, r2, r3

MCRuns     == {r1, r2, r3}
MCLeakRuns == {r1, r2}

\* The runs are interchangeable in the safety run.
MCSymmetry == Permutations(MCRuns)
=============================================================================

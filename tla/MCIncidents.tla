---------------------------- MODULE MCIncidents -----------------------------
EXTENDS Incidents, TLC

CONSTANTS i1, i2, f1, c1, c2, p1

Symmetry == Permutations(Ids) \cup Permutations(Conns)
=============================================================================

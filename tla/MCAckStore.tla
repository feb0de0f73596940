----------------------------- MODULE MCAckStore -----------------------------
EXTENDS AckStore, TLC

CONSTANTS c1, c2, s1, s2, s3

Symmetry == Permutations(Clients) \cup Permutations(Signatures)
==============================================================================

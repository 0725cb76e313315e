------------------------------ MODULE MCEdgeLink ------------------------------
EXTENDS EdgeLink, TLC

CONSTANTS e1, e2, s1, s2, s3, c1, c2, d1

\* Every call is scheduled on the one device.
OneDevice == [c \in Calls |-> d1]

Symmetry == Permutations(Edges) \union Permutations(Streams) \union Permutations(Calls)
=============================================================================

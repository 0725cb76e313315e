--------------------------- MODULE MCCallLifecycle ---------------------------
EXTENDS CallLifecycle, TLC

\* The calls are interchangeable where no liveness property is checked.
Symmetry == Permutations(Calls)
=============================================================================

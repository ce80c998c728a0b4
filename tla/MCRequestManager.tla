-------------------------- MODULE MCRequestManager --------------------------
EXTENDS RequestManager, TLC

\* The calls are interchangeable.
Symmetry == Permutations(Reqs)
=============================================================================

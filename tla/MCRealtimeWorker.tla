-------------------------- MODULE MCRealtimeWorker --------------------------
EXTENDS RealtimeWorker, TLC

\* Handlers, workers and systems of the same kind are interchangeable.
Symmetry == Permutations(Handlers) \cup Permutations(Workers)
=============================================================================

------------------------- MODULE MCAgentConnection -------------------------
EXTENDS AgentConnection, TLC

\* Dialers and connections are interchangeable; for instances that are checked
\* for safety only, since symmetry is unsound with liveness.
Symmetry == Permutations(Dialers) \cup Permutations(Conns)
=============================================================================

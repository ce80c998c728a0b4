--------------------------- MODULE MCStatusAlerts ---------------------------
EXTENDS StatusAlerts, TLC

\* The alertInfos are interchangeable, and so are the ids of alert records.
Symmetry == Permutations(Infos) \cup Permutations(Alerts)
=============================================================================

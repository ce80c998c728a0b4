-------------------------- MODULE MCSystemManager --------------------------
EXTENDS SystemManager, TLC
=============================================================================

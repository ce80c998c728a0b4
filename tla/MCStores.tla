------------------------------ MODULE MCStores ------------------------------
EXTENDS Stores

CONSTANTS s1, s2

\* One name longer than the maximum, one shorter than the start value.
MCWidth == [n \in Names |-> IF n = "short" THEN 5 ELSE 30]

\* The sheet of s1 is open and offers the alerts of s2.
MCCopies == {<<s1, s2>>}
=============================================================================

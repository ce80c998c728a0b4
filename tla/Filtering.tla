------------------------------ MODULE Filtering ------------------------------
(***************************************************************************)
(* Array.prototype.filter, given by places: what the k-th element of the   *)
(* result is, instead of how it is collected.                              *)
(***************************************************************************)
EXTENDS Naturals, FiniteSets, Sequences

\* How many of the places ps are before i.
Rank(ps, i) == Cardinality({j \in ps : j < i})

\* The elements of s at the places ps, in their order.
ElementsAt(s, ps) == [k \in 1 .. Cardinality(ps) |-> s[CHOOSE i \in ps : Rank(ps, i) = k - 1]]

\* s.filter(Test)
Filter(s, Test(_)) == ElementsAt(s, {i \in DOMAIN s : Test(s[i])})
=============================================================================

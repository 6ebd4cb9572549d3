------------------------------- MODULE Copies -------------------------------
(***************************************************************************)
(* What a subscriber to collection notifications holds: the versions its   *)
(* copy of the list is made of, as the sequence in which it was told of    *)
(* them.                                                                   *)
(***************************************************************************)
EXTENDS Naturals, Sequences, FiniteSets

\* The versions of S that are not after v, and how many they are.
Upto(S, v) == {w \in S : w <= v}
Rank(S, v) == Cardinality(Upto(S, v))

\* The versions of S in ascending order.
Ascending(S) == [i \in 1 .. Cardinality(S) |-> CHOOSE v \in S : Rank(S, v) = i]
=============================================================================

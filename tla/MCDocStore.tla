----------------------------- MODULE MCDocStore -----------------------------
(* Model of DocStore for TLC: identities and contents are interchangeable.   *)
EXTENDS DocStore, TLC

Symmetry == Permutations(Items) \cup Permutations(Contents)
=============================================================================

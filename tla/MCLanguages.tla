---------------------------- MODULE MCLanguages ----------------------------
(* Model of Languages for TLC: every language but English is interchangeable. *)
EXTENDS Languages, TLC

Symmetry == Permutations(Langs \ {Eng})
=============================================================================

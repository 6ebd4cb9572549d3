---------------------------- MODULE MCPageEditor ----------------------------
(* Model of PageEditor for TLC: page contents are interchangeable.           *)
EXTENDS PageEditor, TLC

Symmetry == Permutations(Pages)
=============================================================================

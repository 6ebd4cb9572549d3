-------------------------------- MODULE Lists --------------------------------
(***************************************************************************)
(* What is left of a list when elements are taken out of it, as the app's  *)
(* queries and Realm's vectors have it.                                    *)
(***************************************************************************)
EXTENDS Naturals, Sequences

Elements(s) == {s[k] : k \in DOMAIN s}

\* The elements of a list that are in S, in the order of the list.
Only(s, S) ==
    LET kept[k \in 0..Len(s)] ==
            IF k = 0 THEN <<>>
            ELSE IF s[k] \in S THEN Append(kept[k - 1], s[k]) ELSE kept[k - 1]
    IN  kept[Len(s)]
=============================================================================

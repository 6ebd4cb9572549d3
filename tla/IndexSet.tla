------------------------------ MODULE IndexSet ------------------------------
(***************************************************************************)
(* realm::IndexSet, the sets of row positions of a change set.  The code   *)
(* keeps a set as chunks of ranges; here it is the set of positions those  *)
(* ranges hold, and every operation is what it does to that set.           *)
(* Positions start at 0, as in the code.                                   *)
(***************************************************************************)
EXTENDS Integers, FiniteSets

npos == -1     \* IndexSet::npos, no position

count(S, end) == Cardinality({i \in S : i < end})

\* The position of the index-th element that is not in S: index, moved up past
\* every range of S at or before it.
shift(S, index) ==
    CHOOSE p \in index .. index + Cardinality(S) :
        p \notin S /\ p - count(S, p) = index

unshift(S, index) == index - count(S, index)

\* A row is inserted at index and belongs to the set, or does not belong to it.
insert_at(S, index) ==
    {i \in S : i < index} \cup {index} \cup {i + 1 : i \in {j \in S : j >= index}}
shift_for_insert_at(S, index) ==
    {i \in S : i < index} \cup {i + 1 : i \in {j \in S : j >= index}}

\* The same for a whole set of insertions, given at their final positions.
insert_all_at(S, positions) == {shift(positions, i) : i \in S} \cup positions
shift_for_insert_all_at(S, positions) == {shift(positions, i) : i \in S}

\* The rows at the positions leave the list; the rest closes the gaps.
erase_all_at(S, positions) == {unshift(positions, i) : i \in S \ positions}
erase_at(S, index) == erase_all_at(S, {index})

\* erase_or_unshift answers this and erases index.
erase_or_unshift(S, index) == IF index \in S THEN npos ELSE unshift(S, index)

\* add_shifted adds this position and answers it.
add_shifted(S, index) == shift(S, index)

add_shifted_byRaw(S, shifted_by, values) ==
    S \cup {unshift(shifted_by, v) : v \in values \ shifted_by}

\* Positions of a list shifted_by was inserted into, added at their positions in
\* the list before S was erased from it.
add_shifted_by(S, shifted_by, values) ==
    S \cup {shift(S, unshift(shifted_by, v)) : v \in values \ shifted_by}

set(len) == 0 .. len - 1
=============================================================================

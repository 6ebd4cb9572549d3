---------------------------- MODULE ChangeBuilder ----------------------------
(***************************************************************************)
(* CollectionChangeBuilder: the change set of a list of objects, built up  *)
(* one log entry at a time while the transaction log is parsed, merged     *)
(* with the changes a subscriber has not been told of, and finalized for   *)
(* delivery.                                                               *)
(*                                                                         *)
(* Deletions are positions of the old list, insertions and modifications   *)
(* of the new one; a move is also a deletion and an insertion.  The        *)
(* per-column sets and the operations of tables are not used for a list of *)
(* objects.                                                                *)
(***************************************************************************)
EXTENDS IndexSet, Sequences, Lists

emptyChange == [deletions |-> {}, insertions |-> {}, modifications |-> {},
                moves |-> <<>>]

empty(b) == b = emptyChange

-----------------------------------------------------------------------------
(* One log entry.                                                            *)

modify(b, ndx) == [b EXCEPT !.modifications = @ \cup {ndx}]

insert(b, index) ==
    [deletions |-> b.deletions,
     insertions |-> insert_at(b.insertions, index),
     modifications |-> shift_for_insert_at(b.modifications, index),
     moves |-> [k \in DOMAIN b.moves |->
                  [b.moves[k] EXCEPT !.to = IF @ >= index THEN @ + 1 ELSE @]]]

\* The deletion of a row that was there before: unshifted is its position
\* without this change's insertions.
Deleted(b, unshifted) ==
    IF unshifted = npos THEN b.deletions
    ELSE b.deletions \cup {add_shifted(b.deletions, unshifted)}

erase(b, index) ==
    [deletions |-> Deleted(b, erase_or_unshift(b.insertions, index)),
     insertions |-> erase_at(b.insertions, index),
     modifications |-> erase_at(b.modifications, index),
     moves |-> LET kept == Only(b.moves, {m \in Elements(b.moves) : m.to # index})
               IN  [k \in DOMAIN kept |->
                      [kept[k] EXCEPT !.to = IF @ > index THEN @ - 1 ELSE @]]]

clear(b, old_size) ==
    [emptyChange EXCEPT !.deletions =
        set(old_size + Cardinality(b.deletions) - Cardinality(b.insertions))]

MovedToStrict(p, from, to) ==
    IF p = from THEN to
    ELSE IF p > to /\ p < from THEN p + 1
    ELSE IF p < to /\ p > from THEN p - 1
    ELSE p

\* Where a move's destination is after the row at from went to to.
MovedTo(p, from, to) ==
    IF p = from THEN to
    ELSE IF p >= to /\ p < from THEN p + 1
    ELSE IF p <= to /\ p > from THEN p - 1
    ELSE p

\* The row at from goes to to: a second move of a row extends its first one, and
\* a row this change inserted is simply inserted elsewhere.
move(b, from, to) ==
    LET unshifted == erase_or_unshift(b.insertions, from)
        again == \E k \in DOMAIN b.moves : b.moves[k].to = from
        shifted == [k \in DOMAIN b.moves |->
                      [b.moves[k] EXCEPT !.to = MovedTo(@, from, to)]]
        known == again \/ unshifted = npos
        rest == erase_at(b.modifications, from)
    IN  [deletions |-> IF known THEN b.deletions ELSE Deleted(b, unshifted),
         insertions |-> insert_at(erase_at(b.insertions, from), to),
         modifications |-> IF from \in b.modifications THEN insert_at(rest, to)
                           ELSE shift_for_insert_at(rest, to),
         moves |-> IF known THEN shifted
                   ELSE Append(shifted, [from |-> add_shifted(b.deletions, unshifted),
                                         to |-> to])]

-----------------------------------------------------------------------------
(* The end of a parse, and the merge with what has not been delivered.       *)

\* A move that leaves the row where it would be anyway.
Stale(b, m) == m.from - count(b.deletions, m.from) = m.to - count(b.insertions, m.to)

CleanedStep(b, m) ==
    IF Stale(b, m)
    THEN [b EXCEPT !.deletions = @ \ {m.from}, !.insertions = @ \ {m.to}]
    ELSE [b EXCEPT !.moves = Append(@, m)]

\* Such moves are dropped one by one, each with its deletion and its insertion.
clean_up_stale_moves(b) ==
    LET cleaned[k \in 0 .. Len(b.moves)] ==
            IF k = 0 THEN [b EXCEPT !.moves = <<>>]
            ELSE CleanedStep(cleaned[k - 1], b.moves[k])
    IN  cleaned[Len(b.moves)]

\* The k-th move is erased: the last one takes its place.
MoveErased(moves, k) ==
    SubSeq([moves EXCEPT ![k] = moves[Len(moves)]], 1, Len(moves) - 1)

\* One move of b in the list after c, of which s holds what is left to merge: a row
\* that c moved again keeps one move, a row that c deleted has none.
UpdatedStep(s, old, b) ==
    LET hits == {k \in DOMAIN s.c.moves : s.c.moves[k].from = old.to}
        k == CHOOSE j \in hits : \A i \in hits : j <= i
        m == s.c.moves[k]
    IN  IF hits # {}
        THEN [moves |-> Append(s.moves, [from |-> old.from, to |-> m.to]),
              c |-> [s.c EXCEPT !.moves = MoveErased(@, k),
                                !.modifications =
                                   IF m.from \in b.modifications THEN @ \cup {m.to}
                                   ELSE @]]
        ELSE IF old.to \in s.c.deletions THEN s
        ELSE [s EXCEPT !.moves =
                Append(@, [from |-> old.from,
                           to |-> shift(s.c.insertions,
                                        unshift(s.c.deletions, old.to))])]

UpdatedMoves(b, c) ==
    LET updated[k \in 0 .. Len(b.moves)] ==
            IF k = 0 THEN [moves |-> <<>>, c |-> c]
            ELSE UpdatedStep(updated[k - 1], b.moves[k], b)
    IN  updated[Len(b.moves)]

\* The change set of b followed by c.
merge(b, c) ==
    IF empty(c) THEN b ELSE IF empty(b) THEN c ELSE
    LET updated == UpdatedMoves(b, c)
        left == updated.c.moves
        newMoves == Only(left, {m \in Elements(left) : m.from \notin b.insertions})
        modified == updated.c.modifications \cup
                      {m.to : m \in {x \in Elements(newMoves) :
                                       x.from \in b.modifications}}
        sourced == [k \in DOMAIN newMoves |-> [newMoves[k] EXCEPT !.from =
                      shift(b.deletions, unshift(b.insertions, @))]]
        cleaned == clean_up_stale_moves(
          [deletions |-> add_shifted_by(b.deletions, b.insertions, c.deletions),
           insertions |-> insert_all_at(erase_all_at(b.insertions, c.deletions),
                                        c.insertions),
           modifications |-> b.modifications,
           moves |-> updated.moves \o sourced])
    IN  [cleaned EXCEPT !.modifications =
           shift_for_insert_all_at(erase_all_at(@, c.deletions), c.insertions)
             \cup modified]

ModifiedInOldSwapped(b) ==
    erase_all_at(shift_for_insert_all_at(b.modifications, b.deletions), b.insertions)

\* The modified rows by their positions in the old list.
ModifiedInOld(b) ==
    shift_for_insert_all_at(erase_all_at(b.modifications, b.insertions), b.deletions)

\* What is delivered: the modifications are given for both lists, and an
\* inserted row is not modified.
finalize(b) ==
    [deletions |-> b.deletions,
     insertions |-> b.insertions,
     modifications |-> ModifiedInOld(b),
     modifications_new |-> b.modifications \ b.insertions,
     moves |-> b.moves]
=============================================================================

----------------------------- MODULE ChangeSets -----------------------------
(***************************************************************************)
(* A list of objects, the entries that transactions write to its log, and  *)
(* the change set a subscriber is to be told: ListNotifier with the link   *)
(* list part of TransactLogObserver.  The subscriber still holds the list  *)
(* `held'; the worker parses transactions one batch at a time and merges   *)
(* each batch into the subscriber's accumulated changes.                   *)
(*                                                                         *)
(* Every value written to the list is a new one, so that two rows are      *)
(* equal only when they are the same row with the same content.            *)
(***************************************************************************)
EXTENDS ChangeBuilder

CONSTANTS MaxLength,      \* bound: rows of the list
          MaxEntries      \* bound: log entries

ASSUME BoundsAssumption == MaxLength \in Nat /\ MaxEntries \in Nat

VARIABLES held,                 \* the list as the subscriber last saw it
          list,                 \* the list now
          change,               \* ListNotifier::m_change, of the batch being parsed
          accumulated_changes,  \* Callback::accumulated_changes
          dirty,                \* rows whose object the batch wrote to
          entries               \* log entries so far; they number the new values

listVars == <<held, list, change, accumulated_changes, dirty, entries>>

Positions == 0 .. Len(list) - 1
Parsed == change = emptyChange /\ dirty = {}
Fresh == MaxLength + entries + 1

Without(s, i) == SubSeq(s, 1, i) \o SubSeq(s, i + 2, Len(s))
With(s, i, v) == SubSeq(s, 1, i) \o <<v>> \o SubSeq(s, i + 1, Len(s))

ListInit ==
    /\ \E n \in 0 .. MaxLength : held = [k \in 1 .. n |-> k]
    /\ list = held
    /\ change = emptyChange /\ accumulated_changes = emptyChange
    /\ dirty = {}
    /\ entries = 0

Entry(newList, newChange) ==
    /\ entries < MaxEntries
    /\ entries' = entries + 1
    /\ list' = newList
    /\ change' = newChange
    /\ UNCHANGED <<held, accumulated_changes, dirty>>

\* A property of the object at position i is set: the list's own log has no
\* entry.
set_property ==
    \E i \in Positions :
        /\ entries < MaxEntries
        /\ entries' = entries + 1
        /\ list' = [list EXCEPT ![i + 1] = Fresh]
        /\ dirty' = (dirty \ {list[i + 1]}) \cup {Fresh}
        /\ UNCHANGED <<held, change, accumulated_changes>>

link_list_set ==
    \E i \in Positions :
        Entry([list EXCEPT ![i + 1] = Fresh], modify(change, i))

link_list_insert ==
    /\ Len(list) < MaxLength
    /\ \E i \in 0 .. Len(list) : Entry(With(list, i, Fresh), insert(change, i))

link_list_erase ==
    \E i \in Positions : Entry(Without(list, i), erase(change, i))

link_list_swap ==
    \E i, j \in Positions :
        /\ i < j
        /\ Entry([list EXCEPT ![i + 1] = list[j + 1], ![j + 1] = list[i + 1]],
                 modify(modify(change, i), j))

link_list_clear ==
    /\ list # <<>>
    /\ Entry(<<>>, clear(change, Len(list)))

link_list_move ==
    \E i, j \in Positions :
        /\ i # j
        /\ Entry(With(Without(list, i), j, list[i + 1]), move(change, i, j))

\* ListNotifier::run: rows whose object was written to are modified rows.
run(b) ==
    [b EXCEPT !.modifications = @ \cup {i \in Positions : list[i + 1] \in dirty}]

\* The worker has parsed a batch: parse_complete, then run and add_changes.
parse_complete ==
    /\ ~Parsed
    /\ accumulated_changes' = merge(accumulated_changes, run(clean_up_stale_moves(change)))
    /\ change' = emptyChange
    /\ dirty' = {}
    /\ UNCHANGED <<held, list, entries>>

ListNext ==
    \/ set_property \/ link_list_set \/ link_list_insert \/ link_list_erase
    \/ link_list_swap \/ link_list_clear \/ link_list_move \/ parse_complete

ListSpec == ListInit /\ [][ListNext]_listVars

-----------------------------------------------------------------------------
(* Properties.                                                               *)

\* The list a subscriber ends up with when it removes the deleted rows, inserts
\* the inserted ones and reloads the modified ones, all read from the new list.
Applied(old, delta, new) ==
    LET size == Len(old) - Cardinality(delta.deletions) + Cardinality(delta.insertions)
        \* the old position of the row at p, when p is not an insertion
        Source(p) == shift(delta.deletions, unshift(delta.insertions, p))
    IN  [k \in 1 .. size |->
           IF k - 1 \in delta.insertions \cup delta.modifications_new
           THEN new[k] ELSE old[Source(k - 1) + 1]]

delta == finalize(accumulated_changes)

\* The change set is exactly the difference between the subscriber's list and the
\* list now, however many entries and batches it was merged from: its positions
\* exist, and applying it gives the list, with no row left out or stale
\* (CollectionChangeBuilder::merge).
AppliesExactly ==
    Parsed =>
        /\ delta.deletions \subseteq 0 .. Len(held) - 1
        /\ delta.insertions \cup delta.modifications_new \subseteq Positions
        /\ Applied(held, delta, list) = list

\* What verify() asserts of every move, for the batch and for the merged changes,
\* and more: the moves of the merged change set take rows, no row twice, to where
\* they are now; unless it is reported as modified, the row that arrived is the row
\* that left.
MovesTrue ==
    /\ \A b \in {change, accumulated_changes} : \A k \in DOMAIN b.moves :
          b.moves[k].from \in b.deletions /\ b.moves[k].to \in b.insertions
    /\ Parsed =>
         LET moves == accumulated_changes.moves
         IN  /\ \A j, k \in DOMAIN moves : j # k =>
                   moves[j].from # moves[k].from /\ moves[j].to # moves[k].to
             /\ \A k \in DOMAIN moves :
                   \/ list[moves[k].to + 1] = held[moves[k].from + 1]
                   \/ moves[k].to \in accumulated_changes.modifications

\* The modified rows are given twice, by their old and by their new positions, and
\* the two name the same rows: none of them deleted or inserted, as many on either
\* side, in the same order (CollectionChangeBuilder::finalize).
ModificationsAgree ==
    Parsed =>
        /\ delta.modifications \cap delta.deletions = {}
        /\ delta.modifications \subseteq 0 .. Len(held) - 1
        /\ delta.modifications =
             {shift(delta.deletions, unshift(delta.insertions, p)) :
                p \in delta.modifications_new}
=============================================================================

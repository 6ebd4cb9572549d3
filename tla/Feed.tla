-------------------------------- MODULE Feed --------------------------------
(***************************************************************************)
(* What collection notifications promise, without threads, packages or     *)
(* skipped versions.  A Realm is a sequence of versions, each of which     *)
(* changed some of the observed lists; the main thread reads one version   *)
(* and each subscriber keeps its own copy of a list, brought up to date    *)
(* only by what it is told.  A copy is the versions that made it: exactly  *)
(* those that changed the list, in order and none twice.                   *)
(***************************************************************************)
EXTENDS Naturals, Copies

CONSTANT Notifiers

VARIABLES touched,      \* touched[v]: the lists that version v changed
          at,           \* the version the main thread reads
          subscribed,   \* who has a callback
          told,         \* who has been called at least once
          copy          \* what each of them holds

vars == <<touched, at, subscribed, told, copy>>

\* The list of n as version v has it.
Full(n, v) == Ascending({i \in 1 .. v : n \in touched[i]})

Init ==
    /\ touched = <<{}>> /\ at = 1
    /\ subscribed = {} /\ told = {}
    /\ copy = [n \in Notifiers |-> <<>>]

\* Another thread commits: nobody on the main thread notices yet.
CommitElsewhere ==
    /\ \E T \in SUBSET Notifiers : touched' = Append(touched, T)
    /\ UNCHANGED <<at, subscribed, told, copy>>

\* The main thread commits on top of the latest version, having told everyone of
\* everything before it.
CommitHere ==
    /\ at = Len(touched)
    /\ \A n \in subscribed : copy[n] = Full(n, at)
    /\ \E T \in SUBSET Notifiers : touched' = Append(touched, T)
    /\ at' = at + 1
    /\ UNCHANGED <<subscribed, told, copy>>

Subscribe(n) ==
    /\ n \notin subscribed
    /\ subscribed' = subscribed \cup {n}
    /\ copy' = [copy EXCEPT ![n] = Full(n, at)]
    /\ UNCHANGED <<touched, at, told>>

Unsubscribe(n) ==
    /\ subscribed' = subscribed \ {n}
    /\ told' = told \ {n}
    /\ copy' = [copy EXCEPT ![n] = <<>>]
    /\ UNCHANGED <<touched, at>>

\* Some subscribers are called, the main thread reading version v from now on.
\* Whoever is called holds version v then, and the main thread does not go
\* forward without calling everyone it has called before, unless v makes no
\* difference to them.
Tell(v) ==
    /\ v \in at .. Len(touched)
    /\ at' = v
    /\ \E called \in SUBSET subscribed :
          /\ told' = told \cup called
          /\ copy' = [n \in Notifiers |->
                        IF n \in called THEN Full(n, v) ELSE copy[n]]
    /\ v > at => \A n \in told : copy'[n] = Full(n, v)
    /\ UNCHANGED <<touched, subscribed>>

Next ==
    \/ CommitElsewhere
    \/ CommitHere
    \/ \E n \in Notifiers : Subscribe(n) \/ Unsubscribe(n)
    \/ \E v \in 1 .. Len(touched) : Tell(v)

Spec == Init /\ [][Next]_vars
=============================================================================

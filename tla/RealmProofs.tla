----------------------------- MODULE RealmProofs -----------------------------
(***************************************************************************)
(* Proofs about Realm's side of the app.                                   *)
(*                                                                         *)
(* Notifications, for any number of lists and versions, whatever commits,  *)
(* subscriptions and releases fall between two stretches under the lock:   *)
(* the listener thread never goes backwards, a writer works on copies that *)
(* are up to date, and the threads implement Feed.                         *)
(*                                                                         *)
(* ChangeSets, for lists of any length and any number of log entries and   *)
(* batches: the change set a subscriber is told turns its list into the    *)
(* list now.  Describes says what a change set claims of two lists; every  *)
(* log entry, the end of a parse and a merge carry the claim on, and what  *)
(* is delivered follows from it.  The loops over the moves are recursive   *)
(* functions, followed by induction over their number.                     *)
(***************************************************************************)
EXTENDS Notifications, ChangeSets, FiniteSetTheorems, SequenceTheorems,
        WellFoundedInduction, TLAPS

-----------------------------------------------------------------------------
(* The subscriptions.                                                        *)

Versions == 0 .. Latest

Types ==
    /\ touched \in Seq(SUBSET Notifiers) /\ touched # <<>>
    /\ at \in 1 .. Latest
    /\ newNotifiers \subseteq Notifiers /\ notifiers \subseteq Notifiers
    /\ alive \subseteq Notifiers
    /\ version \in [Notifiers -> Versions]
    /\ hasRun \subseteq Notifiers
    /\ worker \in [pc : {"wait", "skip", "run", "signal"}, version : Versions,
                   skip : Versions, olds : SUBSET Notifiers,
                   news : SUBSET Notifiers]
    /\ sg \in Versions
    /\ skipVersion \in Versions

\* Between two stretches of the worker.
AtWork == worker.pc \in {"skip", "run"}

\* Whoever is known to the coordinator or the worker has been registered, and new
\* notifiers have not run.
Registered ==
    /\ \A n \in newNotifiers \cup notifiers \cup hasRun : version[n] # 0
    /\ newNotifiers \cap (notifiers \cup hasRun) = {}
    /\ AtWork =>
          /\ worker.version # 0
          /\ \A n \in worker.olds \cup worker.news : version[n] # 0
          /\ newNotifiers \cap (worker.olds \cup worker.news) = {}
          /\ notifiers \subseteq worker.olds \cup worker.news
          /\ worker.news \cap (worker.olds \cup hasRun) = {}

\* A version to skip lies ahead of the worker.
SkipAhead ==
    skipVersion # 0 =>
        sg <= skipVersion /\ (AtWork => worker.version <= skipVersion)

IInv == Types /\ Registered /\ SkipAhead /\ WorkerForward

-----------------------------------------------------------------------------
(* The inductive invariant.                                                  *)

\* Nobody is registered and the worker is idle.
LEMMA InitIInv == Init => IInv
BY DEF Init, IInv, Types, Registered, SkipAhead, WorkerForward, AtWork, Idle, Packed,
       notifiers_for_realm, Versions, Latest

\* A commit makes the latest version one larger.
LEMMA CommitGrows ==
  ASSUME Types, NEW T \in SUBSET Notifiers, touched' = Append(touched, T)
  PROVE  Latest' = Latest + 1 /\ Latest \in Nat /\ Latest >= 1
                 /\ touched' \in Seq(SUBSET Notifiers) /\ touched' # <<>>
BY DEF Types, Latest

\* Steps that leave the worker and the coordinator's lists alone preserve the
\* invariant, also when a version is added or a notifier is released.
LEMMA OutsideIInv ==
  ASSUME IInv,
         UNCHANGED <<newNotifiers, notifiers, version, hasRun, worker, sg, skipVersion>>,
         alive' \subseteq alive,
         touched' \in Seq(SUBSET Notifiers), touched' # <<>>,
         Latest' \in Nat, Latest' >= Latest, at' \in 1 .. Latest'
  PROVE  IInv'
<1> USE DEF IInv
<1>1. Latest \in Nat
  BY DEF Types, Latest
<1>2. Versions \subseteq Versions'
  BY <1>1 DEF Versions
<1>3. Types'
  BY <1>2 DEF Types
<1>4. Registered' /\ SkipAhead'
  BY DEF Registered, SkipAhead, AtWork
<1>5. WorkerForward'
  BY DEF WorkerForward, Packed, notifiers_for_realm
<1>6. QED
  BY <1>3, <1>4, <1>5

\* The same, when no version is added.
LEMMA QuietIInv ==
  ASSUME IInv,
         UNCHANGED <<touched, newNotifiers, notifiers, version, hasRun, worker, sg,
                     skipVersion>>,
         alive' \subseteq alive, at' \in 1 .. Latest
  PROVE  IInv'
<1>1. Latest' = Latest /\ Latest \in Nat
  BY DEF IInv, Types, Latest
<1>2. QED
  BY <1>1, OutsideIInv DEF IInv, Types

\* Registering adds a notifier that nobody knows yet.
LEMMA RegisterIInv ==
  ASSUME IInv, NEW n \in Notifiers, register_notifier(n)
  PROVE  IInv'
<1> USE DEF IInv
<1>1. /\ version[n] = 0 /\ version' = [version EXCEPT ![n] = at]
      /\ newNotifiers' = newNotifiers \cup {n} /\ alive' = alive \cup {n}
      /\ UNCHANGED <<touched, at, notifiers, hasRun, worker, sg, skipVersion>>
  BY DEF register_notifier, background
<1>2. Latest' = Latest /\ Latest \in Nat /\ at \in 1 .. Latest
  BY <1>1 DEF Types, Latest
<1>3. Types'
  BY <1>1, <1>2 DEF Types, Versions
<1>4. /\ version'[n] # 0 /\ n \notin notifiers \cup hasRun
      /\ \A m \in Notifiers \ {n} : version'[m] = version[m]
  BY <1>1, <1>2 DEF Types, Registered
<1>5. Registered'
  BY <1>1, <1>4 DEF Types, Registered, AtWork
<1>6. SkipAhead'
  BY <1>1 DEF SkipAhead, AtWork
<1>7. Packed' = Packed
  BY <1>1, <1>4 DEF Packed, notifiers_for_realm
<1>8. n \notin Packed /\ Packed \subseteq Notifiers
  BY <1>4 DEF Packed, Types
<1>9. WorkerForward'
  BY <1>1, <1>4, <1>7, <1>8 DEF WorkerForward
<1>10. QED
  BY <1>3, <1>5, <1>6, <1>9

\* The main thread's commit sets the version to skip to the one it makes.
LEMMA CommitIInv == IInv /\ commit_write => IInv'
<1> SUFFICES ASSUME IInv, commit_write PROVE IInv'
  OBVIOUS
<1> USE DEF IInv
<1>1. PICK T \in SUBSET Notifiers : touched' = Append(touched, T)
  BY DEF commit_write
<1>2. /\ at' = Latest + 1
      /\ skipVersion' = IF notifiers \cap alive # {} THEN Latest + 1 ELSE skipVersion
      /\ UNCHANGED <<newNotifiers, notifiers, alive, version, hasRun, worker, sg>>
  BY DEF commit_write, lists, background
<1>3. /\ Latest' = Latest + 1 /\ Latest \in Nat
      /\ touched' \in Seq(SUBSET Notifiers) /\ touched' # <<>>
  BY <1>1, CommitGrows
<1>4. Versions \subseteq Versions' /\ Latest + 1 \in Versions' /\ Latest + 1 \in 1 .. Latest'
  BY <1>3 DEF Versions
<1>5. Types'
  BY <1>2, <1>3, <1>4 DEF Types
<1>6. Registered'
  BY <1>2 DEF Registered, AtWork
<1>7. sg \in 0 .. Latest /\ worker.version \in 0 .. Latest
  BY DEF Types, Versions
<1>8. SkipAhead'
  BY <1>2, <1>3, <1>7 DEF SkipAhead, AtWork
<1>9. WorkerForward'
  BY <1>2 DEF WorkerForward, Packed, notifiers_for_realm
<1>10. QED
  BY <1>5, <1>6, <1>8, <1>9

\* The worker takes the version to go to and the version to skip.
LEMMA RunIInv == IInv /\ run_async_notifiers => IInv'
<1> SUFFICES ASSUME IInv, run_async_notifiers PROVE IInv'
  OBVIOUS
<1> USE DEF IInv
<1> DEFINE olds == notifiers \cap alive
           news == newNotifiers \cap alive
           noneLeft == olds = {} /\ notifiers # {}
<1>1. /\ worker.pc = "wait"
      /\ UNCHANGED <<touched, at, alive, version, hasRun>>
  BY DEF run_async_notifiers, main
<1>2. Latest' = Latest /\ Latest \in Nat /\ Latest # 0
  BY <1>1 DEF Types, Latest
<1>3. Versions' = Versions /\ 0 \in Versions /\ Latest \in Versions
  BY <1>2 DEF Versions
<1>4. /\ sg \in 0 .. Latest /\ skipVersion \in 0 .. Latest
      /\ olds \subseteq Notifiers /\ news \subseteq Notifiers
  BY DEF Types, Versions
<1>5. CASE olds \cup news = {}
  <2>1. /\ notifiers' = notifiers \cap alive /\ newNotifiers' = newNotifiers \cap alive
        /\ worker' = [worker EXCEPT !.pc = "signal"]
        /\ sg' = IF noneLeft THEN 0 ELSE sg
        /\ skipVersion' = IF noneLeft THEN 0 ELSE skipVersion
    BY <1>5 DEF run_async_notifiers, clean_up_dead_notifiers, skipAfterCleanUp
  <2>2. worker'.pc = "signal"
    BY <2>1 DEF Types
  <2>3. Types'
    BY <1>1, <1>2, <1>3, <2>1, <2>2 DEF Types
  <2>4. Registered' /\ SkipAhead'
    BY <1>1, <2>1, <2>2 DEF Registered, SkipAhead, AtWork
  <2>5. WorkerForward'
    BY <1>1, <1>5, <2>1, <2>2 DEF WorkerForward, Packed, notifiers_for_realm
  <2>6. QED
    BY <2>3, <2>4, <2>5
<1>6. CASE olds \cup news # {}
  <2>1. /\ notifiers' = (notifiers \cup newNotifiers) \cap alive /\ newNotifiers' = {}
        /\ worker' = [pc |-> "skip", version |-> Latest,
                      skip |-> IF noneLeft THEN 0 ELSE skipVersion,
                      olds |-> olds, news |-> news]
        /\ sg' = IF olds = {} THEN Latest ELSE sg
        /\ skipVersion' = 0
    BY <1>6 DEF run_async_notifiers, clean_up_dead_notifiers, skipAfterCleanUp
  <2>2. Types'
    <3>1. worker'.skip \in Versions /\ sg' \in Versions /\ skipVersion' \in Versions
      BY <1>3, <2>1 DEF Types
    <3>2. worker' \in [pc : {"wait", "skip", "run", "signal"}, version : Versions,
                      skip : Versions, olds : SUBSET Notifiers,
                      news : SUBSET Notifiers]
      BY <1>3, <1>4, <2>1 DEF Types
    <3>3. QED
      BY <1>1, <1>2, <1>3, <2>1, <3>1, <3>2 DEF Types
  <2>3. Registered'
    BY <1>1, <1>2, <2>1 DEF Registered, AtWork
  <2>4. SkipAhead'
    BY <2>1 DEF SkipAhead
  <2>5. /\ sg' <= Latest
        /\ worker'.skip # 0 =>
             olds # {} /\ sg' <= worker'.skip /\ worker'.skip <= Latest
    BY <1>2, <1>4, <2>1 DEF SkipAhead, WorkerForward
  <2>6. Packed' \subseteq Packed
    BY <1>1, <2>1 DEF Packed, notifiers_for_realm
  <2>7. WorkerForward'
    BY <1>1, <2>1, <2>5, <2>6 DEF WorkerForward
  <2>8. QED
    BY <2>2, <2>3, <2>4, <2>7
<1>7. QED
  BY <1>5, <1>6

\* The hand-over at the version to skip.
LEMMA SkipIInv == IInv /\ runToSkip => IInv'
<1> SUFFICES ASSUME IInv, runToSkip PROVE IInv'
  OBVIOUS
<1> USE DEF IInv
<1>1. /\ worker.pc = "skip" /\ worker' = [worker EXCEPT !.pc = "run"]
      /\ UNCHANGED <<touched, at, newNotifiers, notifiers, alive, skipVersion>>
  BY DEF runToSkip, main, lists
<1>2. Latest' = Latest /\ Versions' = Versions /\ Latest \in Nat
  BY <1>1 DEF Types, Latest, Versions
<1>3. /\ worker'.pc = "run" /\ worker'.version = worker.version
      /\ worker'.skip = worker.skip
      /\ worker'.olds = worker.olds /\ worker'.news = worker.news
  BY <1>1 DEF Types
<1>4. CASE worker.skip = 0
  <2>1. UNCHANGED <<version, hasRun, sg>>
    BY <1>4 DEF runToSkip
  <2>2. Types'
    BY <1>1, <1>2, <2>1 DEF Types
  <2>3. Registered' /\ SkipAhead'
    BY <1>1, <1>3, <2>1 DEF Registered, SkipAhead, AtWork
  <2>4. WorkerForward'
    BY <1>1, <1>3, <2>1 DEF WorkerForward, Packed, notifiers_for_realm
  <2>5. QED
    BY <2>2, <2>3, <2>4
<1>5. CASE worker.skip # 0
  <2>1. /\ version' = [n \in Notifiers |-> IF n \in worker.olds THEN worker.skip
                                           ELSE version[n]]
        /\ hasRun' = hasRun \cup worker.olds
        /\ sg' = worker.skip
    BY <1>5 DEF runToSkip, prepare_handover
  <2>2. worker.skip \in Versions /\ worker.skip <= worker.version
        /\ worker.skip \in Nat /\ worker.version \in Nat /\ worker.olds \subseteq Notifiers
    BY <1>1, <1>2, <1>5 DEF WorkerForward, Types, Versions
  <2>3. Types'
    BY <1>1, <1>2, <2>1, <2>2 DEF Types
  <2>4. worker.news \cap worker.olds = {}
    BY <1>1 DEF Registered, AtWork
  <2>5. Registered'
    BY <1>1, <1>3, <1>5, <2>1, <2>4 DEF Registered, AtWork, Types
  <2>6. SkipAhead'
    BY <1>1, <1>2, <1>3, <2>1, <2>2 DEF SkipAhead, AtWork, Types, Versions
  <2>7. Packed' \subseteq worker.olds
    BY <1>1, <2>1 DEF Packed, notifiers_for_realm, Registered, AtWork
  <2>8. \A n \in Packed' : version'[n] = worker.skip
    BY <2>1, <2>2, <2>7
  <2>9. WorkerForward'
    BY <1>1, <1>3, <2>1, <2>2, <2>8 DEF WorkerForward
  <2>10. QED
    BY <2>3, <2>5, <2>6, <2>9
<1>6. QED
  BY <1>4, <1>5

\* The last hand-over, after which everyone is at one version.
LEMMA LastIInv == IInv /\ runToVersion => IInv'
<1> SUFFICES ASSUME IInv, runToVersion PROVE IInv'
  OBVIOUS
<1> USE DEF IInv
<1> DEFINE N == worker.olds \cup worker.news
           noneLeft == notifiers \cap alive = {}
<1>1. /\ worker.pc = "run" /\ worker' = [Idle EXCEPT !.pc = "signal"]
      /\ version' = [n \in Notifiers |-> IF n \in N THEN worker.version
                                         ELSE version[n]]
      /\ hasRun' = hasRun \cup N
      /\ notifiers' = notifiers \cap alive /\ newNotifiers' = newNotifiers \cap alive
      /\ sg' = IF noneLeft THEN 0 ELSE worker.version
      /\ skipVersion' = IF noneLeft THEN 0 ELSE skipVersion
      /\ UNCHANGED <<touched, at, alive>>
  BY DEF runToVersion, prepare_handover, clean_up_dead_notifiers, skipAfterCleanUp,
         main
<1>2. Latest' = Latest /\ Versions' = Versions /\ Latest \in Nat /\ 0 \in Versions
  BY <1>1 DEF Types, Latest, Versions
<1>3. worker' = [pc |-> "signal", version |-> 0, skip |-> 0, olds |-> {}, news |-> {}]
  BY <1>1 DEF Idle
<1>4. worker.version \in Versions /\ N \subseteq Notifiers /\ worker.version # 0
  BY <1>1 DEF Types, Registered, AtWork
<1>5. Types'
  <2>1. version' \in [Notifiers -> Versions]
    BY <1>1, <1>4 DEF Types
  <2>2. sg' \in Versions /\ skipVersion' \in Versions
    BY <1>1, <1>2, <1>4 DEF Types
  <2>3. worker' \in [pc : {"wait", "skip", "run", "signal"}, version : Versions,
                    skip : Versions, olds : SUBSET Notifiers,
                    news : SUBSET Notifiers]
    BY <1>2, <1>3
  <2>4. QED
    BY <1>1, <1>2, <1>4, <2>1, <2>2, <2>3 DEF Types
<1>6. Registered'
  BY <1>1, <1>3, <1>4 DEF Registered, AtWork, Types
<1>7. SkipAhead'
  BY <1>1, <1>3, <1>4 DEF SkipAhead, AtWork
<1>8. Packed' \subseteq N
  BY <1>1 DEF Packed, notifiers_for_realm, Registered, AtWork
<1>9. \A n \in Packed' : version'[n] = worker.version
  BY <1>1, <1>4, <1>8
<1>10. WorkerForward'
  BY <1>1, <1>3, <1>9 DEF WorkerForward
<1>11. QED
  BY <1>5, <1>6, <1>7, <1>10

\* Every step preserves the invariant.
LEMMA NextIInv == IInv /\ [Next]_vars => IInv'
<1> SUFFICES ASSUME IInv, [Next]_vars PROVE IInv'
  OBVIOUS
<1>1. at \in 1 .. Latest /\ Latest \in Nat
  BY DEF IInv, Types, Latest
<1>2. ASSUME NEW n \in Notifiers, register_notifier(n) PROVE IInv'
  BY <1>2, RegisterIInv
<1>3. ASSUME NEW n \in Notifiers, unregister(n) PROVE IInv'
  BY <1>1, <1>3, QuietIInv DEF unregister, main, background
<1>4. CASE add_callback
  BY <1>1, <1>4, QuietIInv DEF add_callback, background
<1>5. CASE notify
  BY <1>1, <1>5, QuietIInv DEF notify, lists, background
<1>6. CASE notifyInWrite
  BY <1>1, <1>6, QuietIInv DEF notifyInWrite, main, lists, background
<1>7. CASE process_available_async
  BY <1>1, <1>7, QuietIInv DEF process_available_async, lists, background
<1>8. CASE advance_to_ready
  <2>1. at' \in 1 .. Latest
    <3>1. \A n \in Packed : version[n] \in 0 .. Latest /\ version[n] # 0
      BY DEF IInv, Types, Registered, Packed, notifiers_for_realm, Versions
    <3>2. \/ at' = at \/ at' = Latest
          \/ \E n \in Packed : at' = version[n]
      BY <1>8 DEF advance_to_ready
    <3>3. QED
      BY <1>1, <3>1, <3>2
  <2>2. QED
    BY <1>8, <2>1, QuietIInv DEF advance_to_ready, lists, background
<1>9. CASE begin_transaction
  BY <1>1, <1>9, QuietIInv DEF begin_transaction, lists, background
<1>10. CASE promote_to_write
  BY <1>1, <1>10, QuietIInv DEF promote_to_write, lists, background
<1>11. CASE commit_write
  BY <1>11, CommitIInv
<1>12. CASE cancel_transaction
  BY <1>1, <1>12, QuietIInv DEF cancel_transaction, lists, background
<1>13. CASE announce
  BY <1>1, <1>13, QuietIInv DEF announce, lists, background
<1>14. CASE CommitElsewhere
  <2>1. PICK T \in SUBSET Notifiers : touched' = Append(touched, T)
    BY <1>14 DEF CommitElsewhere
  <2>2. /\ Latest' = Latest + 1 /\ touched' \in Seq(SUBSET Notifiers)
        /\ touched' # <<>>
    BY <2>1, CommitGrows DEF IInv
  <2>3. Latest' \in Nat /\ Latest' >= Latest /\ at \in 1 .. Latest'
    BY <1>1, <2>2
  <2>4. QED
    BY <1>14, <2>2, <2>3, OutsideIInv DEF CommitElsewhere, main, lists, background
<1>15. CASE AnnounceElsewhere
  BY <1>1, <1>15, QuietIInv DEF AnnounceElsewhere, main, lists, background
<1>16. CASE run_async_notifiers
  BY <1>16, RunIInv
<1>17. CASE runToSkip
  BY <1>17, SkipIInv
<1>18. CASE runToVersion
  BY <1>18, LastIInv
<1>19. CASE on_change
  <2>1. /\ worker' = Idle
        /\ UNCHANGED <<touched, at, newNotifiers, notifiers, alive, version, hasRun, sg,
                       skipVersion>>
    BY <1>19 DEF on_change, main, lists
  <2>2. Latest' = Latest /\ Versions' = Versions /\ 0 \in Versions
    BY <1>1, <2>1 DEF Latest, Versions
  <2>3. Types'
    BY <2>1, <2>2 DEF IInv, Types, Idle
  <2>4. Registered' /\ SkipAhead' /\ WorkerForward'
    BY <2>1 DEF IInv, Registered, SkipAhead, WorkerForward, AtWork, Idle, Packed,
         notifiers_for_realm
  <2>5. QED
    BY <2>3, <2>4 DEF IInv
<1>20. CASE UNCHANGED vars
  BY <1>1, <1>20, QuietIInv DEF vars, main, lists, background
<1>21. QED
  BY <1>2, <1>3, <1>4, <1>5, <1>6, <1>7, <1>8, <1>9, <1>10, <1>11, <1>12, <1>13,
     <1>14, <1>15, <1>16, <1>17, <1>18, <1>19, <1>20
     DEF Next, RunLoop, FinishWrite, WorkerStep

-----------------------------------------------------------------------------
(* The theorem.                                                              *)

\* The listener thread never goes backwards, never skips a version for nobody, and
\* packages are of one version (run_async_notifiers, clean_up_dead_notifiers,
\* commit_write), for any lists, suppressed or not, and any number of versions.
THEOREM WorkerAlwaysForward == Spec => []WorkerForward
<1>1. IInv => WorkerForward
  BY DEF IInv
<1>2. QED
  BY <1>1, InitIInv, NextIInv, PTL DEF Spec

-----------------------------------------------------------------------------
(* Copies.                                                                   *)

Nth(S, i) == CHOOSE v \in S : Rank(S, v) = i

\* Ranks in a set of versions that is followed by another one.
LEMMA Ranks ==
  ASSUME NEW A \in SUBSET Nat, NEW B \in SUBSET Nat, IsFiniteSet(A), IsFiniteSet(B),
         \A a \in A, b \in B : a < b
  PROVE  /\ Cardinality(A) \in Nat /\ Cardinality(B) \in Nat
         /\ Cardinality(A \cup B) = Cardinality(A) + Cardinality(B)
         /\ \A v \in A : Rank(A \cup B, v) = Rank(A, v) /\ Rank(A, v) \in 0 .. Cardinality(A)
         /\ \A v \in B : /\ Rank(A \cup B, v) = Cardinality(A) + Rank(B, v)
                         /\ Rank(B, v) \in Nat \ {0}
<1>1. Cardinality(A) \in Nat /\ Cardinality(B) \in Nat
  BY FS_CardinalityType
<1>2. ASSUME NEW C \in SUBSET B
      PROVE  /\ IsFiniteSet(C) /\ Cardinality(C) \in Nat
             /\ Cardinality(A \cup C) = Cardinality(A) + Cardinality(C)
  <2>1. IsFiniteSet(C)
    BY FS_Subset
  <2>2. A \cap C = {}
    <3>1. \A v \in Nat : ~ (v < v)
      OBVIOUS
    <3> QED BY <3>1
  <2>3. Cardinality(C) \in Nat /\ Cardinality(A \cap C) = 0
    BY <2>1, <2>2, FS_CardinalityType, FS_EmptySet
  <2>4. Cardinality(A \cup C) = Cardinality(A) + Cardinality(C) - Cardinality(A \cap C)
    BY <2>1, FS_Union
  <2> QED BY <1>1, <2>1, <2>3, <2>4
<1>3. ASSUME NEW v \in A
      PROVE  Rank(A \cup B, v) = Rank(A, v) /\ Rank(A, v) \in 0 .. Cardinality(A)
  <2>1. Upto(A \cup B, v) = Upto(A, v)
    <3>1. \A w \in B : ~ (w <= v)
      OBVIOUS
    <3> QED BY <3>1 DEF Upto
  <2>2. Upto(A, v) \in SUBSET A
    BY DEF Upto
  <2>3. IsFiniteSet(Upto(A, v)) /\ Cardinality(Upto(A, v)) <= Cardinality(A)
    BY <2>2, FS_Subset
  <2>4. Cardinality(Upto(A, v)) \in Nat
    BY <2>3, FS_CardinalityType
  <2>5. Rank(A \cup B, v) = Rank(A, v)
    BY <2>1, Zenon DEF Rank
  <2>6. Rank(A, v) = Cardinality(Upto(A, v))
    BY DEF Rank
  <2>7. Cardinality(Upto(A, v)) \in 0 .. Cardinality(A)
    BY <1>1, <2>3, <2>4
  <2> QED BY <2>5, <2>6, <2>7
<1>4. ASSUME NEW v \in B
      PROVE  /\ Rank(A \cup B, v) = Cardinality(A) + Rank(B, v)
             /\ Rank(B, v) \in Nat \ {0}
  <2>1. Upto(A \cup B, v) = A \cup Upto(B, v)
    <3>1. \A w \in A : w <= v
      OBVIOUS
    <3> QED BY <3>1 DEF Upto
  <2>2. Upto(B, v) \in SUBSET B /\ v \in Upto(B, v)
    BY DEF Upto
  <2>3. /\ IsFiniteSet(Upto(B, v)) /\ Cardinality(Upto(B, v)) \in Nat
        /\ Cardinality(A \cup Upto(B, v)) = Cardinality(A) + Cardinality(Upto(B, v))
    BY <1>2, <2>2
  <2>4. Cardinality(Upto(B, v)) # 0
    BY <2>2, <2>3, FS_EmptySet
  <2>5. Rank(B, v) = Cardinality(Upto(B, v))
    BY DEF Rank
  <2>6. Rank(A \cup B, v) = Cardinality(A \cup Upto(B, v))
    BY <2>1, Zenon DEF Rank
  <2> QED BY <2>3, <2>4, <2>5, <2>6
<1>5. Cardinality(A \cup B) = Cardinality(A) + Cardinality(B)
  BY <1>2
<1> QED BY <1>1, <1>3, <1>4, <1>5

\* Being told of B after A is holding both.
LEMMA Concatenated ==
  ASSUME NEW A \in SUBSET Nat, NEW B \in SUBSET Nat, IsFiniteSet(A), IsFiniteSet(B),
         \A a \in A, b \in B : a < b
  PROVE  Ascending(A) \o Ascending(B) = Ascending(A \cup B)
<1> DEFINE c == Cardinality(A)
           d == Cardinality(B)
           X == {Nth(A, i) : i \in 1 .. c} \cup {Nth(B, i) : i \in 1 .. d}
           L == Ascending(A) \o Ascending(B)
           R == Ascending(A \cup B)
<1>1. /\ c \in Nat /\ d \in Nat /\ Cardinality(A \cup B) = c + d
      /\ \A v \in A : Rank(A \cup B, v) = Rank(A, v) /\ Rank(A, v) \in 0 .. c
      /\ \A v \in B : Rank(A \cup B, v) = c + Rank(B, v) /\ Rank(B, v) \in Nat \ {0}
  BY Ranks
<1>2. /\ Ascending(A) = [i \in 1 .. c |-> Nth(A, i)]
      /\ Ascending(B) = [i \in 1 .. d |-> Nth(B, i)]
      /\ R = [i \in 1 .. (c + d) |-> Nth(A \cup B, i)]
  <2>1. \A S : Ascending(S) = [i \in 1 .. Cardinality(S) |-> Nth(S, i)]
    BY DEF Ascending, Nth
  <2>2. Cardinality(A \cup B) = c + d
    BY <1>1
  <2> QED BY <2>1, <2>2, Zenon
<1> HIDE DEF c, d
<1>3. ASSUME NEW i \in 1 .. c PROVE Nth(A \cup B, i) = Nth(A, i)
  <2>1. \A v : v \in A \cup B /\ Rank(A \cup B, v) = i <=> v \in A /\ Rank(A, v) = i
    <3>1. \A v \in B : Rank(A \cup B, v) # i
      BY <1>1
    <3>2. \A v \in A : Rank(A \cup B, v) = Rank(A, v)
      BY <1>1
    <3> QED BY <3>1, <3>2
  <2> QED BY <2>1 DEF Nth
<1>4. ASSUME NEW i \in 1 .. d PROVE Nth(A \cup B, c + i) = Nth(B, i)
  <2>1. \A v : v \in A \cup B /\ Rank(A \cup B, v) = c + i <=> v \in B /\ Rank(B, v) = i
    <3>1. \A v \in A : Rank(A \cup B, v) # c + i
      BY <1>1
    <3>2. \A v \in B : Rank(A \cup B, v) = c + i <=> Rank(B, v) = i
      BY <1>1
    <3> QED BY <3>1, <3>2
  <2> QED BY <2>1 DEF Nth
<1>5. /\ Ascending(A) \in Seq(X) /\ Len(Ascending(A)) = c
      /\ Ascending(B) \in Seq(X) /\ Len(Ascending(B)) = d
  <2>1. (\A i \in 1 .. c : Nth(A, i) \in X) /\ (\A i \in 1 .. d : Nth(B, i) \in X)
    OBVIOUS
  <2> HIDE DEF X
  <2>2. /\ [i \in 1 .. c |-> Nth(A, i)] \in Seq(X)
        /\ [i \in 1 .. d |-> Nth(B, i)] \in Seq(X)
    BY <1>1, <2>1
  <2> QED BY <1>1, <1>2, <2>2
<1>6. /\ L \in Seq(X) /\ Len(L) = c + d
      /\ \A i \in 1 .. c : L[i] = Nth(A, i)
      /\ \A i \in 1 .. d : L[c + i] = Nth(B, i)
  BY <1>1, <1>2, <1>5
<1> HIDE DEF L, R, X
<1>7. L = [i \in 1 .. (c + d) |-> L[i]]
  BY <1>1, <1>6
<1>8. ASSUME NEW i \in 1 .. (c + d) PROVE L[i] = R[i]
  <2>1. CASE i \in 1 .. c
    BY <1>1, <1>2, <1>3, <1>6, <2>1
  <2>2. CASE i \notin 1 .. c
    <3>1. i - c \in 1 .. d /\ c + (i - c) = i
      BY <1>1, <2>2
    <3>2. L[i] = Nth(B, i - c)
      BY <1>6, <3>1
    <3>3. Nth(A \cup B, i) = Nth(B, i - c)
      BY <1>4, <3>1
    <3>4. R[i] = Nth(A \cup B, i)
      BY <1>2
    <3> QED BY <3>2, <3>3, <3>4
  <2> QED BY <2>1, <2>2
<1>9. L = R
  BY <1>2, <1>7, <1>8
<1> QED BY <1>9 DEF L, R

-----------------------------------------------------------------------------
(* Nobody asks to skip a version.  What subscribers hold.                    *)

\* Who has a callback is known to the coordinator, and who was called has run.
Subscribed ==
    /\ copy = [n \in Notifiers |-> copy[n]]
    /\ DOMAIN accumulated = Notifiers
    /\ withCallback \subseteq alive /\ initialDelivered \subseteq withCallback \cap hasRun
    /\ alive \subseteq newNotifiers \cup notifiers
    /\ skipNext = {}

\* The notifiers that have run are where m_notifier_sg is.
Together ==
    \A n \in alive :
       /\ ~AtWork /\ n \in notifiers => n \in hasRun /\ version[n] = sg
       /\ AtWork /\ n \in worker.olds => n \in hasRun /\ version[n] = sg

\* The copy is the list of version w, and the changes since wait to be told.
Holds(n, w) == copy[n] = Full(n, w) /\ accumulated[n] = Changes(n, w, version[n])

\* A subscriber that was called once lags behind by what it is about to be told,
\* and only the main thread's own last commit can be ahead of its notifier.
Delivered ==
    \A n \in initialDelivered :
       /\ \E w \in 0 .. version[n] : Holds(n, w)
       /\ version[n] >= at - 1
       /\ version[n] < at => accumulated[n] = {}

\* In a write transaction everyone has been told of everything.
Writing ==
    pc = "writing" =>
       /\ at = Latest
       /\ \A n \in withCallback :
             n \in initialDelivered /\ version[n] = Latest /\ accumulated[n] = {}

Owed == Subscribed /\ Together /\ Delivered /\ Writing

\* A set of versions is finite.
LEMMA ChangesFinite ==
  ASSUME NEW n, NEW a \in Nat, NEW b \in Nat
  PROVE  Changes(n, a, b) \in SUBSET Nat /\ IsFiniteSet(Changes(n, a, b))
<1>1. Changes(n, a, b) \in SUBSET (a + 1 .. b)
  BY DEF Changes
<1>2. IsFiniteSet(a + 1 .. b)
  BY FS_Interval
<1> QED BY <1>1, <1>2, FS_Subset

\* Changes of consecutive spans, and of no span.
LEMMA ChangesJoin ==
  ASSUME NEW n, NEW a \in Nat, NEW b \in Nat, NEW c \in Nat, a <= b, b <= c
  PROVE  Changes(n, a, b) \cup Changes(n, b, c) = Changes(n, a, c) /\ Changes(n, b, b) = {}
BY DEF Changes

\* Being told of the changes from w to v brings a copy from w to v.
LEMMA Told ==
  ASSUME NEW n, NEW w \in Nat, NEW v \in Nat, w <= v
  PROVE  /\ Full(n, w) \o Ascending(Changes(n, w, v)) = Full(n, v)
         /\ Changes(n, w, v) = {} => Full(n, w) = Full(n, v)
<1>1. Changes(n, 0, w) \cup Changes(n, w, v) = Changes(n, 0, v)
  BY ChangesJoin
<1>2. /\ Changes(n, 0, w) \in SUBSET Nat /\ IsFiniteSet(Changes(n, 0, w))
      /\ Changes(n, w, v) \in SUBSET Nat /\ IsFiniteSet(Changes(n, w, v))
  BY ChangesFinite
<1>3. \A a \in Changes(n, 0, w), b \in Changes(n, w, v) : a < b
  BY DEF Changes
<1>4. Ascending(Changes(n, 0, w)) \o Ascending(Changes(n, w, v)) = Ascending(Changes(n, 0, v))
  BY <1>1, <1>2, <1>3, Concatenated
<1>5. Changes(n, w, v) = {} => Changes(n, 0, w) = Changes(n, 0, v)
  BY <1>1
<1> QED BY <1>4, <1>5 DEF Full

\* A commit changes no version there was.
LEMMA HistoryKept ==
  ASSUME Types, touched' = touched \/ \E T \in SUBSET Notifiers : touched' = Append(touched, T),
         NEW n, NEW a \in Nat, NEW b \in 0 .. Latest
  PROVE  Changes(n, a, b)' = Changes(n, a, b) /\ Full(n, b)' = Full(n, b)
<1>1. \A v \in 1 .. Latest : touched'[v] = touched[v]
  BY DEF Types, Latest
<1>2. Latest \in Nat
  BY DEF Types, Latest
<1>3. \A c \in Nat : Changes(n, c, b)' = Changes(n, c, b)
  BY <1>1, <1>2 DEF Changes
<1> QED BY <1>3 DEF Full

\* The types, as numbers.
LEMMA Numbers ==
  ASSUME Types
  PROVE  /\ Latest \in Nat /\ at \in 1 .. Latest /\ at \in Nat /\ sg \in 0 .. Latest
         /\ \A n \in Notifiers : version[n] \in 0 .. Latest /\ version[n] \in Nat
         /\ worker.version \in 0 .. Latest /\ worker.skip \in 0 .. Latest
BY DEF Types, Latest, Versions

\* Whoever was called is among the notifiers that have run, and is packaged.
LEMMA CalledRan ==
  ASSUME IInv, Owed, NEW n \in initialDelivered
  PROVE  /\ n \in Notifiers /\ n \in withCallback /\ n \in alive /\ n \in hasRun
         /\ n \in notifiers /\ n \in Packed /\ version[n] = sg
         /\ AtWork => n \in worker.olds /\ n \notin worker.news
<1>1. /\ n \in Notifiers /\ n \in withCallback /\ n \in alive /\ n \in hasRun
      /\ n \in newNotifiers \cup notifiers
  BY DEF IInv, Types, Owed, Subscribed
<1>2. n \in notifiers
  BY <1>1 DEF IInv, Registered
<1>3. AtWork => n \in worker.olds /\ n \notin worker.news
  BY <1>1, <1>2 DEF IInv, Registered
<1>4. version[n] = sg
  BY <1>1, <1>2, <1>3 DEF Owed, Together
<1> QED BY <1>1, <1>2, <1>3, <1>4 DEF Packed, notifiers_for_realm

\* Steps that tell nobody anything and leave the notifiers where they are.
LEMMA CalmOwed ==
  ASSUME IInv, Owed,
         UNCHANGED <<at, newNotifiers, notifiers, alive, withCallback, version, hasRun,
                     accumulated, skipNext, initialDelivered, copy, sg>>,
         \/ touched' = touched
         \/ pc' # "writing" /\ \E T \in SUBSET Notifiers : touched' = Append(touched, T),
         worker' = worker \/ (~AtWork /\ ~AtWork'),
         pc' = "writing" => pc = "writing"
  PROVE  Owed'
<1>1. Subscribed'
  BY DEF Owed, Subscribed
<1>2. Together'
  BY DEF Owed, Together, AtWork
<1>3. Delivered'
  <2> SUFFICES ASSUME NEW n \in initialDelivered
               PROVE  /\ \E w \in 0 .. version[n] : Holds(n, w)'
                      /\ version[n] >= at - 1
                      /\ version[n] < at => accumulated[n] = {}
    BY DEF Delivered
  <2>1. PICK w \in 0 .. version[n] : Holds(n, w)
    BY DEF Owed, Delivered
  <2>2. version[n] \in 0 .. Latest /\ w \in 0 .. Latest /\ w \in Nat
    BY CalledRan, Numbers DEF IInv
  <2>3. Changes(n, w, version[n])' = Changes(n, w, version[n]) /\ Full(n, w)' = Full(n, w)
    <3>1. \A b \in 0 .. Latest : Changes(n, w, b)' = Changes(n, w, b) /\ Full(n, b)' = Full(n, b)
      BY <2>2, HistoryKept DEF IInv
    <3>2. Changes(n, w, version[n])' = {v \in w + 1 .. version[n] : n \in touched'[v]}
      BY DEF Changes
    <3>3. \A b : Changes(n, w, b)' = {v \in w + 1 .. b : n \in touched'[v]}
      BY DEF Changes
    <3> QED BY <2>2, <3>1, <3>2, <3>3
  <2>4. Holds(n, w)'
    BY <2>1, <2>3 DEF Holds
  <2> QED BY <2>4 DEF Owed, Delivered
<1>4. Writing'
  BY DEF Owed, Writing, Latest
<1> QED BY <1>1, <1>2, <1>3, <1>4 DEF Owed

\* No version is added and nobody's copy or changes are touched: what holds of the
\* subscribers that stay goes on holding.
LEMMA DeliveredKept ==
  ASSUME IInv, Owed, UNCHANGED <<touched, at>>, initialDelivered' \subseteq initialDelivered,
         \A n \in initialDelivered' : /\ version'[n] = version[n] /\ copy'[n] = copy[n]
                                      /\ accumulated'[n] = accumulated[n]
  PROVE  Delivered'
<1> SUFFICES ASSUME NEW n \in initialDelivered'
             PROVE  /\ \E w \in 0 .. version'[n] : Holds(n, w)'
                    /\ version'[n] >= at' - 1
                    /\ version'[n] < at' => accumulated'[n] = {}
  BY DEF Delivered
<1>1. /\ version'[n] = version[n] /\ copy'[n] = copy[n]
      /\ accumulated'[n] = accumulated[n] /\ n \in initialDelivered
  OBVIOUS
<1>2. PICK w \in 0 .. version[n] : Holds(n, w)
  BY <1>1 DEF Owed, Delivered
<1>3. Full(n, w)' = Full(n, w)
  BY DEF Full, Changes
<1>4. Holds(n, w)'
  BY <1>1, <1>2, <1>3 DEF Holds, Changes
<1> QED BY <1>1, <1>2, <1>4 DEF Owed, Delivered

\* Registering: nobody new has a callback yet.
LEMMA RegisterOwed ==
  ASSUME IInv, Owed, NEW n \in Notifiers, register_notifier(n)
  PROVE  Owed'
<1>1. /\ version[n] = 0 /\ version' = [version EXCEPT ![n] = at]
      /\ newNotifiers' = newNotifiers \cup {n} /\ alive' = alive \cup {n}
      /\ pc' = "registering"
      /\ UNCHANGED <<touched, at, notifiers, withCallback, hasRun, accumulated, skipNext,
                     initialDelivered, copy, worker, sg>>
  BY DEF register_notifier, background, callbacks
<1>2. n \notin notifiers /\ n \notin hasRun /\ (AtWork => n \notin worker.olds)
  BY <1>1 DEF IInv, Registered
<1>3. \A m \in Notifiers \ {n} : version'[m] = version[m]
  BY <1>1 DEF IInv, Types
<1>4. Subscribed'
  BY <1>1 DEF Owed, Subscribed
<1>5. Together'
  <2> SUFFICES ASSUME NEW m \in alive'
               PROVE  /\ ~AtWork' /\ m \in notifiers' => m \in hasRun' /\ version'[m] = sg'
                      /\ AtWork' /\ m \in worker'.olds => m \in hasRun' /\ version'[m] = sg'
    BY DEF Together
  <2>1. AtWork' <=> AtWork
    BY <1>1 DEF AtWork
  <2>2. CASE m = n
    BY <1>1, <1>2, <2>1, <2>2
  <2>3. CASE m # n
    <3>1. m \in alive /\ version'[m] = version[m]
      BY <1>1, <1>3, <2>3 DEF IInv, Types
    <3> QED BY <1>1, <2>1, <3>1 DEF Owed, Together
  <2> QED BY <2>2, <2>3
<1>6. \A m \in initialDelivered : m \in hasRun /\ m \in Notifiers
  BY DEF IInv, Types, Owed, Subscribed
<1>7. \A m \in initialDelivered : version'[m] = version[m]
  BY <1>2, <1>3, <1>6
<1>8. Delivered'
  BY <1>1, <1>7, DeliveredKept
<1>9. Writing'
  BY <1>1 DEF Writing
<1> QED BY <1>4, <1>5, <1>8, <1>9 DEF Owed

\* A new subscriber loads its list; it has not been called.
LEMMA CallbackOwed ==
  ASSUME IInv, Owed, add_callback
  PROVE  Owed'
<1>1. PICK n \in alive \ withCallback :
         /\ withCallback' = withCallback \cup {n}
         /\ copy' = [copy EXCEPT ![n] = Full(n, at)]
  BY DEF add_callback
<1>2. /\ pc' = "idle"
      /\ UNCHANGED <<touched, at, newNotifiers, notifiers, alive, version, hasRun,
                     accumulated, skipNext, initialDelivered, worker, sg>>
  BY DEF add_callback, background
<1>3. n \notin initialDelivered
  BY DEF Owed, Subscribed
<1>4. \A m \in initialDelivered : copy'[m] = copy[m]
  BY <1>1, <1>3 DEF Owed, Subscribed, IInv, Types
<1>5. Subscribed'
  BY <1>1, <1>2 DEF Owed, Subscribed
<1>6. Together'
  BY <1>2 DEF Owed, Together, AtWork
<1>7. Delivered'
  BY <1>2, <1>4, DeliveredKept
<1>8. Writing'
  BY <1>2 DEF Writing
<1> QED BY <1>5, <1>6, <1>7, <1>8 DEF Owed

\* A subscriber that leaves takes its copy with it.
LEMMA UnregisterOwed ==
  ASSUME IInv, Owed, NEW n \in Notifiers, unregister(n)
  PROVE  Owed'
<1>1. /\ pc = "idle" /\ pc' = pc
      /\ alive' = alive \ {n} /\ withCallback' = withCallback \ {n}
      /\ initialDelivered' = initialDelivered \ {n} /\ skipNext' = skipNext \ {n}
      /\ accumulated' = [accumulated EXCEPT ![n] = {}]
      /\ copy' = [copy EXCEPT ![n] = <<>>]
      /\ UNCHANGED <<touched, at, newNotifiers, notifiers, version, hasRun, worker, sg>>
  BY DEF unregister, main, background
<1>2. Subscribed'
  BY <1>1 DEF Owed, Subscribed
<1>3. Together'
  BY <1>1 DEF Owed, Together, AtWork
<1>4. \A m \in initialDelivered' : copy'[m] = copy[m] /\ accumulated'[m] = accumulated[m]
  BY <1>1 DEF Owed, Subscribed, IInv, Types
<1>5. Delivered'
  BY <1>1, <1>4, DeliveredKept
<1>6. Writing'
  BY <1>1 DEF Writing
<1> QED BY <1>2, <1>3, <1>5, <1>6 DEF Owed

-----------------------------------------------------------------------------
(* Delivery.                                                                 *)

\* The notifiers of a package are at the version v that the Realm goes to: whoever
\* has a callback holds that version afterwards, called or not.
LEMMA Delivering ==
  ASSUME IInv, Owed, NEW P \in SUBSET Packed, NEW v \in Nat,
         \A n \in P \cap withCallback : version[n] = v,
         package(P), deliver(P, v)
  PROVE  /\ initialDelivered' = initialDelivered \cup (P \cap withCallback)
         /\ copy' = [n \in Notifiers |-> IF n \in P \cap withCallback THEN Full(n, v)
                                         ELSE copy[n]]
         /\ accumulated' = [n \in Notifiers |-> IF n \in P THEN {} ELSE accumulated[n]]
<1> DEFINE called == {n \in P \cap withCallback :
                        n \notin initialDelivered \/ accumulated[n] # {}}
<1>1. /\ initialDelivered' = initialDelivered \cup called
      /\ copy' = [n \in Notifiers |->
                      IF n \notin called THEN copy[n]
                      ELSE IF n \notin initialDelivered THEN Full(n, v)
                      ELSE copy[n] \o Ascending(accumulated[n])]
  BY DEF deliver
<1>2. initialDelivered' = initialDelivered \cup (P \cap withCallback)
  BY <1>1
<1>3. ASSUME NEW n \in P \cap withCallback, n \in initialDelivered
      PROVE  /\ copy[n] \o Ascending(accumulated[n]) = Full(n, v)
             /\ accumulated[n] = {} => copy[n] = Full(n, v)
  <2>1. PICK w \in 0 .. version[n] : Holds(n, w)
    BY <1>3 DEF Owed, Delivered
  <2>2. w \in Nat /\ w <= v
    BY <2>1
  <2>3. copy[n] = Full(n, w) /\ accumulated[n] = Changes(n, w, v)
    BY <2>1 DEF Holds
  <2>4. /\ Full(n, w) \o Ascending(Changes(n, w, v)) = Full(n, v)
        /\ Changes(n, w, v) = {} => Full(n, w) = Full(n, v)
    BY <2>2, Told
  <2> QED BY <2>3, <2>4
<1> HIDE DEF called
<1>4. ASSUME NEW n \in Notifiers
      PROVE  copy'[n] = IF n \in P \cap withCallback THEN Full(n, v) ELSE copy[n]
  <2>1. CASE n \notin P \cap withCallback
    BY <1>1, <2>1 DEF called
  <2>2. CASE n \in P \cap withCallback /\ n \notin initialDelivered
    BY <1>1, <2>2 DEF called
  <2>3. CASE n \in P \cap withCallback /\ n \in initialDelivered
    <3>1. CASE n \in called
      BY <1>1, <1>3, <2>3, <3>1
    <3>2. CASE n \notin called
      <4>1. accumulated[n] = {}
        BY <2>3, <3>2 DEF called
      <4> QED BY <1>1, <1>3, <2>3, <3>2, <4>1
    <3> QED BY <3>1, <3>2
  <2> QED BY <2>1, <2>2, <2>3
<1>5. copy' = [n \in Notifiers |-> copy'[n]]
  BY <1>1
<1> QED BY <1>2, <1>4, <1>5 DEF package

\* Delivery at a version at or after the Realm's, to everyone who was called
\* before when it is after it.
LEMMA DeliveringOwed ==
  ASSUME IInv, Owed, NEW P \in SUBSET Packed, NEW v \in Nat, v >= at,
         \A n \in P \cap withCallback : version[n] = v,
         package(P), deliver(P, v), at' = v,
         v > at => initialDelivered \subseteq P,
         UNCHANGED <<touched, newNotifiers, notifiers, alive, withCallback, version, hasRun,
                     skipNext, worker, sg>>
  PROVE  /\ Subscribed' /\ Together' /\ Delivered'
         /\ initialDelivered' = initialDelivered \cup (P \cap withCallback)
         /\ accumulated' = [n \in Notifiers |-> IF n \in P THEN {} ELSE accumulated[n]]
<1>1. /\ initialDelivered' = initialDelivered \cup (P \cap withCallback)
      /\ copy' = [n \in Notifiers |-> IF n \in P \cap withCallback THEN Full(n, v)
                                      ELSE copy[n]]
      /\ accumulated' = [n \in Notifiers |-> IF n \in P THEN {} ELSE accumulated[n]]
  BY Delivering
<1>2. P \subseteq hasRun /\ P \subseteq Notifiers
  BY DEF Packed, IInv, Types
<1>3. Subscribed'
  BY <1>1, <1>2 DEF Owed, Subscribed
<1>4. Together'
  BY DEF Owed, Together, AtWork
<1>5. Delivered'
  <2> SUFFICES ASSUME NEW n \in initialDelivered'
               PROVE  /\ \E w \in 0 .. version[n] : Holds(n, w)'
                      /\ version[n] >= v - 1
                      /\ version[n] < v => accumulated'[n] = {}
    BY DEF Delivered
  <2>1. \A w : Full(n, w)' = Full(n, w) /\ \A b : Changes(n, w, b)' = Changes(n, w, b)
    BY DEF Full, Changes
  <2>2. n \in Notifiers /\ at \in Nat
    BY <1>1, <1>2, CalledRan, Numbers DEF IInv
  <2>3. CASE n \in P \cap withCallback
    <3>1. version[n] = v /\ copy'[n] = Full(n, v) /\ accumulated'[n] = {}
      BY <1>1, <2>2, <2>3
    <3>2. Changes(n, v, v) = {}
      BY ChangesJoin
    <3>3. Holds(n, v)'
      BY <2>1, <3>1, <3>2 DEF Holds
    <3> QED BY <3>1, <3>3
  <2>4. CASE n \notin P \cap withCallback
    <3>1. n \in initialDelivered /\ n \in withCallback
      BY <1>1, <2>4, CalledRan
    <3>2. n \notin P /\ v = at
      BY <2>2, <2>4, <3>1
    <3>3. copy'[n] = copy[n] /\ accumulated'[n] = accumulated[n]
      BY <1>1, <2>2, <2>4, <3>2
    <3>4. PICK w \in 0 .. version[n] : Holds(n, w)
      BY <3>1 DEF Owed, Delivered
    <3>5. Holds(n, w)'
      <4>1. version'[n] = version[n]
        OBVIOUS
      <4> QED BY <2>1, <3>3, <3>4, <4>1 DEF Holds, Changes
    <3> QED BY <3>1, <3>2, <3>3, <3>5 DEF Owed, Delivered
  <2> QED BY <2>3, <2>4
<1> QED BY <1>1, <1>3, <1>4, <1>5

\* Delivery without a newer version.
LEMMA ProcessOwed ==
  ASSUME IInv, Owed, process_available_async
  PROVE  Owed'
<1> DEFINE P == {n \in Packed : version[n] = at}
<1>1. /\ package(P) /\ deliver(P, at) /\ pc' = "idle"
      /\ UNCHANGED <<touched, at, newNotifiers, notifiers, alive, withCallback, version,
                     hasRun, skipNext, worker, sg>>
  BY DEF process_available_async, lists, background
<1>2. /\ P \in SUBSET Packed /\ at \in Nat /\ at >= at /\ at' = at
      /\ \A n \in P \cap withCallback : version[n] = at
  BY <1>1, Numbers DEF IInv
<1> HIDE DEF P
<1>3. ~ (at > at)
  BY <1>2
<1>4. Subscribed' /\ Together' /\ Delivered'
  BY <1>1, <1>2, <1>3, DeliveringOwed
<1>5. Writing'
  BY <1>1 DEF Writing
<1> QED BY <1>4, <1>5 DEF Owed

\* What the Realm finds when there is a newer version: packages that are behind it
\* say nothing, packages that are not have one version, and without packages there
\* is no subscriber it has called.
LEMMA AdvanceCases ==
  ASSUME IInv, Owed, advance_to_ready
  PROVE  \/ /\ UNCHANGED <<at, initialDelivered, copy>>
            /\ \A n \in initialDelivered : accumulated'[n] = accumulated[n]
         \/ /\ at' \in Nat /\ at' >= at /\ deliver(Packed, at')
            /\ \A n \in Packed \cap withCallback : version[n] = at'
         \/ /\ Packed = {} /\ initialDelivered = {} /\ at' = Latest
            /\ UNCHANGED <<initialDelivered, copy>>
<1>1. package(Packed)
  BY DEF advance_to_ready
<1>2. Packed \subseteq Notifiers /\ at \in Nat
  BY Numbers DEF IInv, Types, Packed
<1>3. ASSUME NEW n \in Packed, version[n] < at, UNCHANGED <<at, initialDelivered, copy>>
      PROVE  \A m \in initialDelivered : accumulated'[m] = accumulated[m]
  <2>1. \A m \in initialDelivered : m \in Packed /\ m \in Notifiers
    BY CalledRan
  <2>2. \A m \in initialDelivered : version[m] = version[n]
    BY <2>1 DEF IInv, WorkerForward
  <2>3. \A m \in initialDelivered : accumulated[m] = {}
    BY <1>3, <2>2 DEF Owed, Delivered
  <2> QED BY <1>1, <2>1, <2>3 DEF package
<1>4. ASSUME NEW n \in Packed, ~ (version[n] < at), at' = version[n]
      PROVE  /\ at' \in Nat /\ at' >= at
             /\ \A m \in Packed \cap withCallback : version[m] = at'
  <2>1. version[n] \in Nat
    BY <1>2, Numbers DEF IInv
  <2>2. \A m \in Packed \cap withCallback : version[m] = version[n]
    BY DEF IInv, WorkerForward
  <2> QED BY <1>2, <1>4, <2>1, <2>2
<1>5. Packed = {} => initialDelivered = {}
  BY CalledRan
<1>6. \/ \E n \in Packed :
             \/ version[n] < at /\ UNCHANGED <<at, initialDelivered, copy>>
             \/ ~ (version[n] < at) /\ at' = version[n] /\ deliver(Packed, version[n])
      \/ /\ Packed = {}
         /\ at' = Latest
         /\ UNCHANGED <<initialDelivered, copy>>
  BY DEF advance_to_ready
<1>7. CASE \E n \in Packed : version[n] < at /\ UNCHANGED <<at, initialDelivered, copy>>
  BY <1>3, <1>7
<1>8. CASE \E n \in Packed :
              ~ (version[n] < at) /\ at' = version[n] /\ deliver(Packed, version[n])
  <2>1. PICK n \in Packed :
          ~ (version[n] < at) /\ at' = version[n] /\ deliver(Packed, version[n])
    BY <1>8
  <2>2. deliver(Packed, at')
    BY <2>1, Zenon
  <2> QED BY <1>4, <2>1, <2>2
<1>9. CASE Packed = {} /\ at' = Latest /\ UNCHANGED <<initialDelivered, copy>>
  BY <1>5, <1>9
<1> QED BY <1>6, <1>7, <1>8, <1>9

\* Delivery with a newer version.
LEMMA AdvanceOwed ==
  ASSUME IInv, Owed, advance_to_ready
  PROVE  Owed'
<1>1. /\ pc = "idle" /\ pc' = pc /\ package(Packed)
      /\ UNCHANGED <<touched, newNotifiers, notifiers, alive, withCallback, version,
                     hasRun, skipNext, worker, sg>>
  BY DEF advance_to_ready, lists, background
<1>2. Writing'
  BY <1>1 DEF Writing
<1>3. Together' /\ DOMAIN accumulated' = Notifiers
  BY <1>1 DEF Owed, Together, AtWork, package
<1>4. CASE UNCHANGED <<at, initialDelivered, copy>>
           /\ \A n \in initialDelivered : accumulated'[n] = accumulated[n]
  <2>1. Subscribed'
    BY <1>1, <1>3, <1>4 DEF Owed, Subscribed
  <2>2. Delivered'
    BY <1>1, <1>4, DeliveredKept
  <2> QED BY <1>2, <1>3, <2>1, <2>2 DEF Owed
<1>5. CASE /\ at' \in Nat /\ at' >= at /\ deliver(Packed, at')
           /\ \A n \in Packed \cap withCallback : version[n] = at'
  <2>1. initialDelivered \subseteq Packed
    BY CalledRan
  <2>2. PICK v \in Nat : v = at'
    BY <1>5
  <2>3. /\ v >= at /\ deliver(Packed, v) /\ at' = v
        /\ \A n \in Packed \cap withCallback : version[n] = v
    BY <1>5, <2>2, Zenon
  <2>4. Subscribed' /\ Delivered'
    BY <1>1, <2>1, <2>3, DeliveringOwed
  <2> QED BY <1>2, <1>3, <2>4 DEF Owed
<1>6. CASE /\ Packed = {} /\ initialDelivered = {} /\ at' = Latest
           /\ UNCHANGED <<initialDelivered, copy>>
  <2>1. Subscribed'
    BY <1>1, <1>3, <1>6 DEF Owed, Subscribed
  <2>2. Delivered'
    BY <1>6 DEF Delivered
  <2> QED BY <1>2, <1>3, <2>1, <2>2 DEF Owed
<1> QED BY <1>4, <1>5, <1>6, AdvanceCases

\* What promote_to_write waits for is that everyone with a callback is packaged at
\* the latest version.
LEMMA ReadyPacked ==
  ASSUME IInv, Owed, Ready
  PROVE  \A n \in withCallback : n \in Packed /\ n \in Notifiers /\ version[n] = Latest
<1> SUFFICES ASSUME NEW n \in withCallback
             PROVE  n \in Packed /\ n \in Notifiers /\ version[n] = Latest
  OBVIOUS
<1>1. n \in Notifiers /\ n \in notifiers_for_realm
  BY DEF Owed, Subscribed, IInv, Types, notifiers_for_realm
<1>2. n \in hasRun /\ version[n] >= Latest
  BY <1>1 DEF Ready
<1>3. version[n] \in 0 .. Latest /\ Latest \in Nat
  BY <1>1, Numbers DEF IInv
<1> QED BY <1>1, <1>2, <1>3 DEF Packed

\* The start of a write transaction tells everyone of everything.
LEMMA PromoteOwed ==
  ASSUME IInv, Owed, promote_to_write
  PROVE  Owed'
<1>1. /\ Ready /\ package(Packed) /\ deliver(Packed, Latest) /\ at' = Latest
      /\ UNCHANGED <<touched, newNotifiers, notifiers, alive, withCallback, version,
                     hasRun, skipNext, worker, sg>>
  BY DEF promote_to_write, lists, background
<1>2. \A n \in withCallback : n \in Packed /\ n \in Notifiers /\ version[n] = Latest
  BY <1>1, ReadyPacked
<1>3. Latest \in Nat /\ Latest >= at /\ initialDelivered \subseteq Packed
  BY Numbers, CalledRan DEF IInv
<1>4. \A n \in Packed \cap withCallback : version[n] = Latest
  BY <1>2
<1>5. /\ Subscribed' /\ Together' /\ Delivered'
      /\ initialDelivered' = initialDelivered \cup (Packed \cap withCallback)
      /\ accumulated' = [n \in Notifiers |-> IF n \in Packed THEN {} ELSE accumulated[n]]
  BY <1>1, <1>3, <1>4, DeliveringOwed
<1>6. Latest' = Latest
  BY <1>1 DEF Latest
<1>7. Writing'
  <2>1. \A n \in withCallback : accumulated'[n] = {} /\ n \in initialDelivered'
    BY <1>2, <1>5
  <2> QED BY <1>1, <1>2, <1>6, <2>1 DEF Writing
<1> QED BY <1>5, <1>7 DEF Owed

\* A commit of the main thread's own: everyone holds the version before it.
LEMMA CommitOwed ==
  ASSUME IInv, Owed, Suppressible = {}, commit_write
  PROVE  Owed' /\ UNCHANGED copy
<1>1. PICK T \in SUBSET Notifiers, S \in SUBSET (Suppressible \cap withCallback) :
          /\ touched' = Append(touched, T)
          /\ skipNext' = skipNext \cup S
          /\ copy' = [n \in Notifiers |-> IF n \in S \cap T
                                          THEN Append(copy[n], Latest + 1)
                                          ELSE copy[n]]
  BY DEF commit_write
<1>2. S = {}
  BY <1>1
<1>3. skipNext' = skipNext /\ copy' = [n \in Notifiers |-> copy[n]]
  BY <1>1, <1>2
<1>4. /\ pc = "writing" /\ pc' = "committed" /\ at' = Latest + 1
      /\ UNCHANGED <<newNotifiers, notifiers, alive, withCallback, version, hasRun,
                     accumulated, initialDelivered, worker, sg>>
  BY DEF commit_write, lists, background
<1>5. Subscribed'
  BY <1>3, <1>4 DEF Owed, Subscribed
<1>6. Together'
  BY <1>4 DEF Owed, Together, AtWork
<1>7. Delivered'
  <2> SUFFICES ASSUME NEW n \in initialDelivered
               PROVE  /\ \E w \in 0 .. version'[n] : Holds(n, w)'
                      /\ version'[n] >= at' - 1
                      /\ version'[n] < at' => accumulated'[n] = {}
    BY <1>4 DEF Delivered
  <2>1. n \in Notifiers /\ n \in withCallback /\ Latest \in Nat /\ version[n] \in 0 .. Latest
    BY CalledRan, Numbers DEF IInv
  <2>2. version[n] = Latest /\ accumulated[n] = {}
    BY <1>4, <2>1 DEF Owed, Writing
  <2>3. PICK w \in 0 .. version[n] : Holds(n, w)
    BY DEF Owed, Delivered
  <2>4. w \in Nat /\ w \in 0 .. Latest
    BY <2>1
  <2>5. Full(n, w)' = Full(n, w)
    BY <1>1, <2>4, HistoryKept DEF IInv
  <2>6. Changes(n, w, version[n])' = Changes(n, w, version[n])
    <3>1. \A b \in 0 .. Latest : Changes(n, w, b)' = Changes(n, w, b)
      BY <1>1, <2>4, HistoryKept DEF IInv
    <3>2. \A b : Changes(n, w, b)' = {v \in w + 1 .. b : n \in touched'[v]}
      BY DEF Changes
    <3>3. Changes(n, w, version[n])' = {v \in w + 1 .. version[n] : n \in touched'[v]}
      BY <1>4 DEF Changes
    <3> QED BY <2>1, <3>1, <3>2, <3>3
  <2>7. Holds(n, w)'
    BY <1>3, <1>4, <2>1, <2>3, <2>5, <2>6 DEF Holds
  <2> QED BY <1>4, <2>1, <2>2, <2>7
<1>8. Writing'
  BY <1>4 DEF Writing
<1>9. copy = [n \in Notifiers |-> copy[n]]
  BY DEF Owed, Subscribed
<1> QED BY <1>3, <1>5, <1>6, <1>7, <1>8, <1>9 DEF Owed

-----------------------------------------------------------------------------
(* The listener thread.                                                      *)

\* The worker takes over the new notifiers.
LEMMA RunOwed ==
  ASSUME IInv, Owed, run_async_notifiers
  PROVE  Owed'
<1> DEFINE olds == notifiers \cap alive
           news == newNotifiers \cap alive
<1>1. /\ worker.pc = "wait"
      /\ UNCHANGED <<touched, at, pc, alive, withCallback, version, hasRun, accumulated,
                     skipNext, initialDelivered, copy>>
  BY DEF run_async_notifiers, main, callbacks
<1>2. /\ notifiers' \cup newNotifiers' = (notifiers \cup newNotifiers) \cap alive
  BY DEF run_async_notifiers, clean_up_dead_notifiers
<1>3. Subscribed'
  BY <1>1, <1>2 DEF Owed, Subscribed
<1>4. Delivered'
  BY <1>1, DeliveredKept
<1>5. Writing'
  BY <1>1 DEF Owed, Writing, Latest
<1>6. \A n \in olds : n \in hasRun /\ version[n] = sg
  BY <1>1 DEF Owed, Together, AtWork
<1>7. CASE olds \cup news = {}
  <2>1. notifiers' = olds /\ worker' = [worker EXCEPT !.pc = "signal"]
    BY <1>7 DEF run_async_notifiers, clean_up_dead_notifiers
  <2>2. worker'.pc = "signal" /\ notifiers' = {}
    BY <1>7, <2>1 DEF IInv, Types
  <2>3. Together'
    BY <2>2 DEF Together, AtWork
  <2> QED BY <1>3, <1>4, <1>5, <2>3 DEF Owed
<1>8. CASE olds \cup news # {}
  <2>1. /\ worker' = [pc |-> "skip", version |-> Latest,
                      skip |-> skipAfterCleanUp(olds = {} /\ notifiers # {}),
                      olds |-> olds, news |-> news]
        /\ sg' = IF olds = {} THEN Latest ELSE sg
    BY <1>8 DEF run_async_notifiers
  <2>2. worker'.pc = "skip" /\ worker'.olds = olds
    BY <2>1
  <2>3. Together'
    <3> SUFFICES ASSUME NEW n \in olds PROVE n \in hasRun' /\ version'[n] = sg'
      BY <2>2 DEF Together, AtWork
    <3> QED BY <1>1, <1>6, <2>1
  <2> QED BY <1>3, <1>4, <1>5, <2>3 DEF Owed
<1> QED BY <1>7, <1>8

\* A hand-over brings the notifiers that have run from sg to v, and gives their
\* subscribers the changes between.
LEMMA Handover ==
  ASSUME IInv, Owed, AtWork, NEW N \in SUBSET Notifiers, NEW from, NEW v \in Nat,
         sg <= v, v <= Latest,
         worker.olds \subseteq N,
         \A n \in worker.olds : from[n] = sg,
         prepare_handover(N, from, v),
         UNCHANGED <<touched, at, pc, alive, withCallback, initialDelivered, copy>>
  PROVE  /\ Delivered' /\ Writing'
         /\ DOMAIN accumulated' = Notifiers /\ skipNext' = {} /\ hasRun \subseteq hasRun'
<1>1. /\ version' = [n \in Notifiers |-> IF n \in N THEN v ELSE version[n]]
      /\ accumulated' = [n \in Notifiers |->
                           IF n \in (N \cap withCallback) \ skipNext
                           THEN accumulated[n] \cup Changes(n, from[n], v)
                           ELSE accumulated[n]]
      /\ hasRun' = hasRun \cup N /\ skipNext' = skipNext \ N
  BY DEF prepare_handover
<1>2. skipNext = {}
  BY DEF Owed, Subscribed
<1>3. sg \in Nat /\ at \in Nat /\ Latest \in Nat
  BY Numbers DEF IInv
<1>4. ASSUME NEW n \in initialDelivered
      PROVE  /\ n \in Notifiers /\ version[n] = sg /\ version'[n] = v
             /\ accumulated'[n] = accumulated[n] \cup Changes(n, sg, v)
             /\ v = sg => accumulated'[n] = accumulated[n]
  <2>1. n \in Notifiers /\ n \in withCallback /\ version[n] = sg /\ n \in worker.olds
    BY CalledRan
  <2>2. from[n] = sg /\ n \in N
    BY <2>1
  <2>3. version'[n] = v
    BY <1>1, <2>1, <2>2
  <2>4. accumulated'[n] = accumulated[n] \cup Changes(n, from[n], v)
    BY <1>1, <1>2, <2>1, <2>2
  <2>5. Changes(n, sg, sg) = {}
    BY <1>3, ChangesJoin
  <2>6. v = sg => Changes(n, sg, v) = {}
    BY <2>5
  <2>7. accumulated'[n] = accumulated[n] \cup Changes(n, sg, v)
    BY <2>2, <2>4
  <2> QED BY <2>1, <2>3, <2>6, <2>7
<1>5. Delivered'
  <2> SUFFICES ASSUME NEW n \in initialDelivered
               PROVE  /\ \E w \in 0 .. version'[n] : Holds(n, w)'
                      /\ version'[n] >= at' - 1
                      /\ version'[n] < at' => accumulated'[n] = {}
    BY DEF Delivered
  <2>1. PICK w \in 0 .. version[n] : Holds(n, w)
    BY DEF Owed, Delivered
  <2>2. /\ version[n] >= at - 1
        /\ version[n] < at => accumulated[n] = {}
    BY DEF Owed, Delivered
  <2>3. w \in Nat /\ w <= sg /\ w \in 0 .. v
    BY <1>3, <1>4, <2>1
  <2>4. copy[n] = Full(n, w) /\ accumulated[n] = Changes(n, w, sg)
    BY <1>4, <2>1 DEF Holds
  <2>5. accumulated'[n] = Changes(n, w, v)
    <3>1. Changes(n, w, sg) \cup Changes(n, sg, v) = Changes(n, w, v)
      BY <1>3, <2>3 DEF Changes
    <3>2. accumulated'[n] = accumulated[n] \cup Changes(n, sg, v)
      BY <1>4
    <3> QED BY <2>4, <3>1, <3>2
  <2>6. \A b : Full(n, b)' = Full(n, b) /\ \A a : Changes(n, a, b)' = Changes(n, a, b)
    BY DEF Full, Changes
  <2>7. Changes(n, w, version[n])' = Changes(n, w, v)
    BY <1>4 DEF Changes
  <2>8. Holds(n, w)'
    BY <2>4, <2>5, <2>6, <2>7 DEF Holds
  <2>9. v >= at - 1 /\ (v < at => v = sg /\ sg < at)
    BY <1>3, <1>4, <2>2
  <2> QED BY <1>4, <2>2, <2>3, <2>8, <2>9
<1>6. Writing'
  <2> SUFFICES ASSUME pc = "writing"
               PROVE  /\ at = Latest
                      /\ \A n \in withCallback :
                            /\ n \in initialDelivered
                            /\ version'[n] = Latest /\ accumulated'[n] = {}
    BY DEF Writing, Latest
  <2>1. /\ at = Latest
        /\ \A n \in withCallback :
              n \in initialDelivered /\ version[n] = Latest /\ accumulated[n] = {}
    BY DEF Owed, Writing
  <2>2. ASSUME NEW n \in withCallback PROVE version'[n] = Latest /\ accumulated'[n] = {}
    <3>1. n \in initialDelivered /\ version[n] = Latest /\ accumulated[n] = {}
      BY <2>1
    <3>2. v = sg /\ v = Latest
      BY <1>3, <1>4, <3>1
    <3> QED BY <1>4, <3>1, <3>2
  <2> QED BY <2>1, <2>2
<1> QED BY <1>1, <1>2, <1>5, <1>6

\* The hand-over of the main thread's own version.
LEMMA SkipOwed ==
  ASSUME IInv, Owed, runToSkip
  PROVE  Owed'
<1>1. /\ worker.pc = "skip" /\ worker' = [worker EXCEPT !.pc = "run"]
      /\ UNCHANGED <<touched, at, pc, newNotifiers, notifiers, alive, withCallback,
                     initialDelivered, copy>>
  BY DEF runToSkip, main, lists
<1>2. AtWork /\ AtWork' /\ worker'.olds = worker.olds
  BY <1>1 DEF AtWork, IInv, Types
<1>3. CASE worker.skip = 0
  <2>1. UNCHANGED <<version, hasRun, accumulated, skipNext, sg>>
    BY <1>3 DEF runToSkip
  <2>2. Subscribed' /\ Together'
    BY <1>1, <1>2, <2>1 DEF Owed, Subscribed, Together
  <2>3. Delivered'
    BY <1>1, <2>1, DeliveredKept
  <2>4. Writing'
    BY <1>1, <2>1 DEF Owed, Writing, Latest
  <2> QED BY <2>2, <2>3, <2>4 DEF Owed
<1>4. CASE worker.skip # 0
  <2> DEFINE from == [n \in Notifiers |-> sg]
  <2>1. prepare_handover(worker.olds, from, worker.skip) /\ sg' = worker.skip
    BY <1>4 DEF runToSkip
  <2>2. /\ worker.skip \in Nat /\ sg <= worker.skip /\ worker.skip <= Latest
        /\ worker.olds \in SUBSET Notifiers
    BY <1>1, <1>4, Numbers DEF IInv, WorkerForward, Types
  <2>3. \A n \in worker.olds : from[n] = sg
    BY <2>2
  <2> HIDE DEF from
  <2>4. /\ Delivered' /\ Writing'
        /\ DOMAIN accumulated' = Notifiers /\ skipNext' = {} /\ hasRun \subseteq hasRun'
    BY <1>1, <1>2, <2>1, <2>2, <2>3, Handover
  <2>5. Subscribed'
    BY <1>1, <2>4 DEF Owed, Subscribed
  <2>6. \A n \in worker.olds : n \in hasRun' /\ version'[n] = worker.skip
    BY <2>1, <2>2 DEF prepare_handover
  <2>7. Together'
    BY <1>2, <2>1, <2>6 DEF Together
  <2> QED BY <2>4, <2>5, <2>7 DEF Owed
<1> QED BY <1>3, <1>4

\* The last hand-over, of old and new notifiers.
LEMMA LastOwed ==
  ASSUME IInv, Owed, runToVersion
  PROVE  Owed'
<1> DEFINE N == worker.olds \cup worker.news
           from == [n \in Notifiers |-> IF n \in worker.news THEN version[n] ELSE sg]
<1>1. /\ worker.pc = "run" /\ worker' = [Idle EXCEPT !.pc = "signal"]
      /\ prepare_handover(N, from, worker.version)
      /\ notifiers' = notifiers \cap alive /\ newNotifiers' = newNotifiers \cap alive
      /\ sg' = IF notifiers \cap alive = {} THEN 0 ELSE worker.version
      /\ UNCHANGED <<touched, at, pc, alive, withCallback, initialDelivered, copy>>
  BY DEF runToVersion, clean_up_dead_notifiers, main
<1>2. AtWork /\ ~AtWork'
  BY <1>1 DEF AtWork, Idle
<1>3. /\ worker.version \in Nat /\ sg <= worker.version /\ worker.version <= Latest
      /\ N \in SUBSET Notifiers
  BY <1>1, Numbers DEF IInv, WorkerForward, Types
<1>4. /\ worker.news \cap worker.olds = {} /\ worker.olds \subseteq N
      /\ notifiers \subseteq N
  BY <1>2 DEF IInv, Registered
<1>5. \A n \in worker.olds : from[n] = sg
  BY <1>3, <1>4
<1> HIDE DEF from, N
<1>6. /\ Delivered' /\ Writing'
      /\ DOMAIN accumulated' = Notifiers /\ skipNext' = {} /\ hasRun \subseteq hasRun'
  BY <1>1, <1>2, <1>3, <1>4, <1>5, Handover
<1>7. Subscribed'
  BY <1>1, <1>6 DEF Owed, Subscribed
<1>8. \A n \in N : n \in hasRun' /\ version'[n] = worker.version
  BY <1>1, <1>3 DEF prepare_handover
<1>9. Together'
  BY <1>1, <1>2, <1>4, <1>8 DEF Together
<1> QED BY <1>6, <1>7, <1>9 DEF Owed

-----------------------------------------------------------------------------
(* Subscribers hold what they are owed.                                      *)

\* At first there are no subscribers.
LEMMA InitOwed == Init => Owed
BY DEF Init, Owed, Subscribed, Together, Delivered, Writing

\* Every step preserves what subscribers are owed.
LEMMA NextOwed ==
  ASSUME Suppressible = {}, IInv, Owed, [Next]_vars
  PROVE  Owed'
<1>1. ASSUME NEW n \in Notifiers, register_notifier(n) PROVE Owed'
  BY <1>1, RegisterOwed
<1>2. ASSUME NEW n \in Notifiers, unregister(n) PROVE Owed'
  BY <1>2, UnregisterOwed
<1>3. CASE add_callback
  BY <1>3, CallbackOwed
<1>4. CASE notify
  BY <1>4, CalmOwed DEF notify, lists, callbacks, background
<1>5. CASE notifyInWrite
  BY <1>5, CalmOwed DEF notifyInWrite, main, lists, callbacks, background
<1>6. CASE process_available_async
  BY <1>6, ProcessOwed
<1>7. CASE advance_to_ready
  BY <1>7, AdvanceOwed
<1>8. CASE begin_transaction
  BY <1>8, CalmOwed DEF begin_transaction, lists, callbacks, background
<1>9. CASE promote_to_write
  BY <1>9, PromoteOwed
<1>10. CASE commit_write
  BY <1>10, CommitOwed
<1>11. CASE cancel_transaction
  BY <1>11, CalmOwed DEF cancel_transaction, lists, callbacks, background
<1>12. CASE announce
  BY <1>12, CalmOwed DEF announce, lists, callbacks, background
<1>13. CASE CommitElsewhere
  BY <1>13, CalmOwed DEF CommitElsewhere, main, lists, callbacks, background
<1>14. CASE AnnounceElsewhere
  BY <1>14, CalmOwed DEF AnnounceElsewhere, main, lists, callbacks, background
<1>15. CASE run_async_notifiers
  BY <1>15, RunOwed
<1>16. CASE runToSkip
  BY <1>16, SkipOwed
<1>17. CASE runToVersion
  BY <1>17, LastOwed
<1>18. CASE on_change
  <2>1. ~AtWork /\ ~AtWork'
    BY <1>18 DEF on_change, AtWork, Idle
  <2> QED BY <1>18, <2>1, CalmOwed DEF on_change, main, lists, callbacks
<1>19. CASE UNCHANGED vars
  BY <1>19, CalmOwed DEF vars, main, lists, callbacks, background
<1> QED
  BY <1>1, <1>2, <1>3, <1>4, <1>5, <1>6, <1>7, <1>8, <1>9, <1>10, <1>11, <1>12, <1>13,
     <1>14, <1>15, <1>16, <1>17, <1>18, <1>19
     DEF Next, RunLoop, FinishWrite, WorkerStep

\* In a write transaction nobody has anything left to be told.
LEMMA AllTold ==
  ASSUME IInv, Owed, pc = "writing"
  PROVE  at = Latest /\ \A n \in withCallback : copy[n] = Full(n, at)
<1>1. /\ at = Latest
      /\ \A n \in withCallback :
            n \in initialDelivered /\ version[n] = Latest /\ accumulated[n] = {}
  BY DEF Owed, Writing
<1>2. ASSUME NEW n \in withCallback PROVE copy[n] = Full(n, Latest)
  <2>1. n \in initialDelivered /\ version[n] = Latest /\ accumulated[n] = {}
    BY <1>1
  <2>2. PICK w \in 0 .. version[n] : Holds(n, w)
    BY <2>1 DEF Owed, Delivered
  <2>3. Latest \in Nat /\ w \in Nat /\ w <= Latest
    BY <2>1, Numbers DEF IInv
  <2>4. copy[n] = Full(n, w) /\ Changes(n, w, Latest) = {}
    BY <2>1, <2>2 DEF Holds
  <2> QED BY <2>3, <2>4, Told
<1> QED BY <1>1, <1>2

\* Inside a write transaction every subscriber's copy is the list as the transaction
\* finds it (package_and_wait, promote_to_write), for any lists and number of
\* versions, as long as nobody commits without notifying: a subscriber that does is
\* told of its own change a second time in the run that looks for it.
THEOREM WriterAlwaysSeesAll ==
  ASSUME Suppressible = {}
  PROVE  Spec => []WriterSeesAll
<1>1. Init => IInv /\ Owed
  BY InitIInv, InitOwed
<1>2. IInv /\ Owed /\ [Next]_vars => IInv' /\ Owed'
  BY NextIInv, NextOwed
<1>3. IInv /\ Owed => WriterSeesAll
  BY AllTold DEF WriterSeesAll
<1> QED BY <1>1, <1>2, <1>3, PTL DEF Spec

-----------------------------------------------------------------------------
(* The threads implement the feed.                                           *)

\* Feed and Notifications mean the same by the list of a version.
LEMMA SameList ==
  ASSUME NEW n, NEW v
  PROVE  Abstract!Full(n, v) = Full(n, v)
<1>1. {i \in 1 .. v : n \in touched[i]} = {i \in 0 + 1 .. v : n \in touched[i]}
  BY 0 + 1 = 1
<1>2. \A S : Abstract!Ascending(S) = Ascending(S)
  <2>1. \A S : Abstract!Cardinality(S) = Cardinality(S)
    BY DEF Abstract!Cardinality, Cardinality
  <2>2. \A S, w : Abstract!Rank(S, w) = Rank(S, w)
    BY <2>1, Zenon DEF Abstract!Rank, Abstract!Upto, Rank, Upto
  <2> DEFINE nth(S, i) == CHOOSE w \in S : Abstract!Rank(S, w) = i
  <2>3. \A S, i : nth(S, i) = Nth(S, i)
    BY <2>2 DEF Nth
  <2>4. \A S : Abstract!Ascending(S) = [i \in 1 .. Cardinality(S) |-> nth(S, i)]
    BY <2>1 DEF Abstract!Ascending
  <2>5. \A S : Ascending(S) = [i \in 1 .. Cardinality(S) |-> Nth(S, i)]
    BY DEF Ascending, Nth
  <2> HIDE DEF nth
  <2> QED BY <2>3, <2>4, <2>5
<1> QED BY <1>1, <1>2, Zenon DEF Abstract!Full, Full, Changes

\* A delivery is a telling.
LEMMA DeliveringTells ==
  ASSUME IInv, Owed, NEW P \in SUBSET Packed, NEW v \in Nat, v >= at, v <= Latest,
         \A n \in P \cap withCallback : version[n] = v,
         package(P), deliver(P, v), at' = v,
         v > at => initialDelivered \subseteq P,
         UNCHANGED <<touched, withCallback>>
  PROVE  Abstract!Next
<1> DEFINE called == P \cap withCallback
<1>1. /\ initialDelivered' = initialDelivered \cup called
      /\ copy' = [n \in Notifiers |-> IF n \in called THEN Full(n, v) ELSE copy[n]]
  BY Delivering
<1>2. called \in SUBSET withCallback
  OBVIOUS
<1>3. initialDelivered \subseteq withCallback /\ initialDelivered \subseteq Notifiers
  BY CalledRan
<1>4. v > at => \A n \in initialDelivered : copy'[n] = Full(n, v)
  BY <1>1, <1>3
<1>5. at \in Nat /\ at >= 1 /\ Latest \in Nat
  BY Numbers DEF IInv
<1>6. v \in at .. Len(touched) /\ v \in 1 .. Len(touched)
  BY <1>5 DEF Latest
<1> HIDE DEF called
<1>7. copy' = [n \in Notifiers |-> IF n \in called THEN Abstract!Full(n, v) ELSE copy[n]]
  BY <1>1, SameList
<1>8. v > at => \A n \in initialDelivered : copy'[n] = Abstract!Full(n, v)
  BY <1>4, SameList
<1>9. Abstract!Tell(v)
  BY <1>1, <1>2, <1>6, <1>7, <1>8 DEF Abstract!Tell
<1> QED BY <1>6, <1>9 DEF Abstract!Next

\* Going on to a newer version is a telling, or nothing when the packages are
\* behind.
LEMMA AdvanceTells ==
  ASSUME IInv, Owed, advance_to_ready
  PROVE  Abstract!Next \/ UNCHANGED Abstract!vars
<1>1. /\ package(Packed)
      /\ UNCHANGED <<touched, withCallback>>
  BY DEF advance_to_ready, lists
<1>2. at' \in 1 .. Latest
  <2>1. IInv'
    BY NextIInv DEF Next, RunLoop
  <2> QED BY <1>1, <2>1 DEF IInv, Types, Latest
<1>3. at \in Nat /\ at \in 1 .. Latest /\ Latest \in Nat
  BY Numbers DEF IInv
<1>4. CASE UNCHANGED <<at, initialDelivered, copy>>
  BY <1>1, <1>4 DEF Abstract!vars
<1>5. CASE /\ at' \in Nat /\ at' >= at /\ deliver(Packed, at')
           /\ \A n \in Packed \cap withCallback : version[n] = at'
  <2>1. initialDelivered \subseteq Packed
    BY CalledRan
  <2>2. PICK v \in Nat : v = at'
    BY <1>5
  <2>3. /\ v >= at /\ deliver(Packed, v) /\ at' = v
        /\ \A n \in Packed \cap withCallback : version[n] = v
    BY <1>5, <2>2, Zenon
  <2>4. v <= Latest
    BY <1>2, <1>3, <2>3
  <2> QED BY <1>1, <2>1, <2>3, <2>4, DeliveringTells
<1>6. CASE /\ initialDelivered = {} /\ at' = Latest
           /\ UNCHANGED <<initialDelivered, copy>>
  <2>1. copy' = [n \in Notifiers |-> copy[n]]
    BY <1>6 DEF Owed, Subscribed
  <2>2. copy' = [n \in Notifiers |-> IF n \in {} THEN Abstract!Full(n, Latest) ELSE copy[n]]
    BY <2>1
  <2>3. Latest \in at .. Len(touched) /\ Latest \in 1 .. Len(touched)
    BY <1>3 DEF Latest
  <2>4. Abstract!Tell(Latest)
    <3>1. initialDelivered' = initialDelivered \cup {}
      BY <1>6
    <3>2. \E called \in SUBSET withCallback :
             /\ initialDelivered' = initialDelivered \cup called
             /\ copy' = [n \in Notifiers |-> IF n \in called THEN Abstract!Full(n, Latest)
                                             ELSE copy[n]]
      <4> WITNESS {} \in SUBSET withCallback
      <4> QED BY <2>2, <3>1
    <3> QED BY <1>1, <1>6, <2>3, <3>2 DEF Abstract!Tell
  <2> QED BY <2>3, <2>4 DEF Abstract!Next
<1> QED BY <1>4, <1>5, <1>6, AdvanceCases

\* Every step of the threads is a step of the feed or changes nothing there.
LEMMA StepsOfFeed ==
  ASSUME Suppressible = {}, IInv, Owed, [Next]_vars
  PROVE  Abstract!Next \/ UNCHANGED Abstract!vars
<1>1. ASSUME NEW n \in Notifiers, register_notifier(n)
      PROVE  Abstract!Next \/ UNCHANGED Abstract!vars
  BY <1>1 DEF register_notifier, callbacks, Abstract!vars
<1>2. ASSUME NEW n \in Notifiers, unregister(n)
      PROVE  Abstract!Next \/ UNCHANGED Abstract!vars
  <2>1. Abstract!Unsubscribe(n)
    BY <1>2 DEF unregister, main, Abstract!Unsubscribe
  <2> QED BY <2>1 DEF Abstract!Next
<1>3. CASE add_callback
  <2>1. PICK n \in alive \ withCallback :
           /\ withCallback' = withCallback \cup {n}
           /\ copy' = [copy EXCEPT ![n] = Full(n, at)]
    BY <1>3 DEF add_callback
  <2>2. n \in Notifiers /\ UNCHANGED <<touched, at, initialDelivered>>
    BY <1>3 DEF add_callback, IInv, Types
  <2>3. Abstract!Subscribe(n)
    BY <2>1, <2>2, SameList DEF Abstract!Subscribe
  <2> QED BY <2>2, <2>3 DEF Abstract!Next
<1>4. CASE notify
  BY <1>4 DEF notify, lists, callbacks, Abstract!vars
<1>5. CASE notifyInWrite
  BY <1>5 DEF notifyInWrite, main, lists, callbacks, Abstract!vars
<1>6. CASE process_available_async
  <2> DEFINE P == {n \in Packed : version[n] = at}
  <2>1. package(P) /\ deliver(P, at) /\ UNCHANGED <<touched, at, withCallback>>
    BY <1>6 DEF process_available_async, lists
  <2>2. /\ P \in SUBSET Packed /\ at \in Nat /\ at >= at /\ at <= Latest /\ at' = at
        /\ \A n \in P \cap withCallback : version[n] = at
    BY <2>1, Numbers DEF IInv
  <2> HIDE DEF P
  <2>3. ~ (at > at)
    BY <2>2
  <2> QED BY <2>1, <2>2, <2>3, DeliveringTells
<1>7. CASE advance_to_ready
  BY <1>7, AdvanceTells
<1>8. CASE begin_transaction
  BY <1>8 DEF begin_transaction, lists, callbacks, Abstract!vars
<1>9. CASE promote_to_write
  <2>1. /\ Ready /\ package(Packed) /\ deliver(Packed, Latest) /\ at' = Latest
        /\ UNCHANGED <<touched, withCallback>>
    BY <1>9 DEF promote_to_write, lists
  <2>2. \A n \in Packed \cap withCallback : version[n] = Latest
    BY <2>1, ReadyPacked
  <2>3. Latest \in Nat /\ Latest >= at /\ Latest <= Latest /\ initialDelivered \subseteq Packed
    BY Numbers, CalledRan DEF IInv
  <2> QED BY <2>1, <2>2, <2>3, DeliveringTells
<1>10. CASE commit_write
  <2>1. pc = "writing" /\ at' = Latest + 1 /\ UNCHANGED <<withCallback, initialDelivered>>
    BY <1>10 DEF commit_write, lists
  <2>2. at = Latest /\ \A n \in withCallback : copy[n] = Full(n, at)
    BY <2>1, AllTold
  <2>3. UNCHANGED copy
    BY <1>10, CommitOwed
  <2>4. \E T \in SUBSET Notifiers : touched' = Append(touched, T)
    BY <1>10 DEF commit_write
  <2>5. \A n \in withCallback : copy[n] = Abstract!Full(n, at)
    BY <2>2, SameList
  <2>6. Abstract!CommitHere
    BY <2>1, <2>2, <2>3, <2>4, <2>5 DEF Abstract!CommitHere, Latest
  <2> QED BY <2>6 DEF Abstract!Next
<1>11. CASE cancel_transaction
  BY <1>11 DEF cancel_transaction, lists, callbacks, Abstract!vars
<1>12. CASE announce
  BY <1>12 DEF announce, lists, callbacks, Abstract!vars
<1>13. CASE CommitElsewhere
  <2>1. Abstract!CommitElsewhere
    BY <1>13 DEF CommitElsewhere, main, lists, callbacks, Abstract!CommitElsewhere
  <2> QED BY <2>1 DEF Abstract!Next
<1>14. CASE AnnounceElsewhere
  BY <1>14 DEF AnnounceElsewhere, main, lists, callbacks, Abstract!vars
<1>15. CASE run_async_notifiers
  BY <1>15 DEF run_async_notifiers, main, callbacks, Abstract!vars
<1>16. CASE runToSkip
  BY <1>16 DEF runToSkip, main, lists, Abstract!vars
<1>17. CASE runToVersion
  BY <1>17 DEF runToVersion, main, Abstract!vars
<1>18. CASE on_change
  BY <1>18 DEF on_change, main, lists, callbacks, Abstract!vars
<1>19. CASE UNCHANGED vars
  BY <1>19 DEF vars, main, lists, callbacks, Abstract!vars
<1> QED
  BY <1>1, <1>2, <1>3, <1>4, <1>5, <1>6, <1>7, <1>8, <1>9, <1>10, <1>11, <1>12, <1>13,
     <1>14, <1>15, <1>16, <1>17, <1>18, <1>19
     DEF Next, RunLoop, FinishWrite, WorkerStep

\* The coordinator, the listener thread and the main thread together implement the
\* abstract feed, under the mapping of their callbacks to its subscribers: every
\* change is told once and in order and the main thread never moves on without its
\* subscribers (advance_to_ready, promote_to_write, run_async_notifiers), for any
\* lists and number of versions, as long as nobody commits without notifying.
THEOREM ImplementsFeed ==
  ASSUME Suppressible = {}
  PROVE  Spec => KeepsFeedPromise
<1>1. Init => IInv /\ Owed
  BY InitIInv, InitOwed
<1>2. IInv /\ Owed /\ [Next]_vars => IInv' /\ Owed'
  BY NextIInv, NextOwed
<1>3. Init => Abstract!Init
  BY DEF Init, Abstract!Init
<1>4. IInv /\ Owed /\ [Next]_vars => [Abstract!Next]_Abstract!vars
  BY StepsOfFeed
<1> QED BY <1>1, <1>2, <1>3, <1>4, PTL DEF Spec, KeepsFeedPromise, Abstract!Spec

-----------------------------------------------------------------------------
(* Positions of rows.                                                        *)

RowSet(S) == S \subseteq Nat /\ IsFiniteSet(S)

\* A nonempty set of numbers has a least one.
LEMMA LeastRow ==
  ASSUME NEW S \in SUBSET Nat, S # {}
  PROVE  \E n \in S : \A m \in S : n <= m
<1>1. PICK s \in S : TRUE
  OBVIOUS
<1>2. IsWellFoundedOn(OpToRel(<, Nat), Nat)
  BY NatLessThanWellFounded
<1>3. PICK n \in S : \A m \in S : <<m, n>> \notin OpToRel(<, Nat)
  BY <1>1, <1>2, WFMin
<1>4. \A m \in S : ~(m < n)
  BY <1>3 DEF OpToRel
<1> QED BY <1>4

LEMMA RowsBelow ==
  ASSUME NEW S, RowSet(S), NEW x \in Nat, NEW y \in Nat
  PROVE  /\ IsFiniteSet({i \in S : x <= i /\ i < y})
         /\ Cardinality({i \in S : x <= i /\ i < y}) \in Nat
         /\ x <= y => Cardinality({i \in S : x <= i /\ i < y}) <= y - x
         /\ x < y /\ x \notin S =>
              Cardinality({i \in S : x <= i /\ i < y}) < y - x
<1> DEFINE T == {i \in S : x <= i /\ i < y}
<1>1. IsFiniteSet(T) /\ Cardinality(T) \in Nat
  BY FS_Subset, FS_CardinalityType, T \in SUBSET S DEF RowSet
<1>2. \A i \in T : i \in Nat /\ i \in x .. y - 1 /\ (x \notin S => i \in x + 1 .. y - 1)
  BY DEF RowSet
<1>3. x <= y => Cardinality(T) <= y - x
  <2>1. y - 1 \in Int /\ x \in Int
    OBVIOUS
  <2>2. /\ IsFiniteSet(x .. y - 1)
        /\ Cardinality(x .. y - 1) = IF x > y - 1 THEN 0 ELSE (y - 1) - x + 1
    BY <2>1, FS_Interval
  <2>3. Cardinality(T) <= Cardinality(x .. y - 1)
    BY <2>2, <1>2, FS_Subset, T \in SUBSET (x .. y - 1)
  <2> HIDE DEF T
  <2> QED BY <2>2, <2>3, <1>1
<1>4. x < y /\ x \notin S => Cardinality(T) < y - x
  <2>1. y - 1 \in Int /\ x + 1 \in Int
    OBVIOUS
  <2>2. /\ IsFiniteSet(x + 1 .. y - 1)
        /\ Cardinality(x + 1 .. y - 1) = IF x + 1 > y - 1 THEN 0 ELSE (y - 1) - (x + 1) + 1
    BY <2>1, FS_Interval
  <2>3. x \notin S => T \in SUBSET (x + 1 .. y - 1)
    BY <1>2
  <2>4. x \notin S => Cardinality(T) <= Cardinality(x + 1 .. y - 1)
    BY <2>2, <2>3, FS_Subset
  <2> HIDE DEF T
  <2> QED BY <2>2, <2>4, <1>1
<1> QED BY <1>1, <1>3, <1>4

LEMMA CountBasics ==
  ASSUME NEW S, RowSet(S), NEW x \in Nat
  PROVE  /\ count(S, x) \in Nat /\ count(S, x) <= x
         /\ Cardinality(S) \in Nat /\ count(S, x) <= Cardinality(S)
         /\ (\A i \in S : i < x) => count(S, x) = Cardinality(S)
<1> DEFINE T == {i \in S : i < x}
<1>1. T = {i \in S : 0 <= i /\ i < x}
  <2>1. \A i \in S : 0 <= i
    BY DEF RowSet
  <2> QED BY <2>1
<1>2. Cardinality(T) \in Nat /\ Cardinality(T) <= x
  <2> DEFINE U == {i \in S : 0 <= i /\ i < x}
  <2>1. 0 \in Nat /\ 0 <= x
    OBVIOUS
  <2>2. Cardinality(U) \in Nat /\ Cardinality(U) <= x - 0
    BY <2>1, RowsBelow
  <2> HIDE DEF T, U
  <2>3. T = U
    BY <1>1 DEF U
  <2> QED BY <2>2, <2>3
<1>3. Cardinality(S) \in Nat /\ Cardinality(T) <= Cardinality(S)
  BY FS_Subset, FS_CardinalityType, T \in SUBSET S DEF RowSet
<1>4. (\A i \in S : i < x) => T = S
  OBVIOUS
<1> QED BY <1>2, <1>3, <1>4 DEF count

LEMMA CountSplit ==
  ASSUME NEW S, RowSet(S), NEW x \in Nat, NEW y \in Nat, x <= y
  PROVE  count(S, y) = count(S, x) + Cardinality({i \in S : x <= i /\ i < y})
<1> DEFINE A == {i \in S : i < x}
           B == {i \in S : x <= i /\ i < y}
<1>1. {i \in S : i < y} = A \cup B /\ A \cap B = {}
  <2>1. ASSUME NEW i \in S
        PROVE  (i < y <=> i < x \/ (x <= i /\ i < y)) /\ ~(i < x /\ x <= i)
    <3>1. i \in Nat
      BY DEF RowSet
    <3> QED BY <3>1
  <2> QED BY <2>1
<1>2. IsFiniteSet(A) /\ IsFiniteSet(B) /\ Cardinality(A) \in Nat /\ Cardinality(B) \in Nat
  BY FS_Subset, FS_CardinalityType, A \in SUBSET S, B \in SUBSET S DEF RowSet
<1> HIDE DEF A, B
<1>3. Cardinality(A \cup B) = Cardinality(A) + Cardinality(B)
  <2>1. Cardinality(A \cup B) = Cardinality(A) + Cardinality(B) - Cardinality(A \cap B)
    BY <1>2, FS_Union
  <2>2. Cardinality(A \cap B) = 0
    BY <1>1, FS_EmptySet DEF A, B
  <2> QED BY <1>2, <2>1, <2>2
<1> QED BY <1>1, <1>3 DEF count, A, B

\* unshift keeps the order of the positions, strictly for those not in the set.
LEMMA UnshiftMonotone ==
  ASSUME NEW S, RowSet(S), NEW x \in Nat, NEW y \in Nat
  PROVE  /\ unshift(S, x) \in Nat /\ unshift(S, x) <= x
         /\ x <= y => unshift(S, x) <= unshift(S, y)
         /\ x < y /\ x \notin S => unshift(S, x) < unshift(S, y)
<1>1. count(S, x) \in Nat /\ count(S, y) \in Nat /\ count(S, x) <= x
  BY CountBasics
<1>2. ASSUME x <= y PROVE unshift(S, x) <= unshift(S, y)
  <2> DEFINE c == Cardinality({i \in S : x <= i /\ i < y})
  <2>1. count(S, y) = count(S, x) + c
    BY <1>2, CountSplit
  <2>2. c \in Nat /\ c <= y - x
    BY <1>2, RowsBelow
  <2> HIDE DEF c
  <2> QED BY <1>1, <2>1, <2>2 DEF unshift
<1>3. ASSUME x < y, x \notin S PROVE unshift(S, x) < unshift(S, y)
  <2> DEFINE c == Cardinality({i \in S : x <= i /\ i < y})
  <2>1. count(S, y) = count(S, x) + c
    BY <1>3, CountSplit
  <2>2. c \in Nat /\ c < y - x
    BY <1>3, RowsBelow
  <2> HIDE DEF c
  <2> QED BY <1>1, <2>1, <2>2 DEF unshift
<1> QED BY <1>1, <1>2, <1>3 DEF unshift

\* The next position.
LEMMA UnshiftNext ==
  ASSUME NEW S, RowSet(S), NEW x \in Nat
  PROVE  /\ x \in S => unshift(S, x + 1) = unshift(S, x)
         /\ x \notin S => unshift(S, x + 1) = unshift(S, x) + 1
<1> DEFINE c == Cardinality({i \in S : x <= i /\ i < x + 1})
<1>1. count(S, x + 1) = count(S, x) + c
  BY CountSplit
<1>2. ASSUME NEW i \in S PROVE x <= i /\ i < x + 1 <=> i = x
  <2>1. i \in Nat
    BY DEF RowSet
  <2> QED BY <2>1
<1>3. /\ x \in S => {i \in S : x <= i /\ i < x + 1} = {x}
      /\ x \notin S => {i \in S : x <= i /\ i < x + 1} = {}
  BY <1>2
<1>4. (x \in S => c = 1) /\ (x \notin S => c = 0)
  BY <1>3, FS_Singleton, FS_EmptySet
<1>5. count(S, x) \in Nat
  BY CountBasics
<1> HIDE DEF c
<1> QED BY <1>1, <1>4, <1>5 DEF unshift

\* Only one position outside the set has a given number.
LEMMA UnshiftInjective ==
  ASSUME NEW S, RowSet(S), NEW x \in Nat, NEW y \in Nat, x \notin S, y \notin S,
         unshift(S, x) = unshift(S, y)
  PROVE  x = y
<1>1. ~(x < y) /\ ~(y < x)
  BY UnshiftMonotone
<1> QED BY <1>1

\* shift finds the position outside the set whose number it is given.
LEMMA ShiftFinds ==
  ASSUME NEW S, RowSet(S), NEW i \in Nat
  PROVE  /\ shift(S, i) \in Nat /\ shift(S, i) \notin S
         /\ i <= shift(S, i) /\ unshift(S, shift(S, i)) = i
<1> DEFINE top == i + Cardinality(S)
           late == {p \in Nat : unshift(S, p + 1) > i}
<1>1. Cardinality(S) \in Nat /\ top \in Nat /\ top + 1 \in Nat
  BY CountBasics
<1>2. top \in late
  <2>1. count(S, top + 1) \in Nat /\ count(S, top + 1) <= Cardinality(S)
    BY <1>1, CountBasics
  <2> QED BY <1>1, <2>1 DEF unshift
<1>3. PICK p \in late : \A q \in late : p <= q
  BY <1>2, LeastRow
<1>4. p \in Nat /\ unshift(S, p) \in Nat
  BY UnshiftMonotone
<1>5. unshift(S, p) <= i
  <2>1. CASE p = 0
    BY <2>1, <1>4, UnshiftMonotone
  <2>2. CASE p # 0
    <3>1. p - 1 \in Nat /\ p - 1 \notin late /\ (p - 1) + 1 = p
      BY <2>2, <1>3, <1>4
    <3> QED BY <3>1, <1>4
  <2> QED BY <2>1, <2>2
<1>6. p \notin S /\ unshift(S, p) = i
  BY <1>3, <1>4, <1>5, UnshiftNext
<1>7. p \in i .. top
  <2>1. count(S, p) \in Nat /\ count(S, p) <= Cardinality(S)
    BY <1>4, CountBasics
  <2> QED BY <1>1, <1>4, <1>6, <2>1 DEF unshift
<1>8. \E q \in i .. top : q \notin S /\ q - count(S, q) = i
  BY <1>6, <1>7 DEF unshift
<1>9. shift(S, i) \in i .. top /\ shift(S, i) \notin S
      /\ shift(S, i) - count(S, shift(S, i)) = i
  BY <1>8 DEF shift
<1> QED BY <1>1, <1>9 DEF unshift

LEMMA ShiftUnshift ==
  ASSUME NEW S, RowSet(S), NEW p \in Nat, p \notin S
  PROVE  shift(S, unshift(S, p)) = p
<1>1. unshift(S, p) \in Nat
  BY UnshiftMonotone
<1> QED BY <1>1, ShiftFinds, UnshiftInjective

-----------------------------------------------------------------------------
(* Where a row came from.                                                    *)

\* The old position of the row at p, when A was deleted and B inserted.
Src(A, B, p) == shift(A, unshift(B, p))

LEMMA SrcFinds ==
  ASSUME NEW A, RowSet(A), NEW B, RowSet(B), NEW p \in Nat, p \notin B
  PROVE  /\ Src(A, B, p) \in Nat /\ Src(A, B, p) \notin A
         /\ unshift(A, Src(A, B, p)) = unshift(B, p)
         /\ Src(B, A, Src(A, B, p)) = p
<1>1. unshift(B, p) \in Nat
  BY UnshiftMonotone
<1>2. /\ Src(A, B, p) \in Nat /\ Src(A, B, p) \notin A
      /\ unshift(A, Src(A, B, p)) = unshift(B, p)
  BY <1>1, ShiftFinds DEF Src
<1>3. shift(B, unshift(B, p)) = p
  BY ShiftUnshift
<1> QED BY <1>2, <1>3 DEF Src

LEMMA SrcIs ==
  ASSUME NEW A, RowSet(A), NEW B, RowSet(B), NEW p \in Nat,
         NEW q \in Nat, q \notin A, unshift(A, q) = unshift(B, p)
  PROVE  Src(A, B, p) = q
BY ShiftUnshift DEF Src

LEMMA SrcOrder ==
  ASSUME NEW A, RowSet(A), NEW B, RowSet(B), NEW p \in Nat, p \notin B,
         NEW r \in Nat, r \notin B
  PROVE  /\ Src(A, B, p) < Src(A, B, r) <=> p < r
         /\ Src(A, B, p) = Src(A, B, r) => p = r
<1> DEFINE x == Src(A, B, p)
           y == Src(A, B, r)
<1>1. /\ x \in Nat /\ x \notin A /\ unshift(A, x) = unshift(B, p)
      /\ y \in Nat /\ y \notin A /\ unshift(A, y) = unshift(B, r)
      /\ Src(B, A, x) = p /\ Src(B, A, y) = r
  BY SrcFinds
<1> HIDE DEF x, y
<1>2. x = y => p = r
  BY <1>1
<1>3. unshift(A, x) \in Nat /\ unshift(A, y) \in Nat
  BY <1>1, UnshiftMonotone
<1>4. /\ x < y => unshift(A, x) < unshift(A, y)
      /\ y <= x => unshift(A, y) <= unshift(A, x)
  BY <1>1, UnshiftMonotone
<1>5. /\ p < r => unshift(B, p) < unshift(B, r)
      /\ r <= p => unshift(B, r) <= unshift(B, p)
  BY UnshiftMonotone
<1>6. x < y <=> p < r
  BY <1>1, <1>3, <1>4, <1>5
<1> QED BY <1>2, <1>6 DEF x, y

\* The rows of C that were not inserted (B), at their old positions, with A.
Joined(A, B, C) == A \cup {Src(A, B, v) : v \in C \ B}

\* As many old positions as rows.
LEMMA SrcCount ==
  ASSUME NEW A, RowSet(A), NEW B, RowSet(B), NEW T, RowSet(T), T \cap B = {}
  PROVE  /\ RowSet({Src(A, B, v) : v \in T})
         /\ Cardinality({Src(A, B, v) : v \in T}) = Cardinality(T)
<1> DEFINE R == {Src(A, B, v) : v \in T}
           f == [v \in T |-> Src(A, B, v)]
<1>1. \A v \in T : v \in Nat /\ v \notin B
  BY DEF RowSet
<1>2. f \in Bijection(T, R)
  <2>1. \A v, w \in T : f[v] = f[w] => v = w
    BY <1>1, SrcOrder
  <2>2. f \in [T -> R] /\ \A r \in R : \E v \in T : f[v] = r
    OBVIOUS
  <2> HIDE DEF f, R
  <2> QED BY <2>1, <2>2 DEF Bijection, Injection, Surjection, IsInjective
<1>3. IsFiniteSet(R) /\ Cardinality(R) = Cardinality(T)
  <2>1. ExistsBijection(T, R)
    BY <1>2 DEF ExistsBijection
  <2> HIDE DEF R
  <2> QED BY <2>1, FS_Bijection DEF RowSet
<1>4. R \subseteq Nat
  BY <1>1, SrcFinds
<1> QED BY <1>3, <1>4 DEF RowSet

LEMMA JoinedCount ==
  ASSUME NEW A, RowSet(A), NEW B, RowSet(B), NEW C, RowSet(C)
  PROVE  /\ RowSet(Joined(A, B, C))
         /\ Cardinality(Joined(A, B, C)) = Cardinality(A) + Cardinality(C \ B)
<1> DEFINE E == C \ B
           R == {Src(A, B, v) : v \in E}
<1>1. RowSet(E) /\ E \cap B = {} /\ \A v \in E : v \in Nat /\ v \notin B
  BY FS_Subset, E \in SUBSET C DEF RowSet
<1>2. RowSet(R) /\ Cardinality(R) = Cardinality(E)
  <2> HIDE DEF E
  <2> QED BY <1>1, SrcCount
<1>3. A \cap R = {}
  BY <1>1, SrcFinds
<1>4. RowSet(A \cup R) /\ Cardinality(A \cup R) = Cardinality(A) + Cardinality(R)
  <2> HIDE DEF R
  <2>1. IsFiniteSet(A) /\ IsFiniteSet(R) /\ A \subseteq Nat /\ R \subseteq Nat
    BY <1>2 DEF RowSet
  <2>2. IsFiniteSet(A \cup R)
        /\ Cardinality(A \cup R) = Cardinality(A) + Cardinality(R) - Cardinality(A \cap R)
    BY <2>1, FS_Union
  <2>3. Cardinality(A \cap R) = 0 /\ Cardinality(A) \in Nat /\ Cardinality(R) \in Nat
    BY <1>3, <2>1, FS_EmptySet, FS_CardinalityType
  <2> QED BY <2>1, <2>2, <2>3 DEF RowSet
<1>5. Joined(A, B, C) = A \cup R
  BY DEF Joined
<1> HIDE DEF R
<1> QED BY <1>2, <1>4, <1>5

LEMMA JoinedAt ==
  ASSUME NEW A, RowSet(A), NEW B, RowSet(B), NEW C, RowSet(C),
         NEW r \in Nat, r \notin B
  PROVE  /\ Src(A, B, r) \in Joined(A, B, C) <=> r \in C
         /\ count(Joined(A, B, C), Src(A, B, r)) =
              count(A, Src(A, B, r)) + count(C \ B, r)
<1> DEFINE E == C \ B
           R == {Src(A, B, v) : v \in E}
           q == Src(A, B, r)
           low == {v \in E : v < r}
           X == {i \in A : i < q}
           Y == {Src(A, B, v) : v \in low}
<1>1. RowSet(E) /\ E \cap B = {} /\ \A v \in E : v \in Nat /\ v \notin B
  BY FS_Subset, E \in SUBSET C DEF RowSet
<1>2. q \in Nat /\ q \notin A
  BY SrcFinds
<1>3. \A v \in E : /\ Src(A, B, v) < q <=> v < r
                   /\ Src(A, B, v) = q => v = r
  BY <1>1, SrcOrder
<1>4. q \in A \cup R <=> r \in C
  BY <1>2, <1>3
<1>5. {i \in A \cup R : i < q} = X \cup Y /\ X \cap Y = {}
  <2>1. A \cap R = {}
    BY <1>1, SrcFinds
  <2> QED BY <1>3, <2>1
<1>6. RowSet(low) /\ low \cap B = {}
  BY <1>1, FS_Subset, low \in SUBSET E DEF RowSet
<1>7. RowSet(Y) /\ Cardinality(Y) = Cardinality(low)
  <2> HIDE DEF low
  <2> QED BY <1>6, SrcCount
<1>8. IsFiniteSet(X) /\ IsFiniteSet(Y) /\ Cardinality(X) \in Nat /\ Cardinality(Y) \in Nat
  BY <1>7, FS_Subset, FS_CardinalityType, X \in SUBSET A DEF RowSet
<1>9. Cardinality(X \cup Y) = Cardinality(X) + Cardinality(Y)
  <2> HIDE DEF X, Y
  <2>1. Cardinality(X \cup Y) = Cardinality(X) + Cardinality(Y) - Cardinality(X \cap Y)
    BY <1>8, FS_Union
  <2>2. Cardinality(X \cap Y) = 0
    BY <1>5, FS_EmptySet
  <2> QED BY <1>8, <2>1, <2>2
<1>10. count(A \cup R, q) = count(A, q) + count(E, r)
  <2>1. count(A \cup R, q) = Cardinality(X \cup Y)
    <3> HIDE DEF X, Y
    <3> QED BY <1>5 DEF count
  <2>2. count(A, q) = Cardinality(X) /\ count(E, r) = Cardinality(low)
    BY DEF count
  <2> HIDE DEF X, Y, low
  <2> QED BY <2>1, <2>2, <1>7, <1>9
<1>11. Joined(A, B, C) = A \cup R
  BY DEF Joined
<1> HIDE DEF R
<1> QED BY <1>4, <1>10, <1>11

-----------------------------------------------------------------------------
(* One change after another.                                                 *)

\* From a list of n rows to one of m: the positions exist, and as many rows stay
\* on either side.
Shaped(n, D, I, m) ==
    /\ D \subseteq 0 .. n - 1 /\ I \subseteq 0 .. m - 1
    /\ n - Cardinality(D) = m - Cardinality(I)

LEMMA RowsFinite ==
  ASSUME NEW n \in Nat, NEW S, S \subseteq 0 .. n - 1
  PROVE  /\ RowSet(S) /\ Cardinality(S) \in Nat /\ \A i \in S : i < n
         /\ unshift(S, n) = n - Cardinality(S)
<1>1. \A i \in S : i \in Nat /\ i < n
  OBVIOUS
<1>2. IsFiniteSet(0 .. n - 1)
  BY FS_Interval
<1>3. RowSet(S) /\ Cardinality(S) \in Nat
  BY <1>1, <1>2, FS_Subset, FS_CardinalityType DEF RowSet
<1> QED BY <1>1, <1>3, CountBasics DEF unshift

\* A row that was not inserted was in the old list.
LEMMA SrcBelow ==
  ASSUME NEW n \in Nat, NEW m \in Nat, NEW D, NEW I, Shaped(n, D, I, m),
         NEW p \in 0 .. m - 1, p \notin I
  PROVE  Src(D, I, p) \in 0 .. n - 1
<1> DEFINE q == Src(D, I, p)
<1>1. RowSet(D) /\ RowSet(I) /\ unshift(D, n) = n - Cardinality(D)
      /\ unshift(I, m) = m - Cardinality(I)
  BY RowsFinite DEF Shaped
<1>2. p \in Nat /\ p < m
  OBVIOUS
<1>3. q \in Nat /\ unshift(D, q) = unshift(I, p)
  BY <1>1, <1>2, SrcFinds
<1>4. unshift(D, n) = unshift(I, m)
  BY <1>1 DEF Shaped
<1>5. unshift(I, p) < unshift(I, m) /\ unshift(I, p) \in Nat /\ unshift(I, m) \in Nat
  BY <1>1, <1>2, UnshiftMonotone
<1>6. n <= q => unshift(D, n) <= unshift(D, q)
  BY <1>1, <1>3, UnshiftMonotone
<1> HIDE DEF q
<1>7. q < n
  BY <1>3, <1>4, <1>5, <1>6
<1> QED BY <1>3, <1>7 DEF q

LEMMA ShapedBack ==
  ASSUME NEW n \in Nat, NEW m \in Nat, NEW D, NEW I, Shaped(n, D, I, m)
  PROVE  Shaped(m, I, D, n)
BY DEF Shaped

LEMMA CountUnion ==
  ASSUME NEW X, RowSet(X), NEW Y, RowSet(Y), NEW r \in Nat
  PROVE  /\ count(X, r) + count(Y \ X, r) = count(Y, r) + count(X \ Y, r)
         /\ Cardinality(X) + Cardinality(Y \ X) = Cardinality(Y) + Cardinality(X \ Y)
         /\ RowSet(X \ Y) /\ RowSet(Y \ X)
<1>1. ASSUME NEW P, IsFiniteSet(P), NEW Q, IsFiniteSet(Q)
      PROVE  Cardinality(P) + Cardinality(Q \ P) = Cardinality(Q) + Cardinality(P \ Q)
  <2>1. /\ Cardinality(Q \ P) = Cardinality(Q) - Cardinality(Q \cap P)
        /\ Cardinality(P \ Q) = Cardinality(P) - Cardinality(P \cap Q)
    BY <1>1, FS_Difference
  <2>2. Q \cap P = P \cap Q
    OBVIOUS
  <2>3. Cardinality(P) \in Nat /\ Cardinality(Q) \in Nat /\ Cardinality(P \cap Q) \in Nat
    BY <1>1, FS_CardinalityType, FS_Intersection
  <2> QED BY <2>1, <2>2, <2>3
<1>2. RowSet(X \ Y) /\ RowSet(Y \ X)
  BY FS_Difference DEF RowSet
<1>3. Cardinality(X) + Cardinality(Y \ X) = Cardinality(Y) + Cardinality(X \ Y)
  BY <1>1 DEF RowSet
<1>4. count(X, r) + count(Y \ X, r) = count(Y, r) + count(X \ Y, r)
  <2> DEFINE P == {i \in X : i < r}
             Q == {i \in Y : i < r}
  <2>1. IsFiniteSet(P) /\ IsFiniteSet(Q)
    BY FS_Subset, P \in SUBSET X, Q \in SUBSET Y DEF RowSet
  <2>2. {i \in Y \ X : i < r} = Q \ P /\ {i \in X \ Y : i < r} = P \ Q
    OBVIOUS
  <2>3. Cardinality(P) + Cardinality(Q \ P) = Cardinality(Q) + Cardinality(P \ Q)
    <3> HIDE DEF P, Q
    <3> QED BY <2>1, <1>1
  <2> QED BY <2>2, <2>3 DEF count
<1> QED BY <1>2, <1>3, <1>4

\* Two changes are one change.
LEMMA Composed ==
  ASSUME NEW n \in Nat, NEW k \in Nat, NEW m \in Nat,
         NEW D1, NEW I1, Shaped(n, D1, I1, k),
         NEW D2, NEW I2, Shaped(k, D2, I2, m),
         NEW D, D = Joined(D1, I1, D2),
         NEW I, I = Joined(I2, D2, I1)
  PROVE  /\ Shaped(n, D, I, m)
         /\ \A p \in 0 .. m - 1 : p \notin I =>
              /\ p \notin I2
              /\ Src(D2, I2, p) \in 0 .. k - 1
              /\ Src(D2, I2, p) \notin D2 \cup I1
              /\ Src(D, I, p) = Src(D1, I1, Src(D2, I2, p))
<1>1. /\ RowSet(D1) /\ RowSet(I1) /\ RowSet(D2) /\ RowSet(I2)
      /\ Cardinality(D1) \in Nat /\ Cardinality(I1) \in Nat
      /\ Cardinality(D2) \in Nat /\ Cardinality(I2) \in Nat
  BY RowsFinite DEF Shaped
<1>2. RowSet(D) /\ Cardinality(D) = Cardinality(D1) + Cardinality(D2 \ I1)
  BY <1>1, JoinedCount
<1>3. RowSet(I) /\ Cardinality(I) = Cardinality(I2) + Cardinality(I1 \ D2)
  BY <1>1, JoinedCount
<1>4. Shaped(n, D, I, m)
  <2>1. ASSUME NEW v \in D2 \ I1 PROVE Src(D1, I1, v) \in 0 .. n - 1
    BY SrcBelow DEF Shaped
  <2>2. D \subseteq 0 .. n - 1
    BY <2>1 DEF Joined, Shaped
  <2>3. ASSUME NEW v \in I1 \ D2 PROVE Src(I2, D2, v) \in 0 .. m - 1
    <3>1. v \in 0 .. k - 1 /\ Shaped(m, I2, D2, k)
      BY ShapedBack DEF Shaped
    <3> QED BY <3>1, SrcBelow
  <2>4. I \subseteq 0 .. m - 1
    BY <2>3 DEF Joined, Shaped
  <2>5. /\ Cardinality(I1) + Cardinality(D2 \ I1) = Cardinality(D2) + Cardinality(I1 \ D2)
        /\ Cardinality(D2 \ I1) \in Nat /\ Cardinality(I1 \ D2) \in Nat
    BY <1>1, CountUnion, CountBasics, 0 \in Nat
  <2>6. n - Cardinality(D1) = k - Cardinality(I1) /\ k - Cardinality(D2) = m - Cardinality(I2)
    BY DEF Shaped
  <2>7. n - Cardinality(D) = m - Cardinality(I)
    BY <1>1, <1>2, <1>3, <2>5, <2>6
  <2> QED BY <2>2, <2>4, <2>7 DEF Shaped
<1>5. ASSUME NEW p \in 0 .. m - 1, p \notin I
      PROVE  /\ p \notin I2
             /\ Src(D2, I2, p) \in 0 .. k - 1
             /\ Src(D2, I2, p) \notin D2 \cup I1
             /\ Src(D, I, p) = Src(D1, I1, Src(D2, I2, p))
  <2> DEFINE r == Src(D2, I2, p)
             q == Src(D1, I1, r)
  <2>1. p \in Nat /\ p \notin I2
    BY <1>5 DEF Joined
  <2>2. r \in 0 .. k - 1
    BY <2>1, SrcBelow
  <2>3. r \in Nat /\ r \notin D2 /\ unshift(D2, r) = unshift(I2, p) /\ Src(I2, D2, r) = p
    BY <1>1, <2>1, SrcFinds
  <2> HIDE DEF r
  <2>4. (p \in I <=> r \in I1) /\ count(I, p) = count(I2, p) + count(I1 \ D2, r)
    BY <1>1, <2>3, JoinedAt
  <2>5. r \notin I1
    BY <2>4, <1>5
  <2>6. q \in Nat /\ q \notin D1 /\ unshift(D1, q) = unshift(I1, r)
    BY <1>1, <2>3, <2>5, SrcFinds
  <2>7. (q \in D <=> r \in D2) /\ count(D, q) = count(D1, q) + count(D2 \ I1, r)
    BY <1>1, <2>3, <2>5, JoinedAt
  <2> HIDE DEF q
  <2>8. /\ count(I1, r) + count(D2 \ I1, r) = count(D2, r) + count(I1 \ D2, r)
        /\ count(I1, r) \in Nat /\ count(D2, r) \in Nat
        /\ count(I1 \ D2, r) \in Nat /\ count(D2 \ I1, r) \in Nat
    <3>1. /\ count(I1, r) + count(D2 \ I1, r) = count(D2, r) + count(I1 \ D2, r)
          /\ RowSet(I1 \ D2) /\ RowSet(D2 \ I1)
      <4>1. RowSet(I1) /\ RowSet(D2) /\ r \in Nat
        BY <1>1, <2>3
      <4>2. RowSet(I1 \ D2) /\ RowSet(D2 \ I1)
        BY <4>1, CountUnion
      <4>3. count(I1, r) + count(D2 \ I1, r) = count(D2, r) + count(I1 \ D2, r)
        BY <4>1, CountUnion
      <4> QED BY <4>2, <4>3
    <3> QED BY <1>1, <2>3, <3>1, CountBasics
  <2>9. count(D1, q) \in Nat /\ count(I2, p) \in Nat
    BY <1>1, <2>1, <2>6, CountBasics
  <2>10. unshift(D, q) = unshift(I, p)
    BY <2>1, <2>3, <2>4, <2>6, <2>7, <2>8, <2>9 DEF unshift
  <2>11. Src(D, I, p) = q
    BY <1>2, <1>3, <2>1, <2>3, <2>6, <2>7, <2>10, SrcIs
  <2> QED BY <2>1, <2>2, <2>3, <2>5, <2>11 DEF r, q
<1> QED BY <1>4, <1>5

-----------------------------------------------------------------------------
(* One log entry.                                                            *)

LEMMA NoRow ==
  ASSUME NEW x \in Nat
  PROVE  RowSet({}) /\ unshift({}, x) = x /\ shift({}, x) = x
<1>1. RowSet({})
  BY FS_EmptySet DEF RowSet
<1>2. \A y : count({}, y) = 0
  <2>1. \A y : {i \in {} : i < y} = {}
    OBVIOUS
  <2> QED BY <2>1, FS_EmptySet DEF count
<1>3. shift({}, x) \in Nat /\ unshift({}, shift({}, x)) = x
  BY <1>1, ShiftFinds
<1> QED BY <1>1, <1>2, <1>3 DEF unshift

LEMMA OneRow ==
  ASSUME NEW i \in Nat, NEW x \in Nat
  PROVE  /\ RowSet({i})
         /\ unshift({i}, x) = IF x > i THEN x - 1 ELSE x
         /\ shift({i}, x) = IF x >= i THEN x + 1 ELSE x
<1>1. RowSet({i})
  BY FS_Singleton DEF RowSet
<1>2. ASSUME NEW y \in Nat PROVE unshift({i}, y) = IF y > i THEN y - 1 ELSE y
  <2>1. CASE y > i
    <3>1. {j \in {i} : j < y} = {i}
      BY <2>1
    <3> QED BY <2>1, <3>1, FS_Singleton DEF unshift, count
  <2>2. CASE ~(y > i)
    <3>1. {j \in {i} : j < y} = {}
      BY <2>2
    <3> QED BY <2>2, <3>1, FS_EmptySet DEF unshift, count
  <2> QED BY <2>1, <2>2
<1>3. /\ shift({i}, x) \in Nat /\ shift({i}, x) # i
      /\ unshift({i}, shift({i}, x)) = x
  BY <1>1, ShiftFinds
<1>4. shift({i}, x) = IF x >= i THEN x + 1 ELSE x
  BY <1>2, <1>3
<1> QED BY <1>1, <1>2, <1>4

LEMMA InsertAt ==
  ASSUME NEW S, RowSet(S), NEW i \in Nat
  PROVE  /\ insert_at(S, i) = {i} \cup {shift({i}, v) : v \in S}
         /\ shift_for_insert_at(S, i) = {shift({i}, v) : v \in S}
         /\ {Src({i}, {}, v) : v \in S \ {}} = shift_for_insert_at(S, i)
         /\ Joined({i}, {}, S) = insert_at(S, i)
<1>1. ASSUME NEW v \in S
      PROVE  v \in Nat /\ shift({i}, v) = IF v >= i THEN v + 1 ELSE v
  BY OneRow DEF RowSet
<1>2. {shift({i}, v) : v \in S} = shift_for_insert_at(S, i)
  <2>1. ASSUME NEW v \in S PROVE shift({i}, v) \in shift_for_insert_at(S, i)
    <3>1. CASE v >= i
      <4>1. shift({i}, v) = v + 1 /\ v \in {j \in S : j >= i}
        BY <3>1, <1>1
      <4> QED BY <4>1 DEF shift_for_insert_at
    <3>2. CASE ~(v >= i)
      <4>1. shift({i}, v) = v
        BY <3>2, <1>1
      <4>2. v < i
        BY <3>2, <1>1
      <4> QED BY <4>1, <4>2 DEF shift_for_insert_at
    <3> QED BY <3>1, <3>2
  <2>2. ASSUME NEW v \in S, v < i PROVE shift({i}, v) = v
    BY <2>2, <1>1
  <2>3. ASSUME NEW v \in S, v >= i PROVE shift({i}, v) = v + 1
    BY <2>3, <1>1
  <2>4. ASSUME NEW y \in shift_for_insert_at(S, i)
        PROVE  y \in {shift({i}, v) : v \in S}
    BY <2>2, <2>3 DEF shift_for_insert_at
  <2> QED BY <2>1, <2>4
<1>3. insert_at(S, i) = {i} \cup shift_for_insert_at(S, i)
  BY DEF insert_at, shift_for_insert_at
<1>4. {Src({i}, {}, v) : v \in S \ {}} = {shift({i}, v) : v \in S}
  <2>1. \A v \in S : Src({i}, {}, v) = shift({i}, v)
    BY <1>1, NoRow DEF Src
  <2> QED BY <2>1
<1> QED BY <1>2, <1>3, <1>4 DEF Joined

LEMMA EraseAt ==
  ASSUME NEW S, RowSet(S), NEW i \in Nat
  PROVE  /\ erase_at(S, i) = {unshift({i}, v) : v \in S \ {i}}
         /\ Joined({}, {i}, S) = erase_at(S, i)
<1>1. erase_at(S, i) = {unshift({i}, v) : v \in S \ {i}}
  BY DEF erase_at, erase_all_at
<1>2. \A v \in S : v \in Nat /\ unshift({i}, v) \in Nat
  BY OneRow, UnshiftMonotone DEF RowSet
<1>3. \A v \in S : Src({}, {i}, v) = unshift({i}, v)
  BY <1>2, NoRow DEF Src
<1>4. {Src({}, {i}, v) : v \in S \ {i}} = {unshift({i}, v) : v \in S \ {i}}
  BY <1>3
<1> QED BY <1>1, <1>4 DEF Joined

LEMMA MoveAt ==
  ASSUME NEW S, RowSet(S), NEW f \in Nat, NEW t \in Nat
  PROVE  /\ Joined({t}, {f}, S) = insert_at(erase_at(S, f), t)
         /\ {Src({t}, {f}, v) : v \in S \ {f}} = shift_for_insert_at(erase_at(S, f), t)
<1> DEFINE E == erase_at(S, f)
<1>1. E = {unshift({f}, v) : v \in S \ {f}}
  BY EraseAt
<1>2. RowSet(E)
  <2>1. RowSet({}) /\ RowSet({f}) /\ Joined({}, {f}, S) = E
    BY EraseAt, NoRow, OneRow, 0 \in Nat
  <2> QED BY <2>1, JoinedCount
<1>3. {Src({t}, {f}, v) : v \in S \ {f}} = {shift({t}, x) : x \in E}
  BY <1>1 DEF Src
<1> HIDE DEF E
<1>4. insert_at(E, t) = {t} \cup {shift({t}, x) : x \in E}
      /\ shift_for_insert_at(E, t) = {shift({t}, x) : x \in E}
  BY <1>2, InsertAt
<1> QED BY <1>3, <1>4 DEF Joined, E

LEMMA MovedToIs ==
  ASSUME NEW p \in Nat, NEW f \in Nat, NEW t \in Nat, p # f
  PROVE  MovedTo(p, f, t) = Src({t}, {f}, p)
<1>1. unshift({f}, p) = IF p > f THEN p - 1 ELSE p
  BY OneRow
<1>2. CASE p > f
  <2>1. unshift({f}, p) = p - 1 /\ p - 1 \in Nat
    BY <1>1, <1>2
  <2>2. shift({t}, p - 1) = IF p - 1 >= t THEN (p - 1) + 1 ELSE p - 1
    BY <2>1, OneRow
  <2> QED BY <1>2, <2>1, <2>2 DEF MovedTo, Src
<1>3. CASE ~(p > f)
  <2>1. unshift({f}, p) = p
    BY <1>1, <1>3
  <2>2. shift({t}, p) = IF p >= t THEN p + 1 ELSE p
    BY OneRow
  <2> QED BY <1>3, <2>1, <2>2 DEF MovedTo, Src
<1> QED BY <1>2, <1>3

LEMMA DeletedIs ==
  ASSUME NEW b, RowSet(b.insertions), NEW i \in Nat
  PROVE  Deleted(b, erase_or_unshift(b.insertions, i)) =
           Joined(b.deletions, b.insertions, {i})
<1>1. unshift(b.insertions, i) \in Nat
  BY UnshiftMonotone
<1>2. CASE i \in b.insertions
  BY <1>2 DEF Deleted, erase_or_unshift, Joined, npos
<1>3. CASE i \notin b.insertions
  <2>1. unshift(b.insertions, i) # npos
    BY <1>1 DEF npos
  <2> QED BY <1>3, <2>1 DEF Deleted, erase_or_unshift, Joined, add_shifted, Src
<1> QED BY <1>2, <1>3

-----------------------------------------------------------------------------
(* What a change set says of two lists.                                      *)

Move == [from : Nat, to : Nat]

\* The row at position q of the old list is now at p, or p is known to have been
\* written to: it is in M, or the row's new value is in X.
Same(M, X, old, q, new, p) == p \in M \/ new[p + 1] \in X \/ new[p + 1] = old[q + 1]

\* Rows that were not inserted are old rows in their order.
Explains(D, I, M, X, old, new) ==
    /\ Shaped(Len(old), D, I, Len(new))
    /\ M \subseteq 0 .. Len(new) - 1
    /\ \A p \in 0 .. Len(new) - 1 : p \notin I => Same(M, X, old, Src(D, I, p), new, p)

\* No two moves take the same row, or take rows to the same place.
Apart(moves) ==
    \A j, k \in DOMAIN moves :
        j # k => moves[j].from # moves[k].from /\ moves[j].to # moves[k].to

Moved(D, I, M, X, old, new, from, to) ==
    from \in D /\ to \in I /\ Same(M, X, old, from, new, to)

Carries(D, I, M, X, moves, old, new) ==
    /\ moves \in Seq(Move) /\ Apart(moves)
    /\ \A k \in DOMAIN moves : Moved(D, I, M, X, old, new, moves[k].from, moves[k].to)

\* The rows that M1 and M2 name, where they are in the end.
Covers(M, M1, D2, I2, M2, n) ==
    /\ M \subseteq 0 .. n - 1
    /\ \A p \in 0 .. n - 1 : p \notin I2 =>
          (p \in M2 => p \in M) /\ (Src(D2, I2, p) \in M1 => p \in M)

LEMMA ExplainsShape ==
  ASSUME NEW old \in Seq(Nat), NEW new \in Seq(Nat), NEW D, NEW I, NEW M, NEW X,
         Explains(D, I, M, X, old, new)
  PROVE  /\ Len(old) \in Nat /\ Len(new) \in Nat
         /\ Shaped(Len(old), D, I, Len(new)) /\ Shaped(Len(new), I, D, Len(old))
         /\ RowSet(D) /\ RowSet(I)
<1>1. Len(old) \in Nat /\ Len(new) \in Nat /\ Shaped(Len(old), D, I, Len(new))
  BY DEF Explains
<1>2. D \subseteq 0 .. Len(old) - 1 /\ I \subseteq 0 .. Len(new) - 1
  BY <1>1 DEF Shaped
<1>3. RowSet(D) /\ RowSet(I)
  BY <1>1, <1>2, RowsFinite
<1> QED BY <1>1, <1>3, ShapedBack

LEMMA ExplainedTwice ==
  ASSUME NEW old \in Seq(Nat), NEW mid \in Seq(Nat), NEW new \in Seq(Nat), NEW X,
         NEW D1, NEW I1, NEW M1, Explains(D1, I1, M1, X, old, mid),
         NEW D2, NEW I2, NEW M2, Explains(D2, I2, M2, X, mid, new),
         NEW M, Covers(M, M1, D2, I2, M2, Len(new))
  PROVE  Explains(Joined(D1, I1, D2), Joined(I2, D2, I1), M, X, old, new)
<1> DEFINE D == Joined(D1, I1, D2)
           I == Joined(I2, D2, I1)
<1>1. /\ Len(old) \in Nat /\ Len(mid) \in Nat /\ Len(new) \in Nat
      /\ Shaped(Len(old), D1, I1, Len(mid)) /\ Shaped(Len(mid), D2, I2, Len(new))
  BY DEF Explains
<1> HIDE DEF D, I
<1>2. /\ Shaped(Len(old), D, I, Len(new))
      /\ \A p \in 0 .. Len(new) - 1 : p \notin I =>
              /\ p \notin I2
              /\ Src(D2, I2, p) \in 0 .. Len(mid) - 1
              /\ Src(D2, I2, p) \notin D2 \cup I1
              /\ Src(D, I, p) = Src(D1, I1, Src(D2, I2, p))
  BY <1>1, Composed DEF D, I
<1>3. ASSUME NEW p \in 0 .. Len(new) - 1, p \notin I
      PROVE  Same(M, X, old, Src(D, I, p), new, p)
  <2> DEFINE r == Src(D2, I2, p)
  <2>1. p \notin I2 /\ r \in 0 .. Len(mid) - 1 /\ r \notin I1 /\ Src(D, I, p) = Src(D1, I1, r)
    BY <1>2, <1>3
  <2>2. Same(M2, X, mid, r, new, p) /\ (p \in M2 => p \in M) /\ (r \in M1 => p \in M)
    BY <2>1 DEF Explains, Covers
  <2> HIDE DEF r
  <2>3. Same(M1, X, old, Src(D1, I1, r), mid, r)
    BY <2>1 DEF Explains
  <2> QED BY <2>1, <2>2, <2>3 DEF Same
<1> QED BY <1>2, <1>3 DEF Explains, Covers, D, I

\* A row moved first, and then kept.
LEMMA MovedThenKept ==
  ASSUME NEW old \in Seq(Nat), NEW mid \in Seq(Nat), NEW new \in Seq(Nat), NEW X,
         NEW D1, NEW I1, NEW M1, Explains(D1, I1, M1, X, old, mid),
         NEW D2, NEW I2, NEW M2, Explains(D2, I2, M2, X, mid, new),
         NEW M, Covers(M, M1, D2, I2, M2, Len(new)),
         NEW f, NEW t, t \notin D2, Moved(D1, I1, M1, X, old, mid, f, t)
  PROVE  /\ Moved(Joined(D1, I1, D2), Joined(I2, D2, I1), M, X, old, new,
                  f, Src(I2, D2, t))
         /\ Src(I2, D2, t) \in 0 .. Len(new) - 1
         /\ Src(I2, D2, t) \notin I2
<1> DEFINE p == Src(I2, D2, t)
<1>1. /\ Len(mid) \in Nat /\ Len(new) \in Nat
      /\ Shaped(Len(mid), D2, I2, Len(new)) /\ Shaped(Len(new), I2, D2, Len(mid))
      /\ RowSet(D2) /\ RowSet(I2)
  BY ExplainsShape
<1>2. t \in 0 .. Len(mid) - 1 /\ t \in Nat /\ t \in I1 /\ f \in D1
  BY DEF Moved, Explains, Shaped
<1>3. p \in 0 .. Len(new) - 1
  BY <1>1, <1>2, SrcBelow
<1>4. p \notin I2 /\ Src(D2, I2, p) = t
  BY <1>1, <1>2, SrcFinds
<1>5. f \in Joined(D1, I1, D2) /\ p \in Joined(I2, D2, I1)
  BY <1>2 DEF Joined
<1> HIDE DEF p
<1>6. Same(M2, X, mid, t, new, p) /\ (p \in M2 => p \in M) /\ (t \in M1 => p \in M)
  BY <1>3, <1>4 DEF Explains, Covers
<1>7. Same(M, X, old, f, new, p)
  BY <1>6 DEF Same, Moved
<1> QED BY <1>3, <1>4, <1>5, <1>7 DEF Moved, p

\* A row written to before or while it moved to t is in M.
Noted(M, M1, M2, f, t) == (t \in M2 => t \in M) /\ (f \in M1 => t \in M)

\* A row kept first, and then moved.
LEMMA KeptThenMoved ==
  ASSUME NEW old \in Seq(Nat), NEW mid \in Seq(Nat), NEW new, NEW X,
         NEW D1, NEW I1, NEW M1, Explains(D1, I1, M1, X, old, mid),
         NEW D2, D2 \subseteq 0 .. Len(mid) - 1, NEW I2, NEW M2, NEW M,
         NEW f, NEW t, f \notin I1, Moved(D2, I2, M2, X, mid, new, f, t),
         Noted(M, M1, M2, f, t)
  PROVE  /\ Moved(Joined(D1, I1, D2), Joined(I2, D2, I1), M, X, old, new,
                  Src(D1, I1, f), t)
         /\ Src(D1, I1, f) \in 0 .. Len(old) - 1
         /\ Src(D1, I1, f) \notin D1
<1> DEFINE q == Src(D1, I1, f)
<1>1. Len(old) \in Nat /\ Len(mid) \in Nat /\ Shaped(Len(old), D1, I1, Len(mid))
      /\ RowSet(D1) /\ RowSet(I1)
  BY ExplainsShape
<1>2. f \in 0 .. Len(mid) - 1 /\ f \in Nat /\ f \in D2 /\ t \in I2
  BY DEF Moved
<1>3. q \in 0 .. Len(old) - 1
  BY <1>1, <1>2, SrcBelow
<1>4. q \notin D1
  BY <1>1, <1>2, SrcFinds
<1>5. q \in Joined(D1, I1, D2) /\ t \in Joined(I2, D2, I1)
  BY <1>2 DEF Joined
<1> HIDE DEF q
<1>6. Same(M1, X, old, q, mid, f)
  BY <1>2 DEF Explains, q
<1>7. Same(M, X, old, q, new, t)
  BY <1>6 DEF Same, Moved, Noted
<1> QED BY <1>3, <1>4, <1>5, <1>7 DEF Moved, q

\* A row moved twice.
LEMMA MovedTwice ==
  ASSUME NEW old, NEW mid, NEW new, NEW X,
         NEW D1, NEW I1, NEW M1, NEW D2, NEW I2, NEW M2, NEW M,
         NEW f, NEW t, NEW u, Moved(D1, I1, M1, X, old, mid, f, t),
         Moved(D2, I2, M2, X, mid, new, t, u),
         Noted(M, M1, M2, t, u)
  PROVE  Moved(Joined(D1, I1, D2), Joined(I2, D2, I1), M, X, old, new, f, u)
<1>1. f \in Joined(D1, I1, D2) /\ u \in Joined(I2, D2, I1)
  BY DEF Moved, Joined
<1>2. Same(M, X, old, f, new, u)
  BY DEF Moved, Same, Noted
<1> QED BY <1>1, <1>2 DEF Moved

\* Rows are written to, in place.
LEMMA Rewritten ==
  ASSUME NEW D, NEW I, NEW M, NEW X, NEW moves, NEW old, NEW mid,
         Explains(D, I, M, X, old, mid), Carries(D, I, M, X, moves, old, mid),
         NEW new, Len(new) = Len(mid),
         NEW N, M \subseteq N, N \subseteq 0 .. Len(mid) - 1, NEW Y,
         \A p \in 0 .. Len(mid) - 1 :
            \/ p \in N \/ new[p + 1] \in Y
            \/ new[p + 1] = mid[p + 1] /\ mid[p + 1] \notin X
  PROVE  Explains(D, I, N, Y, old, new) /\ Carries(D, I, N, Y, moves, old, new)
<1>1. ASSUME NEW p \in 0 .. Len(mid) - 1, NEW q, Same(M, X, old, q, mid, p)
      PROVE  Same(N, Y, old, q, new, p)
  BY <1>1 DEF Same
<1>2. Explains(D, I, N, Y, old, new)
  BY <1>1 DEF Explains
<1>3. \A k \in DOMAIN moves : moves[k].to \in 0 .. Len(mid) - 1
  BY DEF Carries, Moved, Explains, Shaped
<1>4. Carries(D, I, N, Y, moves, old, new)
  BY <1>1, <1>3 DEF Carries, Moved
<1> QED BY <1>2, <1>4

\* The written rows that c keeps, and those c writes to.
LEMMA CoversCarried ==
  ASSUME NEW mid \in Seq(Nat), NEW new \in Seq(Nat), NEW X, NEW D, NEW I, NEW M2,
         Explains(D, I, M2, X, mid, new), NEW M1, M1 \subseteq 0 .. Len(mid) - 1,
         NEW N, M2 \subseteq N, N \subseteq 0 .. Len(new) - 1, NEW M,
         \A p : p \in M <=> p \in N \/ \E v \in M1 : v \notin D /\ p = Src(I, D, v)
  PROVE  Covers(M, M1, D, I, M2, Len(new))
<1>1. /\ Len(mid) \in Nat /\ Len(new) \in Nat
      /\ Shaped(Len(new), I, D, Len(mid)) /\ RowSet(D) /\ RowSet(I)
  BY ExplainsShape
<1>2. ASSUME NEW v \in M1, v \notin D PROVE Src(I, D, v) \in 0 .. Len(new) - 1
  BY <1>1, <1>2, SrcBelow
<1>3. M \subseteq 0 .. Len(new) - 1
  BY <1>2
<1>4. ASSUME NEW p \in 0 .. Len(new) - 1, p \notin I
      PROVE  (p \in M2 => p \in M) /\ (Src(D, I, p) \in M1 => p \in M)
  <2>1. p \in Nat
    OBVIOUS
  <2>2. Src(D, I, p) \notin D /\ Src(I, D, Src(D, I, p)) = p
    BY <1>1, <1>4, <2>1, SrcFinds
  <2>3. Src(D, I, p) \in M1 => p \in M
    BY <2>2
  <2> QED BY <2>3
<1> QED BY <1>3, <1>4 DEF Covers

LEMMA PartOf ==
  ASSUME NEW s \in Seq(Nat), NEW m \in 1 .. Len(s) + 1, NEW n \in 0 .. Len(s), m <= n + 1
  PROVE  /\ SubSeq(s, m, n) \in Seq(Nat) /\ Len(SubSeq(s, m, n)) = n + 1 - m
         /\ \A k \in 1 .. n + 1 - m : SubSeq(s, m, n)[k] = s[m + k - 1]
<1> DEFINE t == SubSeq(s, m, n)
<1>1. Len(s) \in Nat /\ m \in Int /\ n \in Int /\ n - m + 1 = n + 1 - m
  OBVIOUS
<1>2. \A k \in m .. n : s[k] \in Nat
  <2>1. \A k \in m .. n : k \in 1 .. Len(s)
    BY <1>1
  <2> QED BY <2>1
<1>3. /\ t \in Seq(Nat) /\ Len(t) = IF m <= n THEN n - m + 1 ELSE 0
      /\ \A k \in 1 .. n - m + 1 : t[k] = s[m + k - 1]
  BY <1>1, <1>2, SubSeqProperties
<1> HIDE DEF t
<1>4. Len(t) = n + 1 - m
  BY <1>1, <1>3
<1> QED BY <1>1, <1>3, <1>4 DEF t

LEMMA WithRow ==
  ASSUME NEW s \in Seq(Nat), NEW i \in 0 .. Len(s), NEW v \in Nat
  PROVE  /\ With(s, i, v) \in Seq(Nat) /\ Len(With(s, i, v)) = Len(s) + 1
         /\ With(s, i, v)[i + 1] = v
         /\ \A p \in 0 .. i - 1 : With(s, i, v)[p + 1] = s[p + 1]
         /\ \A p \in i + 1 .. Len(s) : With(s, i, v)[p + 1] = s[p]
<1> DEFINE a == SubSeq(s, 1, i)
           c == SubSeq(s, i + 1, Len(s))
           e == a \o <<v>>
<1>1. Len(s) \in Nat /\ i \in Nat /\ i <= Len(s) /\ i + 1 \in 1 .. Len(s) + 1
      /\ 1 \in 1 .. Len(s) + 1 /\ Len(s) \in 0 .. Len(s) /\ 1 <= i + 1
  OBVIOUS
<1>2. a \in Seq(Nat) /\ Len(a) = i + 1 - 1 /\ \A k \in 1 .. i + 1 - 1 : a[k] = s[1 + k - 1]
  BY <1>1, PartOf
<1>3. c \in Seq(Nat) /\ Len(c) = Len(s) + 1 - (i + 1)
      /\ \A k \in 1 .. Len(s) + 1 - (i + 1) : c[k] = s[(i + 1) + k - 1]
  BY <1>1, PartOf, SMTT(60)
<1> HIDE DEF a, c
<1>4. <<v>> \in Seq(Nat) /\ Len(<<v>>) = 1 /\ <<v>>[1] = v
  OBVIOUS
<1>5. /\ e \in Seq(Nat) /\ Len(e) = Len(a) + Len(<<v>>)
      /\ \A k \in 1 .. Len(a) + Len(<<v>>) :
            e[k] = IF k <= Len(a) THEN a[k] ELSE <<v>>[k - Len(a)]
  BY <1>2, <1>4, ConcatProperties
<1>6. /\ e \in Seq(Nat) /\ Len(e) = i + 1 /\ e[i + 1] = v
      /\ \A k \in 1 .. i : e[k] = s[k]
  <2> HIDE DEF e
  <2>1. Len(a) = i
    BY <1>1, <1>2
  <2>2. Len(e) = i + 1
    BY <1>1, <1>4, <1>5, <2>1
  <2>3. e[i + 1] = <<v>>[(i + 1) - i]
    BY <1>1, <1>4, <1>5, <2>1
  <2>4. (i + 1) - i = 1
    BY <1>1
  <2>5. ASSUME NEW k \in 1 .. i PROVE e[k] = s[k]
    <3>1. e[k] = a[k]
      BY <1>1, <1>4, <1>5, <2>1
    <3>2. a[k] = s[1 + k - 1] /\ 1 + k - 1 = k
      BY <1>1, <1>2
    <3> QED BY <3>1, <3>2
  <2> QED BY <1>4, <1>5, <2>2, <2>3, <2>4, <2>5
<1> HIDE DEF e
<1>7. /\ e \o c \in Seq(Nat) /\ Len(e \o c) = Len(e) + Len(c)
      /\ \A k \in 1 .. Len(e) + Len(c) :
            (e \o c)[k] = IF k <= Len(e) THEN e[k] ELSE c[k - Len(e)]
  BY <1>3, <1>6, ConcatProperties
<1> DEFINE w == e \o c
<1> HIDE DEF w
<1>8. Len(w) = Len(s) + 1
  BY <1>1, <1>3, <1>6, <1>7 DEF w
<1>9. ASSUME NEW p \in 0 .. Len(s)
      PROVE  /\ p < i => w[p + 1] = s[p + 1]
             /\ p = i => w[p + 1] = v
             /\ p > i => w[p + 1] = s[p]
  <2>1. w[p + 1] = IF p + 1 <= i + 1 THEN e[p + 1] ELSE c[(p + 1) - (i + 1)]
    <3>1. p + 1 \in 1 .. Len(e) + Len(c)
      BY <1>1, <1>3, <1>6
    <3> QED BY <3>1, <1>6, <1>7 DEF w
  <2>2. CASE p < i
    BY <1>1, <1>6, <2>1, <2>2
  <2>3. CASE p = i
    BY <1>1, <1>6, <2>1, <2>3
  <2>4. CASE p > i
    <3>1. w[p + 1] = c[p - i] /\ p - i \in 1 .. Len(s) + 1 - (i + 1)
      BY <1>1, <2>1, <2>4
    <3>2. c[p - i] = s[(i + 1) + (p - i) - 1]
      BY <1>3, <3>1
    <3>3. (i + 1) + (p - i) - 1 = p
      BY <1>1
    <3> QED BY <1>1, <2>4, <3>1, <3>2, <3>3
  <2> QED BY <1>1, <2>2, <2>3, <2>4
<1>10. With(s, i, v) = w
  BY DEF With, w, e, a, c
<1>11. w \in Seq(Nat)
  BY <1>7 DEF w
<1>12. /\ i \in 0 .. Len(s) /\ \A p \in 0 .. i - 1 : p \in 0 .. Len(s) /\ p < i
       /\ \A p \in i + 1 .. Len(s) : p \in 0 .. Len(s) /\ p > i
  BY <1>1
<1> QED BY <1>8, <1>9, <1>10, <1>11, <1>12

LEMMA WithoutRow ==
  ASSUME NEW s \in Seq(Nat), NEW i \in 0 .. Len(s) - 1
  PROVE  /\ Without(s, i) \in Seq(Nat) /\ Len(Without(s, i)) = Len(s) - 1
         /\ \A p \in 0 .. i - 1 : Without(s, i)[p + 1] = s[p + 1]
         /\ \A p \in i .. Len(s) - 2 : Without(s, i)[p + 1] = s[p + 2]
<1> DEFINE a == SubSeq(s, 1, i)
           c == SubSeq(s, i + 2, Len(s))
           w == a \o c
<1>1. Len(s) \in Nat /\ i \in Nat /\ i + 1 <= Len(s) /\ i + 2 \in 1 .. Len(s) + 1
      /\ 1 \in 1 .. Len(s) + 1 /\ Len(s) \in 0 .. Len(s) /\ 1 <= i + 1
      /\ i \in 0 .. Len(s) /\ i + 2 <= Len(s) + 1
  OBVIOUS
<1>2. a \in Seq(Nat) /\ Len(a) = i + 1 - 1 /\ \A k \in 1 .. i + 1 - 1 : a[k] = s[1 + k - 1]
  BY <1>1, PartOf
<1>3. c \in Seq(Nat) /\ Len(c) = Len(s) + 1 - (i + 2)
      /\ \A k \in 1 .. Len(s) + 1 - (i + 2) : c[k] = s[(i + 2) + k - 1]
  BY <1>1, PartOf
<1> HIDE DEF a, c
<1>4. /\ w \in Seq(Nat) /\ Len(w) = Len(a) + Len(c)
      /\ \A k \in 1 .. Len(a) + Len(c) : w[k] = IF k <= Len(a) THEN a[k] ELSE c[k - Len(a)]
  BY <1>2, <1>3, ConcatProperties
<1> HIDE DEF w
<1>5. Len(a) = i /\ Len(w) = Len(s) - 1
  BY <1>1, <1>2, <1>3, <1>4
<1>6. ASSUME NEW p \in 0 .. Len(s) - 2
      PROVE  /\ p < i => w[p + 1] = s[p + 1]
             /\ p >= i => w[p + 1] = s[p + 2]
  <2>1. w[p + 1] = IF p + 1 <= i THEN a[p + 1] ELSE c[(p + 1) - i]
    <3>1. p + 1 \in 1 .. Len(a) + Len(c)
      BY <1>1, <1>3, <1>5
    <3> QED BY <3>1, <1>4, <1>5
  <2>2. CASE p < i
    <3>1. w[p + 1] = a[p + 1] /\ p + 1 \in 1 .. i + 1 - 1
      BY <1>1, <2>1, <2>2
    <3>2. p \in Int
      BY <1>1
    <3>3. 1 + (p + 1) - 1 = p + 1
      BY <3>2
    <3>4. a[p + 1] = s[1 + (p + 1) - 1]
      BY <1>2, <3>1, Zenon
    <3> QED BY <2>2, <3>1, <3>3, <3>4
  <2>3. CASE p >= i
    <3>1. w[p + 1] = c[(p + 1) - i] /\ (p + 1) - i \in 1 .. Len(s) + 1 - (i + 2)
      <4> DEFINE n == Len(s)
      <4>1. n \in Int /\ i \in Int /\ p \in Int /\ p <= n - 2
        BY <1>1
      <4> HIDE DEF n
      <4>2. ~(p + 1 <= i) /\ (p + 1) - i \in 1 .. n + 1 - (i + 2)
        BY <2>3, <4>1
      <4>3. w[p + 1] = c[(p + 1) - i]
        BY <2>1, <4>2, Zenon
      <4> QED BY <4>2, <4>3 DEF n
    <3>2. c[(p + 1) - i] = s[(i + 2) + ((p + 1) - i) - 1]
      BY <1>3, <3>1
    <3>3. (i + 2) + ((p + 1) - i) - 1 = p + 2
      BY <1>1
    <3> QED BY <1>1, <2>3, <3>1, <3>2, <3>3
  <2> QED BY <1>1, <2>2, <2>3
<1>7. Without(s, i) = w
  BY DEF Without, w, a, c
<1>8. /\ \A p \in 0 .. i - 1 : p \in 0 .. Len(s) - 2 /\ p < i
      /\ \A p \in i .. Len(s) - 2 : p \in 0 .. Len(s) - 2 /\ p >= i
  BY <1>1
<1> QED BY <1>4, <1>5, <1>6, <1>7, <1>8

LEMMA Inserted ==
  ASSUME NEW s \in Seq(Nat), NEW i \in 0 .. Len(s), NEW v \in Nat, NEW X
  PROVE  Explains({}, {i}, {}, X, s, With(s, i, v))
<1> DEFINE t == With(s, i, v)
<1>1. t \in Seq(Nat) /\ Len(t) = Len(s) + 1
  BY WithRow
<1>2. \A p \in 0 .. i - 1 : t[p + 1] = s[p + 1]
  BY WithRow
<1>3. \A p \in i + 1 .. Len(s) : t[p + 1] = s[p]
  BY WithRow
<1> HIDE DEF t
<1>4. Shaped(Len(s), {}, {i}, Len(t))
  <2>1. Cardinality({}) = 0 /\ Cardinality({i}) = 1
    BY FS_EmptySet, FS_Singleton
  <2>2. Len(s) \in Nat /\ i \in 0 .. Len(t) - 1
    BY <1>1
  <2>3. Len(s) - 0 = Len(t) - 1
    BY <1>1, <2>2
  <2> QED BY <2>1, <2>2, <2>3 DEF Shaped
<1>5. ASSUME NEW p \in 0 .. Len(t) - 1, p # i PROVE t[p + 1] = s[Src({}, {i}, p) + 1]
  <2>1. p \in Nat /\ p \in 0 .. Len(s) /\ i \in Nat
    BY <1>1
  <2>2. unshift({i}, p) = IF p > i THEN p - 1 ELSE p
    BY <2>1, OneRow
  <2>3. unshift({i}, p) \in Nat
    BY <2>1, <2>2
  <2>4. Src({}, {i}, p) = IF p > i THEN p - 1 ELSE p
    BY <2>2, <2>3, NoRow DEF Src
  <2>5. CASE p > i
    <3>1. (p - 1) + 1 = p /\ Src({}, {i}, p) = p - 1 /\ p \in i + 1 .. Len(s)
      BY <2>1, <2>4, <2>5
    <3>2. t[p + 1] = s[p]
      BY <1>3, <3>1
    <3> QED BY <3>1, <3>2
  <2>6. CASE p < i
    <3>1. Src({}, {i}, p) = p /\ p \in 0 .. i - 1
      BY <2>1, <2>4, <2>6
    <3> QED BY <1>2, <3>1
  <2> QED BY <1>5, <2>1, <2>5, <2>6
<1>6. Explains({}, {i}, {}, X, s, t)
  BY <1>4, <1>5 DEF Explains, Same
<1> QED BY <1>6 DEF t

LEMMA Erased ==
  ASSUME NEW s \in Seq(Nat), NEW i \in 0 .. Len(s) - 1, NEW X
  PROVE  Explains({i}, {}, {}, X, s, Without(s, i))
<1> DEFINE t == Without(s, i)
<1>1. t \in Seq(Nat) /\ Len(t) = Len(s) - 1
  BY WithoutRow
<1>2. \A p \in 0 .. i - 1 : t[p + 1] = s[p + 1]
  BY WithoutRow
<1>3. \A p \in i .. Len(s) - 2 : t[p + 1] = s[p + 2]
  BY WithoutRow
<1> HIDE DEF t
<1>4. Shaped(Len(s), {i}, {}, Len(t))
  <2>1. Cardinality({}) = 0 /\ Cardinality({i}) = 1
    BY FS_EmptySet, FS_Singleton
  <2>2. Len(s) \in Nat /\ Len(s) - 1 = Len(t) - 0
    BY <1>1
  <2> QED BY <2>1, <2>2 DEF Shaped
<1>5. ASSUME NEW p \in 0 .. Len(t) - 1 PROVE t[p + 1] = s[Src({i}, {}, p) + 1]
  <2>1. p \in Nat /\ p \in 0 .. Len(s) - 2 /\ i \in Nat
    BY <1>1
  <2>2. shift({i}, p) = IF p >= i THEN p + 1 ELSE p
    BY <2>1, OneRow
  <2>3. Src({i}, {}, p) = IF p >= i THEN p + 1 ELSE p
    BY <2>1, <2>2, NoRow DEF Src
  <2>4. CASE p >= i
    <3>1. (p + 1) + 1 = p + 2 /\ Src({i}, {}, p) = p + 1 /\ p \in i .. Len(s) - 2
      BY <2>1, <2>3, <2>4
    <3>2. t[p + 1] = s[p + 2]
      BY <1>3, <3>1
    <3> QED BY <3>1, <3>2
  <2>5. CASE p < i
    <3>1. Src({i}, {}, p) = p /\ p \in 0 .. i - 1
      BY <2>1, <2>3, <2>5
    <3> QED BY <1>2, <3>1
  <2> QED BY <2>1, <2>4, <2>5
<1>6. Explains({i}, {}, {}, X, s, t)
  BY <1>4, <1>5 DEF Explains, Same
<1> QED BY <1>6 DEF t

LEMMA Relocated ==
  ASSUME NEW s \in Seq(Nat), NEW f \in 0 .. Len(s) - 1, NEW t \in 0 .. Len(s) - 1, NEW X
  PROVE  Explains({f}, {t}, {}, X, s, With(Without(s, f), t, s[f + 1]))
<1> DEFINE r == Without(s, f)
           n == With(r, t, s[f + 1])
<1>1. r \in Seq(Nat) /\ Len(r) = Len(s) - 1
  BY WithoutRow
<1>2. s[f + 1] \in Nat /\ t \in 0 .. Len(r)
  BY <1>1
<1>3. Explains({f}, {}, {}, X, s, r)
  BY Erased
<1> HIDE DEF r
<1>4. n \in Seq(Nat) /\ Explains({}, {t}, {}, X, r, n)
  BY <1>1, <1>2, WithRow, Inserted
<1> HIDE DEF n
<1>5. Covers({}, {}, {}, {t}, {}, Len(n))
  BY DEF Covers
<1>6. Explains(Joined({f}, {}, {}), Joined({t}, {}, {}), {}, X, s, n)
  BY <1>1, <1>3, <1>4, <1>5, ExplainedTwice
<1>7. Joined({f}, {}, {}) = {f} /\ Joined({t}, {}, {}) = {t}
  BY DEF Joined
<1> QED BY <1>6, <1>7 DEF n, r

-----------------------------------------------------------------------------
(* Loops over the moves.                                                     *)

\* Induction over the natural numbers, for a set.
LEMMA RowInduction ==
  ASSUME NEW S, 0 \in S, \A n \in Nat : n \in S => n + 1 \in S
  PROVE  Nat \subseteq S
<1> SUFFICES ASSUME Nat \ S # {} PROVE FALSE
  OBVIOUS
<1>1. PICK x \in Nat \ S : \A y \in Nat \ S : x <= y
  BY LeastRow
<1>2. x - 1 \in Nat /\ x - 1 \in S
  BY <1>1
<1> QED BY <1>1, <1>2

\* The loops: what they hold after k moves, if they held x before the k-th.
Pass(loop, x, k) ==
    IF loop.kind = "only"
    THEN IF loop.s[k] \in loop.S THEN Append(x, loop.s[k]) ELSE x
    ELSE IF loop.kind = "clean" THEN CleanedStep(x, loop.b.moves[k])
    ELSE UpdatedStep(x, loop.b.moves[k], loop.b)

Passes(loop, g, k) == IF k = 0 THEN loop.start ELSE Pass(loop, g[k - 1], k)

\* g is the function that n passes of a loop define by recursion.
Runs(loop, n, g) == g = [k \in 0..n |-> Passes(loop, g, k)]

\* There is one.
LEMMA LoopRuns ==
  ASSUME NEW loop, NEW n \in Nat
  PROVE  \E g : Runs(loop, n, g)
<1> DEFINE Done == {x \in Nat : \E g : Runs(loop, x, g)}
<1>1. 0 \in Done
  <2> DEFINE g == [k \in 0..0 |-> loop.start]
  <2>1. Runs(loop, 0, g)
    BY DEF Passes, Runs
  <2> HIDE DEF g
  <2> QED BY <2>1
<1>2. ASSUME NEW x \in Nat, x \in Done PROVE x + 1 \in Done
  <2>1. PICK g : Runs(loop, x, g)
    BY <1>2
  <2> DEFINE h == [k \in 0..(x + 1) |-> IF k = x + 1 THEN Passes(loop, g, x + 1) ELSE g[k]]
  <2>2. ASSUME NEW k \in 0..(x + 1) PROVE h[k] = Passes(loop, h, k)
    <3>1. CASE k = 0
      BY <2>1, <3>1 DEF Passes, Runs
    <3>2. CASE k # 0
      <4>1. k - 1 \in 0..x /\ k - 1 \in 0..(x + 1) /\ k - 1 # x + 1
        BY <3>2
      <4>2. h[k - 1] = g[k - 1]
        BY <4>1
      <4>3. Passes(loop, h, k) = Passes(loop, g, k)
        BY <4>2, <3>2 DEF Passes
      <4>4. CASE k = x + 1
        BY <4>3, <4>4
      <4>5. CASE k # x + 1
        <5>1. k \in 0..x
          BY <4>5
        <5> QED BY <4>3, <4>5, <5>1, <2>1 DEF Runs
      <4> QED BY <4>4, <4>5
    <3> QED BY <3>1, <3>2
  <2>3. Runs(loop, x + 1, h)
    <3> DEFINE r == [k \in 0..(x + 1) |-> Passes(loop, h, k)]
    <3>1. \A k \in 0..(x + 1) : h[k] = r[k]
      BY <2>2
    <3>2. h = [k \in 0..(x + 1) |-> h[k]] /\ r = [k \in 0..(x + 1) |-> r[k]]
      OBVIOUS
    <3> HIDE DEF h, r
    <3>3. h = r
      BY <3>1, <3>2
    <3> QED BY <3>3 DEF r, Runs
  <2> HIDE DEF h
  <2> QED BY <2>3
<1>3. Nat \subseteq Done
  <2> HIDE DEF Done
  <2> QED BY <1>1, <1>2, RowInduction
<1> QED BY <1>3

\* What it holds.
LEMMA LoopHolds ==
  ASSUME NEW loop, NEW n \in Nat, NEW g, Runs(loop, n, g)
  PROVE  /\ g[0] = loop.start
         /\ \A k \in 0..n : k # 0 => g[k] = Pass(loop, g[k - 1], k)
<1>1. \A k \in 0..n : g[k] = Passes(loop, g, k)
  BY DEF Runs
<1>2. 0 \in 0..n
  OBVIOUS
<1> QED BY <1>1, <1>2 DEF Passes

LEMMA AppendApart ==
  ASSUME NEW t \in Seq(Move), Apart(t), NEW e \in Move,
         \A j \in DOMAIN t : t[j].from # e.from /\ t[j].to # e.to
  PROVE  /\ Append(t, e) \in Seq(Move) /\ Apart(Append(t, e))
         /\ \A j \in DOMAIN Append(t, e) :
               Append(t, e)[j] = e \/ \E i \in DOMAIN t : Append(t, e)[j] = t[i]
<1> DEFINE a == Append(t, e)
<1>1. /\ a \in Seq(Move) /\ Len(t) \in Nat /\ DOMAIN t = 1 .. Len(t)
      /\ DOMAIN a = 1 .. Len(t) + 1 /\ a[Len(t) + 1] = e
      /\ \A j \in 1 .. Len(t) : a[j] = t[j]
  OBVIOUS
<1> HIDE DEF a
<1>2. ASSUME NEW j \in DOMAIN a PROVE j \in DOMAIN t \/ (j = Len(t) + 1 /\ a[j] = e)
  BY <1>1
<1>3. \A j \in DOMAIN t : a[j] = t[j]
  BY <1>1
<1>4. Apart(a)
  BY <1>2, <1>3 DEF Apart
<1> QED BY <1>1, <1>2, <1>3, <1>4 DEF a

\* Only as a loop.
FilterStep(g, s, S, k) ==
    IF k = 0 THEN <<>>
    ELSE IF s[k] \in S THEN Append(g[k - 1], s[k]) ELSE g[k - 1]

Filters(g, s, S, n) == g = [k \in 0..n |-> FilterStep(g, s, S, k)]

FilterLoop(s, S) == [kind |-> "only", start |-> <<>>, s |-> s, S |-> S]

LEMMA FilterRuns ==
  ASSUME NEW s, NEW S, NEW n, NEW g
  PROVE  Filters(g, s, S, n) <=> Runs(FilterLoop(s, S), n, g)
<1>1. \A k \in 0..n : Passes(FilterLoop(s, S), g, k) = FilterStep(g, s, S, k)
  BY DEF Passes, Pass, FilterStep, FilterLoop
<1> QED BY <1>1 DEF Filters, Runs

LEMMA FilterHolds ==
  ASSUME NEW s, NEW S, NEW n \in Nat, NEW g, g = CHOOSE h : Filters(h, s, S, n)
  PROVE  /\ g[0] = <<>>
         /\ \A k \in 0..n : k # 0 =>
              g[k] = IF s[k] \in S THEN Append(g[k - 1], s[k]) ELSE g[k - 1]
<1>1. \E h : Filters(h, s, S, n)
  <2>1. PICK h : Runs(FilterLoop(s, S), n, h)
    BY LoopRuns
  <2>2. Filters(h, s, S, n)
    BY <2>1, FilterRuns
  <2> QED BY <2>2
<1> DEFINE loop == FilterLoop(s, S)
<1>2. Runs(loop, n, g)
  BY <1>1, FilterRuns
<1>3. loop.kind = "only" /\ loop.start = <<>> /\ loop.s = s /\ loop.S = S
  BY DEF FilterLoop
<1> HIDE DEF loop
<1>4. g[0] = loop.start
  BY <1>2, LoopHolds
<1>5. \A k \in 0..n : k # 0 => g[k] = Pass(loop, g[k - 1], k)
  BY <1>2, LoopHolds
<1>6. \A x, k : Pass(loop, x, k) = IF s[k] \in S THEN Append(x, s[k]) ELSE x
  BY <1>3 DEF Pass
<1> QED BY <1>3, <1>4, <1>5, <1>6

LEMMA OnlyApart ==
  ASSUME NEW s \in Seq(Move), Apart(s), NEW S
  PROVE  /\ Only(s, S) \in Seq(Move) /\ Apart(Only(s, S))
         /\ \A j \in DOMAIN Only(s, S) :
               Only(s, S)[j] \in S /\ \E i \in DOMAIN s : Only(s, S)[j] = s[i]
<1> DEFINE kept == CHOOSE g : Filters(g, s, S, Len(s))
<1>1. Len(s) \in Nat /\ DOMAIN s = 1 .. Len(s)
  OBVIOUS
<1>2. Only(s, S) = kept[Len(s)]
  BY Zenon DEF Only, Filters, FilterStep
<1>3. /\ kept[0] = <<>>
      /\ \A k \in 0..Len(s) : k # 0 =>
            kept[k] = IF s[k] \in S THEN Append(kept[k - 1], s[k]) ELSE kept[k - 1]
  BY <1>1, FilterHolds
<1> HIDE DEF kept
<1> DEFINE Right(k) == /\ kept[k] \in Seq(Move) /\ Apart(kept[k])
                       /\ \A j \in DOMAIN kept[k] :
                            kept[k][j] \in S /\ \E i \in 1 .. k : kept[k][j] = s[i]
           Done == {k \in Nat : k <= Len(s) => Right(k)}
<1>5. 0 \in Done
  <2>1. <<>> \in Seq(Move) /\ DOMAIN <<>> = {}
    OBVIOUS
  <2> QED BY <1>3, <2>1 DEF Apart
<1>6. ASSUME NEW k \in Nat, k \in Done PROVE k + 1 \in Done
  <2> SUFFICES ASSUME k + 1 <= Len(s) PROVE Right(k + 1)
    OBVIOUS
  <2> DEFINE t == kept[k]
             e == s[k + 1]
  <2>1. k <= Len(s) /\ k + 1 \in 0..Len(s) /\ k + 1 # 0 /\ (k + 1) - 1 = k /\ k + 1 \in DOMAIN s
    BY <1>1
  <2>2. Right(k)
    BY <1>6, <2>1
  <2>3. kept[k + 1] = IF e \in S THEN Append(t, e) ELSE t
    BY <1>3, <2>1
  <2>4. \A i \in 1 .. k : i \in 1 .. k + 1 /\ i \in DOMAIN s /\ i # k + 1
    BY <1>1, <2>1
  <2>5. k + 1 \in 1 .. k + 1
    OBVIOUS
  <2>6. CASE e \notin S
    <3>1. kept[k + 1] = t
      BY <2>3, <2>6
    <3> QED BY <2>2, <2>4, <3>1
  <2>7. CASE e \in S
    <3>1. e \in Move
      BY <2>1
    <3>2. \A j \in DOMAIN t : t[j].from # e.from /\ t[j].to # e.to
      BY <2>1, <2>2, <2>4 DEF Apart
    <3>3. t \in Seq(Move) /\ Apart(t)
      BY <2>2
    <3> HIDE DEF t, e
    <3>4. /\ Append(t, e) \in Seq(Move) /\ Apart(Append(t, e))
          /\ \A j \in DOMAIN Append(t, e) :
               Append(t, e)[j] = e \/ \E i \in DOMAIN t : Append(t, e)[j] = t[i]
      BY <3>1, <3>2, <3>3, AppendApart
    <3>5. \A j \in DOMAIN t : t[j] \in S /\ \E i \in 1 .. k + 1 : t[j] = s[i]
      BY <2>2, <2>4 DEF t
    <3>6. e \in S /\ \E i \in 1 .. k + 1 : e = s[i]
      BY <2>5, <2>7 DEF e
    <3>7. kept[k + 1] = Append(t, e)
      BY <2>3, <2>7
    <3>8. \A j \in DOMAIN Append(t, e) :
             Append(t, e)[j] \in S /\ \E i \in 1 .. k + 1 : Append(t, e)[j] = s[i]
      BY <3>4, <3>5, <3>6
    <3> QED BY <3>4, <3>7, <3>8
  <2> QED BY <2>6, <2>7
<1>7. Nat \subseteq Done
  <2> HIDE DEF Done
  <2> QED BY <1>5, <1>6, RowInduction
<1>8. Right(Len(s))
  BY <1>1, <1>7
<1> QED BY <1>1, <1>2, <1>8

-----------------------------------------------------------------------------
(* Each log entry keeps the batch's change set a description of the list.    *)

ChangeSet == [deletions : SUBSET Nat, insertions : SUBSET Nat,
              modifications : SUBSET Nat, moves : Seq(Move)]

Describes(b, X, old, new) ==
    /\ b \in ChangeSet
    /\ Explains(b.deletions, b.insertions, b.modifications, X, old, new)
    /\ Carries(b.deletions, b.insertions, b.modifications, X, b.moves, old, new)

LEMMA ChangeSetType ==
  ASSUME NEW old \in Seq(Nat), NEW new \in Seq(Nat), NEW X, NEW D, NEW I, NEW M, NEW moves,
         Explains(D, I, M, X, old, new), Carries(D, I, M, X, moves, old, new)
  PROVE  [deletions |-> D, insertions |-> I, modifications |-> M, moves |-> moves]
            \in ChangeSet
<1>1. D \subseteq Nat /\ I \subseteq Nat
  BY ExplainsShape DEF RowSet
<1>2. M \subseteq Nat
  BY DEF Explains
<1>3. moves \in Seq(Move)
  BY DEF Carries
<1> QED BY <1>1, <1>2, <1>3 DEF ChangeSet

LEMMA MoveOf ==
  ASSUME NEW moves \in Seq(Move), NEW k \in DOMAIN moves
  PROVE  moves[k] \in Move /\ moves[k].from \in Nat /\ moves[k].to \in Nat
<1>1. moves[k] \in Move
  OBVIOUS
<1> QED BY <1>1 DEF Move

LEMMA MovesType ==
  ASSUME NEW kept \in Seq(Move), NEW moves \in [DOMAIN kept -> Move]
  PROVE  moves \in Seq(Move) /\ DOMAIN moves = DOMAIN kept
<1>1. DOMAIN kept = 1 .. Len(kept) /\ Len(kept) \in Nat
  OBVIOUS
<1> QED BY <1>1

\* The moves kept, when D was deleted and I inserted after them.
Shifted(kept, moves, D, I) ==
    /\ moves \in Seq(Move) /\ DOMAIN moves = DOMAIN kept
    /\ \A k \in DOMAIN kept : /\ kept[k].to \notin D
                              /\ moves[k].from = kept[k].from
                              /\ moves[k].to = Src(I, D, kept[k].to)

LEMMA MovesKept ==
  ASSUME NEW old \in Seq(Nat), NEW mid \in Seq(Nat), NEW new \in Seq(Nat), NEW X,
         NEW D1, NEW I1, NEW M1, Explains(D1, I1, M1, X, old, mid),
         NEW D2, NEW I2, NEW M2, Explains(D2, I2, M2, X, mid, new),
         NEW M, Covers(M, M1, D2, I2, M2, Len(new)),
         NEW kept, Carries(D1, I1, M1, X, kept, old, mid),
         NEW moves, Shifted(kept, moves, D2, I2)
  PROVE  /\ Carries(Joined(D1, I1, D2), Joined(I2, D2, I1), M, X, moves, old, new)
         /\ \A k \in DOMAIN moves : moves[k].from \in D1 /\ moves[k].to \notin I2
<1> DEFINE D == Joined(D1, I1, D2)
           I == Joined(I2, D2, I1)
<1> HIDE DEF D, I
<1> USE DEF Shifted
<1>1. ASSUME NEW k \in DOMAIN kept
      PROVE  /\ Moved(D, I, M, X, old, new, moves[k].from, moves[k].to)
             /\ moves[k].from \in D1 /\ moves[k].to \notin I2
             /\ kept[k].to \in Nat
  <2> DEFINE f == kept[k].from
             t == kept[k].to
  <2>1. Moved(D1, I1, M1, X, old, mid, f, t) /\ t \notin D2 /\ f \in D1 /\ t \in I1
    BY DEF Carries, Moved
  <2>2. moves[k].from = f /\ moves[k].to = Src(I2, D2, t)
    OBVIOUS
  <2>3. t \in Nat
    BY MoveOf DEF Carries
  <2> HIDE DEF f, t
  <2>4. Moved(D, I, M, X, old, new, f, Src(I2, D2, t)) /\ Src(I2, D2, t) \notin I2
    BY <2>1, MovedThenKept DEF D, I
  <2> QED BY <2>1, <2>2, <2>3, <2>4 DEF t
<1>2. Apart(moves)
  <2>1. RowSet(D2) /\ RowSet(I2)
    BY ExplainsShape
  <2>2. Apart(kept)
    BY DEF Carries
  <2> SUFFICES ASSUME NEW j \in DOMAIN kept, NEW k \in DOMAIN kept, j # k
               PROVE  moves[j].from # moves[k].from /\ moves[j].to # moves[k].to
    BY DEF Apart
  <2>3. kept[j].from # kept[k].from /\ kept[j].to # kept[k].to
    BY <2>2 DEF Apart
  <2>4. /\ kept[j].to \in Nat /\ kept[j].to \notin D2
        /\ kept[k].to \in Nat /\ kept[k].to \notin D2
    BY <1>1
  <2>5. Src(I2, D2, kept[j].to) # Src(I2, D2, kept[k].to)
    BY <2>1, <2>3, <2>4, SrcOrder
  <2> QED BY <2>3, <2>5
<1>3. Carries(D, I, M, X, moves, old, new)
  BY <1>1, <1>2 DEF Carries
<1> QED BY <1>1, <1>3 DEF D, I

LEMMA InsertEntry ==
  ASSUME NEW old \in Seq(Nat), NEW mid \in Seq(Nat), NEW b, NEW X,
         Describes(b, X, old, mid), NEW i \in 0 .. Len(mid), NEW v \in Nat
  PROVE  Describes(insert(b, i), X, old, With(mid, i, v))
<1> DEFINE new == With(mid, i, v)
           none == {}
           here == {i}
           D == b.deletions
           I == b.insertions
           M == b.modifications
           c == insert(b, i)
<1>1. /\ Explains(D, I, M, X, old, mid) /\ Carries(D, I, M, X, b.moves, old, mid)
      /\ b \in ChangeSet /\ b.moves \in Seq(Move)
  BY DEF Describes, ChangeSet
<1>2. new \in Seq(Nat) /\ Len(mid) \in Nat /\ i \in Nat
  <2>1. new \in Seq(Nat)
    BY WithRow
  <2> QED BY <2>1
<1>3. Explains(none, here, none, X, mid, new)
  BY Inserted
<1>4. M \subseteq 0 .. Len(mid) - 1
  BY <1>1 DEF Explains
<1>5. RowSet(I) /\ RowSet(M)
  BY <1>1, <1>2, <1>4, ExplainsShape, RowsFinite
<1> HIDE DEF new, D, I, M
<1>6. /\ c.deletions = D /\ c.insertions = insert_at(I, i)
      /\ c.modifications = shift_for_insert_at(M, i)
      /\ c.moves = [k \in DOMAIN b.moves |->
                      [b.moves[k] EXCEPT !.to = IF @ >= i THEN @ + 1 ELSE @]]
  BY DEF insert, D, I, M
<1>7. Joined(D, I, none) = D
  BY DEF Joined
<1>8. Joined(here, none, I) = c.insertions
      /\ {Src(here, none, p) : p \in M \ none} = c.modifications
  BY <1>2, <1>5, <1>6, InsertAt
<1>9. none \subseteq 0 .. Len(new) - 1 /\ none \subseteq none
  OBVIOUS
<1>10. ASSUME NEW k \in DOMAIN b.moves
       PROVE  /\ c.moves[k].to = Src(here, none, b.moves[k].to) /\ b.moves[k].to \notin none
              /\ c.moves[k].from = b.moves[k].from /\ c.moves[k] \in Move
  <2> DEFINE t == b.moves[k].to
  <2>1. t \in Nat /\ b.moves[k] \in Move
    BY <1>1, MoveOf
  <2>2. c.moves[k] = [b.moves[k] EXCEPT !.to = IF t >= i THEN t + 1 ELSE t]
    BY <1>6
  <2> HIDE DEF t, c
  <2>3. (IF t >= i THEN t + 1 ELSE t) \in Nat
    BY <2>1
  <2>4. /\ c.moves[k].to = IF t >= i THEN t + 1 ELSE t
        /\ c.moves[k].from = b.moves[k].from /\ c.moves[k] \in Move
    BY <2>1, <2>2, <2>3 DEF Move
  <2>5. Src(here, none, t) = IF t >= i THEN t + 1 ELSE t
    BY <1>2, <2>1, OneRow, NoRow DEF Src
  <2> QED BY <2>4, <2>5 DEF t
<1> HIDE DEF c, none, here
<1>11. Covers(c.modifications, M, none, here, none, Len(new))
  <2>1. \A p : p \in c.modifications <=>
                  p \in none \/ \E x \in M : x \notin none /\ p = Src(here, none, x)
    BY <1>8 DEF none
  <2> QED BY <1>2, <1>3, <1>4, <1>9, <2>1, CoversCarried
<1>12. Explains(c.deletions, c.insertions, c.modifications, X, old, new)
  BY <1>1, <1>2, <1>3, <1>6, <1>7, <1>8, <1>11, ExplainedTwice
<1>13. c.moves \in Seq(Move) /\ DOMAIN c.moves = DOMAIN b.moves
  <2>1. c.moves \in [DOMAIN b.moves -> Move]
    BY <1>6, <1>10
  <2> QED BY <1>1, <2>1, MovesType
<1>14. Carries(c.deletions, c.insertions, c.modifications, X, c.moves, old, new)
  <2>1. Carries(Joined(D, I, none), Joined(here, none, I), c.modifications, X,
                c.moves, old, new)
    <3>1. Shifted(b.moves, c.moves, none, here)
      BY <1>10, <1>13 DEF Shifted
    <3> QED BY <1>1, <1>2, <1>3, <1>11, <3>1, MovesKept
  <2> QED BY <1>6, <1>7, <1>8, <2>1
<1>15. c \in ChangeSet
  BY <1>2, <1>12, <1>14, ChangeSetType DEF c, insert
<1> QED BY <1>12, <1>14, <1>15 DEF Describes, new, c

LEMMA OnlyCarries ==
  ASSUME NEW D, NEW I, NEW M, NEW X, NEW moves, NEW old, NEW new, NEW S,
         Carries(D, I, M, X, moves, old, new)
  PROVE  /\ Carries(D, I, M, X, Only(moves, S), old, new)
         /\ \A j \in DOMAIN Only(moves, S) : Only(moves, S)[j] \in S
<1> DEFINE kept == Only(moves, S)
<1>1. moves \in Seq(Move) /\ Apart(moves)
  BY DEF Carries
<1>2. /\ kept \in Seq(Move) /\ Apart(kept)
      /\ \A j \in DOMAIN kept : kept[j] \in S /\ \E i \in DOMAIN moves : kept[j] = moves[i]
  BY <1>1, OnlyApart
<1> HIDE DEF kept
<1>3. \A j \in DOMAIN kept : Moved(D, I, M, X, old, new, kept[j].from, kept[j].to)
  BY <1>2 DEF Carries
<1> QED BY <1>2, <1>3 DEF Carries, kept

LEMMA EraseEntry ==
  ASSUME NEW old \in Seq(Nat), NEW mid \in Seq(Nat), NEW b, NEW X,
         Describes(b, X, old, mid), NEW i \in 0 .. Len(mid) - 1
  PROVE  Describes(erase(b, i), X, old, Without(mid, i))
<1> DEFINE new == Without(mid, i)
           none == {}
           here == {i}
           D == b.deletions
           I == b.insertions
           M == b.modifications
           S == {m \in Elements(b.moves) : m.to # i}
           kept == Only(b.moves, S)
           c == erase(b, i)
<1>1. /\ Explains(D, I, M, X, old, mid) /\ Carries(D, I, M, X, b.moves, old, mid)
      /\ b \in ChangeSet /\ b.moves \in Seq(Move)
  BY DEF Describes, ChangeSet
<1>2. new \in Seq(Nat) /\ Len(mid) \in Nat /\ i \in Nat
  <2>1. new \in Seq(Nat)
    BY WithoutRow
  <2> QED BY <2>1
<1>3. Explains(here, none, none, X, mid, new)
  BY Erased
<1>4. M \subseteq 0 .. Len(mid) - 1
  BY <1>1 DEF Explains
<1>5. RowSet(I) /\ RowSet(M)
  BY <1>1, <1>2, <1>4, ExplainsShape, RowsFinite
<1>6. /\ c.deletions = Deleted(b, erase_or_unshift(b.insertions, i))
      /\ c.insertions = erase_at(b.insertions, i)
      /\ c.modifications = erase_at(b.modifications, i)
      /\ c.moves = [k \in DOMAIN kept |->
                      [kept[k] EXCEPT !.to = IF @ > i THEN @ - 1 ELSE @]]
  BY DEF erase
<1>7. Joined(D, I, here) = c.deletions
  <2> HIDE DEF c
  <2> QED BY <1>2, <1>5, <1>6, DeletedIs
<1>8. Carries(D, I, M, X, kept, old, mid) /\ \A k \in DOMAIN kept : kept[k].to # i
  <2>1. \A k \in DOMAIN kept : kept[k] \in S
    <3> HIDE DEF S
    <3> QED BY <1>1, OnlyCarries
  <2>2. \A k \in DOMAIN kept : kept[k].to # i
    BY <2>1
  <2>3. Carries(D, I, M, X, kept, old, mid)
    <3> HIDE DEF S
    <3> QED BY <1>1, OnlyCarries
  <2> QED BY <2>2, <2>3
<1> HIDE DEF new, D, I, M, kept
<1>9. Joined(none, here, I) = c.insertions
      /\ \A p : p \in c.modifications <=>
                  p \in none \/ \E x \in M : x \notin here /\ p = Src(none, here, x)
  <2>1. Joined(none, here, I) = erase_at(I, i) /\ Joined(none, here, M) = erase_at(M, i)
    BY <1>2, <1>5, EraseAt
  <2>2. c.insertions = Joined(none, here, I) /\ c.modifications = Joined(none, here, M)
    BY <1>6, <2>1 DEF I, M
  <2> HIDE DEF here, c
  <2> QED BY <2>2 DEF Joined
<1>10. none \subseteq 0 .. Len(new) - 1 /\ none \subseteq none
  OBVIOUS
<1>11. kept \in Seq(Move)
  BY <1>8 DEF Carries
<1>12. ASSUME NEW k \in DOMAIN kept
       PROVE  /\ c.moves[k].to = Src(none, here, kept[k].to) /\ kept[k].to \notin here
              /\ c.moves[k].from = kept[k].from /\ c.moves[k] \in Move
  <2> DEFINE t == kept[k].to
  <2>1. t \in Nat /\ kept[k] \in Move /\ t # i
    BY <1>8, <1>11, MoveOf
  <2>2. c.moves[k] = [kept[k] EXCEPT !.to = IF t > i THEN t - 1 ELSE t]
    BY <1>6
  <2> HIDE DEF t, c
  <2>3. (IF t > i THEN t - 1 ELSE t) \in Nat
    BY <1>2, <2>1
  <2>4. /\ c.moves[k].to = IF t > i THEN t - 1 ELSE t
        /\ c.moves[k].from = kept[k].from /\ c.moves[k] \in Move
    BY <2>1, <2>2, <2>3 DEF Move
  <2>5. unshift({i}, t) = IF t > i THEN t - 1 ELSE t
    BY <1>2, <2>1, OneRow
  <2>6. Src(none, here, t) = IF t > i THEN t - 1 ELSE t
    BY <2>3, <2>5, NoRow DEF Src
  <2> QED BY <2>1, <2>4, <2>6 DEF t
<1> HIDE DEF c, none, here
<1>13. Covers(c.modifications, M, here, none, none, Len(new))
  BY <1>2, <1>3, <1>4, <1>9, <1>10, CoversCarried
<1>14. Explains(c.deletions, c.insertions, c.modifications, X, old, new)
  BY <1>1, <1>2, <1>3, <1>7, <1>9, <1>13, ExplainedTwice
<1>15. Shifted(kept, c.moves, here, none)
  <2>1. c.moves \in [DOMAIN kept -> Move]
    BY <1>6, <1>12
  <2>2. c.moves \in Seq(Move) /\ DOMAIN c.moves = DOMAIN kept
    BY <1>11, <2>1, MovesType
  <2> QED BY <1>12, <2>2 DEF Shifted
<1>16. Carries(c.deletions, c.insertions, c.modifications, X, c.moves, old, new)
  <2>1. Carries(Joined(D, I, here), Joined(none, here, I), c.modifications, X,
                c.moves, old, new)
    BY <1>1, <1>2, <1>3, <1>8, <1>13, <1>15, MovesKept
  <2> QED BY <1>7, <1>9, <2>1
<1>17. c \in ChangeSet
  <2>1. c = [deletions |-> c.deletions, insertions |-> c.insertions,
             modifications |-> c.modifications, moves |-> c.moves]
    BY DEF c, erase
  <2> QED BY <1>2, <1>14, <1>16, <2>1, ChangeSetType
<1> QED BY <1>14, <1>16, <1>17 DEF Describes, new, c

LEMMA MoveEntry ==
  ASSUME NEW old \in Seq(Nat), NEW mid \in Seq(Nat), NEW b, NEW X,
         Describes(b, X, old, mid),
         NEW f \in 0 .. Len(mid) - 1, NEW t \in 0 .. Len(mid) - 1
  PROVE  Describes(move(b, f, t), X, old, With(Without(mid, f), t, mid[f + 1]))
<1> DEFINE new == With(Without(mid, f), t, mid[f + 1])
           none == {}
           gone == {f}
           here == {t}
           D == b.deletions
           I == b.insertions
           M == b.modifications
           again == \E k \in DOMAIN b.moves : b.moves[k].to = f
           unshifted == erase_or_unshift(b.insertions, f)
           known == again \/ unshifted = npos
           shifted == [k \in DOMAIN b.moves |->
                         [b.moves[k] EXCEPT !.to = MovedTo(@, f, t)]]
           rest == erase_at(b.modifications, f)
           c == move(b, f, t)
<1>1. /\ Explains(D, I, M, X, old, mid) /\ Carries(D, I, M, X, b.moves, old, mid)
      /\ b \in ChangeSet /\ b.moves \in Seq(Move)
  BY DEF Describes, ChangeSet
<1>2. Len(mid) \in Nat /\ f \in Nat /\ t \in Nat /\ mid[f + 1] \in Nat
  OBVIOUS
<1>3. new \in Seq(Nat) /\ new[t + 1] = mid[f + 1]
  <2> DEFINE w == Without(mid, f)
  <2>1. w \in Seq(Nat) /\ Len(w) = Len(mid) - 1
    BY WithoutRow
  <2> HIDE DEF w
  <2>2. t \in 0 .. Len(w)
    BY <1>2, <2>1
  <2> DEFINE v == mid[f + 1]
  <2>3. v \in Nat
    BY <1>2
  <2> HIDE DEF v
  <2>4. With(w, t, v) \in Seq(Nat) /\ With(w, t, v)[t + 1] = v
    BY <2>1, <2>2, <2>3, WithRow, ZenonT(60)
  <2> QED BY <2>4 DEF w, v
<1>4. Explains(gone, here, none, X, mid, new)
  BY Relocated
<1>5. M \subseteq 0 .. Len(mid) - 1
  BY <1>1 DEF Explains
<1>6. RowSet(D) /\ RowSet(I) /\ RowSet(M)
  BY <1>1, <1>2, <1>5, ExplainsShape, RowsFinite
<1>7. known <=> f \in I
  <2>1. unshift(I, f) \in Nat
    BY <1>2, <1>6, UnshiftMonotone
  <2>2. unshifted = npos <=> f \in I
    BY <2>1 DEF erase_or_unshift, npos
  <2>3. again => f \in I
    BY <1>1 DEF Carries, Moved
  <2> QED BY <2>2, <2>3
<1>8. /\ c.deletions = IF known THEN D ELSE Deleted(b, unshifted)
      /\ c.insertions = insert_at(erase_at(b.insertions, f), t)
      /\ c.modifications = IF f \in M THEN insert_at(rest, t)
                           ELSE shift_for_insert_at(rest, t)
      /\ c.moves = IF known THEN shifted
                   ELSE Append(shifted, [from |-> add_shifted(b.deletions, unshifted),
                                         to |-> t])
  BY DEF move
<1>9. Joined(D, I, gone) = c.deletions
  <2>1. CASE f \in I
    <3>1. c.deletions = D
      BY <1>7, <1>8, <2>1
    <3> HIDE DEF c
    <3> QED BY <2>1, <3>1 DEF Joined
  <2>2. CASE f \notin I
    <3>1. c.deletions = Deleted(b, erase_or_unshift(b.insertions, f))
      BY <1>7, <1>8, <2>2
    <3> HIDE DEF c
    <3> QED BY <1>2, <1>6, <3>1, DeletedIs
  <2> QED BY <2>1, <2>2
<1> DEFINE N == IF f \in M THEN {t} ELSE {}
<1>10. Joined(here, gone, I) = c.insertions
       /\ \A p : p \in c.modifications <=>
                  p \in N \/ \E x \in M : x \notin gone /\ p = Src(here, gone, x)
  <2>1. c.insertions = Joined(here, gone, I)
    <3>1. c.insertions = insert_at(erase_at(I, f), t)
      BY <1>8
    <3> HIDE DEF c, I
    <3>2. Joined(here, gone, I) = insert_at(erase_at(I, f), t)
      BY <1>2, <1>6, MoveAt
    <3> QED BY <3>1, <3>2
  <2>2. /\ Joined(here, gone, M) = insert_at(rest, t)
        /\ {Src(here, gone, v) : v \in M \ gone} = shift_for_insert_at(rest, t)
    BY <1>2, <1>6, MoveAt
  <2>3. c.modifications = N \cup {Src(here, gone, v) : v \in M \ gone}
    <3> HIDE DEF c, gone, M, rest
    <3> QED BY <1>8, <2>2 DEF Joined
  <2> HIDE DEF c, here, gone, M, N
  <2> QED BY <2>1, <2>3
<1>11. N \subseteq 0 .. Len(new) - 1 /\ none \subseteq N /\ (f \in M => t \in N)
  <2>1. t \in 0 .. Len(new) - 1
    BY <1>4 DEF Explains, Shaped
  <2> QED BY <2>1
<1>12. Moved(gone, here, none, X, mid, new, f, t)
  BY <1>3 DEF Moved, Same
<1>13. ASSUME NEW k \in DOMAIN b.moves
       PROVE  /\ shifted[k].to = MovedTo(b.moves[k].to, f, t)
              /\ shifted[k].from = b.moves[k].from /\ shifted[k] \in Move
              /\ b.moves[k].to = f => shifted[k].to = t
              /\ b.moves[k].to # f =>
                   b.moves[k].to \notin gone /\ shifted[k].to = Src(here, gone, b.moves[k].to)
              /\ b.moves[k].to \in Nat
  <2> DEFINE x == b.moves[k].to
  <2>1. x \in Nat /\ b.moves[k] \in Move
    BY <1>1, MoveOf
  <2>2. shifted[k] = [b.moves[k] EXCEPT !.to = MovedTo(x, f, t)]
    OBVIOUS
  <2> HIDE DEF x, shifted
  <2>3. MovedTo(x, f, t) \in Nat /\ MovedTo(f, f, t) = t
    BY <1>2, <2>1 DEF MovedTo
  <2>4. shifted[k].to = MovedTo(x, f, t)
        /\ shifted[k].from = b.moves[k].from /\ shifted[k] \in Move
    BY <2>1, <2>2, <2>3 DEF Move
  <2>5. x # f => MovedTo(x, f, t) = Src(here, gone, x)
    BY <1>2, <2>1, MovedToIs
  <2> QED BY <2>1, <2>3, <2>4, <2>5 DEF x
<1>14. shifted \in Seq(Move) /\ DOMAIN shifted = DOMAIN b.moves
  <2>1. shifted \in [DOMAIN b.moves -> Move]
    BY <1>13
  <2> HIDE DEF shifted
  <2> QED BY <1>1, <2>1, MovesType
<1>15. f \in I => c.moves = shifted
  BY <1>7, <1>8
<1>16. f \notin I => c.moves = Append(shifted, [from |-> Src(D, I, f), to |-> t])
  BY <1>7, <1>8 DEF add_shifted, erase_or_unshift, Src
<1>17. c = [deletions |-> c.deletions, insertions |-> c.insertions,
            modifications |-> c.modifications, moves |-> c.moves]
  BY DEF move
<1>18. t \in here /\ f \in gone
  OBVIOUS
<1> HIDE DEF c, none, here, gone, D, I, M, N, new, shifted, known
<1>19. Covers(c.modifications, M, gone, here, none, Len(new))
  BY <1>3, <1>4, <1>5, <1>10, <1>11, CoversCarried
<1>20. Explains(c.deletions, c.insertions, c.modifications, X, old, new)
  BY <1>1, <1>3, <1>4, <1>9, <1>10, <1>19, ExplainedTwice
<1>21. Noted(c.modifications, M, none, f, t)
  BY <1>10, <1>11 DEF Noted
<1>22. CASE f \in I
  <2>1. ASSUME NEW k \in DOMAIN b.moves
        PROVE  /\ Moved(c.deletions, c.insertions, c.modifications, X, old, new,
                        shifted[k].from, shifted[k].to)
               /\ b.moves[k].to # f => shifted[k].to \notin here
    <3> DEFINE g == b.moves[k].from
               x == b.moves[k].to
    <3>1. Moved(D, I, M, X, old, mid, g, x)
      BY <1>1 DEF Carries
    <3>2. shifted[k].from = g /\ (x = f => shifted[k].to = t)
          /\ (x # f => x \notin gone /\ shifted[k].to = Src(here, gone, x))
      BY <1>13
    <3> HIDE DEF g, x
    <3>3. CASE x = f
      <4>1. Moved(D, I, M, X, old, mid, g, f)
        BY <3>1, <3>3
      <4>2. Moved(Joined(D, I, gone), Joined(here, gone, I), c.modifications, X, old, new, g, t)
        BY <1>12, <1>21, <4>1, MovedTwice
      <4> QED BY <1>9, <1>10, <3>2, <3>3, <4>2 DEF x
    <3>4. CASE x # f
      <4>1. /\ Moved(Joined(D, I, gone), Joined(here, gone, I), c.modifications, X, old, new,
                     g, Src(here, gone, x))
            /\ Src(here, gone, x) \notin here
        BY <1>1, <1>3, <1>4, <1>19, <3>1, <3>2, <3>4, MovedThenKept
      <4> QED BY <1>9, <1>10, <3>2, <3>4, <4>1
    <3> QED BY <3>3, <3>4
  <2>2. Apart(shifted)
    <3> SUFFICES ASSUME NEW j \in DOMAIN b.moves, NEW k \in DOMAIN b.moves, j # k
                 PROVE  shifted[j].from # shifted[k].from /\ shifted[j].to # shifted[k].to
      BY <1>14 DEF Apart
    <3>1. b.moves[j].from # b.moves[k].from /\ b.moves[j].to # b.moves[k].to
      BY <1>1 DEF Carries, Apart
    <3>2. shifted[j].from # shifted[k].from
      BY <1>13, <3>1
    <3>3. CASE b.moves[j].to = f
      BY <1>13, <1>18, <2>1, <3>1, <3>3
    <3>4. CASE b.moves[k].to = f
      BY <1>13, <1>18, <2>1, <3>1, <3>4
    <3>5. CASE b.moves[j].to # f /\ b.moves[k].to # f
      <4>1. RowSet(here) /\ RowSet(gone)
        BY <1>3, <1>4, ExplainsShape
      <4>2. /\ b.moves[j].to \in Nat /\ b.moves[j].to \notin gone
            /\ b.moves[k].to \in Nat /\ b.moves[k].to \notin gone
        BY <1>13, <3>5
      <4>3. Src(here, gone, b.moves[j].to) # Src(here, gone, b.moves[k].to)
        BY <3>1, <4>1, <4>2, SrcOrder
      <4> QED BY <1>13, <3>2, <3>5, <4>3
    <3> QED BY <3>2, <3>3, <3>4, <3>5
  <2>3. Carries(c.deletions, c.insertions, c.modifications, X, c.moves, old, new)
    BY <1>14, <1>15, <1>22, <2>1, <2>2 DEF Carries
  <2> QED BY <1>3, <1>17, <1>20, <2>3, ChangeSetType DEF Describes, c, new
<1>23. CASE f \notin I
  <2> DEFINE e == [from |-> Src(D, I, f), to |-> t]
  <2>1. \A k \in DOMAIN b.moves : b.moves[k].to # f
    BY <1>1, <1>23 DEF Carries, Moved
  <2>2. Shifted(b.moves, shifted, gone, here)
    BY <1>13, <1>14, <2>1 DEF Shifted
  <2>3. /\ Carries(c.deletions, c.insertions, c.modifications, X, shifted, old, new)
        /\ \A k \in DOMAIN shifted : shifted[k].from \in D /\ shifted[k].to \notin here
    <3>1. /\ Carries(Joined(D, I, gone), Joined(here, gone, I), c.modifications, X,
                     shifted, old, new)
          /\ \A k \in DOMAIN shifted : shifted[k].from \in D /\ shifted[k].to \notin here
      BY <1>1, <1>3, <1>4, <1>19, <2>2, MovesKept
    <3> QED BY <1>9, <1>10, <3>1
  <2>4. /\ Moved(c.deletions, c.insertions, c.modifications, X, old, new, Src(D, I, f), t)
        /\ Src(D, I, f) \notin D /\ Src(D, I, f) \in 0 .. Len(old) - 1
    <3>1. gone \subseteq 0 .. Len(mid) - 1
      BY <1>4 DEF Explains, Shaped
    <3>2. /\ Moved(Joined(D, I, gone), Joined(here, gone, I), c.modifications, X, old, new,
                   Src(D, I, f), t)
          /\ Src(D, I, f) \notin D /\ Src(D, I, f) \in 0 .. Len(old) - 1
      BY <1>1, <1>12, <1>21, <1>23, <3>1, KeptThenMoved
    <3> QED BY <1>9, <1>10, <3>2
  <2>5. e \in Move /\ e.from = Src(D, I, f) /\ e.to = t
    BY <1>2, <2>4 DEF Move
  <2> HIDE DEF e
  <2>6. \A k \in DOMAIN shifted : shifted[k].from # e.from /\ shifted[k].to # e.to
    BY <1>18, <2>3, <2>4, <2>5
  <2>7. Apart(shifted)
    BY <2>3 DEF Carries
  <2>8. /\ Append(shifted, e) \in Seq(Move) /\ Apart(Append(shifted, e))
        /\ \A j \in DOMAIN Append(shifted, e) :
              Append(shifted, e)[j] = e
              \/ \E i \in DOMAIN shifted : Append(shifted, e)[j] = shifted[i]
    BY <1>14, <2>5, <2>6, <2>7, AppendApart
  <2>9. Carries(c.deletions, c.insertions, c.modifications, X, Append(shifted, e), old, new)
    BY <2>3, <2>4, <2>5, <2>8 DEF Carries
  <2>10. c.moves = Append(shifted, e)
    BY <1>16, <1>23 DEF e
  <2> QED BY <1>3, <1>17, <1>20, <2>9, <2>10, ChangeSetType DEF Describes, c, new
<1> QED BY <1>22, <1>23

\* A change set with some of its fields replaced.
LEMMA WithModifications ==
  ASSUME NEW b \in ChangeSet, NEW S \in SUBSET Nat
  PROVE  /\ [b EXCEPT !.modifications = S] \in ChangeSet
         /\ [b EXCEPT !.modifications = S].deletions = b.deletions
         /\ [b EXCEPT !.modifications = S].insertions = b.insertions
         /\ [b EXCEPT !.modifications = S].modifications = S
         /\ [b EXCEPT !.modifications = S].moves = b.moves
BY DEF ChangeSet

LEMMA WithMoves ==
  ASSUME NEW b \in ChangeSet, NEW moves \in Seq(Move)
  PROVE  /\ [b EXCEPT !.moves = moves] \in ChangeSet
         /\ [b EXCEPT !.moves = moves].deletions = b.deletions
         /\ [b EXCEPT !.moves = moves].insertions = b.insertions
         /\ [b EXCEPT !.moves = moves].modifications = b.modifications
         /\ [b EXCEPT !.moves = moves].moves = moves
BY DEF ChangeSet

LEMMA WithDeletions ==
  ASSUME NEW b \in ChangeSet, NEW S \in SUBSET Nat
  PROVE  /\ [b EXCEPT !.deletions = S] \in ChangeSet
         /\ [b EXCEPT !.deletions = S].deletions = S
         /\ [b EXCEPT !.deletions = S].insertions = b.insertions
         /\ [b EXCEPT !.deletions = S].modifications = b.modifications
         /\ [b EXCEPT !.deletions = S].moves = b.moves
BY DEF ChangeSet

LEMMA EmptyChange ==
  /\ emptyChange \in ChangeSet /\ emptyChange.deletions = {} /\ emptyChange.insertions = {}
  /\ emptyChange.modifications = {} /\ emptyChange.moves = <<>>
<1>1. <<>> \in Seq(Move)
  OBVIOUS
<1> QED BY <1>1 DEF emptyChange, ChangeSet

LEMMA ClearEntry ==
  ASSUME NEW old \in Seq(Nat), NEW mid \in Seq(Nat), NEW b, NEW X,
         Describes(b, X, old, mid)
  PROVE  Describes(clear(b, Len(mid)), X, old, <<>>)
<1> DEFINE n == Len(old)
           all == 0 .. n - 1
           none == {}
           new == <<>>
           c == clear(b, Len(mid))
<1>1. Explains(b.deletions, b.insertions, b.modifications, X, old, mid)
  BY DEF Describes
<1>2. /\ n \in Nat /\ Len(mid) \in Nat /\ Shaped(n, b.deletions, b.insertions, Len(mid))
  BY <1>1, ExplainsShape
<1>3. Cardinality(b.deletions) \in Nat /\ Cardinality(b.insertions) \in Nat
  BY <1>2, RowsFinite DEF Shaped
<1>4. Len(mid) + Cardinality(b.deletions) - Cardinality(b.insertions) = n
  BY <1>2, <1>3 DEF Shaped
<1>5. /\ c \in ChangeSet
      /\ c.deletions = all /\ c.insertions = none /\ c.modifications = none /\ c.moves = new
  <2>1. c = [emptyChange EXCEPT !.deletions = all]
    BY <1>4 DEF clear, set
  <2>2. all \in SUBSET Nat
    BY <1>2
  <2> HIDE DEF all, c
  <2>3. /\ c \in ChangeSet /\ c.deletions = all /\ c.insertions = emptyChange.insertions
        /\ c.modifications = emptyChange.modifications /\ c.moves = emptyChange.moves
    BY <2>1, <2>2, EmptyChange, WithDeletions
  <2> QED BY <2>3, EmptyChange
<1>6. new \in Seq(Nat) /\ Len(new) = 0 /\ new \in Seq(Move) /\ DOMAIN new = {}
  <2>1. new \in Seq(Nat) /\ Len(new) = 0
    OBVIOUS
  <2>2. new \in Seq(Move) /\ DOMAIN new = {}
    OBVIOUS
  <2> QED BY <2>1, <2>2
<1>7. Cardinality(all) = n /\ Cardinality(none) = 0
  <2> HIDE DEF n
  <2>1. Cardinality(0 .. n - 1) = IF 0 > n - 1 THEN 0 ELSE (n - 1) - 0 + 1
    <3>1. 0 \in Int /\ n - 1 \in Int
      BY <1>2
    <3> QED BY <3>1, FS_Interval
  <2>2. (IF 0 > n - 1 THEN 0 ELSE (n - 1) - 0 + 1) = n
    BY <1>2
  <2> QED BY <2>1, <2>2, FS_EmptySet
<1>8. none \subseteq 0 .. Len(new) - 1 /\ 0 .. Len(new) - 1 = {}
  BY <1>6
<1>9. Shaped(n, all, none, Len(new))
  BY <1>2, <1>6, <1>7, <1>8 DEF Shaped
<1> HIDE DEF all, none, new
<1>10. Explains(all, none, none, X, old, new)
  BY <1>8, <1>9 DEF Explains
<1>11. Carries(all, none, none, X, new, old, new)
  BY <1>6 DEF Carries, Apart
<1> QED BY <1>5, <1>10, <1>11 DEF Describes, new

\* Rows are written to: those that N adds are known to be, and Y has the values of
\* the others.
LEMMA ModifyEntry ==
  ASSUME NEW old \in Seq(Nat), NEW mid \in Seq(Nat), NEW b, NEW X,
         Describes(b, X, old, mid),
         NEW new \in Seq(Nat), Len(new) = Len(mid),
         NEW N, b.modifications \subseteq N, N \subseteq 0 .. Len(mid) - 1, NEW Y,
         \A p \in 0 .. Len(mid) - 1 :
            \/ p \in N \/ new[p + 1] \in Y
            \/ new[p + 1] = mid[p + 1] /\ mid[p + 1] \notin X
  PROVE  Describes([b EXCEPT !.modifications = N], Y, old, new)
<1> DEFINE D == b.deletions
           I == b.insertions
           M == b.modifications
           moves == b.moves
           c == [b EXCEPT !.modifications = N]
<1>1. /\ Explains(D, I, M, X, old, mid) /\ Carries(D, I, M, X, moves, old, mid)
      /\ b \in ChangeSet
  BY DEF Describes
<1>2. /\ c \in ChangeSet
      /\ c.deletions = D /\ c.insertions = I /\ c.modifications = N /\ c.moves = moves
  <2>1. N \in SUBSET Nat
    OBVIOUS
  <2> QED BY <1>1, <2>1, WithModifications
<1>3. M \subseteq N
  OBVIOUS
<1> HIDE DEF D, I, M, moves, c
<1>4. Explains(D, I, N, Y, old, new) /\ Carries(D, I, N, Y, moves, old, new)
  BY <1>1, <1>3, Rewritten
<1> QED BY <1>2, <1>4 DEF Describes, c

-----------------------------------------------------------------------------
(* Moves that leave a row where it would be anyway.                          *)

LEMMA CountWithout ==
  ASSUME NEW S, RowSet(S), NEW f \in S
  PROVE  /\ RowSet(S \ {f}) /\ Cardinality(S \ {f}) = Cardinality(S) - 1
         /\ \A r \in Nat : unshift(S \ {f}, r) = IF f < r THEN unshift(S, r) + 1
                                                 ELSE unshift(S, r)
<1> DEFINE one == {f}
           none == {}
           T == S \ {f}
<1>1. f \in Nat /\ RowSet(one) /\ RowSet(none)
  BY FS_EmptySet, FS_Singleton DEF RowSet
<1>2. RowSet(T) /\ one \ S = none /\ S \ one = T
  BY FS_Difference, <1>1 DEF RowSet
<1>3. Cardinality(one) = 1 /\ Cardinality(none) = 0 /\ Cardinality(S) \in Nat /\ Cardinality(T) \in Nat
  BY <1>1, <1>2, FS_EmptySet, FS_Singleton, FS_CardinalityType DEF RowSet
<1>4. ASSUME NEW r \in Nat
      PROVE  /\ count(one, r) = IF f < r THEN 1 ELSE 0
             /\ count(none, r) = 0
             /\ count(S, r) \in Nat /\ count(T, r) \in Nat
  <2>1. unshift({f}, r) = IF r > f THEN r - 1 ELSE r
    BY <1>1, OneRow
  <2>2. unshift({}, r) = r
    BY NoRow
  <2>3. count(one, r) \in Nat /\ count(none, r) \in Nat /\ count(S, r) \in Nat /\ count(T, r) \in Nat
    BY <1>1, <1>2, CountBasics
  <2> QED BY <1>1, <2>1, <2>2, <2>3 DEF unshift
<1> HIDE DEF one, none, T
<1>5. ASSUME NEW r \in Nat
      PROVE  /\ count(S, r) + count(none, r) = count(one, r) + count(T, r)
             /\ Cardinality(S) + Cardinality(none) = Cardinality(one) + Cardinality(T)
  BY <1>1, <1>2, CountUnion
<1>6. Cardinality(T) = Cardinality(S) - 1
  <2>1. 0 \in Nat
    OBVIOUS
  <2>2. Cardinality(S) + Cardinality(none) = Cardinality(one) + Cardinality(T)
    BY <1>5, <2>1
  <2> QED BY <1>3, <2>2
<1>7. ASSUME NEW r \in Nat
      PROVE  unshift(T, r) = IF f < r THEN unshift(S, r) + 1 ELSE unshift(S, r)
  BY <1>1, <1>4, <1>5 DEF unshift
<1> QED BY <1>2, <1>6, <1>7 DEF T

Less(S, x) == S \ {x}

SrcKept(A, B, D, I, m) == \A p \in 0 .. m - 1 : p \notin I => Src(A, B, p) = Src(D, I, p)

LEMMA StaleShape ==
  ASSUME NEW n \in Nat, NEW m \in Nat, NEW D, NEW I, Shaped(n, D, I, m),
         NEW f, NEW t, f \in D, t \in I, unshift(D, f) = unshift(I, t)
  PROVE  /\ Shaped(n, Less(D, f), Less(I, t), m)
         /\ Src(Less(D, f), Less(I, t), t) = f
         /\ SrcKept(Less(D, f), Less(I, t), D, I, m)
<1> DEFINE A == D \ {f}
           B == I \ {t}
<1>1. /\ D \subseteq 0 .. n - 1 /\ I \subseteq 0 .. m - 1
      /\ n - Cardinality(D) = m - Cardinality(I)
  BY DEF Shaped
<1>2. /\ RowSet(D) /\ RowSet(I) /\ Cardinality(D) \in Nat /\ Cardinality(I) \in Nat
      /\ f \in Nat /\ t \in Nat
  <2>1. RowSet(D) /\ RowSet(I) /\ Cardinality(D) \in Nat /\ Cardinality(I) \in Nat
    BY <1>1, RowsFinite
  <2> QED BY <2>1 DEF RowSet
<1>3. /\ RowSet(A) /\ Cardinality(A) = Cardinality(D) - 1
      /\ \A r \in Nat : unshift(A, r) = IF f < r THEN unshift(D, r) + 1 ELSE unshift(D, r)
  BY <1>2, CountWithout
<1>4. /\ RowSet(B) /\ Cardinality(B) = Cardinality(I) - 1
      /\ \A r \in Nat : unshift(B, r) = IF t < r THEN unshift(I, r) + 1 ELSE unshift(I, r)
  BY <1>2, CountWithout
<1>5. A \subseteq D /\ B \subseteq I /\ f \notin A
  OBVIOUS
<1> HIDE DEF A, B
<1>6. Shaped(n, A, B, m)
  <2>1. n - Cardinality(A) = m - Cardinality(B)
    BY <1>1, <1>2, <1>3, <1>4
  <2> QED BY <1>1, <1>5, <2>1 DEF Shaped
<1>7. Src(A, B, t) = f
  <2>1. unshift(A, f) = unshift(D, f) /\ unshift(B, t) = unshift(I, t)
    BY <1>2, <1>3, <1>4
  <2> QED BY <1>2, <1>3, <1>4, <1>5, <2>1, SrcIs
<1>8. ASSUME NEW p \in 0 .. m - 1, p \notin I PROVE Src(A, B, p) = Src(D, I, p)
  <2> DEFINE q == Src(D, I, p)
  <2>1. p \in Nat /\ p # t
    BY <1>8
  <2>2. q \in Nat /\ q \notin D /\ unshift(D, q) = unshift(I, p)
    BY <1>2, <1>8, <2>1, SrcFinds
  <2> HIDE DEF q
  <2>3. q # f /\ q \notin A
    BY <1>5, <2>2
  <2>4. /\ unshift(D, q) \in Nat /\ unshift(D, f) \in Nat
        /\ unshift(I, p) \in Nat /\ unshift(I, t) \in Nat
    BY <1>2, <2>1, <2>2, UnshiftMonotone
  <2>5. /\ q < f => unshift(D, q) < unshift(D, f)
        /\ f <= q => unshift(D, f) <= unshift(D, q)
        /\ p < t => unshift(I, p) < unshift(I, t)
        /\ t <= p => unshift(I, t) <= unshift(I, p)
    BY <1>2, <1>8, <2>1, <2>2, UnshiftMonotone
  <2>6. f < q <=> t < p
    BY <1>2, <2>1, <2>2, <2>3, <2>4, <2>5
  <2>7. unshift(A, q) = unshift(B, p)
    BY <1>3, <1>4, <2>1, <2>2, <2>6
  <2> QED BY <1>3, <1>4, <2>1, <2>2, <2>3, <2>7, SrcIs DEF q
<1>9. SrcKept(A, B, D, I, m)
  BY <1>8 DEF SrcKept
<1> QED BY <1>6, <1>7, <1>9 DEF A, B, Less

LEMMA StaleMove ==
  ASSUME NEW old \in Seq(Nat), NEW new \in Seq(Nat), NEW D, NEW I, NEW M, NEW X,
         Explains(D, I, M, X, old, new), NEW f, NEW t, Moved(D, I, M, X, old, new, f, t),
         unshift(D, f) = unshift(I, t)
  PROVE  Explains(Less(D, f), Less(I, t), M, X, old, new)
<1> DEFINE A == Less(D, f)
           B == Less(I, t)
<1>1. /\ Len(old) \in Nat /\ Len(new) \in Nat /\ Shaped(Len(old), D, I, Len(new))
  BY ExplainsShape
<1>2. f \in D /\ t \in I /\ Same(M, X, old, f, new, t)
  BY DEF Moved
<1>3. /\ Shaped(Len(old), A, B, Len(new)) /\ Src(A, B, t) = f
      /\ \A p \in 0 .. Len(new) - 1 : p \notin I => Src(A, B, p) = Src(D, I, p)
  <2> DEFINE n == Len(old)
             m == Len(new)
  <2>1. n \in Nat /\ m \in Nat /\ Shaped(n, D, I, m)
    BY <1>1
  <2> HIDE DEF n, m
  <2>2. /\ Shaped(n, A, B, m) /\ Src(A, B, t) = f
        /\ \A p \in 0 .. m - 1 : p \notin I => Src(A, B, p) = Src(D, I, p)
    <3>1. Shaped(n, A, B, m) /\ Src(A, B, t) = f /\ SrcKept(A, B, D, I, m)
      BY <1>2, <2>1, StaleShape
    <3> HIDE DEF A, B
    <3> QED BY <3>1 DEF SrcKept
  <2> HIDE DEF A, B
  <2> QED BY <2>2 DEF n, m
<1>4. \A p : p \notin B => p = t \/ p \notin I
  BY DEF Less
<1> HIDE DEF A, B
<1>5. ASSUME NEW p \in 0 .. Len(new) - 1, p \notin B
      PROVE  Same(M, X, old, Src(A, B, p), new, p)
  <2>1. CASE p = t
    BY <1>2, <1>3, <2>1
  <2>2. CASE p # t
    <3>1. p \notin I
      BY <1>4, <1>5, <2>2
    <3>2. Same(M, X, old, Src(D, I, p), new, p)
      BY <3>1 DEF Explains
    <3> QED BY <1>3, <3>1, <3>2
  <2> QED BY <2>1, <2>2
<1>6. M \subseteq 0 .. Len(new) - 1
  BY DEF Explains
<1> QED BY <1>3, <1>5, <1>6 DEF Explains, A, B

\* Describes, for modified rows M that are not those of b.
Fits(b, M, X, old, new) ==
    /\ b \in ChangeSet
    /\ Explains(b.deletions, b.insertions, M, X, old, new)
    /\ Carries(b.deletions, b.insertions, M, X, b.moves, old, new)

Takes(b, m, M, X, old, new) ==
    Moved(b.deletions, b.insertions, M, X, old, new, m.from, m.to)

Beside(moves, m) ==
    \A j \in DOMAIN moves : moves[j].from # m.from /\ moves[j].to # m.to

StillMoved(b, c, m, M, X, old, new) ==
    \A f, t : /\ f # m.from /\ t # m.to
              /\ Moved(b.deletions, b.insertions, M, X, old, new, f, t)
              => Moved(c.deletions, c.insertions, M, X, old, new, f, t)

Among(moves, m, kept) ==
    \A j \in DOMAIN moves : moves[j] = m \/ \E i \in DOMAIN kept : moves[j] = kept[i]

\* What CleanedStep does: b with the moves seen so far, m the next one.
LEMMA CleanedOnce ==
  ASSUME NEW old \in Seq(Nat), NEW new \in Seq(Nat), NEW M, NEW X, NEW b,
         Fits(b, M, X, old, new),
         NEW m \in Move, Takes(b, m, M, X, old, new), Beside(b.moves, m),
         NEW c, c = CleanedStep(b, m)
  PROVE  /\ Fits(c, M, X, old, new) /\ c.modifications = b.modifications
         /\ StillMoved(b, c, m, M, X, old, new) /\ Among(c.moves, m, b.moves)
<1> DEFINE D == b.deletions
           I == b.insertions
<1> USE DEF Fits, Takes, Beside, StillMoved, Among
<1>1. D \in SUBSET Nat /\ I \in SUBSET Nat /\ b.moves \in Seq(Move) /\ Apart(b.moves)
  <2>1. D \in SUBSET Nat /\ I \in SUBSET Nat
    BY DEF ChangeSet
  <2> QED BY <2>1 DEF Carries
<1>2. m.from \in Nat /\ m.to \in Nat
  BY DEF Move
<1>3. CASE Stale(b, m)
  <2> DEFINE A == Less(D, m.from)
             B == Less(I, m.to)
  <2>1. c = [b EXCEPT !.deletions = A, !.insertions = B]
    BY <1>3 DEF CleanedStep, Less
  <2>2. A \in SUBSET Nat /\ B \in SUBSET Nat
    BY <1>1 DEF Less
  <2>3. unshift(D, m.from) = unshift(I, m.to)
    BY <1>3 DEF Stale, unshift
  <2>4. Explains(A, B, M, X, old, new)
    BY <2>3, StaleMove
  <2>5. \A f, t : /\ f # m.from /\ t # m.to /\ Moved(D, I, M, X, old, new, f, t)
                  => Moved(A, B, M, X, old, new, f, t)
    BY DEF Less, Moved
  <2> HIDE DEF A, B
  <2>6. /\ c \in ChangeSet /\ c.deletions = A /\ c.insertions = B
        /\ c.modifications = b.modifications /\ c.moves = b.moves
    BY <2>1, <2>2 DEF ChangeSet
  <2>7. Carries(A, B, M, X, b.moves, old, new)
    <3>1. ASSUME NEW k \in DOMAIN b.moves
          PROVE  Moved(A, B, M, X, old, new, b.moves[k].from, b.moves[k].to)
      <4>1. Moved(D, I, M, X, old, new, b.moves[k].from, b.moves[k].to)
        BY DEF Carries
      <4>2. b.moves[k].from # m.from /\ b.moves[k].to # m.to
        OBVIOUS
      <4> HIDE DEF D, I
      <4> QED BY <2>5, <4>1, <4>2
    <3> QED BY <1>1, <3>1 DEF Carries
  <2>8. \A j \in DOMAIN c.moves : \E i \in DOMAIN b.moves : c.moves[j] = b.moves[i]
    BY <2>6
  <2> QED BY <2>4, <2>5, <2>6, <2>7, <2>8
<1>4. CASE ~Stale(b, m)
  <2> DEFINE moves == Append(b.moves, m)
  <2>1. c = [b EXCEPT !.moves = moves]
    BY <1>4 DEF CleanedStep
  <2>2. /\ moves \in Seq(Move) /\ Apart(moves)
        /\ \A j \in DOMAIN moves : moves[j] = m \/ \E i \in DOMAIN b.moves : moves[j] = b.moves[i]
    BY <1>1, AppendApart
  <2> HIDE DEF moves
  <2>3. /\ c \in ChangeSet /\ c.deletions = D /\ c.insertions = I
        /\ c.modifications = b.modifications /\ c.moves = moves
    BY <2>1, <2>2, WithMoves
  <2>4. Carries(D, I, M, X, moves, old, new)
    BY <2>2 DEF Carries
  <2> QED BY <2>2, <2>3, <2>4
<1> QED BY <1>3, <1>4

CleanStep(g, b, start, k) == IF k = 0 THEN start ELSE CleanedStep(g[k - 1], b.moves[k])

Cleans(g, b, start, n) == g = [k \in 0..n |-> CleanStep(g, b, start, k)]

CleanLoop(b, start) == [kind |-> "clean", start |-> start, b |-> b]

LEMMA CleanRuns ==
  ASSUME NEW b, NEW start, NEW n, NEW g
  PROVE  Cleans(g, b, start, n) <=> Runs(CleanLoop(b, start), n, g)
<1>1. \A k \in 0..n : Passes(CleanLoop(b, start), g, k) = CleanStep(g, b, start, k)
  BY DEF Passes, Pass, CleanStep, CleanLoop
<1> QED BY <1>1 DEF Cleans, Runs

CleanGoes(g, b, start, n) ==
    /\ g[0] = start
    /\ \A k \in 0..n : k # 0 => g[k] = CleanedStep(g[k - 1], b.moves[k])

LEMMA CleanHolds ==
  ASSUME NEW b, NEW start, NEW n \in Nat, NEW g, g = CHOOSE h : Cleans(h, b, start, n)
  PROVE  CleanGoes(g, b, start, n)
<1>1. \E h : Cleans(h, b, start, n)
  <2>1. PICK h : Runs(CleanLoop(b, start), n, h)
    BY LoopRuns
  <2>2. Cleans(h, b, start, n)
    BY <2>1, CleanRuns
  <2> QED BY <2>2
<1> DEFINE loop == CleanLoop(b, start)
<1>2. Runs(loop, n, g)
  BY <1>1, CleanRuns
<1>3. loop.kind = "clean" /\ loop.start = start /\ loop.b = b
  BY DEF CleanLoop
<1> HIDE DEF loop
<1>4. g[0] = loop.start
  BY <1>2, LoopHolds
<1>5. \A k \in 0..n : k # 0 => g[k] = Pass(loop, g[k - 1], k)
  BY <1>2, LoopHolds
<1>6. \A x, k : Pass(loop, x, k) = CleanedStep(x, b.moves[k])
  BY <1>3 DEF Pass
<1> QED BY <1>3, <1>4, <1>5, <1>6 DEF CleanGoes

LEMMA Cleaned ==
  ASSUME NEW old \in Seq(Nat), NEW new \in Seq(Nat), NEW M, NEW X, NEW b,
         Fits(b, M, X, old, new)
  PROVE  /\ Fits(clean_up_stale_moves(b), M, X, old, new)
         /\ clean_up_stale_moves(b).modifications = b.modifications
<1> DEFINE c == clean_up_stale_moves(b)
           moves == b.moves
           none == <<>>
           start == [b EXCEPT !.moves = none]
           cleaned == CHOOSE g : Cleans(g, b, start, Len(moves))
<1>1. moves \in Seq(Move) /\ Apart(moves)
  BY DEF Carries, Fits
<1>2. Len(moves) \in Nat /\ DOMAIN moves = 1 .. Len(moves)
  BY <1>1
<1>3. c = cleaned[Len(moves)]
  BY Zenon DEF clean_up_stale_moves, Cleans, CleanStep
<1>4. none \in Seq(Move) /\ DOMAIN none = {}
  OBVIOUS
<1> HIDE DEF none
<1>5. /\ start \in ChangeSet /\ start.deletions = b.deletions /\ start.insertions = b.insertions
      /\ start.modifications = b.modifications /\ start.moves = none
  BY <1>4, WithMoves DEF Fits
<1> HIDE DEF start
<1>6. /\ cleaned[0] = start
      /\ \A k \in 0..Len(moves) : k # 0 => cleaned[k] = CleanedStep(cleaned[k - 1], moves[k])
  <2> DEFINE n == Len(moves)
  <2>1. n \in Nat /\ cleaned = CHOOSE g : Cleans(g, b, start, n)
    BY <1>2
  <2> HIDE DEF n, cleaned
  <2>2. CleanGoes(cleaned, b, start, n)
    BY <2>1, CleanHolds
  <2> QED BY <2>2 DEF n, CleanGoes
<1> HIDE DEF cleaned
<1> DEFINE Right(k) ==
             /\ Fits(cleaned[k], M, X, old, new)
             /\ cleaned[k].modifications = b.modifications
             /\ \A j \in DOMAIN moves : k < j => Takes(cleaned[k], moves[j], M, X, old, new)
             /\ \A j \in DOMAIN cleaned[k].moves :
                   \E i \in DOMAIN moves : i <= k /\ cleaned[k].moves[j] = moves[i]
           Done == {k \in Nat : k <= Len(moves) => Right(k)}
<1>7. 0 \in Done
  <2>1. \A j \in DOMAIN moves : Takes(start, moves[j], M, X, old, new)
    BY <1>5 DEF Carries, Fits, Takes
  <2>2. Carries(b.deletions, b.insertions, M, X, none, old, new)
    BY <1>4 DEF Carries, Apart
  <2>3. Fits(start, M, X, old, new)
    BY <1>5, <2>2 DEF Fits
  <2> QED BY <1>4, <1>5, <1>6, <2>1, <2>3
<1>8. ASSUME NEW k \in Nat, k \in Done PROVE k + 1 \in Done
  <2> SUFFICES ASSUME k + 1 <= Len(moves) PROVE Right(k + 1)
    OBVIOUS
  <2> DEFINE a == cleaned[k]
             z == cleaned[k + 1]
             m == moves[k + 1]
  <2>1. k + 1 \in 0..Len(moves) /\ k + 1 # 0 /\ (k + 1) - 1 = k /\ k + 1 \in DOMAIN moves
        /\ k < k + 1 /\ k <= Len(moves)
    BY <1>2
  <2>2. Right(k)
    BY <1>8, <2>1
  <2>3. z = CleanedStep(a, m)
    BY <1>6, <2>1
  <2>4. m \in Move
    BY <1>1, <2>1, MoveOf
  <2>5. \A i \in DOMAIN moves : i <= k => i # k + 1 /\ i <= k + 1
    BY <1>2
  <2>6. \A i \in DOMAIN moves : k + 1 < i => k < i /\ i # k + 1
    BY <1>2
  <2>7. \A j \in DOMAIN moves : j # k + 1 => moves[j].from # m.from /\ moves[j].to # m.to
    BY <1>1, <2>1 DEF Apart
  <2>8. Beside(a.moves, m)
    BY <2>2, <2>5, <2>7 DEF Beside
  <2>9. /\ Fits(a, M, X, old, new) /\ a.modifications = b.modifications
        /\ Takes(a, m, M, X, old, new)
    BY <2>1, <2>2
  <2>10. ASSUME NEW j \in DOMAIN moves, k + 1 < j
         PROVE  Takes(a, moves[j], M, X, old, new)
    BY <2>2, <2>6, <2>10
  <2>11. \A j \in DOMAIN a.moves : \E i \in DOMAIN moves : i <= k + 1 /\ a.moves[j] = moves[i]
    BY <2>2, <2>5
  <2>12. \E i \in DOMAIN moves : i <= k + 1 /\ m = moves[i]
    BY <2>1
  <2> HIDE DEF a, z, m
  <2>13. /\ Fits(z, M, X, old, new) /\ z.modifications = a.modifications
         /\ StillMoved(a, z, m, M, X, old, new) /\ Among(z.moves, m, a.moves)
    BY <2>3, <2>4, <2>8, <2>9, CleanedOnce
  <2>14. ASSUME NEW j \in DOMAIN moves, k + 1 < j
         PROVE  Takes(z, moves[j], M, X, old, new)
    BY <2>6, <2>7, <2>10, <2>13, <2>14 DEF StillMoved, Takes
  <2>15. ASSUME NEW j \in DOMAIN z.moves
         PROVE  \E i \in DOMAIN moves : i <= k + 1 /\ z.moves[j] = moves[i]
    <3>1. CASE z.moves[j] = m
      BY <2>12, <3>1
    <3>2. CASE z.moves[j] # m
      <4>1. PICK i \in DOMAIN a.moves : z.moves[j] = a.moves[i]
        BY <2>13, <3>2 DEF Among
      <4> QED BY <2>11, <4>1
    <3> QED BY <3>1, <3>2
  <2> QED BY <2>9, <2>13, <2>14, <2>15 DEF z
<1>9. Nat \subseteq Done
  <2> HIDE DEF Done
  <2> QED BY <1>7, <1>8, RowInduction
<1>10. Right(Len(moves))
  <2>1. Len(moves) <= Len(moves) /\ Len(moves) \in Done
    BY <1>2, <1>9
  <2> HIDE DEF Right
  <2> QED BY <2>1
<1> HIDE DEF c
<1>11. Fits(c, M, X, old, new) /\ c.modifications = b.modifications
  BY <1>3, <1>10
<1> QED BY <1>11 DEF c

-----------------------------------------------------------------------------
(* The moves of a change set when another one follows it.                    *)

LEMMA ErasedMove ==
  ASSUME NEW t \in Seq(Move), Apart(t), NEW k \in DOMAIN t
  PROVE  /\ MoveErased(t, k) \in Seq(Move) /\ Apart(MoveErased(t, k))
         /\ \A j \in DOMAIN MoveErased(t, k) :
               \E i \in DOMAIN t : i # k /\ MoveErased(t, k)[j] = t[i]
<1> DEFINE n == Len(t)
           u == [t EXCEPT ![k] = t[n]]
           r == SubSeq(u, 1, n - 1)
           row(j) == IF j = k THEN n ELSE j
<1>1. n \in Nat /\ DOMAIN t = 1 .. n /\ k \in 1 .. n /\ n \in DOMAIN t
  OBVIOUS
<1>2. u \in Seq(Move) /\ Len(u) = n /\ \A j \in 1 .. n : u[j] = t[row(j)]
  <2>1. t[n] \in Move
    BY <1>1, MoveOf
  <2> QED BY <1>1, <2>1
<1> HIDE DEF u
<1>3. r \in Seq(Move) /\ Len(r) = n - 1 /\ \A j \in 1 .. n - 1 : r[j] = u[j]
  BY <1>1, <1>2
<1>4. DOMAIN r = 1 .. n - 1
  BY <1>3
<1>5. ASSUME NEW j \in DOMAIN r
      PROVE  r[j] = t[row(j)] /\ row(j) \in DOMAIN t /\ row(j) # k
  <2>1. j \in 1 .. n - 1 /\ j \in 1 .. n /\ j # n
    BY <1>1, <1>4
  <2>2. r[j] = u[j] /\ u[j] = t[row(j)]
    BY <1>2, <1>3, <2>1
  <2> HIDE DEF r
  <2> QED BY <1>1, <2>1, <2>2
<1>6. ASSUME NEW i \in DOMAIN r, NEW j \in DOMAIN r, i # j PROVE row(i) # row(j)
  <2>1. i # n /\ j # n
    BY <1>1, <1>4
  <2> QED BY <1>6, <2>1
<1> HIDE DEF r, row
<1>7. Apart(r)
  BY <1>5, <1>6 DEF Apart
<1>8. MoveErased(t, k) = r
  BY DEF MoveErased, u, r
<1> QED BY <1>3, <1>5, <1>7, <1>8

\* A move x of the merged change set for the move m of b: c moved the row again and
\* that move is no longer among those left to merge, or c kept the row.
Again(x, m, s, b, c) ==
    \E y \in DOMAIN c.moves :
        /\ c.moves[y].from = m.to /\ x.to = c.moves[y].to
        /\ m.to \in b.modifications => x.to \in s.modifications
        /\ \A k \in DOMAIN s.moves : s.moves[k].to # x.to

Kept(x, m, c) == m.to \notin c.deletions /\ x.to = Src(c.insertions, c.deletions, m.to)

Follows(x, m, s, b, c) == x.from = m.from /\ (Again(x, m, s, b, c) \/ Kept(x, m, c))

Update == [moves : Seq(Move), c : ChangeSet]

\* What is left of c to merge.
Remains(s, c) ==
    /\ s \in ChangeSet /\ s.deletions = c.deletions /\ s.insertions = c.insertions
    /\ Apart(s.moves)
    /\ \A k \in DOMAIN s.moves : \E y \in DOMAIN c.moves : s.moves[k] = c.moves[y]
    /\ c.modifications \subseteq s.modifications
    /\ s.modifications \subseteq c.modifications \cup c.insertions

\* The loop after j moves of b.
Updated(s, j, b, c) ==
    /\ s \in Update /\ Apart(s.moves) /\ Remains(s.c, c)
    /\ \A x \in DOMAIN s.moves :
          \E i \in DOMAIN b.moves : i <= j /\ Follows(s.moves[x], b.moves[i], s.c, b, c)

LEMMA AgainErased ==
  ASSUME NEW x, NEW m, NEW b, NEW c, NEW s, NEW r,
         s.modifications \subseteq r.modifications,
         \A k \in DOMAIN r.moves : \E i \in DOMAIN s.moves : r.moves[k] = s.moves[i],
         Follows(x, m, s, b, c)
  PROVE  Follows(x, m, r, b, c)
<1>1. ASSUME Again(x, m, s, b, c) PROVE Again(x, m, r, b, c)
  <2>1. PICK y \in DOMAIN c.moves :
          /\ c.moves[y].from = m.to /\ x.to = c.moves[y].to
          /\ m.to \in b.modifications => x.to \in s.modifications
          /\ \A k \in DOMAIN s.moves : s.moves[k].to # x.to
    BY <1>1 DEF Again
  <2>2. \A k \in DOMAIN r.moves : r.moves[k].to # x.to
    BY <2>1
  <2> QED BY <2>1, <2>2 DEF Again
<1> QED BY <1>1 DEF Follows

\* The moves of the two change sets.
LEMMA BothMove ==
  ASSUME NEW old \in Seq(Nat), NEW mid \in Seq(Nat), NEW new \in Seq(Nat), NEW X,
         NEW b, Describes(b, X, old, mid), NEW c, Describes(c, X, mid, new)
  PROVE  /\ RowSet(c.deletions) /\ RowSet(c.insertions)
         /\ b.moves \in Seq(Move) /\ Apart(b.moves) /\ c.moves \in Seq(Move) /\ Apart(c.moves)
         /\ \A y \in DOMAIN c.moves : c.moves[y].to \in c.insertions
         /\ \A i \in DOMAIN b.moves : b.moves[i].to \in Nat
<1>1. RowSet(c.deletions) /\ RowSet(c.insertions)
  BY ExplainsShape DEF Describes
<1>2. b.moves \in Seq(Move) /\ Apart(b.moves) /\ c.moves \in Seq(Move) /\ Apart(c.moves)
  BY DEF Describes, Carries
<1>3. \A y \in DOMAIN c.moves : c.moves[y].to \in c.insertions
  BY DEF Describes, Carries, Moved
<1>4. \A i \in DOMAIN b.moves : b.moves[i].to \in Nat
  BY <1>2, MoveOf
<1> QED BY <1>1, <1>2, <1>3, <1>4

\* A move that is appended for the next move of b.
LEMMA AppendUpdate ==
  ASSUME NEW b, NEW c, NEW j \in Nat, NEW s, Updated(s, j, b, c), Apart(b.moves),
         j + 1 \in DOMAIN b.moves, b.moves \in Seq(Move),
         NEW r, Remains(r, c), s.c.modifications \subseteq r.modifications,
         \A k \in DOMAIN r.moves : \E i \in DOMAIN s.c.moves : r.moves[k] = s.c.moves[i],
         NEW e \in Move, Follows(e, b.moves[j + 1], r, b, c),
         \A x \in DOMAIN s.moves : s.moves[x].to # e.to
  PROVE  Updated([moves |-> Append(s.moves, e), c |-> r], j + 1, b, c)
<1> DEFINE a == Append(s.moves, e)
           z == [moves |-> a, c |-> r]
<1>1. s.moves \in Seq(Move) /\ Apart(s.moves)
  BY DEF Updated, Update
<1>2. ASSUME NEW x \in DOMAIN s.moves
      PROVE  /\ \E i \in DOMAIN b.moves : i <= j + 1 /\ Follows(s.moves[x], b.moves[i], r, b, c)
             /\ s.moves[x].from # e.from
  <2>1. PICK i \in DOMAIN b.moves : i <= j /\ Follows(s.moves[x], b.moves[i], s.c, b, c)
    BY DEF Updated
  <2>2. Follows(s.moves[x], b.moves[i], r, b, c)
    BY <2>1, AgainErased
  <2>3. i \in Nat
    OBVIOUS
  <2>4. i <= j + 1 /\ i # j + 1
    BY <2>1, <2>3
  <2>5. b.moves[i].from # b.moves[j + 1].from
    BY <2>4 DEF Apart
  <2>6. s.moves[x].from = b.moves[i].from /\ e.from = b.moves[j + 1].from
    BY <2>1 DEF Follows
  <2> QED BY <2>2, <2>4, <2>5, <2>6
<1>3. /\ a \in Seq(Move) /\ Apart(a)
      /\ \A k \in DOMAIN a : a[k] = e \/ \E i \in DOMAIN s.moves : a[k] = s.moves[i]
  BY <1>1, <1>2, AppendApart
<1> HIDE DEF a
<1>4. ASSUME NEW k \in DOMAIN a
      PROVE  \E i \in DOMAIN b.moves : i <= j + 1 /\ Follows(a[k], b.moves[i], r, b, c)
  <2>1. CASE a[k] = e
    <3>1. j + 1 <= j + 1
      OBVIOUS
    <3> QED BY <2>1, <3>1
  <2>2. CASE a[k] # e
    <3>1. PICK x \in DOMAIN s.moves : a[k] = s.moves[x]
      BY <1>3, <2>2
    <3> QED BY <1>2, <3>1
  <2> QED BY <2>1, <2>2
<1>5. r \in ChangeSet
  BY DEF Remains
<1>6. z \in Update /\ z.moves = a /\ z.c = r
  BY <1>3, <1>5 DEF Update
<1> HIDE DEF z
<1>7. Updated(z, j + 1, b, c)
  BY <1>3, <1>4, <1>6 DEF Updated
<1> QED BY <1>7 DEF z, a

LEMMA UpdatedOnce ==
  ASSUME NEW old \in Seq(Nat), NEW mid \in Seq(Nat), NEW new \in Seq(Nat), NEW X,
         NEW b, Describes(b, X, old, mid), NEW c, Describes(c, X, mid, new),
         NEW j \in Nat, NEW s, Updated(s, j, b, c), j + 1 \in DOMAIN b.moves
  PROVE  Updated(UpdatedStep(s, b.moves[j + 1], b), j + 1, b, c)
<1> DEFINE m == b.moves[j + 1]
           hits == {k \in DOMAIN s.c.moves : s.c.moves[k].from = m.to}
           k == CHOOSE x \in hits : \A i \in hits : x <= i
           w == s.c.moves[k]
           z == UpdatedStep(s, m, b)
           D == c.deletions
           I == c.insertions
<1>1. /\ RowSet(D) /\ RowSet(I)
      /\ b.moves \in Seq(Move) /\ Apart(b.moves) /\ c.moves \in Seq(Move) /\ Apart(c.moves)
      /\ \A y \in DOMAIN c.moves : c.moves[y].to \in I
      /\ \A i \in DOMAIN b.moves : b.moves[i].to \in Nat
  BY BothMove
<1>2. /\ s \in Update /\ s.moves \in Seq(Move) /\ Apart(s.moves) /\ s.c \in ChangeSet
      /\ s.c.moves \in Seq(Move) /\ s.c.modifications \in SUBSET Nat
      /\ s.c.deletions = D /\ s.c.insertions = I /\ Remains(s.c, c)
  <2>1. s \in Update /\ Apart(s.moves) /\ Remains(s.c, c)
    BY DEF Updated
  <2>2. s.moves \in Seq(Move) /\ s.c \in ChangeSet
    BY <2>1 DEF Update
  <2>3. s.c.moves \in Seq(Move) /\ s.c.modifications \in SUBSET Nat
    BY <2>2 DEF ChangeSet
  <2>4. s.c.deletions = D /\ s.c.insertions = I
    BY <2>1 DEF Remains
  <2> QED BY <2>1, <2>2, <2>3, <2>4
<1>3. m \in Move /\ m.from \in Nat /\ m.to \in Nat
  BY <1>1, MoveOf
<1>4. ASSUME NEW x \in DOMAIN s.moves
      PROVE  \E i \in DOMAIN b.moves : /\ i <= j /\ b.moves[i].to # m.to
                                       /\ Follows(s.moves[x], b.moves[i], s.c, b, c)
  <2>1. PICK i \in DOMAIN b.moves : i <= j /\ Follows(s.moves[x], b.moves[i], s.c, b, c)
    BY DEF Updated
  <2>2. i \in Nat
    BY <1>1
  <2>3. i # j + 1
    BY <2>1, <2>2
  <2>4. b.moves[i].to # m.to
    BY <1>1, <2>3 DEF Apart
  <2> QED BY <2>1, <2>4
<1>5. CASE hits # {}
  <2> DEFINE e == [from |-> m.from, to |-> w.to]
             N == IF w.from \in b.modifications THEN s.c.modifications \cup {w.to}
                  ELSE s.c.modifications
             t == MoveErased(s.c.moves, k)
             r == [s.c EXCEPT !.moves = t, !.modifications = N]
  <2>1. k \in DOMAIN s.c.moves /\ w.from = m.to
    <3>1. hits \in SUBSET Nat
      BY <1>2
    <3>2. \E x \in hits : \A i \in hits : x <= i
      <4> HIDE DEF hits
      <4> QED BY <1>5, <3>1, LeastRow
    <3>3. k \in hits
      <4> HIDE DEF hits
      <4> QED BY <3>2, SMTT(60)
    <3> HIDE DEF k
    <3> QED BY <3>3
  <2>2. z = [moves |-> Append(s.moves, e), c |-> r]
    BY <1>5 DEF UpdatedStep
  <2> HIDE DEF k, z, hits
  <2>3. w \in Move /\ w.to \in Nat
    BY <1>2, <2>1, MoveOf
  <2>4. PICK y \in DOMAIN c.moves : w = c.moves[y]
    BY <1>2, <2>1 DEF Remains
  <2>5. w.to \in I
    BY <1>1, <2>4
  <2>6. /\ t \in Seq(Move) /\ Apart(t)
        /\ \A x \in DOMAIN t : \E i \in DOMAIN s.c.moves : i # k /\ t[x] = s.c.moves[i]
    <3>1. Apart(s.c.moves)
      BY <1>2 DEF Remains
    <3> QED BY <1>2, <2>1, <3>1, ErasedMove
  <2>7. \A x \in DOMAIN t : t[x].to # w.to
    <3>1. Apart(s.c.moves)
      BY <1>2 DEF Remains
    <3> HIDE DEF t
    <3> QED BY <2>1, <2>6, <3>1 DEF Apart
  <2>8. /\ N \in SUBSET Nat /\ s.c.modifications \subseteq N
        /\ N \subseteq s.c.modifications \cup {w.to}
        /\ m.to \in b.modifications => w.to \in N
    BY <1>2, <2>1, <2>3
  <2>9. e \in Move /\ e.from = m.from /\ e.to = w.to
    BY <1>3, <2>3 DEF Move
  <2> HIDE DEF N, t, e, w
  <2>10. /\ r \in ChangeSet /\ r.deletions = D /\ r.insertions = I
         /\ r.moves = t /\ r.modifications = N
    BY <1>2, <2>6, <2>8 DEF ChangeSet
  <2> HIDE DEF r
  <2>11. Remains(r, c)
    <3>1. c.modifications \subseteq N /\ N \subseteq c.modifications \cup I
      BY <1>2, <2>5, <2>8 DEF Remains
    <3>2. ASSUME NEW x \in DOMAIN t PROVE \E i \in DOMAIN c.moves : t[x] = c.moves[i]
      <4>1. PICK i \in DOMAIN s.c.moves : t[x] = s.c.moves[i]
        BY <2>6
      <4>2. PICK v \in DOMAIN c.moves : s.c.moves[i] = c.moves[v]
        BY <1>2 DEF Remains
      <4> QED BY <4>1, <4>2
    <3> QED BY <2>6, <2>10, <3>1, <3>2 DEF Remains
  <2>12. Follows(e, m, r, b, c)
    <3>1. Again(e, m, r, b, c)
      BY <2>1, <2>4, <2>7, <2>8, <2>9, <2>10 DEF Again
    <3> QED BY <2>9, <3>1 DEF Follows
  <2>13. ASSUME NEW x \in DOMAIN s.moves PROVE s.moves[x].to # e.to
    <3>1. PICK i \in DOMAIN b.moves : Follows(s.moves[x], b.moves[i], s.c, b, c)
      BY <1>4
    <3>2. CASE Again(s.moves[x], b.moves[i], s.c, b, c)
      BY <2>1, <2>9, <3>2 DEF Again, w
    <3>3. CASE Kept(s.moves[x], b.moves[i], c)
      <4>1. b.moves[i].to \in Nat /\ b.moves[i].to \notin D
        BY <1>1, <3>3 DEF Kept
      <4>2. Src(I, D, b.moves[i].to) \notin I
        BY <1>1, <4>1, SrcFinds
      <4> QED BY <2>5, <2>9, <3>3, <4>2 DEF Kept
    <3> QED BY <3>1, <3>2, <3>3 DEF Follows
  <2>14. \A x \in DOMAIN r.moves : \E i \in DOMAIN s.c.moves : r.moves[x] = s.c.moves[i]
    BY <2>6, <2>10
  <2>15. s.c.modifications \subseteq r.modifications
    BY <2>8, <2>10
  <2>16. Updated([moves |-> Append(s.moves, e), c |-> r], j + 1, b, c)
    BY <1>1, <2>9, <2>11, <2>12, <2>13, <2>14, <2>15, AppendUpdate
  <2> QED BY <2>2, <2>16 DEF z
<1>6. CASE hits = {} /\ m.to \in D
  <2>1. z = s
    BY <1>2, <1>6 DEF UpdatedStep
  <2> HIDE DEF z, hits
  <2>2. \A i \in DOMAIN b.moves : i <= j => i <= j + 1
    BY <1>1
  <2>3. Updated(s, j + 1, b, c)
    BY <2>2 DEF Updated
  <2> QED BY <2>1, <2>3 DEF z
<1>7. CASE hits = {} /\ m.to \notin D
  <2> DEFINE p == Src(I, D, m.to)
             e == [from |-> m.from, to |-> p]
  <2>1. z = [s EXCEPT !.moves = Append(s.moves, e)]
    BY <1>2, <1>7 DEF UpdatedStep, Src
  <2>2. p \in Nat /\ p \notin I
    BY <1>1, <1>3, <1>7, SrcFinds
  <2>3. e \in Move /\ e.from = m.from /\ e.to = p
    BY <1>3, <2>2 DEF Move
  <2> HIDE DEF z, hits
  <2>4. z = [moves |-> Append(s.moves, e), c |-> s.c]
    BY <1>2, <2>1 DEF Update
  <2> HIDE DEF e
  <2>5. ASSUME NEW x \in DOMAIN s.moves PROVE s.moves[x].to # e.to
    <3>1. PICK i \in DOMAIN b.moves : b.moves[i].to # m.to /\ Follows(s.moves[x], b.moves[i], s.c, b, c)
      BY <1>4
    <3>2. CASE Again(s.moves[x], b.moves[i], s.c, b, c)
      BY <1>1, <2>2, <2>3, <3>2 DEF Again
    <3>3. CASE Kept(s.moves[x], b.moves[i], c)
      <4>1. b.moves[i].to \in Nat /\ b.moves[i].to \notin D
        BY <1>1, <3>3 DEF Kept
      <4>2. Src(I, D, b.moves[i].to) # p
        BY <1>1, <1>3, <1>7, <3>1, <4>1, SrcOrder
      <4> QED BY <2>3, <3>3, <4>2 DEF Kept
    <3> QED BY <3>1, <3>2, <3>3 DEF Follows
  <2>6. Follows(e, m, s.c, b, c)
    BY <1>7, <2>3 DEF Follows, Kept
  <2> DEFINE r == s.c
  <2>7. \A x \in DOMAIN r.moves : \E i \in DOMAIN s.c.moves : r.moves[x] = s.c.moves[i]
    OBVIOUS
  <2>8. s.c.modifications \subseteq r.modifications
    OBVIOUS
  <2>9. Remains(r, c) /\ Follows(e, b.moves[j + 1], r, b, c) /\ e \in Move
    BY <1>2, <2>3, <2>6 DEF m
  <2>10. b.moves \in Seq(Move) /\ Apart(b.moves)
    BY <1>1
  <2> HIDE DEF r
  <2>11. Updated([moves |-> Append(s.moves, e), c |-> r], j + 1, b, c)
    BY <2>5, <2>7, <2>8, <2>9, <2>10, AppendUpdate, Zenon
  <2> QED BY <2>4, <2>11, SMTT(60) DEF z, r
<1> HIDE DEF z, hits, m
<1>8. Updated(z, j + 1, b, c)
  BY <1>5, <1>6, <1>7 DEF z, m
<1> QED BY <1>8 DEF z, m

UpdateStep(g, b, start, k) ==
    IF k = 0 THEN start ELSE UpdatedStep(g[k - 1], b.moves[k], b)

Updates(g, b, start, n) == g = [k \in 0..n |-> UpdateStep(g, b, start, k)]

UpdateLoop(b, start) == [kind |-> "update", start |-> start, b |-> b]

LEMMA UpdateRuns ==
  ASSUME NEW b, NEW start, NEW n, NEW g
  PROVE  Updates(g, b, start, n) <=> Runs(UpdateLoop(b, start), n, g)
<1>1. \A k \in 0..n : Passes(UpdateLoop(b, start), g, k) = UpdateStep(g, b, start, k)
  BY DEF Passes, Pass, UpdateStep, UpdateLoop
<1> QED BY <1>1 DEF Updates, Runs

UpdateGoes(g, b, start, n) ==
    /\ g[0] = start
    /\ \A k \in 0..n : k # 0 => g[k] = UpdatedStep(g[k - 1], b.moves[k], b)

LEMMA UpdateHolds ==
  ASSUME NEW b, NEW start, NEW n \in Nat, NEW g, g = CHOOSE h : Updates(h, b, start, n)
  PROVE  UpdateGoes(g, b, start, n)
<1>1. \E h : Updates(h, b, start, n)
  <2>1. PICK h : Runs(UpdateLoop(b, start), n, h)
    BY LoopRuns
  <2>2. Updates(h, b, start, n)
    BY <2>1, UpdateRuns
  <2> QED BY <2>2
<1> DEFINE loop == UpdateLoop(b, start)
<1>2. Runs(loop, n, g)
  BY <1>1, UpdateRuns
<1>3. loop.kind = "update" /\ loop.start = start /\ loop.b = b
  BY DEF UpdateLoop
<1> HIDE DEF loop
<1>4. g[0] = loop.start
  BY <1>2, LoopHolds
<1>5. \A k \in 0..n : k # 0 => g[k] = Pass(loop, g[k - 1], k)
  BY <1>2, LoopHolds
<1>6. \A x, k : Pass(loop, x, k) = UpdatedStep(x, b.moves[k], b)
  BY <1>3 DEF Pass
<1> QED BY <1>3, <1>4, <1>5, <1>6 DEF UpdateGoes

LEMMA AllUpdated ==
  ASSUME NEW old \in Seq(Nat), NEW mid \in Seq(Nat), NEW new \in Seq(Nat), NEW X,
         NEW b, Describes(b, X, old, mid), NEW c, Describes(c, X, mid, new)
  PROVE  Updated(UpdatedMoves(b, c), Len(b.moves), b, c)
<1> DEFINE n == Len(b.moves)
           none == <<>>
           start == [moves |-> none, c |-> c]
           updated == CHOOSE g : Updates(g, b, start, n)
<1>1. n \in Nat /\ DOMAIN b.moves = 1 .. n
  <2>1. b.moves \in Seq(Move)
    BY BothMove
  <2> QED BY <2>1
<1>2. UpdatedMoves(b, c) = updated[n]
  BY Zenon DEF UpdatedMoves, Updates, UpdateStep
<1>3. none \in Seq(Move) /\ DOMAIN none = {}
  OBVIOUS
<1> HIDE DEF none
<1>4. c \in ChangeSet
  BY DEF Describes
<1>5. start \in Update /\ start.moves = none /\ start.c = c
  BY <1>3, <1>4 DEF Update
<1> HIDE DEF start
<1>6. UpdateGoes(updated, b, start, n)
  <2>1. updated = CHOOSE g : Updates(g, b, start, n)
    OBVIOUS
  <2> HIDE DEF n, updated
  <2> QED BY <1>1, <2>1, UpdateHolds
<1> HIDE DEF updated, n
<1> DEFINE Done == {k \in Nat : k <= n => Updated(updated[k], k, b, c)}
<1>7. 0 \in Done
  <2>1. Remains(c, c)
    <3>1. Apart(c.moves)
      BY BothMove
    <3> QED BY <1>4, <3>1 DEF Remains
  <2>2. Updated(start, 0, b, c)
    BY <1>3, <1>5, <2>1 DEF Updated, Apart
  <2>3. updated[0] = start
    BY <1>6 DEF UpdateGoes
  <2> QED BY <2>2, <2>3
<1>8. ASSUME NEW k \in Nat, k \in Done PROVE k + 1 \in Done
  <2> SUFFICES ASSUME k + 1 <= n PROVE Updated(updated[k + 1], k + 1, b, c)
    OBVIOUS
  <2>1. k + 1 \in 0..n /\ k + 1 # 0 /\ (k + 1) - 1 = k /\ k + 1 \in DOMAIN b.moves /\ k <= n
    BY <1>1
  <2>2. updated[k + 1] = UpdatedStep(updated[k], b.moves[k + 1], b)
    BY <1>6, <2>1 DEF UpdateGoes
  <2>3. Updated(updated[k], k, b, c)
    BY <1>8, <2>1
  <2>4. Updated(UpdatedStep(updated[k], b.moves[k + 1], b), k + 1, b, c)
    BY <2>1, <2>3, UpdatedOnce
  <2> QED BY <2>2, <2>4
<1>9. Nat \subseteq Done
  <2> HIDE DEF Done
  <2> QED BY <1>7, <1>8, RowInduction
<1>10. Updated(updated[n], n, b, c)
  <2>1. n <= n /\ n \in Done
    BY <1>1, <1>9
  <2> QED BY <2>1
<1> QED BY <1>2, <1>10 DEF n

-----------------------------------------------------------------------------
(* The merge.                                                                *)

\* The positions of a change set that b and c make together.
JoinMoved(b, c, M, X, old, new, f, t) ==
    Moved(Joined(b.deletions, b.insertions, c.deletions),
          Joined(c.insertions, c.deletions, b.insertions), M, X, old, new, f, t)

LEMMA FollowsMoved ==
  ASSUME NEW old \in Seq(Nat), NEW mid \in Seq(Nat), NEW new \in Seq(Nat), NEW X,
         NEW b, Describes(b, X, old, mid), NEW c, Describes(c, X, mid, new), NEW M,
         Covers(M, b.modifications, c.deletions, c.insertions, c.modifications, Len(new)),
         c.modifications \subseteq M, NEW s, s.modifications \subseteq M,
         NEW i \in DOMAIN b.moves, NEW x, Follows(x, b.moves[i], s, b, c)
  PROVE  JoinMoved(b, c, M, X, old, new, x.from, x.to)
<1> DEFINE D1 == b.deletions
           I1 == b.insertions
           M1 == b.modifications
           D2 == c.deletions
           I2 == c.insertions
           M2 == c.modifications
           f == b.moves[i].from
           t == b.moves[i].to
<1>1. Explains(D1, I1, M1, X, old, mid) /\ Explains(D2, I2, M2, X, mid, new)
  BY DEF Describes
<1>2. Moved(D1, I1, M1, X, old, mid, f, t) /\ x.from = f
  BY DEF Describes, Carries, Follows
<1>3. Covers(M, M1, D2, I2, M2, Len(new))
  OBVIOUS
<1>4. CASE Again(x, b.moves[i], s, b, c)
  <2>1. PICK y \in DOMAIN c.moves : /\ c.moves[y].from = t /\ x.to = c.moves[y].to
                                    /\ t \in M1 => x.to \in s.modifications
    BY <1>4 DEF Again
  <2>2. Moved(D2, I2, M2, X, mid, new, t, x.to)
    BY <2>1 DEF Describes, Carries
  <2>3. Noted(M, M1, M2, t, x.to)
    BY <2>1 DEF Noted
  <2> HIDE DEF D1, I1, M1, D2, I2, M2, f, t
  <2>4. Moved(Joined(D1, I1, D2), Joined(I2, D2, I1), M, X, old, new, f, x.to)
    BY <1>2, <2>2, <2>3, MovedTwice
  <2> QED BY <1>2, <2>4 DEF JoinMoved, D1, I1, D2, I2
<1>5. CASE Kept(x, b.moves[i], c)
  <2>1. t \notin D2 /\ x.to = Src(I2, D2, t)
    BY <1>5 DEF Kept
  <2> HIDE DEF D1, I1, M1, D2, I2, M2, f, t
  <2>2. Moved(Joined(D1, I1, D2), Joined(I2, D2, I1), M, X, old, new, f, Src(I2, D2, t))
    BY <1>1, <1>2, <1>3, <2>1, MovedThenKept
  <2> QED BY <1>2, <2>1, <2>2 DEF JoinMoved, D1, I1, D2, I2
<1> QED BY <1>4, <1>5 DEF Follows

LEMMA SourcedMoved ==
  ASSUME NEW old \in Seq(Nat), NEW mid \in Seq(Nat), NEW new \in Seq(Nat), NEW X,
         NEW b, Describes(b, X, old, mid), NEW c, Describes(c, X, mid, new), NEW M,
         c.modifications \subseteq M, NEW y \in DOMAIN c.moves,
         c.moves[y].from \notin b.insertions,
         c.moves[y].from \in b.modifications => c.moves[y].to \in M
  PROVE  /\ JoinMoved(b, c, M, X, old, new,
                      Src(b.deletions, b.insertions, c.moves[y].from), c.moves[y].to)
         /\ Src(b.deletions, b.insertions, c.moves[y].from) \in Nat
         /\ Src(b.deletions, b.insertions, c.moves[y].from) \notin b.deletions
<1> DEFINE D1 == b.deletions
           I1 == b.insertions
           M1 == b.modifications
           D2 == c.deletions
           I2 == c.insertions
           M2 == c.modifications
           f == c.moves[y].from
           t == c.moves[y].to
<1>1. Explains(D1, I1, M1, X, old, mid) /\ Explains(D2, I2, M2, X, mid, new)
  BY DEF Describes
<1>2. Moved(D2, I2, M2, X, mid, new, f, t)
  BY DEF Describes, Carries
<1>3. Noted(M, M1, M2, f, t) /\ f \notin I1
  BY DEF Noted
<1>4. D2 \subseteq 0 .. Len(mid) - 1
  BY <1>1 DEF Explains, Shaped
<1> HIDE DEF D1, I1, M1, D2, I2, M2, f, t
<1>5. /\ Moved(Joined(D1, I1, D2), Joined(I2, D2, I1), M, X, old, new, Src(D1, I1, f), t)
      /\ Src(D1, I1, f) \in 0 .. Len(old) - 1
      /\ Src(D1, I1, f) \notin D1
  BY <1>1, <1>2, <1>3, <1>4, KeptThenMoved
<1>6. Src(D1, I1, f) \in Nat
  BY <1>5
<1> QED BY <1>5, <1>6 DEF JoinMoved, D1, I1, D2, I2, f, t

LEMMA ConcatApart ==
  ASSUME NEW s \in Seq(Move), NEW t \in Seq(Move), Apart(s), Apart(t),
         \A j \in DOMAIN s : \A k \in DOMAIN t : s[j].from # t[k].from /\ s[j].to # t[k].to
  PROVE  /\ s \o t \in Seq(Move) /\ Apart(s \o t)
         /\ \A j \in DOMAIN (s \o t) : \/ \E i \in DOMAIN s : (s \o t)[j] = s[i]
                                       \/ \E i \in DOMAIN t : (s \o t)[j] = t[i]
<1> DEFINE n == Len(s)
           u == s \o t
<1>1. /\ u \in Seq(Move) /\ n \in Nat /\ Len(t) \in Nat /\ Len(u) = n + Len(t)
      /\ DOMAIN s = 1 .. n /\ DOMAIN t = 1 .. Len(t) /\ DOMAIN u = 1 .. Len(u)
      /\ \A j \in 1 .. n + Len(t) : u[j] = IF j <= n THEN s[j] ELSE t[j - n]
  OBVIOUS
<1> HIDE DEF u, n
<1>2. ASSUME NEW j \in DOMAIN u
      PROVE  \/ j \in DOMAIN s /\ u[j] = s[j]
             \/ j - n \in DOMAIN t /\ u[j] = t[j - n] /\ j \notin DOMAIN s
  <2>1. j \in 1 .. n + Len(t)
    BY <1>1
  <2>2. CASE j <= n
    BY <1>1, <2>1, <2>2
  <2>3. CASE ~(j <= n)
    BY <1>1, <2>1, <2>3
  <2> QED BY <2>2, <2>3
<1>3. ASSUME NEW j \in DOMAIN u, NEW k \in DOMAIN u, j # k, j - n = k - n PROVE FALSE
  <2>1. j \in Int /\ k \in Int
    BY <1>1
  <2> QED BY <1>1, <1>3, <2>1
<1>4. Apart(u)
  <2> SUFFICES ASSUME NEW j \in DOMAIN u, NEW k \in DOMAIN u, j # k
               PROVE  u[j].from # u[k].from /\ u[j].to # u[k].to
    BY DEF Apart
  <2> HIDE DEF u
  <2>1. j - n # k - n
    BY <1>3
  <2>2. CASE j \in DOMAIN s /\ k \in DOMAIN s
    BY <1>2, <2>2 DEF Apart
  <2>3. CASE j \notin DOMAIN s /\ k \notin DOMAIN s
    BY <1>2, <2>1, <2>3 DEF Apart
  <2>4. CASE j \in DOMAIN s /\ k \notin DOMAIN s
    BY <1>2, <2>4
  <2>5. CASE j \notin DOMAIN s /\ k \in DOMAIN s
    BY <1>2, <2>5
  <2> QED BY <2>2, <2>3, <2>4, <2>5
<1>5. \A j \in DOMAIN u : \/ \E i \in DOMAIN s : u[j] = s[i]
                          \/ \E i \in DOMAIN t : u[j] = t[i]
  BY <1>2
<1> QED BY <1>1, <1>4, <1>5 DEF u

\* The moves of c that are new rows' moves for neither b nor the merge, and their
\* sources in the old list.
Newly(fresh, left, b) ==
    /\ fresh \in Seq(Move) /\ Apart(fresh)
    /\ \A k \in DOMAIN fresh : /\ fresh[k].from \notin b.insertions
                               /\ \E i \in DOMAIN left : fresh[k] = left[i]

Sourced(sourced, fresh, b) ==
    /\ sourced \in Seq(Move) /\ DOMAIN sourced = DOMAIN fresh
    /\ \A k \in DOMAIN fresh :
          /\ sourced[k].from = Src(b.deletions, b.insertions, fresh[k].from)
          /\ sourced[k].to = fresh[k].to

NotedAll(M, fresh, b) ==
    \A k \in DOMAIN fresh : fresh[k].from \in b.modifications => fresh[k].to \in M

LEMMA MergedMoves ==
  ASSUME NEW old \in Seq(Nat), NEW mid \in Seq(Nat), NEW new \in Seq(Nat), NEW X,
         NEW b, Describes(b, X, old, mid), NEW c, Describes(c, X, mid, new), NEW M,
         Covers(M, b.modifications, c.deletions, c.insertions, c.modifications, Len(new)),
         NEW u, NEW n, Updated(u, n, b, c), u.c.modifications \subseteq M,
         NEW fresh, Newly(fresh, u.c.moves, b), NotedAll(M, fresh, b),
         NEW sourced, Sourced(sourced, fresh, b)
  PROVE  Carries(Joined(b.deletions, b.insertions, c.deletions),
                 Joined(c.insertions, c.deletions, b.insertions),
                 M, X, u.moves \o sourced, old, new)
<1>1. /\ RowSet(c.deletions) /\ RowSet(c.insertions)
      /\ b.moves \in Seq(Move) /\ Apart(b.moves)
      /\ \A y \in DOMAIN c.moves : c.moves[y].to \in c.insertions
      /\ \A i \in DOMAIN b.moves : b.moves[i].to \in Nat
  BY BothMove
<1>2. RowSet(b.deletions) /\ RowSet(b.insertions)
  BY ExplainsShape DEF Describes
<1>3. /\ u.moves \in Seq(Move) /\ Apart(u.moves) /\ Remains(u.c, c)
      /\ c.modifications \subseteq M
  <2>1. u.moves \in Seq(Move) /\ Apart(u.moves) /\ Remains(u.c, c)
    BY DEF Updated, Update
  <2> QED BY <2>1 DEF Remains
<1>4. ASSUME NEW x \in DOMAIN u.moves
      PROVE  \E i \in DOMAIN b.moves : Follows(u.moves[x], b.moves[i], u.c, b, c)
  BY DEF Updated
<1>5. ASSUME NEW x \in DOMAIN u.moves
      PROVE  /\ JoinMoved(b, c, M, X, old, new, u.moves[x].from, u.moves[x].to)
             /\ u.moves[x].from \in b.deletions
  <2>1. PICK i \in DOMAIN b.moves : Follows(u.moves[x], b.moves[i], u.c, b, c)
    BY <1>4
  <2>2. b.moves[i].from \in b.deletions
    BY DEF Describes, Carries, Moved
  <2>3. JoinMoved(b, c, M, X, old, new, u.moves[x].from, u.moves[x].to)
    BY <1>3, <2>1, FollowsMoved
  <2> QED BY <2>1, <2>2, <2>3 DEF Follows
<1>6. ASSUME NEW k \in DOMAIN fresh
      PROVE  /\ fresh[k].from \notin b.insertions /\ fresh[k].from \in Nat
             /\ fresh[k].to \in c.insertions
             /\ \E i \in DOMAIN u.c.moves : fresh[k] = u.c.moves[i]
             /\ JoinMoved(b, c, M, X, old, new, sourced[k].from, sourced[k].to)
             /\ sourced[k].from \notin b.deletions
  <2>1. fresh[k].from \notin b.insertions /\ \E i \in DOMAIN u.c.moves : fresh[k] = u.c.moves[i]
    BY DEF Newly
  <2>2. PICK y \in DOMAIN c.moves : fresh[k] = c.moves[y]
    BY <1>3, <2>1 DEF Remains
  <2>3. fresh[k].from \in Nat /\ fresh[k].to \in c.insertions
    <3>1. fresh[k].from \in Nat
      BY MoveOf DEF Newly
    <3> QED BY <1>1, <2>2, <3>1
  <2>4. fresh[k].from \in b.modifications => fresh[k].to \in M
    BY DEF NotedAll
  <2>5. /\ JoinMoved(b, c, M, X, old, new,
                     Src(b.deletions, b.insertions, c.moves[y].from), c.moves[y].to)
        /\ Src(b.deletions, b.insertions, c.moves[y].from) \notin b.deletions
    BY <1>3, <2>1, <2>2, <2>4, SourcedMoved
  <2>6. /\ sourced[k].from = Src(b.deletions, b.insertions, c.moves[y].from)
        /\ sourced[k].to = c.moves[y].to
    BY <2>2 DEF Sourced
  <2> QED BY <2>1, <2>3, <2>5, <2>6
<1>7. Apart(sourced)
  <2> SUFFICES ASSUME NEW j \in DOMAIN fresh, NEW k \in DOMAIN fresh, j # k
               PROVE  sourced[j].from # sourced[k].from /\ sourced[j].to # sourced[k].to
    BY DEF Apart, Sourced
  <2>1. fresh[j].from # fresh[k].from /\ fresh[j].to # fresh[k].to
    BY DEF Newly, Apart
  <2>2. /\ fresh[j].from \notin b.insertions /\ fresh[j].from \in Nat
        /\ fresh[k].from \notin b.insertions /\ fresh[k].from \in Nat
    BY <1>6
  <2>3. Src(b.deletions, b.insertions, fresh[j].from) # Src(b.deletions, b.insertions, fresh[k].from)
    BY <1>2, <2>1, <2>2, SrcOrder
  <2> QED BY <2>1, <2>3 DEF Sourced
<1>8. ASSUME NEW x \in DOMAIN u.moves, NEW k \in DOMAIN sourced
      PROVE  u.moves[x].from # sourced[k].from /\ u.moves[x].to # sourced[k].to
  <2>1. k \in DOMAIN fresh /\ sourced[k].to = fresh[k].to
    BY DEF Sourced
  <2>2. u.moves[x].from # sourced[k].from
    BY <1>5, <1>6, <2>1
  <2>3. PICK i \in DOMAIN b.moves : Follows(u.moves[x], b.moves[i], u.c, b, c)
    BY <1>4
  <2>4. CASE Again(u.moves[x], b.moves[i], u.c, b, c)
    BY <1>6, <2>1, <2>2, <2>4 DEF Again
  <2>5. CASE Kept(u.moves[x], b.moves[i], c)
    <3>1. b.moves[i].to \in Nat /\ b.moves[i].to \notin c.deletions
      BY <1>1, <2>5 DEF Kept
    <3>2. Src(c.insertions, c.deletions, b.moves[i].to) \notin c.insertions
      BY <1>1, <3>1, SrcFinds
    <3> QED BY <1>6, <2>1, <2>2, <2>5, <3>2 DEF Kept
  <2> QED BY <2>3, <2>4, <2>5 DEF Follows
<1> DEFINE all == u.moves \o sourced
<1>9. sourced \in Seq(Move) /\ DOMAIN sourced = DOMAIN fresh
  BY DEF Sourced
<1>10. /\ all \in Seq(Move) /\ Apart(all)
       /\ \A j \in DOMAIN all : \/ \E i \in DOMAIN u.moves : all[j] = u.moves[i]
                                \/ \E i \in DOMAIN sourced : all[j] = sourced[i]
  BY <1>3, <1>7, <1>8, <1>9, ConcatApart
<1> HIDE DEF all
<1>11. ASSUME NEW j \in DOMAIN all
       PROVE  JoinMoved(b, c, M, X, old, new, all[j].from, all[j].to)
  <2>1. CASE \E i \in DOMAIN u.moves : all[j] = u.moves[i]
    BY <1>5, <2>1
  <2>2. CASE \E i \in DOMAIN sourced : all[j] = sourced[i]
    BY <1>6, <1>9, <2>2
  <2> QED BY <1>10, <2>1, <2>2
<1> QED BY <1>10, <1>11 DEF Carries, JoinMoved, all

\* A change set that changes nothing.
LEMMA NothingChanged ==
  ASSUME NEW old \in Seq(Nat)
  PROVE  Describes(emptyChange, {}, old, old)
<1> DEFINE none == {}
           still == <<>>
<1>1. /\ emptyChange \in ChangeSet /\ emptyChange.deletions = none
      /\ emptyChange.insertions = none /\ emptyChange.modifications = none
      /\ emptyChange.moves = still
  BY EmptyChange
<1>2. Len(old) \in Nat /\ still \in Seq(Move) /\ DOMAIN still = {}
  <2>1. still \in Seq(Move) /\ DOMAIN still = {}
    OBVIOUS
  <2> QED BY <2>1
<1>3. Shaped(Len(old), none, none, Len(old)) /\ none \subseteq 0 .. Len(old) - 1
  BY <1>2 DEF Shaped
<1>4. \A p \in 0 .. Len(old) - 1 : Src(none, none, p) = p
  <2>1. \A p \in 0 .. Len(old) - 1 : p \in Nat
    BY <1>2
  <2> QED BY <2>1, NoRow DEF Src
<1> HIDE DEF none, still
<1>5. Explains(none, none, none, none, old, old)
  BY <1>3, <1>4 DEF Explains, Same
<1>6. Carries(none, none, none, none, still, old, old)
  BY <1>2 DEF Carries, Apart
<1>7. Describes(emptyChange, none, old, old)
  BY <1>1, <1>5, <1>6 DEF Describes
<1> QED BY <1>7 DEF none

LEMMA EmptyDescribes ==
  ASSUME NEW old \in Seq(Nat), NEW new \in Seq(Nat), Describes(emptyChange, {}, old, new)
  PROVE  old = new
<1> DEFINE none == {}
<1>1. Explains(none, none, none, none, old, new)
  BY EmptyChange DEF Describes
<1>2. /\ Len(old) \in Nat /\ Len(new) \in Nat /\ Shaped(Len(old), none, none, Len(new))
  <2> HIDE DEF none
  <2> QED BY <1>1, ExplainsShape
<1>3. Len(old) = Len(new)
  BY <1>2, FS_EmptySet DEF Shaped
<1>4. ASSUME NEW p \in 0 .. Len(new) - 1 PROVE new[p + 1] = old[p + 1]
  <2>1. p \in Nat /\ p \notin none
    BY <1>2
  <2>2. Src(none, none, p) = p
    BY <2>1, NoRow DEF Src
  <2>3. Same(none, none, old, Src(none, none, p), new, p)
    BY <1>1, <2>1 DEF Explains
  <2> QED BY <2>2, <2>3 DEF Same
<1>5. ASSUME NEW k \in 1 .. Len(new) PROVE new[k] = old[k]
  <2>1. k - 1 \in 0 .. Len(new) - 1 /\ (k - 1) + 1 = k
    BY <1>2
  <2> QED BY <1>4, <2>1
<1> QED BY <1>3, <1>5, SeqEqual

LEMMA MergedDeletions ==
  ASSUME NEW D1, NEW I1, NEW D2
  PROVE  add_shifted_by(D1, I1, D2) = Joined(D1, I1, D2)
BY DEF add_shifted_by, Joined, Src

LEMMA MergedInsertions ==
  ASSUME NEW I1, NEW D2, NEW I2
  PROVE  insert_all_at(erase_all_at(I1, D2), I2) = Joined(I2, D2, I1)
BY DEF insert_all_at, erase_all_at, Joined, Src

CarriedOver(M, M1, D2, I2) == \A p : p \in M <=> \E v \in M1 : v \notin D2 /\ p = Src(I2, D2, v)

LEMMA MergedModifications ==
  ASSUME NEW M1, NEW D2, NEW I2
  PROVE  CarriedOver(shift_for_insert_all_at(erase_all_at(M1, D2), I2), M1, D2, I2)
<1>1. ASSUME NEW p
      PROVE  p \in shift_for_insert_all_at(erase_all_at(M1, D2), I2)
               <=> \E v \in M1 : v \notin D2 /\ p = Src(I2, D2, v)
  BY DEF shift_for_insert_all_at, erase_all_at, Src
<1> QED BY <1>1 DEF CarriedOver

LEMMA MergeEntry ==
  ASSUME NEW old \in Seq(Nat), NEW mid \in Seq(Nat), NEW new \in Seq(Nat),
         NEW b, Describes(b, {}, old, mid), NEW c, Describes(c, {}, mid, new)
  PROVE  Describes(merge(b, c), {}, old, new)
<1> DEFINE X == {}
           D1 == b.deletions
           I1 == b.insertions
           M1 == b.modifications
           D2 == c.deletions
           I2 == c.insertions
           M2 == c.modifications
           D == Joined(D1, I1, D2)
           I == Joined(I2, D2, I1)
           u == UpdatedMoves(b, c)
           left == u.c.moves
           S == {m \in Elements(left) : m.from \notin b.insertions}
           fresh == Only(left, S)
           N == u.c.modifications \cup
                  {m.to : m \in {x \in Elements(fresh) : x.from \in b.modifications}}
           sourced == [k \in DOMAIN fresh |-> [fresh[k] EXCEPT !.from =
                         shift(b.deletions, unshift(b.insertions, @))]]
           a == [deletions |-> add_shifted_by(b.deletions, b.insertions, c.deletions),
                 insertions |-> insert_all_at(erase_all_at(b.insertions, c.deletions),
                                              c.insertions),
                 modifications |-> b.modifications, moves |-> u.moves \o sourced]
           cleaned == clean_up_stale_moves(a)
           M == shift_for_insert_all_at(erase_all_at(M1, D2), I2) \cup N
<1>1. CASE empty(c)
  <2>1. merge(b, c) = b /\ c = emptyChange
    BY <1>1 DEF merge, empty
  <2>2. mid = new
    BY <2>1, EmptyDescribes
  <2> QED BY <2>1, <2>2
<1>2. CASE ~empty(c) /\ empty(b)
  <2>1. merge(b, c) = c /\ b = emptyChange
    BY <1>2 DEF merge, empty
  <2>2. old = mid
    BY <2>1, EmptyDescribes
  <2> QED BY <2>1, <2>2
<1>3. CASE ~empty(c) /\ ~empty(b)
  <2>1. merge(b, c) = [cleaned EXCEPT !.modifications =
                         shift_for_insert_all_at(erase_all_at(@, c.deletions), c.insertions)
                           \cup N]
    BY <1>3 DEF merge
  <2>2. /\ Explains(D1, I1, M1, X, old, mid) /\ Explains(D2, I2, M2, X, mid, new)
        /\ M1 \subseteq 0 .. Len(mid) - 1 /\ M2 \subseteq 0 .. Len(new) - 1
        /\ I2 \subseteq 0 .. Len(new) - 1
    BY DEF Describes, Explains, Shaped
  <2>3. Updated(u, Len(b.moves), b, c)
    <3> HIDE DEF X
    <3>1. Describes(b, X, old, mid) /\ Describes(c, X, mid, new)
      BY DEF X
    <3> QED BY <3>1, AllUpdated
  <2>4. /\ Remains(u.c, c) /\ u.c \in ChangeSet /\ left \in Seq(Move) /\ Apart(left)
        /\ M2 \subseteq u.c.modifications /\ u.c.modifications \subseteq M2 \cup I2
    <3>1. Remains(u.c, c)
      BY <2>3 DEF Updated
    <3>2. u.c \in ChangeSet /\ Apart(left) /\ M2 \subseteq u.c.modifications
          /\ u.c.modifications \subseteq M2 \cup I2
      BY <3>1 DEF Remains
    <3>3. left \in Seq(Move)
      BY <3>2 DEF ChangeSet
    <3> QED BY <3>1, <3>2, <3>3
  <2>5. Newly(fresh, left, b)
    <3>1. /\ fresh \in Seq(Move) /\ Apart(fresh)
          /\ \A k \in DOMAIN fresh : fresh[k] \in S /\ \E i \in DOMAIN left : fresh[k] = left[i]
      <4> HIDE DEF S, left
      <4> QED BY <2>4, OnlyApart
    <3>2. \A k \in DOMAIN fresh : fresh[k].from \notin b.insertions
      <4> HIDE DEF fresh
      <4> QED BY <3>1
    <3> HIDE DEF fresh, left
    <3> QED BY <3>1, <3>2 DEF Newly
  <2> HIDE DEF u, left, fresh, S
  <2>6. ASSUME NEW p PROVE p \in N <=> \/ p \in u.c.modifications
                                       \/ \E k \in DOMAIN fresh : /\ fresh[k].from \in b.modifications
                                                                  /\ p = fresh[k].to
    BY DEF Elements
  <2>7. u.c.modifications \subseteq N /\ M2 \subseteq N /\ N \subseteq 0 .. Len(new) - 1
    <3>1. \A k \in DOMAIN fresh : fresh[k].to \in I2
      <4>1. \A y \in DOMAIN c.moves : c.moves[y].to \in I2
        BY DEF Describes, Carries, Moved
      <4>2. \A i \in DOMAIN left : \E y \in DOMAIN c.moves : left[i] = c.moves[y]
        BY <2>4 DEF Remains, left
      <4>3. ASSUME NEW k \in DOMAIN fresh PROVE fresh[k].to \in I2
        <5>1. PICK i \in DOMAIN left : fresh[k] = left[i]
          BY <2>5 DEF Newly
        <5>2. PICK y \in DOMAIN c.moves : left[i] = c.moves[y]
          BY <4>2
        <5> QED BY <4>1, <5>1, <5>2
      <4> QED BY <4>3
    <3> HIDE DEF N
    <3>2. u.c.modifications \subseteq N
      BY <2>6
    <3>3. ASSUME NEW p \in N PROVE p \in M2 \/ p \in I2
      <4>1. CASE p \in u.c.modifications
        BY <2>4, <4>1
      <4>2. CASE p \notin u.c.modifications
        <5>1. PICK k \in DOMAIN fresh : p = fresh[k].to
          BY <2>6, <4>2
        <5> QED BY <3>1, <5>1
      <4> QED BY <4>1, <4>2
    <3>4. N \subseteq 0 .. Len(new) - 1
      <4> HIDE DEF M2, I2
      <4> QED BY <2>2, <3>3
    <3> QED BY <2>4, <3>2, <3>4
  <2>8. NotedAll(N, fresh, b)
    <3> HIDE DEF N
    <3> QED BY <2>6 DEF NotedAll
  <2>9. Sourced(sourced, fresh, b)
    <3>1. fresh \in Seq(Move)
      BY <2>5 DEF Newly
    <3>2. ASSUME NEW k \in DOMAIN fresh
          PROVE  /\ sourced[k].from = Src(b.deletions, b.insertions, fresh[k].from)
                 /\ sourced[k].to = fresh[k].to /\ sourced[k] \in Move
      <4>1. fresh[k] \in Move /\ fresh[k].from \in Nat /\ fresh[k].from \notin b.insertions
        BY <3>1, <2>5, MoveOf DEF Newly
      <4>2. sourced[k] = [fresh[k] EXCEPT !.from = Src(b.deletions, b.insertions, fresh[k].from)]
        BY DEF Src
      <4>3. RowSet(b.deletions) /\ RowSet(b.insertions)
        BY <2>2, ExplainsShape
      <4>4. Src(b.deletions, b.insertions, fresh[k].from) \in Nat
        BY <4>1, <4>3, SrcFinds
      <4> HIDE DEF sourced
      <4> QED BY <4>1, <4>2, <4>4 DEF Move
    <3>3. sourced \in [DOMAIN fresh -> Move]
      BY <3>2
    <3> HIDE DEF sourced
    <3>4. sourced \in Seq(Move) /\ DOMAIN sourced = DOMAIN fresh
      BY <3>1, <3>3, MovesType
    <3> QED BY <3>2, <3>4 DEF Sourced
  <2> HIDE DEF N, sourced
  <2>10. add_shifted_by(D1, I1, D2) = D /\ insert_all_at(erase_all_at(I1, D2), I2) = I
    BY MergedDeletions, MergedInsertions
  <2>11. \A p : p \in M <=> p \in N \/ \E v \in M1 : v \notin D2 /\ p = Src(I2, D2, v)
    <3> HIDE DEF M1, D2, I2
    <3>1. CarriedOver(shift_for_insert_all_at(erase_all_at(M1, D2), I2), M1, D2, I2)
      BY MergedModifications
    <3> QED BY <3>1 DEF CarriedOver
  <2>12. N \subseteq M
    OBVIOUS
  <2> HIDE DEF M
  <2>13. Covers(M, M1, D2, I2, M2, Len(new))
    <3> HIDE DEF M1, D2, I2, M2, X
    <3> QED BY <2>2, <2>7, <2>11, CoversCarried
  <2>14. Explains(D, I, M, X, old, new)
    <3> HIDE DEF D1, I1, M1, D2, I2, M2, X
    <3> QED BY <2>2, <2>13, ExplainedTwice
  <2>15. Carries(D, I, M, X, u.moves \o sourced, old, new)
    <3> HIDE DEF X
    <3>1. Describes(b, X, old, mid) /\ Describes(c, X, mid, new)
      BY DEF X
    <3>2. NotedAll(M, fresh, b)
      BY <2>8, <2>12 DEF NotedAll
    <3>3. u.c.modifications \subseteq M
      BY <2>7, <2>12
    <3>4. Newly(fresh, u.c.moves, b)
      BY <2>5 DEF left
    <3> QED BY <2>3, <2>9, <2>13, <3>1, <3>2, <3>3, <3>4, MergedMoves
  <2>16. /\ a.deletions = D /\ a.insertions = I /\ a.moves = u.moves \o sourced
         /\ a.modifications = M1
         /\ a = [deletions |-> D, insertions |-> I, modifications |-> M1,
                 moves |-> u.moves \o sourced]
    BY <2>10
  <2> DEFINE moves == u.moves \o sourced
  <2>17. a \in ChangeSet
    <3>1. M1 \subseteq Nat
      BY <2>2
    <3>2. RowSet(D) /\ RowSet(I)
      <4> HIDE DEF D, I, X
      <4> QED BY <2>14, ExplainsShape
    <3>3. moves \in Seq(Move)
      BY <2>15 DEF Carries
    <3>4. a = [deletions |-> D, insertions |-> I, modifications |-> M1, moves |-> moves]
      BY <2>16
    <3> HIDE DEF D, I, M1, a, moves
    <3> QED BY <3>1, <3>2, <3>3, <3>4 DEF ChangeSet, RowSet
  <2>18. Fits(a, M, X, old, new)
    <3> HIDE DEF a, D, I, X
    <3> QED BY <2>14, <2>15, <2>16, <2>17 DEF Fits
  <2> HIDE DEF a
  <2>19. Fits(cleaned, M, X, old, new) /\ cleaned.modifications = M1
    <3> HIDE DEF X
    <3>1. Fits(cleaned, M, X, old, new)
      BY <2>18, Cleaned
    <3>2. cleaned.modifications = a.modifications
      BY <2>18, Cleaned
    <3> QED BY <2>16, <3>1, <3>2
  <2>20. merge(b, c) = [cleaned EXCEPT !.modifications = M]
    BY <2>1, <2>19 DEF M
  <2>21. M \in SUBSET Nat
    BY <2>13 DEF Covers
  <2> HIDE DEF cleaned, X
  <2> DEFINE z == merge(b, c)
  <2>22. /\ z \in ChangeSet /\ z.deletions = cleaned.deletions
         /\ z.insertions = cleaned.insertions /\ z.modifications = M /\ z.moves = cleaned.moves
    <3>1. cleaned \in ChangeSet
      BY <2>19 DEF Fits
    <3>2. z = [cleaned EXCEPT !.modifications = M]
      BY <2>20
    <3> HIDE DEF z
    <3> QED BY <2>21, <3>1, <3>2 DEF ChangeSet
  <2> HIDE DEF z
  <2>23. Describes(z, X, old, new)
    BY <2>19, <2>22 DEF Fits, Describes
  <2> QED BY <2>23 DEF z, X
<1> QED BY <1>1, <1>2, <1>3

-----------------------------------------------------------------------------
(* The rows of the list are different values, smaller than the next new one. *)

Distinct(s) == \A j, k \in DOMAIN s : j # k => s[j] # s[k]

Below(s, x) == \A k \in DOMAIN s : s[k] < x

LEMMA WithDistinct ==
  ASSUME NEW s \in Seq(Nat), NEW i \in 0 .. Len(s), NEW v \in Nat, NEW x \in Nat,
         Distinct(s), Below(s, x), v < x, \A k \in DOMAIN s : s[k] # v
  PROVE  Distinct(With(s, i, v)) /\ Below(With(s, i, v), x)
<1> DEFINE w == With(s, i, v)
           n == Len(s)
           row(k) == IF k <= i THEN k ELSE k - 1
<1>1. n \in Nat /\ i \in Nat /\ i <= n /\ DOMAIN s = 1 .. n
  OBVIOUS
<1>2. w \in Seq(Nat) /\ Len(w) = n + 1 /\ w[i + 1] = v
  BY WithRow, ZenonT(60)
<1>3. ASSUME NEW p \in 0 .. i - 1 PROVE w[p + 1] = s[p + 1]
  BY WithRow
<1>4. ASSUME NEW p \in i + 1 .. n PROVE w[p + 1] = s[p]
  BY WithRow
<1>5. DOMAIN w = 1 .. n + 1
  BY <1>1, <1>2
<1> HIDE DEF w, n
<1>6. ASSUME NEW k \in DOMAIN w, k # i + 1
      PROVE  row(k) \in DOMAIN s /\ w[k] = s[row(k)] /\ k \in Int
  <2>1. k \in 1 .. n + 1 /\ k - 1 \in Int /\ (k - 1) + 1 = k
    BY <1>1, <1>5
  <2>2. CASE k <= i
    <3>1. k - 1 \in 0 .. i - 1 /\ row(k) = k /\ k \in 1 .. n
      BY <1>1, <2>1, <2>2
    <3>2. w[(k - 1) + 1] = s[(k - 1) + 1]
      BY <1>3, <3>1
    <3> HIDE DEF row
    <3> QED BY <1>1, <2>1, <3>1, <3>2
  <2>3. CASE ~(k <= i)
    <3>1. k - 1 \in i + 1 .. n /\ row(k) = k - 1 /\ k - 1 \in 1 .. n
      BY <1>1, <1>6, <2>1, <2>3
    <3>2. w[(k - 1) + 1] = s[k - 1]
      BY <1>4, <3>1
    <3> HIDE DEF row
    <3> QED BY <1>1, <2>1, <3>1, <3>2
  <2> QED BY <2>2, <2>3
<1>7. ASSUME NEW j \in DOMAIN w, NEW k \in DOMAIN w, j # i + 1, k # i + 1, j # k
      PROVE  row(j) # row(k)
  <2>1. j \in Int /\ k \in Int
    BY <1>6, <1>7
  <2> QED BY <1>1, <1>7, <2>1
<1> HIDE DEF row
<1>8. Distinct(w)
  <2> SUFFICES ASSUME NEW j \in DOMAIN w, NEW k \in DOMAIN w, j # k PROVE w[j] # w[k]
    BY DEF Distinct
  <2>1. CASE j = i + 1
    BY <1>2, <1>6, <2>1
  <2>2. CASE k = i + 1
    BY <1>2, <1>6, <2>2
  <2>3. CASE j # i + 1 /\ k # i + 1
    BY <1>6, <1>7, <2>3 DEF Distinct
  <2> QED BY <2>1, <2>2, <2>3
<1>9. Below(w, x)
  <2> SUFFICES ASSUME NEW k \in DOMAIN w PROVE w[k] < x
    BY DEF Below
  <2>1. CASE k = i + 1
    BY <1>2, <2>1
  <2>2. CASE k # i + 1
    BY <1>6, <2>2 DEF Below
  <2> QED BY <2>1, <2>2
<1> QED BY <1>8, <1>9 DEF w

LEMMA WithoutDistinct ==
  ASSUME NEW s \in Seq(Nat), NEW i \in 0 .. Len(s) - 1, NEW x \in Nat,
         Distinct(s), Below(s, x)
  PROVE  /\ Distinct(Without(s, i)) /\ Below(Without(s, i), x)
         /\ \A k \in DOMAIN Without(s, i) : Without(s, i)[k] # s[i + 1]
<1> DEFINE w == Without(s, i)
           n == Len(s)
           row(k) == IF k <= i THEN k ELSE k + 1
<1>1. n \in Nat /\ i \in Nat /\ i < n /\ DOMAIN s = 1 .. n /\ i + 1 \in DOMAIN s
  OBVIOUS
<1>2. w \in Seq(Nat) /\ Len(w) = n - 1
  BY WithoutRow
<1>3. ASSUME NEW p \in 0 .. i - 1 PROVE w[p + 1] = s[p + 1]
  BY WithoutRow
<1>4. ASSUME NEW p \in i .. n - 2 PROVE w[p + 1] = s[p + 2]
  BY WithoutRow
<1>5. DOMAIN w = 1 .. n - 1
  BY <1>1, <1>2
<1> HIDE DEF w, n
<1>6. ASSUME NEW k \in DOMAIN w
      PROVE  row(k) \in DOMAIN s /\ w[k] = s[row(k)] /\ k \in Int /\ row(k) # i + 1
  <2>1. k \in 1 .. n - 1 /\ k - 1 \in Int /\ (k - 1) + 1 = k /\ (k - 1) + 2 = k + 1
    <3>1. k \in 1 .. n - 1 /\ n \in Int
      BY <1>1, <1>5
    <3>2. k \in Int
      BY <3>1
    <3> QED BY <3>1, <3>2
  <2>2. CASE k <= i
    <3>1. k - 1 \in 0 .. i - 1 /\ row(k) = k /\ k \in 1 .. n /\ k # i + 1
      <4>1. n \in Int /\ i \in Int /\ k \in Int /\ 1 <= k /\ k <= n
        BY <1>1, <2>1
      <4> QED BY <2>2, <4>1
    <3>2. w[(k - 1) + 1] = s[(k - 1) + 1]
      BY <1>3, <3>1
    <3> HIDE DEF row
    <3> QED BY <1>1, <2>1, <3>1, <3>2
  <2>3. CASE ~(k <= i)
    <3>1. k - 1 \in i .. n - 2 /\ row(k) = k + 1 /\ k + 1 \in 1 .. n /\ k + 1 # i + 1
      <4>1. n \in Int /\ i \in Int /\ k \in Int /\ 1 <= k /\ k <= n - 1
        BY <1>1, <2>1
      <4> QED BY <2>3, <4>1
    <3>2. w[(k - 1) + 1] = s[(k - 1) + 2]
      BY <1>4, <3>1
    <3> HIDE DEF row
    <3> QED BY <1>1, <2>1, <3>1, <3>2
  <2> QED BY <2>2, <2>3
<1>7. ASSUME NEW j \in DOMAIN w, NEW k \in DOMAIN w, j # k PROVE row(j) # row(k)
  <2>1. j \in Int /\ k \in Int
    BY <1>6
  <2> QED BY <1>1, <1>7, <2>1
<1> HIDE DEF row
<1>8. Distinct(w)
  BY <1>6, <1>7 DEF Distinct
<1>9. Below(w, x)
  BY <1>6 DEF Below
<1>10. \A k \in DOMAIN w : w[k] # s[i + 1]
  BY <1>1, <1>6 DEF Distinct
<1> QED BY <1>8, <1>9, <1>10 DEF w

-----------------------------------------------------------------------------
(* The invariant: what has been merged describes how the list of the last      *)
(* parse differs from the subscriber's, and the batch how the list differs     *)
(* from that one, up to the rows whose objects it wrote to.                    *)

Merged(mid) ==
    /\ Describes(accumulated_changes, {}, held, mid)
    /\ Describes(change, dirty, mid, list)

ListInv ==
    /\ held \in Seq(Nat) /\ list \in Seq(Nat) /\ entries \in Nat
    /\ Distinct(list) /\ Below(list, Fresh)
    /\ \E mid \in Seq(Nat) : Merged(mid)

LEMMA ListInvInit == ListInit => ListInv
<1> SUFFICES ASSUME ListInit PROVE ListInv
  OBVIOUS
<1>1. PICK n \in 0 .. MaxLength : held = [k \in 1 .. n |-> k]
  BY DEF ListInit
<1>2. n \in Nat /\ n <= MaxLength /\ MaxLength \in Nat
  BY BoundsAssumption
<1>3. list = held /\ change = emptyChange /\ accumulated_changes = emptyChange /\ dirty = {}
      /\ entries = 0
  BY DEF ListInit
<1>4. held \in Seq(Nat) /\ DOMAIN held = 1 .. n /\ \A k \in 1 .. n : held[k] = k
  BY <1>1, <1>2
<1>5. Distinct(held)
  BY <1>4 DEF Distinct
<1>6. Below(held, Fresh)
  <2>1. \A k \in 1 .. n : k < Fresh
    BY <1>2, <1>3 DEF Fresh
  <2> QED BY <1>4, <2>1 DEF Below
<1>7. Describes(emptyChange, {}, held, held)
  BY <1>4, NothingChanged
<1>8. Merged(held)
  BY <1>3, <1>7 DEF Merged
<1> QED BY <1>3, <1>4, <1>5, <1>6, <1>8 DEF ListInv

\* A log entry keeps it when it keeps the batch a description of the list.
LEMMA ListKept ==
  ASSUME ListInv, entries' = entries + 1, held' = held,
         accumulated_changes' = accumulated_changes,
         list' \in Seq(Nat), Distinct(list'), Below(list', Fresh + 1),
         \A mid \in Seq(Nat) : Describes(change, dirty, mid, list)
                                 => Describes(change', dirty', mid, list')
  PROVE  ListInv'
<1>1. PICK mid \in Seq(Nat) : Merged(mid)
  BY DEF ListInv
<1>2. Merged(mid)'
  BY <1>1 DEF Merged
<1>3. entries \in Nat /\ entries' \in Nat /\ Fresh' = Fresh + 1
  <2>1. entries \in Nat /\ MaxLength \in Nat
    BY BoundsAssumption DEF ListInv
  <2> QED BY <2>1 DEF Fresh
<1>4. held \in Seq(Nat)
  BY DEF ListInv
<1>5. Below(list', Fresh')
  BY <1>3
<1> QED BY <1>2, <1>3, <1>4, <1>5 DEF ListInv, Below, Distinct

LEMMA FreshIsNew ==
  ASSUME ListInv
  PROVE  /\ Fresh \in Nat /\ Fresh + 1 \in Nat /\ Fresh < Fresh + 1
         /\ list \in Seq(Nat) /\ Distinct(list) /\ Below(list, Fresh) /\ Below(list, Fresh + 1)
         /\ Len(list) \in Nat /\ DOMAIN list = 1 .. Len(list)
         /\ \A k \in DOMAIN list : list[k] # Fresh
<1>1. list \in Seq(Nat) /\ Distinct(list) /\ Below(list, Fresh) /\ entries \in Nat
  BY DEF ListInv
<1>2. Fresh \in Nat
  BY <1>1, BoundsAssumption DEF Fresh
<1>3. Len(list) \in Nat /\ DOMAIN list = 1 .. Len(list)
  BY <1>1
<1>4. \A k \in DOMAIN list : list[k] \in Nat
  BY <1>1
<1> HIDE DEF Fresh
<1>5. Below(list, Fresh + 1) /\ \A k \in DOMAIN list : list[k] # Fresh
  BY <1>1, <1>2, <1>4 DEF Below
<1> QED BY <1>1, <1>2, <1>3, <1>5

\* A row is written to.
LEMMA SetDistinct ==
  ASSUME NEW s \in Seq(Nat), NEW k \in DOMAIN s, NEW v \in Nat, NEW x \in Nat,
         Distinct(s), Below(s, x), v < x, \A j \in DOMAIN s : s[j] # v
  PROVE  /\ [s EXCEPT ![k] = v] \in Seq(Nat) /\ Len([s EXCEPT ![k] = v]) = Len(s)
         /\ Distinct([s EXCEPT ![k] = v]) /\ Below([s EXCEPT ![k] = v], x)
<1> DEFINE w == [s EXCEPT ![k] = v]
<1>1. w \in Seq(Nat) /\ Len(w) = Len(s)
  OBVIOUS
<1>2. DOMAIN w = DOMAIN s /\ w[k] = v /\ \A j \in DOMAIN s : j # k => w[j] = s[j]
  OBVIOUS
<1> HIDE DEF w
<1>3. Distinct(w)
  BY <1>2 DEF Distinct
<1>4. Below(w, x)
  BY <1>2 DEF Below
<1> QED BY <1>1, <1>3, <1>4 DEF w

Swapped(s, j, k) == [s EXCEPT ![j] = s[k], ![k] = s[j]]

LEMMA SwapDistinct ==
  ASSUME NEW s \in Seq(Nat), NEW j \in DOMAIN s, NEW k \in DOMAIN s, NEW x \in Nat,
         Distinct(s), Below(s, x), NEW w, w = Swapped(s, j, k)
  PROVE  /\ w \in Seq(Nat) /\ Len(w) = Len(s) /\ Distinct(w) /\ Below(w, x)
         /\ \A i \in DOMAIN s : i # j /\ i # k => w[i] = s[i]
<1>1. w \in Seq(Nat) /\ Len(w) = Len(s)
  BY DEF Swapped
<1>2. /\ DOMAIN w = DOMAIN s /\ w[k] = s[j] /\ (j # k => w[j] = s[k])
      /\ \A i \in DOMAIN s : i # j /\ i # k => w[i] = s[i]
  BY DEF Swapped
<1>3. Distinct(w)
  <2>1. SUFFICES ASSUME NEW p \in DOMAIN s, NEW q \in DOMAIN s, p # q PROVE w[p] # w[q]
    BY <1>2 DEF Distinct
  <2>2. \A l, m \in DOMAIN s : l # m => s[l] # s[m]
    BY DEF Distinct
  <2>3. CASE p = k
    BY <1>2, <2>1, <2>2, <2>3
  <2>4. CASE q = k
    BY <1>2, <2>1, <2>2, <2>4
  <2>5. CASE p # k /\ q # k
    BY <1>2, <2>1, <2>2, <2>5
  <2> QED BY <2>3, <2>4, <2>5
<1>4. Below(w, x)
  BY <1>2 DEF Below
<1> QED BY <1>1, <1>2, <1>3, <1>4

LEMMA SetEntry ==
  ASSUME NEW old \in Seq(Nat), NEW mid \in Seq(Nat), NEW b, NEW X,
         Describes(b, X, old, mid), NEW i \in 0 .. Len(mid) - 1,
         NEW new \in Seq(Nat), Len(new) = Len(mid),
         \A k \in DOMAIN mid : k # i + 1 => new[k] = mid[k]
  PROVE  Describes(modify(b, i), X, old, new)
<1> DEFINE N == b.modifications \cup {i}
<1>1. b.modifications \subseteq 0 .. Len(mid) - 1
  BY DEF Describes, Explains
<1>2. b.modifications \subseteq N /\ N \subseteq 0 .. Len(mid) - 1 /\ i \in N
  BY <1>1
<1> HIDE DEF N
<1>3. ASSUME NEW p \in 0 .. Len(mid) - 1, p \notin N PROVE new[p + 1] = mid[p + 1]
  <2>1. p # i /\ p \in Nat /\ i \in Nat /\ p + 1 \in DOMAIN mid
    BY <1>2, <1>3
  <2>2. p + 1 # i + 1
    BY <2>1
  <2> QED BY <2>1, <2>2
<1>4. Describes([b EXCEPT !.modifications = N], X, old, new)
  BY <1>2, <1>3, ModifyEntry
<1> QED BY <1>4 DEF modify, N

LEMMA SwapEntry ==
  ASSUME NEW old \in Seq(Nat), NEW mid \in Seq(Nat), NEW b, NEW X,
         Describes(b, X, old, mid), NEW i \in 0 .. Len(mid) - 1, NEW j \in 0 .. Len(mid) - 1,
         NEW new \in Seq(Nat), Len(new) = Len(mid),
         \A k \in DOMAIN mid : k # i + 1 /\ k # j + 1 => new[k] = mid[k]
  PROVE  Describes(modify(modify(b, i), j), X, old, new)
<1> DEFINE c == modify(b, i)
           w == [mid EXCEPT ![i + 1] = new[i + 1]]
<1>1. i + 1 \in DOMAIN mid /\ DOMAIN new = DOMAIN mid /\ new[i + 1] \in Nat
  OBVIOUS
<1>2. /\ w \in Seq(Nat) /\ Len(w) = Len(mid) /\ DOMAIN w = DOMAIN mid
      /\ w[i + 1] = new[i + 1] /\ \A k \in DOMAIN mid : k # i + 1 => w[k] = mid[k]
  BY <1>1
<1> HIDE DEF w
<1>3. Describes(c, X, old, w)
  BY <1>2, SetEntry
<1>4. \A k \in DOMAIN w : k # j + 1 => new[k] = w[k]
  BY <1>2
<1> HIDE DEF c
<1>5. j \in 0 .. Len(w) - 1 /\ Len(new) = Len(w)
  BY <1>2
<1>6. Describes(modify(c, j), X, old, new)
  BY <1>2, <1>3, <1>4, <1>5, SetEntry
<1> QED BY <1>6 DEF c

\* An object is written to: the list's log has no entry.
LEMMA DirtyEntry ==
  ASSUME NEW old \in Seq(Nat), NEW mid \in Seq(Nat), NEW b, NEW X,
         Describes(b, X, old, mid), Distinct(mid), NEW i \in 0 .. Len(mid) - 1,
         NEW v, NEW new \in Seq(Nat), Len(new) = Len(mid), new[i + 1] = v,
         \A k \in DOMAIN mid : k # i + 1 => new[k] = mid[k]
  PROVE  Describes(b, (X \ {mid[i + 1]}) \cup {v}, old, new)
<1> DEFINE Y == (X \ {mid[i + 1]}) \cup {v}
           D == b.deletions
           I == b.insertions
           M == b.modifications
           moves == b.moves
<1>1. /\ Explains(D, I, M, X, old, mid) /\ Carries(D, I, M, X, moves, old, mid)
      /\ b \in ChangeSet /\ M \subseteq 0 .. Len(mid) - 1 /\ M \subseteq M
  BY DEF Describes, Explains
<1>2. ASSUME NEW p \in 0 .. Len(mid) - 1
      PROVE  new[p + 1] \in Y \/ (new[p + 1] = mid[p + 1] /\ mid[p + 1] \notin X)
  <2>1. p \in Nat /\ i \in Nat /\ p + 1 \in DOMAIN mid /\ i + 1 \in DOMAIN mid
    OBVIOUS
  <2>2. CASE p = i
    BY <2>2
  <2>3. CASE p # i
    <3>1. p + 1 # i + 1
      BY <2>1, <2>3
    <3>2. new[p + 1] = mid[p + 1] /\ mid[p + 1] # mid[i + 1]
      BY <2>1, <3>1 DEF Distinct
    <3> QED BY <3>2
  <2> QED BY <2>2, <2>3
<1> HIDE DEF Y, D, I, M, moves
<1>3. Explains(D, I, M, Y, old, new) /\ Carries(D, I, M, Y, moves, old, new)
  BY <1>1, <1>2, Rewritten
<1>4. Describes(b, Y, old, new)
  BY <1>1, <1>3 DEF Describes, D, I, M, moves
<1> QED BY <1>4 DEF Y

\* The end of a parse.
LEMMA CleanEntry ==
  ASSUME NEW old \in Seq(Nat), NEW mid \in Seq(Nat), NEW b, NEW X, Describes(b, X, old, mid)
  PROVE  Describes(clean_up_stale_moves(b), X, old, mid)
<1> DEFINE M == b.modifications
           c == clean_up_stale_moves(b)
<1>1. Fits(b, M, X, old, mid)
  BY DEF Fits, Describes
<1> HIDE DEF M
<1>2. Fits(c, M, X, old, mid)
  BY <1>1, Cleaned
<1>3. c.modifications = b.modifications
  BY <1>1, Cleaned
<1> HIDE DEF c
<1> QED BY <1>2, <1>3 DEF Fits, Describes, M, c

LEMMA RunEntry ==
  ASSUME NEW old \in Seq(Nat), NEW mid \in Seq(Nat), NEW b, NEW X, Describes(b, X, old, mid),
         NEW N, N = b.modifications \cup {i \in 0 .. Len(mid) - 1 : mid[i + 1] \in X}
  PROVE  Describes([b EXCEPT !.modifications = N], {}, old, mid)
<1> DEFINE none == {}
<1>1. b.modifications \subseteq 0 .. Len(mid) - 1
  BY DEF Describes, Explains
<1>2. b.modifications \subseteq N /\ N \subseteq 0 .. Len(mid) - 1
  BY <1>1
<1>3. ASSUME NEW p \in 0 .. Len(mid) - 1, p \notin N PROVE mid[p + 1] \notin X
  BY <1>3
<1> HIDE DEF none
<1>4. Len(mid) = Len(mid)
  OBVIOUS
<1>5. Describes([b EXCEPT !.modifications = N], none, old, mid)
  BY <1>2, <1>3, <1>4, ModifyEntry
<1> QED BY <1>5 DEF none

LEMMA ListInvNext == ListInv /\ [ListNext]_listVars => ListInv'
<1> SUFFICES ASSUME ListInv, [ListNext]_listVars PROVE ListInv'
  OBVIOUS
<1>1. /\ Fresh \in Nat /\ Fresh + 1 \in Nat /\ Fresh < Fresh + 1
      /\ list \in Seq(Nat) /\ Distinct(list) /\ Below(list, Fresh) /\ Below(list, Fresh + 1)
      /\ Len(list) \in Nat /\ DOMAIN list = 1 .. Len(list)
      /\ \A k \in DOMAIN list : list[k] # Fresh
  BY FreshIsNew
<1>2. \A i \in Positions : i \in 0 .. Len(list) - 1 /\ i + 1 \in DOMAIN list
  BY <1>1 DEF Positions
<1>3. CASE set_property
  <2>1. PICK i \in Positions :
          /\ entries' = entries + 1 /\ list' = [list EXCEPT ![i + 1] = Fresh]
          /\ dirty' = (dirty \ {list[i + 1]}) \cup {Fresh}
          /\ held' = held /\ change' = change /\ accumulated_changes' = accumulated_changes
    BY <1>3 DEF set_property
  <2>2. i \in 0 .. Len(list) - 1 /\ i + 1 \in DOMAIN list
    BY <1>2
  <2>3. /\ list' \in Seq(Nat) /\ Len(list') = Len(list)
        /\ Distinct(list') /\ Below(list', Fresh + 1)
    BY <1>1, <2>1, <2>2, SetDistinct
  <2>4. list'[i + 1] = Fresh /\ \A k \in DOMAIN list : k # i + 1 => list'[k] = list[k]
    BY <1>1, <2>1, <2>2
  <2>5. ASSUME NEW mid \in Seq(Nat), Describes(change, dirty, mid, list)
        PROVE  Describes(change', dirty', mid, list')
    <3>1. Describes(change, (dirty \ {list[i + 1]}) \cup {Fresh}, mid, list')
      BY <1>1, <2>2, <2>3, <2>4, <2>5, DirtyEntry
    <3> QED BY <2>1, <3>1
  <2> QED BY <2>1, <2>3, <2>5, ListKept
<1>4. CASE link_list_set
  <2>1. PICK i \in Positions :
          /\ entries' = entries + 1 /\ list' = [list EXCEPT ![i + 1] = Fresh]
          /\ change' = modify(change, i) /\ dirty' = dirty
          /\ held' = held /\ accumulated_changes' = accumulated_changes
    BY <1>4 DEF link_list_set, Entry
  <2>2. i \in 0 .. Len(list) - 1 /\ i + 1 \in DOMAIN list
    BY <1>2
  <2>3. /\ list' \in Seq(Nat) /\ Len(list') = Len(list)
        /\ Distinct(list') /\ Below(list', Fresh + 1)
    BY <1>1, <2>1, <2>2, SetDistinct
  <2>4. \A k \in DOMAIN list : k # i + 1 => list'[k] = list[k]
    BY <1>1, <2>1, <2>2
  <2>5. ASSUME NEW mid \in Seq(Nat), Describes(change, dirty, mid, list)
        PROVE  Describes(change', dirty', mid, list')
    <3>1. Describes(modify(change, i), dirty, mid, list')
      BY <1>1, <2>2, <2>3, <2>4, <2>5, SetEntry
    <3> QED BY <2>1, <3>1
  <2> QED BY <2>1, <2>3, <2>5, ListKept
<1>5. CASE link_list_insert
  <2>1. PICK i \in 0 .. Len(list) :
          /\ entries' = entries + 1 /\ list' = With(list, i, Fresh)
          /\ change' = insert(change, i) /\ dirty' = dirty
          /\ held' = held /\ accumulated_changes' = accumulated_changes
    BY <1>5 DEF link_list_insert, Entry
  <2>2. list' \in Seq(Nat)
    BY <1>1, <2>1, WithRow
  <2>3. Distinct(list') /\ Below(list', Fresh + 1)
    BY <1>1, <2>1, WithDistinct
  <2>4. ASSUME NEW mid \in Seq(Nat), Describes(change, dirty, mid, list)
        PROVE  Describes(change', dirty', mid, list')
    <3>1. Describes(insert(change, i), dirty, mid, With(list, i, Fresh))
      BY <1>1, <2>4, InsertEntry
    <3> QED BY <2>1, <3>1
  <2> QED BY <2>1, <2>2, <2>3, <2>4, ListKept
<1>6. CASE link_list_erase
  <2>1. PICK i \in Positions :
          /\ entries' = entries + 1 /\ list' = Without(list, i)
          /\ change' = erase(change, i) /\ dirty' = dirty
          /\ held' = held /\ accumulated_changes' = accumulated_changes
    BY <1>6 DEF link_list_erase, Entry
  <2>2. i \in 0 .. Len(list) - 1
    BY <1>2
  <2>3. list' \in Seq(Nat)
    BY <1>1, <2>1, <2>2, WithoutRow
  <2>4. Distinct(list') /\ Below(list', Fresh + 1)
    BY <1>1, <2>1, <2>2, WithoutDistinct
  <2>5. ASSUME NEW mid \in Seq(Nat), Describes(change, dirty, mid, list)
        PROVE  Describes(change', dirty', mid, list')
    <3>1. Describes(erase(change, i), dirty, mid, Without(list, i))
      BY <1>1, <2>2, <2>5, EraseEntry
    <3> QED BY <2>1, <3>1
  <2> QED BY <2>1, <2>3, <2>4, <2>5, ListKept
<1>7. CASE link_list_swap
  <2>1. PICK i \in Positions, j \in Positions :
          /\ entries' = entries + 1
          /\ list' = [list EXCEPT ![i + 1] = list[j + 1], ![j + 1] = list[i + 1]]
          /\ change' = modify(modify(change, i), j) /\ dirty' = dirty
          /\ held' = held /\ accumulated_changes' = accumulated_changes
    BY <1>7 DEF link_list_swap, Entry
  <2>2. /\ i \in 0 .. Len(list) - 1 /\ i + 1 \in DOMAIN list
        /\ j \in 0 .. Len(list) - 1 /\ j + 1 \in DOMAIN list
    BY <1>2
  <2>3. /\ list' \in Seq(Nat) /\ Len(list') = Len(list)
        /\ Distinct(list') /\ Below(list', Fresh + 1)
        /\ \A k \in DOMAIN list : k # i + 1 /\ k # j + 1 => list'[k] = list[k]
    <3> DEFINE x == Fresh + 1
               f == i + 1
               t == j + 1
    <3>1. x \in Nat /\ Below(list, x) /\ f \in DOMAIN list /\ t \in DOMAIN list
      BY <1>1, <2>2
    <3>2. list' = Swapped(list, f, t)
      BY <2>1 DEF Swapped
    <3> HIDE DEF x, f, t
    <3>3. list \in Seq(Nat) /\ Distinct(list)
      BY <1>1
    <3>4. /\ list' \in Seq(Nat) /\ Len(list') = Len(list) /\ Distinct(list') /\ Below(list', x)
      BY <3>1, <3>2, <3>3, SwapDistinct
    <3>5. \A k \in DOMAIN list : k # f /\ k # t => list'[k] = list[k]
      BY <3>1, <3>2, <3>3, SwapDistinct
    <3> QED BY <3>4, <3>5 DEF x, f, t
  <2>4. ASSUME NEW mid \in Seq(Nat), Describes(change, dirty, mid, list)
        PROVE  Describes(change', dirty', mid, list')
    <3>1. Describes(modify(modify(change, i), j), dirty, mid, list')
      BY <1>1, <2>2, <2>3, <2>4, SwapEntry
    <3> QED BY <2>1, <3>1
  <2> QED BY <2>1, <2>3, <2>4, ListKept
<1>8. CASE link_list_clear
  <2>1. /\ entries' = entries + 1 /\ list' = <<>>
        /\ change' = clear(change, Len(list)) /\ dirty' = dirty
        /\ held' = held /\ accumulated_changes' = accumulated_changes
    BY <1>8 DEF link_list_clear, Entry
  <2>2. <<>> \in Seq(Nat) /\ DOMAIN <<>> = {}
    OBVIOUS
  <2>3. list' \in Seq(Nat) /\ Distinct(list') /\ Below(list', Fresh + 1)
    BY <2>1, <2>2 DEF Distinct, Below
  <2>4. ASSUME NEW mid \in Seq(Nat), Describes(change, dirty, mid, list)
        PROVE  Describes(change', dirty', mid, list')
    <3>1. Describes(clear(change, Len(list)), dirty, mid, <<>>)
      BY <1>1, <2>4, ClearEntry
    <3> QED BY <2>1, <3>1
  <2> QED BY <2>1, <2>3, <2>4, ListKept
<1>9. CASE link_list_move
  <2>1. PICK i \in Positions, j \in Positions :
          Entry(With(Without(list, i), j, list[i + 1]), move(change, i, j))
    BY <1>9 DEF link_list_move
  <2>2. /\ entries' = entries + 1 /\ list' = With(Without(list, i), j, list[i + 1])
        /\ change' = move(change, i, j) /\ dirty' = dirty
        /\ held' = held /\ accumulated_changes' = accumulated_changes
    BY <2>1, Zenon DEF Entry
  <2>3. /\ i \in 0 .. Len(list) - 1 /\ i + 1 \in DOMAIN list /\ j \in 0 .. Len(list) - 1
    <3>1. i \in 0 .. Len(list) - 1 /\ i + 1 \in DOMAIN list
      BY <1>2, Zenon
    <3>2. j \in 0 .. Len(list) - 1
      BY <1>2, ZenonT(60)
    <3> QED BY <3>1, <3>2
  <2> DEFINE w == Without(list, i)
             v == list[i + 1]
  <2>4. w \in Seq(Nat) /\ Len(w) = Len(list) - 1
    BY <1>1, <2>3, WithoutRow
  <2>5. /\ Distinct(w) /\ Below(w, Fresh + 1)
        /\ \A k \in DOMAIN w : w[k] # v
    <3> DEFINE x == Fresh + 1
    <3>1. x \in Nat /\ Below(list, x)
      BY <1>1
    <3> HIDE DEF x
    <3>2. Distinct(w) /\ Below(w, x)
      BY <1>1, <2>3, <3>1, WithoutDistinct, Zenon
    <3>3. \A k \in DOMAIN w : w[k] # v
      BY <1>1, <2>3, <3>1, WithoutDistinct, Zenon
    <3> QED BY <3>2, <3>3 DEF x
  <2>6. v \in Nat /\ v < Fresh + 1
    <3>1. list \in Seq(Nat) /\ i + 1 \in DOMAIN list
      BY <1>1, <2>3
    <3>2. v \in Nat
      BY <3>1
    <3>3. v < Fresh + 1
      BY <1>1, <2>3, Zenon DEF Below
    <3> QED BY <3>2, <3>3
  <2>7. list' = With(w, j, v)
    BY <2>2
  <2> HIDE DEF w, v
  <2>8. j \in 0 .. Len(w)
    BY <1>1, <2>3, <2>4
  <2>9. list' \in Seq(Nat)
    BY <2>4, <2>6, <2>7, <2>8, WithRow
  <2>10. Distinct(list') /\ Below(list', Fresh + 1)
    BY <1>1, <2>4, <2>5, <2>6, <2>7, <2>8, WithDistinct
  <2>11. ASSUME NEW mid \in Seq(Nat), Describes(change, dirty, mid, list)
         PROVE  Describes(change', dirty', mid, list')
    <3>1. Describes(move(change, i, j), dirty, mid, With(Without(list, i), j, list[i + 1]))
      BY <1>1, <2>3, <2>11, MoveEntry
    <3> QED BY <2>2, <3>1
  <2> QED BY <2>2, <2>9, <2>10, <2>11, ListKept
<1>10. CASE parse_complete
  <2> DEFINE b == clean_up_stale_moves(change)
             c == run(b)
  <2>1. /\ accumulated_changes' = merge(accumulated_changes, c)
        /\ change' = emptyChange /\ dirty' = {}
        /\ held' = held /\ list' = list /\ entries' = entries
    BY <1>10 DEF parse_complete
  <2>2. held \in Seq(Nat) /\ entries \in Nat
    BY DEF ListInv
  <2>3. PICK mid \in Seq(Nat) : Merged(mid)
    BY DEF ListInv
  <2>4. Describes(accumulated_changes, {}, held, mid) /\ Describes(change, dirty, mid, list)
    BY <2>3 DEF Merged
  <2>5. Describes(b, dirty, mid, list)
    BY <1>1, <2>4, CleanEntry
  <2> HIDE DEF b
  <2>6. Describes(c, {}, mid, list)
    <3> DEFINE N == b.modifications \cup {i \in 0 .. Len(list) - 1 : list[i + 1] \in dirty}
    <3>1. c = [b EXCEPT !.modifications = N]
      BY DEF run, Positions
    <3> HIDE DEF c
    <3>2. N = b.modifications \cup {i \in 0 .. Len(list) - 1 : list[i + 1] \in dirty}
      OBVIOUS
    <3> HIDE DEF N
    <3>3. Describes([b EXCEPT !.modifications = N], {}, mid, list)
      BY <1>1, <2>5, <3>2, RunEntry
    <3> QED BY <3>1, <3>3
  <2> HIDE DEF c
  <2>7. Describes(merge(accumulated_changes, c), {}, held, list)
    BY <1>1, <2>2, <2>4, <2>6, MergeEntry
  <2>8. Describes(emptyChange, {}, list, list)
    BY <1>1, NothingChanged
  <2>9. Merged(list)'
    BY <2>1, <2>7, <2>8 DEF Merged
  <2>10. Fresh' = Fresh
    BY <2>1 DEF Fresh
  <2>11. list' \in Seq(Nat) /\ Distinct(list') /\ Below(list', Fresh')
    BY <1>1, <2>1, <2>10
  <2> QED BY <2>1, <2>2, <2>9, <2>11 DEF ListInv, Distinct, Below
<1>11. CASE UNCHANGED listVars
  <2>1. /\ held' = held /\ list' = list /\ change' = change /\ dirty' = dirty
        /\ accumulated_changes' = accumulated_changes /\ entries' = entries
    BY <1>11 DEF listVars
  <2>2. PICK mid \in Seq(Nat) : Merged(mid)
    BY DEF ListInv
  <2>3. Merged(mid)'
    BY <2>1, <2>2 DEF Merged
  <2>4. Fresh' = Fresh
    BY <2>1 DEF Fresh
  <2>5. list' \in Seq(Nat) /\ Distinct(list') /\ Below(list', Fresh')
    BY <1>1, <2>1, <2>4
  <2>6. held' \in Seq(Nat) /\ entries' \in Nat
    BY <2>1 DEF ListInv
  <2> QED BY <2>3, <2>5, <2>6 DEF ListInv, Distinct, Below
<1> QED BY <1>3, <1>4, <1>5, <1>6, <1>7, <1>8, <1>9, <1>10, <1>11 DEF ListNext

-----------------------------------------------------------------------------
(* What a subscriber is told.                                                *)

\* What has been merged describes the list once every batch is parsed.
LEMMA AllParsed ==
  ASSUME ListInv, Parsed
  PROVE  Describes(accumulated_changes, {}, held, list)
<1>1. PICK mid \in Seq(Nat) : Merged(mid)
  BY DEF ListInv
<1>2. Describes(accumulated_changes, {}, held, mid) /\ Describes(change, dirty, mid, list)
  BY <1>1 DEF Merged
<1>3. Describes(emptyChange, {}, mid, list)
  BY <1>2 DEF Parsed
<1>4. list \in Seq(Nat)
  BY DEF ListInv
<1>5. mid = list
  BY <1>1, <1>3, <1>4, EmptyDescribes
<1> QED BY <1>2, <1>5

LEMMA FinalizedFields ==
  ASSUME NEW b
  PROVE  /\ finalize(b).deletions = b.deletions /\ finalize(b).insertions = b.insertions
         /\ finalize(b).modifications = ModifiedInOld(b)
         /\ finalize(b).modifications_new = b.modifications \ b.insertions
BY DEF finalize

\* Applied, row by row.
RowOf(old, D, I, N, new, k) ==
    IF k - 1 \in I \cup N THEN new[k] ELSE old[Src(D, I, k - 1) + 1]

LEMMA FinalizedApplies ==
  ASSUME NEW old \in Seq(Nat), NEW new \in Seq(Nat), NEW b, Describes(b, {}, old, new)
  PROVE  /\ b.deletions \subseteq 0 .. Len(old) - 1
         /\ b.insertions \cup (b.modifications \ b.insertions) \subseteq 0 .. Len(new) - 1
         /\ Applied(old, finalize(b), new) = new
<1> DEFINE D == b.deletions
           I == b.insertions
           M == b.modifications
           N == M \ I
           n == Len(new)
           none == {}
           Row(k) == RowOf(old, D, I, N, new, k)
<1>1. Explains(D, I, M, none, old, new)
  BY DEF Describes
<1> HIDE DEF D, I, M
<1>2. /\ D \subseteq 0 .. Len(old) - 1 /\ I \subseteq 0 .. n - 1 /\ M \subseteq 0 .. n - 1
      /\ Len(old) - Cardinality(D) = n - Cardinality(I)
      /\ n \in Nat /\ Len(old) \in Nat
  BY <1>1 DEF Explains, Shaped
<1>3. I \cup N \subseteq 0 .. n - 1
  BY <1>2
<1>4. Cardinality(D) \in Nat /\ Cardinality(I) \in Nat
  BY <1>2, RowsFinite
<1>5. Len(old) - Cardinality(D) + Cardinality(I) = n
  BY <1>2, <1>4
<1>6. Applied(old, finalize(b), new)
        = [k \in 1 .. Len(old) - Cardinality(D) + Cardinality(I) |-> Row(k)]
  <2>1. /\ finalize(b).deletions = D /\ finalize(b).insertions = I
        /\ finalize(b).modifications_new = N
    BY FinalizedFields DEF D, I, M
  <2> QED BY <2>1 DEF Applied, RowOf, Src
<1>7. ASSUME NEW k \in 1 .. n PROVE Row(k) = new[k]
  <2>1. k - 1 \in 0 .. n - 1 /\ (k - 1) + 1 = k
    BY <1>2
  <2>2. CASE k - 1 \in I \cup N
    BY <2>2 DEF RowOf
  <2>3. CASE k - 1 \notin I \cup N
    <3>1. k - 1 \notin I /\ k - 1 \notin M
      BY <2>3
    <3>2. Same(M, none, old, Src(D, I, k - 1), new, k - 1)
      BY <1>1, <2>1, <3>1 DEF Explains
    <3>3. new[(k - 1) + 1] = old[Src(D, I, k - 1) + 1]
      BY <3>1, <3>2 DEF Same
    <3> QED BY <2>1, <2>3, <3>3 DEF RowOf
  <2> QED BY <2>2, <2>3
<1> HIDE DEF Row
<1>8. new = [k \in 1 .. n |-> new[k]]
  OBVIOUS
<1> HIDE DEF n
<1>9. Applied(old, finalize(b), new) = [k \in 1 .. n |-> Row(k)]
  BY <1>5, <1>6, Zenon
<1>10. [k \in 1 .. n |-> Row(k)] = [k \in 1 .. n |-> new[k]]
  BY <1>7, Zenon
<1> QED BY <1>2, <1>3, <1>8, <1>9, <1>10 DEF D, I, M, n

LEMMA FinalizedModifications ==
  ASSUME NEW old \in Seq(Nat), NEW new \in Seq(Nat), NEW b, Describes(b, {}, old, new)
  PROVE  /\ ModifiedInOld(b) \cap b.deletions = {}
         /\ ModifiedInOld(b) \subseteq 0 .. Len(old) - 1
         /\ ModifiedInOld(b)
              = {shift(b.deletions, unshift(b.insertions, p)) :
                   p \in b.modifications \ b.insertions}
<1> DEFINE D == b.deletions
           I == b.insertions
           M == b.modifications
           n == Len(old)
           m == Len(new)
           S == {Src(D, I, p) : p \in M \ I}
<1>1. Explains(D, I, M, {}, old, new)
  BY DEF Describes
<1>2. ModifiedInOld(b) = S
  BY DEF ModifiedInOld, erase_all_at, shift_for_insert_all_at, Src
<1>3. S = {shift(b.deletions, unshift(b.insertions, p)) :
             p \in b.modifications \ b.insertions}
  BY DEF Src
<1> HIDE DEF D, I, M
<1>4. Shaped(n, D, I, m) /\ M \subseteq 0 .. m - 1 /\ n \in Nat /\ m \in Nat
  BY <1>1 DEF Explains
<1> HIDE DEF n, m
<1>5. RowSet(D) /\ RowSet(I)
  BY <1>4, RowsFinite DEF Shaped
<1>6. ASSUME NEW p \in M \ I PROVE Src(D, I, p) \in 0 .. n - 1 /\ Src(D, I, p) \notin D
  <2>1. p \in 0 .. m - 1 /\ p \notin I /\ p \in Nat
    BY <1>4
  <2>2. Src(D, I, p) \in 0 .. n - 1
    BY <1>4, <2>1, SrcBelow
  <2>3. Src(D, I, p) \notin D
    BY <1>5, <2>1, SrcFinds
  <2> QED BY <2>2, <2>3
<1>7. S \subseteq 0 .. n - 1 /\ S \cap D = {}
  BY <1>6
<1> HIDE DEF S
<1> QED BY <1>2, <1>3, <1>7 DEF D, n

\* The moves of a change set that describes a list.
LEMMA DescribedMoves ==
  ASSUME NEW old, NEW new, NEW b, NEW X, Describes(b, X, old, new)
  PROVE  /\ \A k \in DOMAIN b.moves :
               /\ b.moves[k].from \in b.deletions /\ b.moves[k].to \in b.insertions
               /\ Same(b.modifications, X, old, b.moves[k].from, new, b.moves[k].to)
         /\ \A j, k \in DOMAIN b.moves : j # k =>
               b.moves[j].from # b.moves[k].from /\ b.moves[j].to # b.moves[k].to
BY DEF Describes, Carries, Apart, Moved

LEMMA ListSafe == ListInv => AppliesExactly /\ MovesTrue /\ ModificationsAgree
<1> SUFFICES ASSUME ListInv PROVE AppliesExactly /\ MovesTrue /\ ModificationsAgree
  OBVIOUS
<1>1. held \in Seq(Nat) /\ list \in Seq(Nat)
  BY DEF ListInv
<1> DEFINE b == accumulated_changes
<1>2. /\ delta.deletions = b.deletions /\ delta.insertions = b.insertions
      /\ delta.modifications = ModifiedInOld(b)
      /\ delta.modifications_new = b.modifications \ b.insertions
  BY FinalizedFields DEF delta
<1>3. AppliesExactly
  <2>1. SUFFICES ASSUME Parsed
                 PROVE  /\ delta.deletions \subseteq 0 .. Len(held) - 1
                        /\ delta.insertions \cup delta.modifications_new \subseteq Positions
                        /\ Applied(held, delta, list) = list
    BY DEF AppliesExactly
  <2>2. Describes(b, {}, held, list)
    BY <2>1, AllParsed
  <2> HIDE DEF b
  <2>3. /\ b.deletions \subseteq 0 .. Len(held) - 1
        /\ b.insertions \cup (b.modifications \ b.insertions) \subseteq 0 .. Len(list) - 1
    BY <1>1, <2>2, FinalizedApplies
  <2>4. Applied(held, finalize(b), list) = list
    BY <1>1, <2>2, FinalizedApplies
  <2>5. Applied(held, delta, list) = list
    BY <2>4 DEF delta, b
  <2> QED BY <1>2, <2>3, <2>5 DEF Positions
<1>4. MovesTrue
  <2>1. ASSUME NEW c \in {change, accumulated_changes}, NEW k \in DOMAIN c.moves
        PROVE  c.moves[k].from \in c.deletions /\ c.moves[k].to \in c.insertions
    <3>1. PICK mid \in Seq(Nat) : Merged(mid)
      BY DEF ListInv
    <3>2. Describes(accumulated_changes, {}, held, mid) /\ Describes(change, dirty, mid, list)
      BY <3>1 DEF Merged
    <3>3. CASE c = change
      BY <2>1, <3>2, <3>3, DescribedMoves
    <3>4. CASE c = accumulated_changes
      BY <2>1, <3>2, <3>4, DescribedMoves
    <3> QED BY <2>1, <3>3, <3>4
  <2>2. ASSUME Parsed
        PROVE  /\ \A j, k \in DOMAIN b.moves : j # k =>
                     b.moves[j].from # b.moves[k].from /\ b.moves[j].to # b.moves[k].to
               /\ \A k \in DOMAIN b.moves :
                     \/ list[b.moves[k].to + 1] = held[b.moves[k].from + 1]
                     \/ b.moves[k].to \in b.modifications
    <3>1. Describes(b, {}, held, list)
      BY <2>2, AllParsed
    <3> HIDE DEF b
    <3>2. \A j, k \in DOMAIN b.moves : j # k =>
             b.moves[j].from # b.moves[k].from /\ b.moves[j].to # b.moves[k].to
      BY <3>1, DescribedMoves
    <3>3. ASSUME NEW k \in DOMAIN b.moves
          PROVE  \/ list[b.moves[k].to + 1] = held[b.moves[k].from + 1]
                 \/ b.moves[k].to \in b.modifications
      <4>1. Same(b.modifications, {}, held, b.moves[k].from, list, b.moves[k].to)
        BY <3>1, DescribedMoves
      <4> QED BY <4>1 DEF Same
    <3> QED BY <3>2, <3>3
  <2> QED BY <2>1, <2>2 DEF MovesTrue
<1>5. ModificationsAgree
  <2>1. SUFFICES ASSUME Parsed
                 PROVE  /\ delta.modifications \cap delta.deletions = {}
                        /\ delta.modifications \subseteq 0 .. Len(held) - 1
                        /\ delta.modifications =
                             {shift(delta.deletions, unshift(delta.insertions, p)) :
                                p \in delta.modifications_new}
    BY DEF ModificationsAgree
  <2>2. Describes(b, {}, held, list)
    BY <2>1, AllParsed
  <2> HIDE DEF b
  <2>3. /\ ModifiedInOld(b) \cap b.deletions = {}
        /\ ModifiedInOld(b) \subseteq 0 .. Len(held) - 1
    BY <1>1, <2>2, FinalizedModifications
  <2>4. ModifiedInOld(b) = {shift(b.deletions, unshift(b.insertions, p)) :
                              p \in b.modifications \ b.insertions}
    BY <1>1, <2>2, FinalizedModifications
  <2>5. delta.modifications = {shift(delta.deletions, unshift(delta.insertions, p)) :
                                 p \in delta.modifications_new}
    BY <1>2, <2>4
  <2> QED BY <1>2, <2>3, <2>5
<1> QED BY <1>3, <1>4, <1>5

\* However the entries of the log interleave with the batches the worker parses, the
\* merged change set describes the list of the last parse, and the batch the rest.
THEOREM ListIsDescribed == ListSpec => []ListInv
<1>1. ListInit => ListInv
  BY ListInvInit
<1>2. ListInv /\ [ListNext]_listVars => ListInv'
  BY ListInvNext
<1> QED BY <1>1, <1>2, PTL DEF ListSpec

\* The change set a subscriber is given turns its list into the list now, for lists
\* of any length, any number of entries and any split into batches
\* (CollectionChangeBuilder::merge).
THEOREM ChangesApplyExactly == ListSpec => []AppliesExactly
<1>1. ListInv => AppliesExactly
  BY ListSafe
<1> QED BY <1>1, ListIsDescribed, PTL

\* What verify() asserts of every move of a batch and of the merged changes, and
\* that the merged moves take distinct rows to where they are now.
THEOREM ChangesMoveTruly == ListSpec => []MovesTrue
<1>1. ListInv => MovesTrue
  BY ListSafe
<1> QED BY <1>1, ListIsDescribed, PTL

\* The old and the new positions of the modified rows name the same rows
\* (CollectionChangeBuilder::finalize).
THEOREM ChangesModifySameRows == ListSpec => []ModificationsAgree
<1>1. ListInv => ModificationsAgree
  BY ListSafe
<1> QED BY <1>1, ListIsDescribed, PTL
=============================================================================

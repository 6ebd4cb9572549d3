---------------------------- MODULE Notifications ----------------------------
(***************************************************************************)
(* Realm's collection notifications, which repaint the home screen: the    *)
(* RealmCoordinator with its notifiers, the listener thread that runs them *)
(* in the background, and the Realm of the main thread, which begins and   *)
(* commits write transactions and delivers from its run loop.  Another     *)
(* thread commits as well.                                                 *)
(*                                                                         *)
(* One notifier observes one list and has one callback.  A change set is   *)
(* the set of versions it spans that changed the list, and merging is the  *)
(* union: ChangeSets shows that the real merge composes.  `copy' is what   *)
(* the subscriber holds, as the sequence of versions it was told of: the   *)
(* first call has it load the list, later ones apply a change set.         *)
(*                                                                         *)
(* Each action is one stretch between two acquisitions of m_notifier_mutex *)
(* or one callback of the run loop.  The listener's pipe and the run loop  *)
(* source are external: they remember one signal however often it is sent. *)
(* Left out: errors opening the file, and callbacks that write.            *)
(***************************************************************************)
EXTENDS Integers, Copies

CONSTANTS Notifiers,
          Suppressible,   \* those whose token is ever given to
                          \* commitWriteTransactionWithoutNotifying
          MaxVersion      \* bound: versions of the Realm

ASSUME ConstantsAssumption ==
    Suppressible \subseteq Notifiers /\ MaxVersion \in Nat

VARIABLES touched,          \* touched[v]: the lists that version v changed
          at,               \* the version the main thread's Realm reads
          pc,               \* the main thread
          unannounced,      \* another thread committed, notify_others is next
          newNotifiers,     \* m_new_notifiers
          notifiers,        \* m_notifiers
          alive,            \* notifiers whose m_realm is set
          withCallback,     \* notifiers with have_callbacks
          version,          \* CollectionNotifier::m_sg_version
          hasRun,           \* CollectionNotifier::m_has_run
          accumulated,      \* Callback::accumulated_changes
          skipNext,         \* Callback::skip_next
          initialDelivered, \* Callback::initial_delivered
          worker,           \* run_async_notifiers: its place and its locals
          sg,               \* the version of m_notifier_sg, 0 when not reading
          skipVersion,      \* m_notifier_skip_version, 0 for none
          wake,             \* the listener's pipe has news
          signal,           \* the main run loop's source is signalled
          copy              \* history: what each subscriber holds

main == <<at, pc>>
lists == <<newNotifiers, notifiers, alive, withCallback>>
callbacks == <<accumulated, skipNext, initialDelivered, copy>>
background == <<worker, sg>>
vars == <<touched, main, unannounced, lists, version, hasRun, callbacks,
          background, skipVersion, wake, signal>>

Latest == Len(touched)

\* The versions after a and up to b that changed the list of n.
Changes(n, a, b) == {v \in a + 1 .. b : n \in touched[v]}
Full(n, v) == Ascending(Changes(n, 0, v))

Idle == [pc |-> "wait", version |-> 0, skip |-> 0, olds |-> {}, news |-> {}]

Init ==
    /\ touched = <<{}>> /\ at = 1 /\ pc = "idle" /\ unannounced = FALSE
    /\ newNotifiers = {} /\ notifiers = {} /\ alive = {} /\ withCallback = {}
    /\ version = [n \in Notifiers |-> 0]
    /\ hasRun = {}
    /\ accumulated = [n \in Notifiers |-> {}]
    /\ skipNext = {} /\ initialDelivered = {}
    /\ worker = Idle /\ sg = 0
    /\ skipVersion = 0
    /\ wake = FALSE /\ signal = FALSE
    /\ copy = [n \in Notifiers |-> <<>>]

notifiers_for_realm == (newNotifiers \cup notifiers) \cap alive

-----------------------------------------------------------------------------
(* Subscribing, on the main thread and outside write transactions.           *)

\* List::add_notification_callback: the notifier is registered, and its callback
\* is added in a second step.
register_notifier(n) ==
    /\ pc = "idle" /\ version[n] = 0
    /\ newNotifiers' = newNotifiers \cup {n}
    /\ alive' = alive \cup {n}
    /\ version' = [version EXCEPT ![n] = at]
    /\ pc' = "registering"
    /\ UNCHANGED <<touched, at, unannounced, notifiers, withCallback, hasRun,
                   callbacks, background, skipVersion, wake, signal>>

add_callback ==
    /\ pc = "registering"
    /\ \E n \in alive \ withCallback :
          /\ withCallback' = withCallback \cup {n}
          /\ copy' = [copy EXCEPT ![n] = Full(n, at)]
    /\ wake' = TRUE
    /\ pc' = "idle"
    /\ UNCHANGED <<touched, at, unannounced, newNotifiers, notifiers, alive,
                   version, hasRun, accumulated, skipNext, initialDelivered,
                   background, skipVersion, signal>>

\* The token and the list are released: remove_callback and unregister.
unregister(n) ==
    /\ pc = "idle" /\ n \in alive
    /\ alive' = alive \ {n}
    /\ withCallback' = withCallback \ {n}
    /\ initialDelivered' = initialDelivered \ {n}
    /\ skipNext' = skipNext \ {n}
    /\ accumulated' = [accumulated EXCEPT ![n] = {}]
    /\ copy' = [copy EXCEPT ![n] = <<>>]
    /\ UNCHANGED <<touched, main, unannounced, newNotifiers, notifiers, version,
                   hasRun, background, skipVersion, wake, signal>>

-----------------------------------------------------------------------------
(* Delivery on the main thread.                                              *)

\* package_for_delivery and after_advance for the notifiers of P, with the Realm
\* reading version v: callbacks are called unless they have nothing to say.
deliver(P, v) ==
    LET called == {n \in P \cap withCallback :
                     n \notin initialDelivered \/ accumulated[n] # {}}
    IN  /\ initialDelivered' = initialDelivered \cup called
        /\ copy' = [n \in Notifiers |->
                      IF n \notin called THEN copy[n]
                      ELSE IF n \notin initialDelivered THEN Full(n, v)
                      ELSE copy[n] \o Ascending(accumulated[n])]

packageKeeps(P) == UNCHANGED accumulated

package(P) ==
    accumulated' = [n \in Notifiers |-> IF n \in P THEN {} ELSE accumulated[n]]

Packed == notifiers_for_realm \cap hasRun

\* Realm::notify when no newer version exists; the callback goes on in
\* process_available_async, after the worker may have run.
notify ==
    /\ signal /\ pc = "idle" /\ at = Latest
    /\ signal' = FALSE
    /\ pc' = "processing"
    /\ UNCHANGED <<touched, at, unannounced, lists, version, hasRun, callbacks,
                   background, skipVersion, wake>>

\* Inside a write transaction notify returns at once.
notifyInWrite ==
    /\ signal /\ pc = "writing"
    /\ signal' = FALSE
    /\ UNCHANGED <<touched, main, unannounced, lists, version, hasRun, callbacks,
                   background, skipVersion, wake>>

process_available_async ==
    /\ pc = "processing"
    /\ LET P == {n \in Packed : version[n] = at}
       IN  package(P) /\ deliver(P, at)
    /\ pc' = "idle"
    /\ UNCHANGED <<touched, at, unannounced, lists, version, hasRun, skipNext,
                   background, skipVersion, wake, signal>>

\* Realm::notify when there is a newer version: packages of an older version than
\* the Realm's are discarded, otherwise the Realm goes to their version, or to the
\* latest when there are none.
advance_to_ready ==
    /\ signal /\ pc = "idle" /\ at < Latest
    /\ signal' = FALSE
    /\ package(Packed)
    /\ \/ \E n \in Packed :
             IF version[n] < at
             THEN UNCHANGED <<at, initialDelivered, copy>>
             ELSE at' = version[n] /\ deliver(Packed, version[n])
       \/ /\ Packed = {}
          /\ at' = Latest
          /\ UNCHANGED <<initialDelivered, copy>>
    /\ UNCHANGED <<touched, pc, unannounced, lists, version, hasRun, skipNext,
                   background, skipVersion, wake>>

-----------------------------------------------------------------------------
(* Write transactions.                                                       *)

ReadyRan == \A n \in notifiers_for_realm \cap withCallback : n \in hasRun
ReadyPast == \A n \in notifiers_for_realm \cap withCallback :
                n \in hasRun /\ version[n] > Latest

\* What package_and_wait waits for.
Ready == \A n \in notifiers_for_realm \cap withCallback :
            n \in hasRun /\ version[n] >= Latest

\* begin_transaction takes the write lock; from here on the latest version is
\* fixed.  A worker that is not there yet is woken once.
begin_transaction ==
    /\ pc = "idle" /\ Latest < MaxVersion
    /\ pc' = "promoting"
    /\ wake' = (wake \/ ~Ready)
    /\ UNCHANGED <<touched, at, unannounced, lists, version, hasRun, callbacks,
                   background, skipVersion, signal>>

promote_to_write ==
    /\ pc = "promoting" /\ Ready
    /\ package(Packed) /\ deliver(Packed, Latest)
    /\ at' = Latest
    /\ pc' = "writing"
    /\ UNCHANGED <<touched, unannounced, lists, version, hasRun, skipNext,
                   background, skipVersion, wake, signal>>

\* The subscribers of S changed their copies along with the lists of T and ask
\* not to be told of it.
commit_write ==
    /\ pc = "writing"
    /\ \E T \in SUBSET Notifiers, S \in SUBSET (Suppressible \cap withCallback) :
          /\ touched' = Append(touched, T)
          /\ skipNext' = skipNext \cup S
          /\ copy' = [n \in Notifiers |-> IF n \in S \cap T
                                          THEN Append(copy[n], Latest + 1)
                                          ELSE copy[n]]
    /\ at' = Latest + 1
    /\ skipVersion' = IF notifiers \cap alive # {} THEN Latest + 1 ELSE skipVersion
    /\ pc' = "committed"
    /\ UNCHANGED <<unannounced, lists, version, hasRun, accumulated,
                   initialDelivered, background, wake, signal>>

announceQuietly ==
    /\ pc = "committed"
    /\ pc' = "idle"
    /\ UNCHANGED <<touched, at, unannounced, lists, version, hasRun, callbacks,
                   background, skipVersion, wake, signal>>

\* The end of commit_write: notify_others.
announce ==
    /\ pc = "committed"
    /\ pc' = "idle"
    /\ wake' = TRUE
    /\ UNCHANGED <<touched, at, unannounced, lists, version, hasRun, callbacks,
                   background, skipVersion, signal>>

cancel_transaction ==
    /\ pc = "writing"
    /\ pc' = "idle"
    /\ UNCHANGED <<touched, at, unannounced, lists, version, hasRun, callbacks,
                   background, skipVersion, wake, signal>>

\* Another thread's whole transaction, up to its notify_others: it has no
\* notifiers of its own.  The write lock keeps it out of the main thread's.
CommitElsewhere ==
    /\ pc \notin {"promoting", "writing"} /\ ~unannounced /\ Latest < MaxVersion
    /\ \E T \in SUBSET Notifiers : touched' = Append(touched, T)
    /\ unannounced' = TRUE
    /\ UNCHANGED <<main, lists, version, hasRun, callbacks, background,
                   skipVersion, wake, signal>>

AnnounceElsewhere ==
    /\ unannounced
    /\ unannounced' = FALSE
    /\ wake' = TRUE
    /\ UNCHANGED <<touched, main, lists, version, hasRun, callbacks, background,
                   skipVersion, signal>>

-----------------------------------------------------------------------------
(* The listener thread.                                                      *)

\* clean_up_dead_notifiers, for the notifiers of N and the new ones of W.
clean_up_dead_notifiers(N, W) ==
    /\ notifiers' = N \cap alive
    /\ newNotifiers' = W \cap alive

skipAfterCleanUpKept(noneLeft) == skipVersion

skipAfterCleanUp(noneLeft) == IF noneLeft THEN 0 ELSE skipVersion

\* The first stretch under the lock: the version to go to and the version to stop
\* at are read together, and the new notifiers join the others.
run_async_notifiers ==
    /\ worker.pc = "wait" /\ wake
    /\ wake' = FALSE
    /\ LET olds == notifiers \cap alive
           news == newNotifiers \cap alive
           noneLeft == olds = {} /\ notifiers # {}
       IN  IF olds \cup news = {}
           THEN /\ clean_up_dead_notifiers(notifiers, newNotifiers)
                /\ worker' = [worker EXCEPT !.pc = "signal"]
                /\ sg' = IF noneLeft THEN 0 ELSE sg
                /\ skipVersion' = skipAfterCleanUp(noneLeft)
           ELSE /\ clean_up_dead_notifiers(notifiers \cup newNotifiers, {})
                /\ worker' = [pc |-> "skip", version |-> Latest,
                              skip |-> skipAfterCleanUp(noneLeft),
                              olds |-> olds, news |-> news]
                /\ sg' = IF olds = {} THEN Latest ELSE sg
                /\ skipVersion' = 0
    /\ UNCHANGED <<touched, main, unannounced, alive, withCallback, version,
                   hasRun, callbacks, signal>>

\* prepare_handover at version v of the notifiers of N, each of them coming from
\* version from[n]: add_changes gives the changes to the callback, or takes back
\* its wish to skip them.
prepare_handover(N, from, v) ==
    /\ version' = [n \in Notifiers |-> IF n \in N THEN v ELSE version[n]]
    /\ hasRun' = hasRun \cup N
    /\ accumulated' = [n \in Notifiers |->
                         IF n \in (N \cap withCallback) \ skipNext
                         THEN accumulated[n] \cup Changes(n, from[n], v)
                         ELSE accumulated[n]]
    /\ skipNext' = skipNext \ N

\* A version the main thread wrote itself is handed over on its own.
runToSkip ==
    /\ worker.pc = "skip"
    /\ IF worker.skip = 0
       THEN UNCHANGED <<version, hasRun, accumulated, skipNext, sg>>
       ELSE /\ prepare_handover(worker.olds, [n \in Notifiers |-> sg], worker.skip)
            /\ sg' = worker.skip
    /\ worker' = [worker EXCEPT !.pc = "run"]
    /\ UNCHANGED <<touched, main, unannounced, lists, initialDelivered, copy,
                   skipVersion, wake, signal>>

\* The last stretch: everyone is handed over at the same version, and whoever
\* waits for it can go on.
runToVersion ==
    /\ worker.pc = "run"
    /\ prepare_handover(worker.olds \cup worker.news,
                        [n \in Notifiers |-> IF n \in worker.news THEN version[n]
                                             ELSE sg],
                        worker.version)
    /\ clean_up_dead_notifiers(notifiers, newNotifiers)
    /\ LET noneLeft == notifiers \cap alive = {}
       IN  /\ sg' = IF noneLeft THEN 0 ELSE worker.version
           /\ skipVersion' = skipAfterCleanUp(noneLeft)
    /\ worker' = [Idle EXCEPT !.pc = "signal"]
    /\ UNCHANGED <<touched, main, unannounced, alive, withCallback,
                   initialDelivered, copy, wake, signal>>

\* on_change goes on to signal the Realms of all threads.
on_change ==
    /\ worker.pc = "signal"
    /\ worker' = Idle
    /\ signal' = TRUE
    /\ UNCHANGED <<touched, main, unannounced, lists, version, hasRun, callbacks,
                   sg, skipVersion, wake>>

-----------------------------------------------------------------------------
WorkerStep == run_async_notifiers \/ runToSkip \/ runToVersion \/ on_change
FinishWrite == commit_write \/ cancel_transaction
RunLoop == notify \/ notifyInWrite \/ advance_to_ready

Next ==
    \/ \E n \in Notifiers : register_notifier(n) \/ unregister(n)
    \/ add_callback
    \/ RunLoop \/ process_available_async
    \/ begin_transaction \/ promote_to_write \/ FinishWrite \/ announce
    \/ CommitElsewhere \/ AnnounceElsewhere
    \/ WorkerStep

\* The listener thread and the run loop keep running, a transaction that has begun
\* is ended, and the calls already under way return.
Fairness ==
    /\ WF_vars(WorkerStep)
    /\ WF_vars(RunLoop) /\ WF_vars(process_available_async)
    /\ WF_vars(add_callback)
    /\ WF_vars(promote_to_write) /\ WF_vars(FinishWrite)
    /\ WF_vars(announce) /\ WF_vars(AnnounceElsewhere)

Spec == Init /\ [][Next]_vars /\ Fairness

-----------------------------------------------------------------------------
(* Properties.                                                               *)

\* Inside a write transaction nobody's copy is behind: begin_transaction has
\* brought every subscriber to the version the transaction starts from, so that
\* positions worked out from a copy are positions in the list.
WriterSeesAll ==
    pc = "writing" => \A n \in withCallback : copy[n] = Full(n, at)

\* A subscriber that applied its own change and committed it without notification
\* is not told of that change again, as commitWriteTransactionWithoutNotifying
\* promises (CollectionNotifier::suppress_next_notification).
NotToldAgain ==
    \A n \in Notifiers : \A k, l \in DOMAIN copy[n] :
       copy[n][k] = copy[n][l] => k = l

\* What the worker asserts and relies on while it does not hold the lock: a
\* version to skip has someone to skip it, is neither behind m_notifier_sg nor
\* past the version to go to (advance_read asserts both), and the notifiers that
\* have run are all at one version, so that a package has one version.
WorkerForward ==
    /\ worker.pc \in {"skip", "run"} => sg <= worker.version
    /\ worker.pc = "skip" /\ worker.skip # 0 =>
          worker.olds # {} /\ sg <= worker.skip /\ worker.skip <= worker.version
    /\ \A m, n \in Packed : version[m] = version[n]
    /\ skipVersion # 0 => notifiers # {}

\* The threads together keep the promise of the abstract feed: copies are made of
\* every change once and in order, and the main thread never moves on without
\* its subscribers (advance_to_ready, promote_to_write, add_changes).
Abstract == INSTANCE Feed WITH
              subscribed <- withCallback, told <- initialDelivered
KeepsFeedPromise == Abstract!Spec

\* Again and again every copy is the list of the latest version: every committed
\* change of an observed list reaches its subscriber, and no wakeup, signal or
\* package is lost for good.
EveryChangeTold ==
    []<>(\A n \in withCallback : copy[n] = Full(n, Latest))

\* A write transaction that waits for the notifiers begins in the end
\* (package_and_wait holds the write lock meanwhile).
BeginReturns == []<>(pc # "promoting")
=============================================================================

---------------------------- MODULE AppLifeProofs ----------------------------
(***************************************************************************)
(* Proofs about AppLife, for any documents, filters and passwords: the     *)
(* switch shows the lock, launches keep the data, and a saved password was *)
(* typed twice.                                                            *)
(***************************************************************************)
EXTENDS AppLife, TLAPS

Pictures == [data : Pages, filter : Filters]

\* The pages of the first version, as the migration makes them.
Migrated(old) == [k \in DOMAIN old |-> Picture(old[k], BlackWhite)]

Types ==
    /\ schemaVersion \in {NotVersioned, 0, PSSchemaVersion1}
    /\ imageDatas \in [Files -> Seq(Pages)]
    /\ pictures \in [Files -> Seq(Pictures)]
    /\ scannerFilter \in Filters \cup {None}
    /\ password \in Passwords \cup {None}
    /\ phase \in {"dead", "opening", "migrating", "opened", "initialized", "up"}
    /\ saved \in [Files -> Seq(Pictures)]
    /\ chosen \in Filters \cup {None}

\* A dialog that chooses a password is there only while none is set, with the
\* switch off, and in its second part the first entry is the last one typed.
Choosing ==
    screen = "lock" /\ type # "unlock" =>
        /\ password = None /\ switchOn = FALSE
        /\ type = "confirm" => entered[2] = initialPassword

\* Where the pages are at each version of the schema, and how far a launch has to
\* be to see them.
Placed ==
    /\ schemaVersion # 0 => \A f \in Files : imageDatas[f] = <<>>
    /\ schemaVersion # PSSchemaVersion1 =>
          /\ \A f \in Files : pictures[f] = <<>>
          /\ chosen = None
          /\ phase \in {"dead", "opening", "migrating"}
    /\ phase = "migrating" => schemaVersion = 0
    /\ phase = "initialized" => scannerFilter # None
    /\ screen # "none" => phase = "up" /\ scannerFilter # None

IInv == Types /\ Choosing /\ Placed /\ SwitchShowsLock /\ LaunchKeepsData

-----------------------------------------------------------------------------
(* Sequences of pages.                                                       *)

\* There is nothing to migrate in an empty file.
LEMMA EmptyMigrated == Migrated(<<>>) = <<>>
BY DEF Migrated

\* A migrated file is a sequence of pictures, as long as the old one.
LEMMA MigratedType ==
  ASSUME NEW old \in Seq(Pages)
  PROVE  Migrated(old) \in Seq(Pictures)
<1>1. \A k \in 1 .. Len(old) : Picture(old[k], BlackWhite) \in Pictures
  BY FiltersAssumption DEF Picture, Pictures
<1>2. Migrated(old) = [k \in 1 .. Len(old) |-> Picture(old[k], BlackWhite)]
  BY DEF Migrated
<1>3. QED
  BY <1>1, <1>2

\* Concatenation with an empty sequence, and of one more element.
LEMMA ConcatFacts ==
  ASSUME NEW S, NEW s \in Seq(S)
  PROVE  /\ <<>> \o s = s
         /\ s \o <<>> = s
  OBVIOUS

-----------------------------------------------------------------------------
(* The inductive invariant.                                                  *)

\* What LaunchKeepsData says of the pages, by the name of the migration.
LEMMA KeepsDataDef ==
  LaunchKeepsData <=>
    /\ \A f \in Files : saved[f] = Migrated(imageDatas[f]) \o pictures[f]
    /\ chosen # None => scannerFilter = chosen
BY DEF LaunchKeepsData, Migrated

\* A file of the first version, or none, satisfies the invariant.
LEMMA InitIInv == Init => IInv
<1> SUFFICES ASSUME Init PROVE IInv
  OBVIOUS
<1>1. imageDatas \in [Files -> Seq(Pages)]
  <2>1. PageSeqs \subseteq Seq(Pages)
    BY BoundAssumption DEF PageSeqs
  <2>2. QED
    BY <2>1 DEF Init
<1>2. saved = [f \in Files |-> Migrated(imageDatas[f])]
  BY DEF Init, Migrated
<1>3. saved \in [Files -> Seq(Pictures)]
  BY <1>1, <1>2, MigratedType
<1>4. Types
  BY <1>1, <1>3, FiltersAssumption DEF Init, Types
<1>5. Choosing /\ Placed /\ SwitchShowsLock
  BY DEF Init, Choosing, Placed, SwitchShowsLock, NotVersioned, PSSchemaVersion1
<1>6. LaunchKeepsData
  <2>1. ASSUME NEW f \in Files
        PROVE  saved[f] = Migrated(imageDatas[f]) \o pictures[f]
    <3>1. pictures[f] = <<>> /\ imageDatas[f] \in Seq(Pages)
      BY <1>1 DEF Init
    <3>2. saved[f] = Migrated(imageDatas[f])
      BY <1>2
    <3>3. Migrated(imageDatas[f]) \o <<>> = Migrated(imageDatas[f])
      BY <3>1, MigratedType, ConcatFacts
    <3>4. QED
      BY <3>1, <3>2, <3>3
  <2>2. QED
    BY <2>1, KeepsDataDef DEF Init
<1>7. QED
  BY <1>4, <1>5, <1>6 DEF IInv

\* Every step of a launch, a death, a reinstallation, the dialog and the settings
\* screen preserves it.
LEMMA NextIInv == IInv /\ [Next]_vars => IInv'
<1> SUFFICES ASSUME IInv, [Next]_vars PROVE IInv'
  OBVIOUS
<1> USE DEF IInv
<1>1. ASSUME UNCHANGED <<schemaVersion, imageDatas, pictures, scannerFilter, saved,
                         chosen>>
      PROVE  LaunchKeepsData'
  BY <1>1 DEF LaunchKeepsData
<1>2. CASE Launch
  BY <1>2, <1>1 DEF Launch, Types, Choosing, Placed, SwitchShowsLock, database, ui,
                    dialog, history
<1>3. CASE update_schema
  <2>1. LaunchKeepsData'
    BY <1>3 DEF update_schema, LaunchKeepsData, history
  <2>2. QED
    BY <1>3, <2>1 DEF update_schema, schema_change_needs_write_transaction, Types,
         Choosing, Placed, SwitchShowsLock, ui, dialog, history, NotVersioned,
         PSSchemaVersion1
<1>4. CASE beginMigration
  BY <1>4, <1>1 DEF beginMigration, schema_change_needs_write_transaction, Types,
       Choosing, Placed, SwitchShowsLock, database, ui, dialog, history,
       NotVersioned, PSSchemaVersion1
<1>5. CASE migrationBlock
  <2>1. /\ schemaVersion = 0 /\ chosen = None
        /\ \A f \in Files : pictures[f] = <<>>
    BY <1>5 DEF migrationBlock, Placed, PSSchemaVersion1
  <2>2. pictures' = [f \in Files |-> Migrated(imageDatas[f])]
    BY <1>5 DEF migrationBlock, Migrated
  <2>3. pictures' \in [Files -> Seq(Pictures)]
    BY <2>2, MigratedType DEF Types
  <2>4. Types'
    BY <1>5, <2>3, FiltersAssumption
       DEF migrationBlock, Types, ui, dialog, history
  <2>5. Choosing' /\ Placed' /\ SwitchShowsLock'
    BY <1>5, <2>1, NoneAssumption, FiltersAssumption
       DEF migrationBlock, Choosing, Placed, SwitchShowsLock, ui, dialog, history,
           NotVersioned, PSSchemaVersion1
  <2>6. ASSUME NEW f \in Files
        PROVE  saved'[f] = Migrated(imageDatas'[f]) \o pictures'[f]
    <3>1. saved'[f] = Migrated(imageDatas[f]) \o <<>>
      BY <1>5, <2>1, KeepsDataDef DEF migrationBlock, history
    <3>2. Migrated(imageDatas[f]) \in Seq(Pictures)
      BY MigratedType DEF Types
    <3>3. saved'[f] = Migrated(imageDatas[f])
      BY <3>1, <3>2, ConcatFacts
    <3>4. imageDatas'[f] = <<>>
      BY <1>5 DEF migrationBlock
    <3>5. QED
      BY <2>2, <3>2, <3>3, <3>4, EmptyMigrated, ConcatFacts
  <2>7. LaunchKeepsData'
    BY <1>5, <2>1, <2>6 DEF migrationBlock, history, LaunchKeepsData, Migrated
  <2>8. QED
    BY <2>4, <2>5, <2>7
<1>6. CASE _initializeScannerSetting
  <2>1. LaunchKeepsData'
    BY <1>6, NoneAssumption DEF _initializeScannerSetting, LaunchKeepsData, history,
         Types
  <2>2. QED
    BY <1>6, <2>1, FiltersAssumption, NoneAssumption
       DEF _initializeScannerSetting, Types, Choosing, Placed, SwitchShowsLock, ui,
           dialog, history
<1>7. CASE showHome
  BY <1>7, <1>1 DEF showHome, checkAppLockStatus, Types, Choosing, Placed,
       SwitchShowsLock, history
<1>8. CASE Kill
  BY <1>8, <1>1 DEF Kill, Types, Choosing, Placed, SwitchShowsLock, database, history
<1>9. CASE Reinstall
  <2>1. screen = "none"
    BY <1>9 DEF Reinstall, Placed
  <2>2. LaunchKeepsData'
    <3>1. ASSUME NEW f \in Files
          PROVE  saved'[f] = Migrated(imageDatas'[f]) \o pictures'[f]
      BY <1>9, EmptyMigrated, ConcatFacts DEF Reinstall
    <3>2. QED
      BY <1>9, <3>1 DEF Reinstall, LaunchKeepsData, Migrated
  <2>3. QED
    BY <1>9, <2>1, <2>2 DEF Reinstall, Types, Choosing, Placed, SwitchShowsLock, ui,
         dialog, NotVersioned, PSSchemaVersion1
<1>10. ASSUME NEW p \in Passwords, textFieldDidChanged(p)
       PROVE  IInv'
  <2>1. LaunchKeepsData' /\ Placed'
    BY <1>10, <1>1 DEF textFieldDidChanged, Placed, database, history, createPassword,
         confirmPassword, mismatch, unlock
  <2>2. Types'
    BY <1>10 DEF textFieldDidChanged, Types, database, history, createPassword,
         confirmPassword, mismatch, unlock, setAppLockPassword
  <2>3. Choosing' /\ SwitchShowsLock'
    BY <1>10, NoneAssumption DEF textFieldDidChanged, Types, Choosing,
         SwitchShowsLock, createPassword, confirmPassword, mismatch, unlock,
         setAppLockPassword
  <2>4. QED
    BY <2>1, <2>2, <2>3
<1>11. CASE dismissDialog
  BY <1>11, <1>1 DEF dismissDialog, Types, Choosing, Placed, SwitchShowsLock,
       database, dialog, history
<1>12. CASE openSettingVC
  BY <1>12, <1>1 DEF openSettingVC, Types, Choosing, Placed, SwitchShowsLock,
       database, dialog, history
<1>13. CASE dismiss
  BY <1>13, <1>1 DEF dismiss, Types, Choosing, Placed, SwitchShowsLock, database,
       dialog, history
<1>14. CASE lockApp
  BY <1>14, <1>1 DEF lockApp, deleteAppLockPassword, switchForDialog, Types,
       Choosing, Placed, SwitchShowsLock, database, dialog, history
<1>15. ASSUME NEW f \in Filters, setScannerFilter(f)
       PROVE  IInv'
  <2>1. screen = "setting" /\ schemaVersion = PSSchemaVersion1
    BY <1>15 DEF setScannerFilter, Placed
  <2>2. LaunchKeepsData'
    BY <1>15 DEF setScannerFilter, LaunchKeepsData
  <2>3. QED
    BY <1>15, <2>1, <2>2, NoneAssumption DEF setScannerFilter, Types, Choosing,
         Placed, SwitchShowsLock, ui, dialog
<1>16. ASSUME NEW f \in Files, AddPage(f)
       PROVE  IInv'
  <2>1. /\ schemaVersion = PSSchemaVersion1 /\ scannerFilter \in Filters
        /\ imageDatas[f] = <<>>
    BY <1>16 DEF AddPage, Placed, Types, PSSchemaVersion1
  <2>2. PICK d \in Pages :
          /\ pictures' = [pictures EXCEPT ![f] = Append(@, Picture(d, scannerFilter))]
          /\ saved' = [saved EXCEPT ![f] = Append(@, Picture(d, scannerFilter))]
    BY <1>16 DEF AddPage
  <2>3. Picture(d, scannerFilter) \in Pictures
    BY <2>1 DEF Picture, Pictures
  <2>4. Types'
    BY <1>16, <2>2, <2>3 DEF AddPage, Types, ui
  <2>5. Choosing' /\ Placed' /\ SwitchShowsLock'
    BY <1>16, <2>1 DEF AddPage, Choosing, Placed, SwitchShowsLock, ui, dialog
  <2>6. ASSUME NEW g \in Files
        PROVE  saved'[g] = Migrated(imageDatas'[g]) \o pictures'[g]
    <3>1. saved[g] = Migrated(imageDatas[g]) \o pictures[g] /\ imageDatas' = imageDatas
      BY <1>16, KeepsDataDef DEF AddPage
    <3>2. CASE g # f
      BY <2>2, <3>1, <3>2 DEF Types
    <3>3. CASE g = f
      <4>1. saved[f] = pictures[f]
        BY <2>1, <3>1, <3>3, EmptyMigrated, ConcatFacts, ZenonT(60) DEF Types
      <4>2. saved'[f] = pictures'[f] /\ pictures'[f] \in Seq(Pictures)
        BY <2>2, <2>4, <4>1 DEF Types
      <4>3. QED
        BY <2>1, <3>1, <3>3, <4>2, EmptyMigrated, ConcatFacts
    <3>4. QED
      BY <3>2, <3>3
  <2>7. LaunchKeepsData'
    BY <1>16, <2>6, KeepsDataDef DEF AddPage, LaunchKeepsData, Migrated
  <2>8. QED
    BY <2>4, <2>5, <2>7
<1>17. CASE UNCHANGED vars
  BY <1>17, <1>1 DEF vars, Types, Choosing, Placed, SwitchShowsLock, database, ui,
       dialog, history
<1>18. QED
  BY <1>2, <1>3, <1>4, <1>5, <1>6, <1>7, <1>8, <1>9, <1>10, <1>11, <1>12, <1>13,
     <1>14, <1>15, <1>16, <1>17 DEF Next

\* The invariant holds of every behaviour of the app.
LEMMA AlwaysIInv == Spec => []IInv
BY InitIInv, NextIInv, PTL DEF Spec

-----------------------------------------------------------------------------
(* The theorems.                                                             *)

\* On the settings screen the switch tells whether a password is set, unless a
\* keychain call failed (lockApp, passwordSetBlock), for any passwords.
THEOREM SwitchAlwaysShowsLock == Spec => []SwitchShowsLock
<1>1. IInv => SwitchShowsLock
  BY DEF IInv
<1>2. QED
  BY <1>1, AlwaysIInv, PTL

\* Launches, also killed ones, keep every page and the chosen filter
\* (update_schema, migrationBlock), for any files, pages and filters.
THEOREM LaunchesKeepData == Spec => []LaunchKeepsData
<1>1. IInv => LaunchKeepsData
  BY DEF IInv
<1>2. QED
  BY <1>1, AlwaysIInv, PTL

\* Only a password typed twice in a row is saved (textFieldDidChanged).
THEOREM AlwaysSavedAsTypedTwice == Spec => SavedAsTypedTwice
<1>1. ASSUME IInv, [Next]_vars
      PROVE  [password' \notin {password, None} => entered' = <<password', password'>>]_vars
  <2>1. SUFFICES ASSUME Next, password' \notin {password, None}
                 PROVE  entered' = <<password', password'>>
    BY <1>1
  <2>2. CASE \E p \in Passwords : textFieldDidChanged(p)
    BY <1>1, <2>1, <2>2 DEF IInv, Choosing, textFieldDidChanged, createPassword,
         confirmPassword, mismatch, unlock, setAppLockPassword
  <2>3. CASE lockApp
    BY <2>1, <2>3 DEF lockApp, deleteAppLockPassword
  <2>4. CASE ~lockApp /\ ~\E p \in Passwords : textFieldDidChanged(p)
    BY <2>1, <2>4 DEF Next, Launch, update_schema, beginMigration, migrationBlock,
         _initializeScannerSetting, showHome, Kill, Reinstall, dismissDialog,
         openSettingVC, dismiss, setScannerFilter, AddPage
  <2>5. QED
    BY <2>2, <2>3, <2>4
<1>2. QED
  BY <1>1, AlwaysIInv, PTL DEF Spec, SavedAsTypedTwice
=============================================================================

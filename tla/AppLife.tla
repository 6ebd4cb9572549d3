------------------------------- MODULE AppLife -------------------------------
(***************************************************************************)
(* The life of the app on a device: a launch that opens the database and   *)
(* migrates the first version's data (AppDelegate, Realm::update_schema),  *)
(* the lock over the home screen, and the settings screen that turns the   *)
(* lock on and off and chooses the filter.  The process may be killed      *)
(* between any two steps; the app may be removed and installed again,      *)
(* which empties the database and leaves the keychain alone.               *)
(*                                                                         *)
(* A write transaction of Realm reaches the file as a whole or not at all. *)
(* A password is typed as a whole: fewer than four digits change nothing   *)
(* but the dots.  Keychain calls may fail; the app looks at the result of  *)
(* the removal only.                                                       *)
(***************************************************************************)
EXTENDS Integers, Sequences

CONSTANTS Files, Pages,      \* documents of the first version and of this one
          Filters,           \* PSSettingScannerFilter
          BlackWhite, GrayScale,
          Passwords,         \* what may be typed
          kMagicPassword,
          None,
          MaxPages           \* bound: pages of a file

ASSUME FiltersAssumption == {BlackWhite, GrayScale} \subseteq Filters
ASSUME NoneAssumption == None \notin Filters \cup Passwords
ASSUME BoundAssumption == MaxPages \in Nat

NotVersioned == -1     \* a new file
PSSchemaVersion1 == 1

VARIABLES schemaVersion,  \* persisted
          imageDatas,     \* persisted: the pages of the first version
          pictures,       \* persisted: the pages of this version
          scannerFilter,  \* persisted: the setting, None when there is no object
          rootDir,        \* persisted: the root directory exists
          password,       \* keychain
          phase,          \* of the launch
          screen,
          type,           \* of the lock dialog on the screen
          initialPassword,
          switchOn,       \* switchControl.isOn
          saved,          \* history: every page made, with the filter it had
          chosen,         \* history: the filter chosen in the settings
          entered,        \* history: the last two passwords typed in the dialog
          failed          \* history: a keychain call has failed since the settings
                          \* screen was opened

database == <<schemaVersion, imageDatas, pictures, scannerFilter, rootDir>>
dialog == <<type, initialPassword, entered>>
ui == <<screen, dialog, switchOn, failed>>
history == <<saved, chosen>>
vars == <<database, password, phase, ui, history>>

PageSeqs == UNION {[1 .. n -> Pages] : n \in 0 .. MaxPages}
Picture(d, f) == [data |-> d, filter |-> f]

\* A new user, or a user of the first version.
Init ==
    /\ schemaVersion \in {NotVersioned, 0}
    /\ IF schemaVersion = 0
       THEN /\ imageDatas \in [Files -> PageSeqs]
            /\ scannerFilter \in {None, BlackWhite}
            /\ rootDir \in BOOLEAN
       ELSE /\ imageDatas = [f \in Files |-> <<>>]
            /\ scannerFilter = None
            /\ rootDir = FALSE
    /\ pictures = [f \in Files |-> <<>>]
    /\ password \in {None} \cup Passwords
    /\ phase = "dead" /\ screen = "none"
    /\ type = "unlock" /\ initialPassword = None /\ entered = <<None, None>>
    /\ switchOn = FALSE /\ failed = FALSE
    /\ saved = [f \in Files |-> [k \in DOMAIN imageDatas[f] |->
                                   Picture(imageDatas[f][k], BlackWhite)]]
    /\ chosen = None

-----------------------------------------------------------------------------
(* Starting, ending and reinstalling.                                        *)

Launch ==
    /\ phase = "dead"
    /\ phase' = "opening"
    /\ UNCHANGED <<database, password, ui, history>>

schema_change_needs_write_transactionAlways == TRUE

schema_change_needs_write_transaction == schemaVersion # PSSchemaVersion1

\* The file needs no migration, or is new and gets the tables and the version.
update_schema ==
    /\ phase = "opening"
    /\ \/ /\ ~schema_change_needs_write_transaction
          /\ UNCHANGED schemaVersion
       \/ /\ schemaVersion = NotVersioned
          /\ schemaVersion' = PSSchemaVersion1
    /\ phase' = "opened"
    /\ UNCHANGED <<imageDatas, pictures, scannerFilter, rootDir, password, ui,
                   history>>

beginMigration ==
    /\ phase = "opening"
    /\ schema_change_needs_write_transaction /\ schemaVersion # NotVersioned
    /\ phase' = "migrating"
    /\ UNCHANGED <<database, password, ui, history>>

\* The migration block, and the commit that makes it, the removal of the old
\* property and the new version visible at once.
migrationBlock ==
    /\ phase = "migrating"
    /\ pictures' = [f \in Files |-> [k \in DOMAIN imageDatas[f] |->
                                       Picture(imageDatas[f][k], BlackWhite)]]
    /\ imageDatas' = [f \in Files |-> <<>>]
    /\ scannerFilter' = IF scannerFilter = None THEN None ELSE GrayScale
    /\ schemaVersion' = PSSchemaVersion1
    /\ phase' = "opened"
    /\ UNCHANGED <<rootDir, password, ui, history>>

_initializeScannerSetting ==
    /\ phase = "opened"
    /\ scannerFilter' = IF scannerFilter = None THEN GrayScale ELSE scannerFilter
    /\ phase' = "initialized"
    /\ UNCHANGED <<schemaVersion, imageDatas, pictures, rootDir, password, ui,
                   history>>

checkAppLockStatus ==
    IF password # None
    THEN screen' = "lock" /\ type' = "unlock"
    ELSE screen' = "home" /\ UNCHANGED type

\* The root directory is found or made, and the home screen loads.
showHome ==
    /\ phase = "initialized"
    /\ rootDir' = TRUE
    /\ checkAppLockStatus
    /\ phase' = "up"
    /\ UNCHANGED <<schemaVersion, imageDatas, pictures, scannerFilter, password,
                   initialPassword, entered, switchOn, failed, history>>

Kill ==
    /\ phase # "dead"
    /\ phase' = "dead" /\ screen' = "none"
    /\ initialPassword' = None /\ entered' = <<None, None>>
    /\ UNCHANGED <<database, password, type, switchOn, failed, history>>

Reinstall ==
    /\ phase = "dead"
    /\ schemaVersion' = NotVersioned /\ scannerFilter' = None /\ rootDir' = FALSE
    /\ imageDatas' = [f \in Files |-> <<>>] /\ pictures' = [f \in Files |-> <<>>]
    /\ saved' = [f \in Files |-> <<>>] /\ chosen' = None
    /\ UNCHANGED <<password, phase, ui>>

-----------------------------------------------------------------------------
(* The lock dialog.                                                          *)

deleteAppLockPassword(ok) == password' = IF ok THEN None ELSE password
setAppLockPassword(p, ok) == password' = IF ok THEN p ELSE password

\* The fourth digit.  A password is chosen by typing it twice.
createPassword(p) ==
    /\ type = "create"
    /\ initialPassword' = p /\ type' = "confirm"
    /\ UNCHANGED <<screen, password, switchOn, failed>>

confirmPassword(p, ok) ==
    /\ type = "confirm" /\ p = initialPassword
    /\ setAppLockPassword(p, ok)
    /\ failed' = (failed \/ ~ok)
    /\ switchOn' = TRUE
    /\ screen' = "setting"
    /\ UNCHANGED <<type, initialPassword>>

mismatchKeepsFirst(p) ==
    /\ type = "confirm" /\ p # initialPassword
    /\ UNCHANGED <<type, initialPassword, screen, password, switchOn, failed>>

mismatch(p) ==
    /\ type = "confirm" /\ p # initialPassword
    /\ type' = "create" /\ initialPassword' = None
    /\ UNCHANGED <<screen, password, switchOn, failed>>

unlock(p) ==
    /\ type = "unlock"
    /\ screen' = IF p \in {password, kMagicPassword} THEN "home" ELSE screen
    /\ UNCHANGED <<type, initialPassword, password, switchOn, failed>>

textFieldDidChanged(p) ==
    /\ screen = "lock"
    /\ entered' = <<entered[2], p>>
    /\ \/ createPassword(p)
       \/ \E ok \in BOOLEAN : confirmPassword(p, ok)
       \/ mismatch(p)
       \/ unlock(p)
    /\ UNCHANGED <<database, phase, history>>

\* Tapping beside the dialog closes it, except over the locked home screen.
dismissDialog ==
    /\ screen = "lock" /\ type # "unlock"
    /\ screen' = "setting"
    /\ UNCHANGED <<database, password, phase, dialog, switchOn, failed, history>>

-----------------------------------------------------------------------------
(* The settings screen.                                                      *)

openSettingVC ==
    /\ screen = "home"
    /\ screen' = "setting"
    /\ switchOn' = (password # None)
    /\ failed' = FALSE
    /\ UNCHANGED <<database, password, phase, dialog, history>>

dismiss ==
    /\ screen = "setting"
    /\ screen' = "home"
    /\ UNCHANGED <<database, password, phase, dialog, switchOn, failed, history>>

switchForDialogOn == TRUE

\* A new dialog is shown with the switch off until the password is set.
switchForDialog == FALSE

\* The user has flipped the switch.
lockApp ==
    /\ screen = "setting"
    /\ \/ /\ password # None
          /\ \E ok \in BOOLEAN :
                /\ deleteAppLockPassword(ok)
                /\ switchOn' = IF ok THEN FALSE ELSE ~switchOn
                /\ failed' = (failed \/ ~ok)
          /\ UNCHANGED <<screen, dialog>>
       \/ /\ password = None
          /\ switchOn' = switchForDialog
          /\ screen' = "lock" /\ type' = "create"
          /\ initialPassword' = None /\ entered' = <<None, None>>
          /\ UNCHANGED <<password, failed>>
    /\ UNCHANGED <<database, phase, history>>

setScannerFilter(f) ==
    /\ screen = "setting"
    /\ scannerFilter' = f /\ chosen' = f
    /\ UNCHANGED <<schemaVersion, imageDatas, pictures, rootDir, password, phase,
                   ui, saved>>

\* Meanwhile a page is scanned.
AddPage(f) ==
    /\ screen = "home" /\ Len(pictures[f]) < MaxPages
    /\ \E d \in Pages :
          /\ pictures' = [pictures EXCEPT ![f] = Append(@, Picture(d, scannerFilter))]
          /\ saved' = [saved EXCEPT ![f] = Append(@, Picture(d, scannerFilter))]
    /\ UNCHANGED <<schemaVersion, imageDatas, scannerFilter, rootDir, password,
                   phase, ui, chosen>>

-----------------------------------------------------------------------------
Next ==
    \/ Launch \/ update_schema \/ beginMigration \/ migrationBlock
    \/ _initializeScannerSetting \/ showHome
    \/ Kill \/ Reinstall
    \/ \E p \in Passwords : textFieldDidChanged(p)
    \/ dismissDialog
    \/ openSettingVC \/ dismiss \/ lockApp
    \/ \E f \in Filters : setScannerFilter(f)
    \/ \E f \in Files : AddPage(f)

Spec == Init /\ [][Next]_vars

-----------------------------------------------------------------------------
(* Properties.                                                               *)

\* The switch on the settings screen tells whether the next launch will ask for a
\* password, through every way of ending the dialog, unless a keychain call failed
\* (lockApp, passwordSetBlock).
SwitchShowsLock ==
    screen = "setting" /\ ~failed => switchOn = (password # None)

\* A password that is saved is the one typed in the last two entries: one typed
\* before a mismatch, or in an earlier dialog, never locks the user out
\* (textFieldDidChanged).
SavedAsTypedTwice ==
    [][password' \notin {password, None} => entered' = <<password', password'>>]_vars

\* Launches, also those that are killed, keep what the user has: each page made
\* with either version is there once, in order, with its filter, and the filter
\* chosen in the settings stays chosen (update_schema, migrationBlock).
LaunchKeepsData ==
    /\ \A f \in Files :
          saved[f] = [k \in DOMAIN imageDatas[f] |->
                        Picture(imageDatas[f][k], BlackWhite)] \o pictures[f]
    /\ chosen # None => scannerFilter = chosen
=============================================================================

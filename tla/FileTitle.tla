------------------------------ MODULE FileTitle ------------------------------
(***************************************************************************)
(* The name of a file.  It is stored in the database, kept as titleStr by  *)
(* the ImageScannerController that shows the file, by a second one that is *)
(* presented over it to add a page, and shown as the title of the page     *)
(* screen.  The user may change it on each of these screens; finishing a   *)
(* page writes the controller's titleStr back to the database.             *)
(*                                                                         *)
(* One file is followed.  A name is a value; Blank is a name of spaces     *)
(* only, which the home screen trims and refuses and the editor accepts.   *)
(***************************************************************************)
EXTENDS Naturals

CONSTANTS Names, Blank, NewDoc, Nil

ASSUME NamesAssumption ==
    /\ Blank \notin Names /\ NewDoc \notin Names /\ Nil \notin Names
    /\ Blank # NewDoc /\ Nil \notin {Blank, NewDoc}

Titles == Names \cup {Blank, NewDoc}

VARIABLES name,      \* PSFileModel.name, Nil while there is no file
          outer,     \* titleStr of the controller that shows the file
          inner,     \* titleStr of the controller presented to add a page
          shown,     \* the title on the page screen
          place,     \* where the user is
          wanted,    \* history: the name the user gave last
          renamedInside \* history: it was given while adding a page, and the
                        \* file is still open or the name was lost before
                        \* the file was closed

titleVars == <<name, outer, inner, shown, place, wanted, renamedInside>>

-----------------------------------------------------------------------------
TitleInit ==
    /\ name = Nil /\ outer = Nil /\ inner = Nil /\ shown = Nil
    /\ place = "home"
    /\ wanted = Nil /\ renamedInside = FALSE

\* _jumpToCameraScanner presents the controller with a default name.
Scan ==
    /\ place = "home" /\ name = Nil
    /\ place' = "scan"
    /\ outer' = NewDoc
    /\ wanted' = NewDoc
    /\ UNCHANGED <<name, inner, shown, renamedInside>>

\* The file is on screen: titleStr and the title are its name.
ShowFile(n) ==
    /\ place' = "pages"
    /\ outer' = n /\ shown' = n

\* doneClick stores the new file, and the home screen opens it.
ScanDone ==
    /\ place = "scan"
    /\ name' = outer
    /\ ShowFile(outer)
    /\ UNCHANGED <<inner, wanted, renamedInside>>

OpenFile ==
    /\ place = "home" /\ name # Nil
    /\ ShowFile(name)
    /\ UNCHANGED <<name, inner, wanted, renamedInside>>

\* Cancelling a scan, going back, or the death of the app.
Close ==
    /\ place # "home"
    /\ place' = "home"
    /\ outer' = Nil /\ inner' = Nil /\ shown' = Nil
    /\ wanted' = IF place = "scan" THEN Nil ELSE wanted
    /\ renamedInside' = (renamedInside /\ name # wanted)
    /\ UNCHANGED name

\* The last page, or the file itself, is deleted.
Delete ==
    /\ place \in {"home", "pages"} /\ name # Nil
    /\ place' = "home"
    /\ name' = Nil /\ wanted' = Nil
    /\ outer' = Nil /\ shown' = Nil
    /\ renamedInside' = FALSE
    /\ UNCHANGED inner

-----------------------------------------------------------------------------
(* Renaming.                                                                 *)

\* _changeName on the home screen.
changeName(n) ==
    /\ place = "home" /\ name # Nil
    /\ n # Blank
    /\ name' = n /\ wanted' = n
    /\ renamedInside' = FALSE
    /\ UNCHANGED <<outer, inner, shown, place>>

\* alertUpdateFileName of the controller that shows the file or the scan.
alertUpdateFileName(n) ==
    /\ place \in {"scan", "pages", "editing"}
    /\ outer' = n /\ wanted' = n
    /\ name' = IF place = "scan" THEN name ELSE n
    /\ shown' = IF place = "pages" THEN n ELSE shown
    /\ renamedInside' = FALSE
    /\ UNCHANGED <<inner, place>>

\* The same, of the controller that adds a page.
alertUpdateFileNameInside(n) ==
    /\ place = "adding"
    /\ inner' = n /\ wanted' = n /\ name' = n
    /\ renamedInside' = (n # outer)
    /\ UNCHANGED <<outer, shown, place>>

-----------------------------------------------------------------------------
(* Editing a page: screens are pushed on and popped from the same controller,*)
(* which then sets the title of the screen on top.                           *)

configVCTitleStrNot == shown

configVCTitleStr == outer

Edit ==
    /\ place = "pages"
    /\ place' = "editing"
    /\ UNCHANGED <<name, outer, inner, shown, wanted, renamedInside>>

PopEdit ==
    /\ place = "editing"
    /\ place' = "pages"
    /\ shown' = configVCTitleStr
    /\ UNCHANGED <<name, outer, inner, wanted, renamedInside>>

EditDone ==
    /\ place = "editing"
    /\ name' = outer
    /\ place' = "pages"
    /\ shown' = configVCTitleStr
    /\ UNCHANGED <<outer, inner, wanted, renamedInside>>

-----------------------------------------------------------------------------
(* Adding a page: a second controller is presented.                          *)

selectedDirectoryDefault(titleStr) == NewDoc

\* Setting selectedDirectory to a file takes over the file's name.
selectedDirectory(titleStr) == name

Add ==
    /\ place = "pages"
    /\ place' = "adding"
    /\ inner' = selectedDirectory(inner)
    /\ UNCHANGED <<name, outer, shown, wanted, renamedInside>>

AddCancel ==
    /\ place = "adding"
    /\ place' = "pages"
    /\ shown' = name
    /\ inner' = Nil
    /\ UNCHANGED <<name, outer, wanted, renamedInside>>

AddDone ==
    /\ place = "adding"
    /\ name' = inner
    /\ shown' = inner
    /\ inner' = Nil
    /\ place' = "pages"
    /\ UNCHANGED <<outer, wanted, renamedInside>>

-----------------------------------------------------------------------------
TitleNext ==
    \/ Scan \/ ScanDone \/ OpenFile \/ Close \/ Delete
    \/ \E n \in Names \cup {Blank} :
          changeName(n) \/ alertUpdateFileName(n) \/ alertUpdateFileNameInside(n)
    \/ Edit \/ PopEdit \/ EditDone
    \/ Add \/ AddCancel \/ AddDone

TitleSpec == TitleInit /\ [][TitleNext]_titleVars

-----------------------------------------------------------------------------
(* Properties.                                                               *)

\* Every variable has its type, and a controller on screen has a title.
TitleTypeOK ==
    /\ name \in Titles \cup {Nil}
    /\ place \in {"home", "scan", "pages", "editing", "adding"}
    /\ outer \in IF place = "home" THEN {Nil} ELSE Titles
    /\ inner \in IF place = "adding" THEN Titles ELSE {Nil}
    /\ shown \in Titles \cup {Nil}
    /\ wanted \in Titles \cup {Nil}
    /\ renamedInside \in BOOLEAN

\* A name the user has given stays, through every edit, added page, cancellation
\* and restart, unless it was given while adding a page.
RenameKeptOutside ==
    place # "scan" /\ ~renamedInside => name = wanted

\* The page screen shows the stored name, unless the file was renamed while
\* adding a page.
TitleStored == place = "pages" /\ ~renamedInside => shown = name

\* What "Edit File Name" promises on every screen.
RenameKept == place # "scan" => name = wanted
=============================================================================

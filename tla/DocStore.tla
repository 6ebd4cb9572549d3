------------------------------ MODULE DocStore ------------------------------
(***************************************************************************)
(* The document store and the home screen over it: the Realm objects of    *)
(* class PSFileModel (folders and files), the lists fileOrDirs that link   *)
(* them, and the operations of PSHomeDocViewController and of its two move *)
(* drawers.  A Realm transaction is atomic and survives the process.       *)
(*                                                                         *)
(* The pages of a file are one value, its content; the page editor, which  *)
(* changes it, is the module PageEditor.  Names, dates and the layout of   *)
(* the screen are left out (names are the module FileTitle's).             *)
(***************************************************************************)
EXTENDS Naturals, Sequences, FiniteSets, Functions, Lists

CONSTANTS Items,      \* identities of PSFileModel objects; bounds how many exist
          Root,       \* the root directory, which always exists
          Contents,   \* what the pages of a file may hold
          NoContent   \* no pages: a folder

ASSUME ItemsAssumption == Root \notin Items /\ IsFiniteSet(Items)
ASSUME ContentsAssumption == NoContent \notin Contents

VARIABLES kind,           \* persisted: unused identity, folder or file
          fileOrDirs,     \* persisted: the list of each directory
          content,        \* persisted: the pictures of each file
          isSelected,     \* persisted: the objects with isSelected = YES
          currentDirectory,
          isInSelection,
          drawer,         \* the move drawer is open
          stray           \* history: directories whose selection was left by
                          \* swiping back or by the death of the app

stored == <<kind, fileOrDirs, content, isSelected>>
screen == <<currentDirectory, isInSelection, drawer, stray>>
vars == <<stored, screen>>

Dirs == {i \in Items : kind[i] = "dir"}
Unused == {i \in Items : kind[i] = "unused"}
Listed(d) == Range(fileOrDirs[d])
isDir(i) == kind[i] = "dir"

\* currentDirectory.files where isSelected, in the order of the list.
selectedFiles ==
    Only(fileOrDirs[currentDirectory], {i \in isSelected : ~isDir(i)})

Idle == ~isInSelection /\ ~drawer
Selecting == isInSelection /\ ~drawer

-----------------------------------------------------------------------------
(* The effect of Realm's operations on the lists.                            *)

\* Deleting objects takes them out of every list; what a deleted folder listed
\* stays in the database.
Without(s, S) == Only(s, Range(s) \ S)

\* insertObject:atIndex:0
InFront(s, t) == s \o t

\* moveObjectAtIndex:toIndex:
MovedObject(s, i, j) ==
    LET rest == [k \in 1..(Len(s) - 1) |-> IF k < i THEN s[k] ELSE s[k + 1]]
    IN  [k \in 1..Len(s) |->
            IF k < j THEN rest[k] ELSE IF k = j THEN s[i] ELSE rest[k - 1]]

\* The lists once the objects of S are deleted.
deleteObjects(S, lists) ==
    [d \in DOMAIN lists |-> IF d \in S THEN <<>> ELSE Without(lists[d], S)]

clearSelectionNot(marked, list) == marked

\* setIsInSelection:NO clears the marks of the directory on screen.
clearSelection(marked, list) == marked \ Range(list)

EndSelection(marked) ==
    /\ isInSelection' = FALSE
    /\ isSelected' = clearSelection(marked, fileOrDirs'[currentDirectory])

-----------------------------------------------------------------------------
Init ==
    /\ kind = [i \in Items |-> "unused"]
    /\ fileOrDirs = [d \in Items \cup {Root} |-> <<>>]
    /\ content = [i \in Items |-> NoContent]
    /\ isSelected = {}
    /\ currentDirectory = Root
    /\ isInSelection = FALSE /\ drawer = FALSE
    /\ stray = {}

\* The app is killed and launched again.
Relaunch ==
    /\ currentDirectory' = Root
    /\ isInSelection' = FALSE /\ drawer' = FALSE
    /\ stray' = IF isInSelection THEN stray \cup {currentDirectory} ELSE stray
    /\ UNCHANGED stored

-----------------------------------------------------------------------------
(* Folders and files come into being.                                        *)

createDirectoryAnywhere(d) ==
    /\ Idle \/ drawer
    /\ d \in Unused
    /\ kind' = [kind EXCEPT ![d] = "dir"]
    /\ fileOrDirs' = [fileOrDirs EXCEPT ![currentDirectory] = InFront(<<d>>, @)]
    /\ UNCHANGED <<content, isSelected, screen>>

\* Only the root offers to make a folder: on the screen itself, or inside the
\* drawer that asks where to move files.
createDirectory(d) ==
    /\ currentDirectory = Root
    /\ Idle \/ drawer
    /\ d \in Unused
    /\ kind' = [kind EXCEPT ![d] = "dir"]
    /\ fileOrDirs' = [fileOrDirs EXCEPT ![Root] = InFront(<<d>>, @)]
    /\ UNCHANGED <<content, isSelected, screen>>

\* A scan has been finished (EditScanStepTwoVC.doneClick).
NewFile(f, c) ==
    /\ Idle
    /\ f \in Unused
    /\ c \in Contents \ Range(content)
    /\ kind' = [kind EXCEPT ![f] = "file"]
    /\ content' = [content EXCEPT ![f] = c]
    /\ fileOrDirs' = [fileOrDirs EXCEPT ![currentDirectory] = InFront(<<f>>, @)]
    /\ UNCHANGED <<isSelected, screen>>

\* The page editor has changed the pages of a file.
FileEdited(f, c) ==
    /\ Idle
    /\ f \in Listed(currentDirectory) /\ ~isDir(f)
    /\ c \in Contents \ Range(content)
    /\ content' = [content EXCEPT ![f] = c]
    /\ UNCHANGED <<kind, fileOrDirs, isSelected, screen>>

\* The page editor has deleted the last page of a file, and with it the file.
FileEmptied(f) ==
    /\ Idle
    /\ f \in Listed(currentDirectory) /\ ~isDir(f)
    /\ kind' = [kind EXCEPT ![f] = "unused"]
    /\ content' = [content EXCEPT ![f] = NoContent]
    /\ fileOrDirs' = deleteObjects({f}, fileOrDirs)
    /\ isSelected' = isSelected \ {f}
    /\ UNCHANGED screen

-----------------------------------------------------------------------------
(* Moving about.                                                             *)

OpenDirectory(d) ==
    /\ Idle
    /\ d \in Listed(currentDirectory) /\ isDir(d)
    /\ currentDirectory' = d
    /\ UNCHANGED <<stored, isInSelection, drawer, stray>>

\* The back button, or the swipe, which also works during a selection and then
\* leaves the marks as they are.
goBack ==
    /\ ~drawer /\ currentDirectory # Root
    /\ currentDirectory' = Root
    /\ isInSelection' = FALSE
    /\ stray' = IF isInSelection THEN stray \cup {currentDirectory} ELSE stray
    /\ UNCHANGED <<stored, drawer>>

-----------------------------------------------------------------------------
(* The selection and what can be done with it.                               *)

selection ==
    /\ Idle
    /\ isInSelection' = TRUE
    /\ UNCHANGED <<stored, currentDirectory, drawer, stray>>

\* Cancel and Done.
cancelSelection ==
    /\ Selecting
    /\ UNCHANGED <<kind, fileOrDirs, content, currentDirectory, drawer>>
    /\ EndSelection(isSelected)
    /\ stray' = stray \ {currentDirectory}

clickRadioButton(i) ==
    /\ Selecting
    /\ i \in Listed(currentDirectory)
    /\ isSelected' = IF i \in isSelected THEN isSelected \ {i}
                     ELSE isSelected \cup {i}
    /\ UNCHANGED <<kind, fileOrDirs, content, screen>>

moveItemCopied(i, j) ==
    LET list == fileOrDirs[currentDirectory] IN
    /\ Selecting
    /\ i \in DOMAIN list /\ j \in DOMAIN list
    /\ fileOrDirs' = [fileOrDirs EXCEPT ![currentDirectory][j] = list[i]]
    /\ UNCHANGED <<kind, content, isSelected, screen>>

moveItem(i, j) ==
    LET list == fileOrDirs[currentDirectory] IN
    /\ Selecting
    /\ i \in DOMAIN list /\ j \in DOMAIN list
    /\ fileOrDirs' = [fileOrDirs EXCEPT ![currentDirectory] = MovedObject(list, i, j)]
    /\ UNCHANGED <<kind, content, isSelected, screen>>

\* deleteDirOrFiles of the selection, or of the one item whose menu was used.
deleteDirOrFiles(S) ==
    /\ \/ Selecting /\ S = isSelected \cap Listed(currentDirectory)
       \/ Idle /\ \E i \in Listed(currentDirectory) : S = {i}
    /\ kind' = [i \in Items |-> IF i \in S THEN "unused" ELSE kind[i]]
    /\ content' = [i \in Items |-> IF i \in S THEN NoContent ELSE content[i]]
    /\ fileOrDirs' = deleteObjects(S, fileOrDirs)
    /\ EndSelection(isSelected \ S)
    /\ stray' = stray \ (S \cup {currentDirectory})
    /\ UNCHANGED <<currentDirectory, drawer>>

OpenDrawer ==
    /\ Selecting /\ selectedFiles # <<>>
    /\ drawer' = TRUE
    /\ UNCHANGED <<stored, currentDirectory, isInSelection, stray>>

CloseDrawer ==
    /\ drawer
    /\ drawer' = FALSE
    /\ UNCHANGED <<stored, currentDirectory, isInSelection, stray>>

\* From the root into one of its folders, from a folder to the root.
Targets == IF currentDirectory = Root
           THEN {d \in Listed(Root) : isDir(d)} ELSE {Root}

copiedContentNot(f) == NoContent
copiedContentFirst(f) == content[Head(selectedFiles)]

\* What _copySelectedFiles gives the copy of f.
copiedContent(f) == content[f]

\* The selected files are copied, the originals deleted and the copies inserted
\* in front, in one transaction.  A copy is not marked.
MoveFiles(target, copies) ==
    LET moving == selectedFiles
        gone == Range(moving)
        orig(c) == moving[CHOOSE k \in DOMAIN copies : copies[k] = c]
    IN
    /\ drawer
    /\ target \in Targets
    /\ Len(copies) = Len(moving) /\ IsInjective(copies)
    /\ kind' = [i \in Items |-> CASE i \in gone -> "unused"
                                  [] i \in Range(copies) -> "file"
                                  [] OTHER -> kind[i]]
    /\ content' = [i \in Items |-> CASE i \in gone -> NoContent
                                     [] i \in Range(copies) -> copiedContent(orig(i))
                                     [] OTHER -> content[i]]
    /\ fileOrDirs' = [deleteObjects(gone, fileOrDirs) EXCEPT
                          ![target] = InFront(copies, @)]
    /\ EndSelection(isSelected \ gone)
    /\ drawer' = FALSE
    /\ stray' = stray \ {currentDirectory}
    /\ UNCHANGED currentDirectory

-----------------------------------------------------------------------------
Next ==
    \/ Relaunch
    \/ \E d \in Items : createDirectory(d) \/ OpenDirectory(d)
    \/ \E f \in Items, c \in Contents : NewFile(f, c) \/ FileEdited(f, c)
    \/ \E f \in Items : FileEmptied(f) \/ clickRadioButton(f)
    \/ goBack \/ selection \/ cancelSelection
    \/ \E i, j \in 1..Cardinality(Items) : moveItem(i, j)
    \/ \E S \in SUBSET Items : deleteDirOrFiles(S)
    \/ OpenDrawer \/ CloseDrawer
    \/ \E target \in Items \cup {Root} :
          \E copies \in UNION {[1..n -> Unused] : n \in 1..Cardinality(Unused)} :
             MoveFiles(target, copies)

Spec == Init /\ [][Next]_vars

-----------------------------------------------------------------------------
(* Properties.                                                               *)

\* Every variable has its type; files have contents and nothing else has.
TypeOK ==
    /\ kind \in [Items -> {"unused", "dir", "file"}]
    /\ fileOrDirs \in [Items \cup {Root} -> Seq(Items)]
    /\ content \in [Items -> Contents \cup {NoContent}]
    /\ \A i \in Items : kind[i] = "file" <=> content[i] # NoContent
    /\ isSelected \subseteq Items \ Unused
    /\ currentDirectory \in Items \cup {Root}
    /\ isInSelection \in BOOLEAN /\ drawer \in BOOLEAN
    /\ stray \subseteq Items \cup {Root}

\* No object is listed twice, in one directory or in two, so that belongedDir,
\* which takes the first of the linking objects, is the only one.
OneParent ==
    \A d, e \in Items \cup {Root} :
      \A k \in DOMAIN fileOrDirs[d], l \in DOMAIN fileOrDirs[e] :
         fileOrDirs[d][k] = fileOrDirs[e][l] => d = e /\ k = l

\* The store has two levels: what is listed exists, only folders list anything,
\* every folder is in the root, and the screen shows a directory that exists.
TwoLevels ==
    /\ \A d \in Items \cup {Root} : Listed(d) \cap Unused = {}
    /\ \A d \in Items : Listed(d) # {} => isDir(d)
    /\ Dirs \subseteq Listed(Root)
    /\ \A d \in Items : Listed(d) \cap Dirs = {}
    /\ currentDirectory \in Dirs \cup {Root}

\* A mark is seen by its user: items of a directory are marked only while that
\* directory is in selection, or if its selection was left by swiping back or by
\* the death of the app and not taken up again.
MarksOwned ==
    \A d \in Dirs \cup {Root} :
       Listed(d) \cap isSelected # {} =>
          d \in stray \/ (isInSelection /\ d = currentDirectory)

\* Two files never share their pages.
ContentsDistinct ==
    \A f, g \in Items : content[f] = content[g] => f = g \/ content[f] = NoContent

Visible == {content[f] : f \in UNION {Listed(d) : d \in Items \cup {Root}}}
             \ {NoContent}

\* Pages disappear from the screen only when the user deletes (fewer objects
\* afterwards) or edits the file they are in: no move, reordering, cancelled
\* drawer or restart loses any.
PagesKept ==
    [][Visible \ Visible' # {} =>
         \/ Cardinality(Unused') > Cardinality(Unused)
         \/ kind' = kind /\ \E f \in Items : content'[f] \in Contents \ Range(content)
      ]_vars

\* What the confirmation says: "Selected files(s) will be deleted permanently!"
DeletedPermanently ==
    \A i \in Items \ Unused : \E d \in Items \cup {Root} : i \in Listed(d)
=============================================================================

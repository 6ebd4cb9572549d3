----------------------------- MODULE PageEditor -----------------------------
(***************************************************************************)
(* The page editor of one stored file: EditScanStepThreeVC, with the step  *)
(* that finishes a page (EditScanStepTwoVC.doneClick).  The screen keeps a *)
(* copy of the pages in memory (images) beside the rows of the database    *)
(* (pictures), and a collection view whose thumbnail cells keep what they  *)
(* were configured with: the page, and for the selected one a delete       *)
(* button with the position it had then.                                   *)
(*                                                                         *)
(* A page is a value that stands for its pixels: editing or signing a page *)
(* yields one that is not in use yet.  Positions count from 1.  UIKit is   *)
(* external: its collection view raises an exception, and the app dies,    *)
(* when an update disagrees with the data source.                          *)
(***************************************************************************)
EXTENDS Naturals, Sequences, Functions

CONSTANTS Pages,        \* page contents
          NoPage,       \* no page on display
          imageNumMax   \* pages a file may hold (10 in the code)

ASSUME PagesAssumption == NoPage \notin Pages
ASSUME MaxAssumption == imageNumMax \in Nat \ {0}

VARIABLES pictures,       \* selectedFile.pictures, persisted
          fileExists,     \* the file is in the database, persisted
          phase,          \* which screen the user is on
          images,         \* pages in memory
          selectedIndex,
          selectedImage,  \* the page on display
          signing,        \* a signature lies on the page (signatureImage # nil)
          cells,          \* thumbnails: the page a cell shows and the position
                          \* its button deletes at (0: the button is hidden)
          farDrop,        \* history: a drop has moved a page two or more places
          stray           \* history: UIKit has moved a delete button, or shown
                          \* a second one (see Drop and DeletePage)

store == <<pictures, fileExists>>
history == <<farDrop, stray>>
screen == <<images, selectedIndex, selectedImage, signing, cells, history>>
vars == <<store, phase, screen>>

Phases == {"home", "pages", "editing", "savingEdit", "adding", "savingAdd",
           "crashed"}
InEditor == phase \notin {"home", "crashed"}

\* Contents that nothing in the system holds: what the camera and the filters
\* produce next.
Fresh == Pages \ (Range(pictures) \cup Range(images) \cup {selectedImage})

-----------------------------------------------------------------------------
(* Swift arrays: remove(at:), insert(_:at:).                                 *)

RemovedAt(s, i) == [k \in 1..(Len(s) - 1) |-> IF k < i THEN s[k] ELSE s[k + 1]]

InsertedAt(s, i, e) ==
    [k \in 1..(Len(s) + 1) |->
        IF k < i THEN s[k] ELSE IF k = i THEN e ELSE s[k - 1]]

\* The drop takes the image out and puts it back in at the new position.
Moved(s, i, j) == InsertedAt(RemovedAt(s, i), j, s[i])

(* Mutants. *)
ExchangedNot(s, i, j) == s
RowReplacedFirst(s, i, p) == [s EXCEPT ![1] = p]

(* The stored rows: Realm's exchangeObject(at:withObjectAt:), removeObject   *)
(* and replaceObject.                                                        *)

Exchanged(s, i, j) == [s EXCEPT ![i] = s[j], ![j] = s[i]]

RowRemoved(s, i) == RemovedAt(s, i)

RowReplaced(s, i, p) == [s EXCEPT ![i] = p]

\* In the transaction that removes a row, a file left without rows is deleted.
fileKept(rows) == rows # <<>>

-----------------------------------------------------------------------------
(* The collection view of the thumbnails.                                    *)

numberOfItems(n) == IF imageNumMax <= n THEN n ELSE n + 1

\* The cell at a position past the pages is the one that adds a page.  The delete
\* button captures the position, and shows only if it is the selected one, sel.
cellForItemAt(ims, sel, i) ==
    [shows |-> IF i <= Len(ims) THEN ims[i] ELSE NoPage,
     deletes |-> IF i = sel THEN i ELSE 0]

AllCells(ims, sel) ==
    [i \in 1..numberOfItems(Len(ims)) |-> cellForItemAt(ims, sel, i)]

reloadItems(cs, ims, sel, S) ==
    [i \in DOMAIN cs |-> IF i \in S THEN cellForItemAt(ims, sel, i) ELSE cs[i]]

\* The screen is gone, and with it everything that was only in memory.
ScreenGone ==
    /\ images' = <<>> /\ cells' = <<>>
    /\ selectedIndex' = 1 /\ selectedImage' = NoPage
    /\ signing' = FALSE /\ farDrop' = FALSE /\ stray' = FALSE

Crash == phase' = "crashed" /\ ScreenGone

-----------------------------------------------------------------------------
\* A file is stored together with its first page.
Init ==
    /\ \E p \in Pages : pictures = <<p>>
    /\ fileExists = TRUE
    /\ phase = "home"
    /\ images = <<>> /\ cells = <<>>
    /\ selectedIndex = 1 /\ selectedImage = NoPage
    /\ signing = FALSE /\ farDrop = FALSE /\ stray = FALSE

\* The home screen opens the file: images are built from the stored rows.
OpenFile ==
    /\ ~InEditor /\ fileExists
    /\ phase' = "pages"
    /\ images' = pictures
    /\ selectedIndex' = 1
    /\ selectedImage' = pictures[1]
    /\ cells' = AllCells(pictures, 1)
    /\ UNCHANGED <<store, signing, history>>

\* A scan makes a new file once the last page of this one has been deleted.
NewFile ==
    /\ ~InEditor /\ ~fileExists
    /\ \E p \in Pages : pictures' = <<p>>
    /\ fileExists' = TRUE
    /\ UNCHANGED <<phase, screen>>

goBack ==
    /\ phase = "pages"
    /\ phase' = "home"
    /\ ScreenGone
    /\ UNCHANGED store

\* The process is killed; what the database holds survives.
Kill ==
    /\ InEditor
    /\ Crash
    /\ UNCHANGED store

\* A cell that scrolls back on screen is configured anew.
CellReappears(i) ==
    /\ phase = "pages"
    /\ i \in DOMAIN cells
    /\ cells' = reloadItems(cells, images, selectedIndex, {i})
    /\ UNCHANGED <<store, phase, images, selectedIndex, selectedImage, signing,
                   history>>

-----------------------------------------------------------------------------
(* Choosing a page, or the cell that adds one.  A signature not yet saved is *)
(* given up first, after a dialog.                                           *)

ReloadedNew(old, new) == {new}

\* changeSelectedIndex reloads the thumbnail that was selected and the new one.
Reloaded(old, new) == {old, new}

SelectPage(i) ==
    /\ phase = "pages"
    /\ i \in DOMAIN images
    /\ i # selectedIndex
    /\ signing' = FALSE
    /\ selectedImage' = images[i]
    /\ selectedIndex' = i
    /\ cells' = reloadItems(cells, images, i, Reloaded(selectedIndex, i))
    /\ UNCHANGED <<store, phase, images, history>>

SelectAdd ==
    /\ phase = "pages"
    /\ Len(images) < imageNumMax
    /\ phase' = "adding"
    /\ signing' = FALSE
    /\ UNCHANGED <<store, images, selectedIndex, selectedImage, cells, history>>

-----------------------------------------------------------------------------
(* Deleting, with the button of the cell that is now at position i, at the   *)
(* position it captured when the cell was configured.                        *)

DeletePage(i) ==
    LET at == cells[i].deletes
        rest == RemovedAt(images, at)
        previous == IF at = 1 THEN 1 ELSE at - 1
        agrees == numberOfItems(Len(images) - 1) = Len(cells) - 1
    IN
    /\ phase = "pages"
    /\ i \in DOMAIN images /\ at # 0
    /\ \/ \* images.remove(at:) is out of range, or deleteItems disagrees with
          \* numberOfItems: the app dies before the database is touched.
          /\ at > Len(images) \/ ~agrees
          /\ Crash
          /\ UNCHANGED store
       \/ /\ at <= Len(images) /\ agrees
          /\ pictures' = RowRemoved(pictures, at)
          /\ fileExists' = fileKept(pictures')
          /\ \/ /\ rest = <<>>
                /\ phase' = "home"
                /\ ScreenGone
             \/ /\ rest # <<>>
                /\ images' = rest
                /\ selectedIndex' = previous
                /\ selectedImage' = rest[previous]
                \* deleteItems may bring the next cell on screen, and configure
                \* it, while selectedIndex is still the old one.
                /\ \E early \in SUBSET {at} :
                      LET left == reloadItems(RemovedAt(cells, at), rest,
                                              selectedIndex, early)
                      IN
                      /\ cells' = reloadItems(left, rest, previous, {previous})
                      /\ stray' = (stray \/ early \ {previous} # {})
                /\ UNCHANGED <<phase, signing, farDrop>>

-----------------------------------------------------------------------------
(* Reordering by drag and drop.                                              *)

\* itemsForBeginning reads images at the dragged cell, also at the add cell.
DragAddCell ==
    /\ phase = "pages"
    /\ Len(cells) > Len(images)
    /\ Crash
    /\ UNCHANGED store

DroppedSelectionPast(sel, i, j) == j + 1

DroppedSelectionBefore(sel, i, j) == sel - 1

\* Where performDropWith puts the selection after a drop from i to j.
DroppedSelection(sel, i, j) ==
    CASE sel = i -> j
      [] sel # i /\ sel = j -> i
      [] i < sel /\ sel < j -> sel - 1
      [] i > sel /\ j < sel -> sel + 1
      [] OTHER -> sel

\* The images are moved, the stored rows exchanged.  Only the dropped cell is
\* configured anew; another one that is moved keeps the position it captured,
\* the selected one too.
Drop(i, j) ==
    LET moved == Moved(images, i, j)
        sel == DroppedSelection(selectedIndex, i, j)
    IN
    /\ phase = "pages"
    /\ i \in DOMAIN images /\ j \in DOMAIN images
    /\ images' = moved
    /\ pictures' = Exchanged(pictures, i, j)
    /\ selectedIndex' = sel
    /\ cells' = InsertedAt(RemovedAt(cells, i), j, cellForItemAt(moved, sel, j))
    /\ farDrop' = (farDrop \/ i > j + 1 \/ j > i + 1)
    /\ stray' = (stray \/ selectedIndex \notin {i, sel})
    /\ UNCHANGED <<fileExists, phase, selectedImage, signing>>

-----------------------------------------------------------------------------
(* A signature is laid over the page on display and then merged into it.     *)

addSignatureImage ==
    /\ phase = "pages" /\ ~signing
    /\ signing' = TRUE
    /\ UNCHANGED <<store, phase, images, selectedIndex, selectedImage, cells,
                   history>>

cleanSignature ==
    /\ phase = "pages" /\ signing
    /\ signing' = FALSE
    /\ UNCHANGED <<store, phase, images, selectedIndex, selectedImage, cells,
                   history>>

sureAddSignature ==
    /\ phase = "pages" /\ signing
    /\ \E p \in Fresh :
          /\ selectedImage' = p
          /\ images' = [images EXCEPT ![selectedIndex] = p]
          /\ pictures' = RowReplaced(pictures, selectedIndex, p)
    /\ cells' = reloadItems(cells, images', selectedIndex, {selectedIndex})
    /\ signing' = FALSE
    /\ UNCHANGED <<fileExists, phase, selectedIndex, history>>

-----------------------------------------------------------------------------
(* Editing the page on display, and adding one, both end in the filter       *)
(* screen, whose doneClick compresses in the background and then stores the  *)
(* page and tells the editor in one turn of the main queue.                  *)

Edit ==
    /\ phase = "pages"
    /\ phase' = "editing"
    /\ UNCHANGED <<store, screen>>

CancelEdit ==
    /\ phase = "editing"
    /\ phase' = "pages"
    /\ UNCHANGED <<store, screen>>

CancelAdd ==
    /\ phase = "adding"
    /\ phase' = "pages"
    /\ UNCHANGED <<store, screen>>

doneClick ==
    /\ \/ phase = "editing" /\ phase' = "savingEdit"
       \/ phase = "adding" /\ phase' = "savingAdd"
    /\ UNCHANGED <<store, screen>>

EditDoneNoReload ==
    /\ phase = "savingEdit"
    /\ \E p \in Fresh :
          /\ pictures' = RowReplaced(pictures, selectedIndex, p)
          /\ selectedImage' = p
          /\ images' = [images EXCEPT ![selectedIndex] = p]
    /\ phase' = "pages"
    /\ UNCHANGED <<fileExists, selectedIndex, cells, signing, history>>

\* editRowIndex is selectedIndex as it was when the edit began, and nothing
\* changes it while the editor is covered.
EditDone ==
    /\ phase = "savingEdit"
    /\ \E p \in Fresh :
          /\ pictures' = RowReplaced(pictures, selectedIndex, p)
          /\ selectedImage' = p
          /\ images' = [images EXCEPT ![selectedIndex] = p]
    /\ cells' = reloadItems(cells, images', selectedIndex, {selectedIndex})
    /\ phase' = "pages"
    /\ UNCHANGED <<fileExists, selectedIndex, signing, history>>

\* The add cell becomes the new page's; below the maximum a new one follows.
\* At the maximum the editor then scrolls to a cell that is not there, which
\* UIKit may answer with an exception.
AddDone ==
    /\ phase = "savingAdd"
    /\ \E p \in Fresh :
       LET n == Len(images) + 1
           ims == Append(images, p)
           added == IF n >= imageNumMax THEN cells
                    ELSE InsertedAt(cells, n, cellForItemAt(ims, n, n))
       IN
       /\ pictures' = Append(pictures, p)
       /\ \/ n >= imageNumMax /\ Crash
          \/ /\ images' = ims
             /\ selectedImage' = p
             /\ selectedIndex' = n
             /\ cells' = reloadItems(added, ims, n, {selectedIndex, n})
             /\ phase' = "pages"
             /\ UNCHANGED <<signing, history>>
    /\ UNCHANGED fileExists

-----------------------------------------------------------------------------
Next ==
    \/ OpenFile \/ NewFile \/ goBack \/ Kill
    \/ \E i \in 1..imageNumMax :
          CellReappears(i) \/ SelectPage(i) \/ DeletePage(i)
    \/ SelectAdd \/ CancelAdd
    \/ DragAddCell
    \/ \E i, j \in 1..imageNumMax : Drop(i, j)
    \/ addSignatureImage \/ cleanSignature \/ sureAddSignature
    \/ Edit \/ CancelEdit
    \/ doneClick \/ EditDone \/ AddDone

Spec == Init /\ [][Next]_vars

-----------------------------------------------------------------------------
(* Properties.                                                               *)

\* Every variable has its type; both copies are sequences of pages.
TypeOK ==
    /\ pictures \in Seq(Pages)
    /\ fileExists \in BOOLEAN
    /\ phase \in Phases
    /\ images \in Seq(Pages)
    /\ selectedIndex \in Nat \ {0}
    /\ selectedImage \in Pages \cup {NoPage}
    /\ signing \in BOOLEAN
    /\ cells \in Seq([shows : Pages \cup {NoPage}, deletes : Nat])
    /\ farDrop \in BOOLEAN /\ stray \in BOOLEAN

\* While the editor is open the screen and the database hold the same number of
\* pages, never more than imageNumMax, and the selection is one of them, through
\* every add, delete, drop and signature.  (Every index the editor passes to
\* Realm is in range because of this.)
SelectionStored ==
    InEditor => /\ Len(images) = Len(pictures)
                /\ Len(images) <= imageNumMax
                /\ selectedIndex \in DOMAIN images

\* As long as no drop moves a page by more than one place, the screen and the
\* database agree page by page, and the page on display is the selected one.
MirrorUnlessFarDrop ==
    InEditor /\ ~farDrop => /\ images = pictures
                            /\ selectedImage = images[selectedIndex]

\* The collection view has as many cells as the data source says, and each
\* cell shows the page at its place.
ThumbnailsMatch ==
    InEditor => /\ Len(cells) = numberOfItems(Len(images))
                /\ \A i \in DOMAIN images : cells[i].shows = images[i]

\* A stored page disappears only when it is the page on display (an edit or a
\* signature replaces it) or when the user deletes a page; in particular not
\* when the app dies.
StoredPagesKept ==
    [][\A p \in Range(pictures) \ Range(pictures') :
          farDrop \/ p = selectedImage
                  \/ /\ phase = "pages" /\ phase' # "crashed"
                     /\ Len(pictures') = Len(pictures) - 1]_vars

\* What "database data reorder" promises: the rows follow the images.
StoreMirrorsScreen == InEditor => pictures = images

\* deleteFileAtIndexPath, called with the position that a button captured when its
\* cell was configured, removes the page on display and no other, whatever has
\* been selected, added, dropped, signed or deleted since.  The exceptions: a drop
\* has moved the selected cell by dragging another one past it, a deletion has
\* brought a cell on screen too early, or a far drop has mixed up the rows.
DeletesPageOnDisplay ==
    [][~stray /\ ~farDrop /\ Len(pictures') < Len(pictures) =>
          /\ pictures[selectedIndex] = selectedImage
          /\ pictures' = RemovedAt(pictures, selectedIndex)]_vars

\* What "delete the selected file" promises: every delete button that shows is
\* aimed at the page its cell shows.
DeleteAimed == \A i \in DOMAIN images : cells[i].deletes \in {0, i}
=============================================================================

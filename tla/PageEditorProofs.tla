-------------------------- MODULE PageEditorProofs --------------------------
(* Proofs about PageEditor for every set of pages and every maximum.         *)
EXTENDS PageEditor, SequenceTheorems, TLAPS

-----------------------------------------------------------------------------
(* The array operations.                                                     *)

\* A function on 1..n with values in S is a sequence of length n.
LEMMA FunIsSeq ==
    ASSUME NEW S, NEW n \in Nat, NEW f \in [1..n -> S]
    PROVE  f \in Seq(S) /\ Len(f) = n /\ DOMAIN f = 1..n
  <1>1. f \in Seq(S)
    BY SeqDef
  <1>2. QED
    BY <1>1, LenProperties

\* remove(at:) yields a sequence that is one shorter.
LEMMA RemovedAtSeq ==
    ASSUME NEW S, NEW s \in Seq(S), NEW i \in 1..Len(s)
    PROVE  /\ RemovedAt(s, i) \in Seq(S)
           /\ Len(RemovedAt(s, i)) = Len(s) - 1
           /\ \A k \in 1..(Len(s) - 1) :
                 RemovedAt(s, i)[k] = IF k < i THEN s[k] ELSE s[k + 1]
  <1>1. Len(s) \in Nat /\ s \in [1..Len(s) -> S]
    BY LenProperties
  <1>2. Len(s) - 1 \in Nat
    BY <1>1
  <1>3. RemovedAt(s, i) \in [1..(Len(s) - 1) -> S]
    BY <1>1 DEF RemovedAt
  <1>4. QED
    BY <1>2, <1>3, FunIsSeq DEF RemovedAt

\* insert(_:at:) yields a sequence that is one longer.
LEMMA InsertedAtSeq ==
    ASSUME NEW S, NEW s \in Seq(S), NEW e \in S, NEW i \in 1..(Len(s) + 1)
    PROVE  /\ InsertedAt(s, i, e) \in Seq(S)
           /\ Len(InsertedAt(s, i, e)) = Len(s) + 1
           /\ \A k \in 1..(Len(s) + 1) :
                 InsertedAt(s, i, e)[k] =
                    IF k < i THEN s[k] ELSE IF k = i THEN e ELSE s[k - 1]
  <1>1. Len(s) \in Nat /\ s \in [1..Len(s) -> S]
    BY LenProperties
  <1>2. InsertedAt(s, i, e) \in [1..(Len(s) + 1) -> S]
    BY <1>1 DEF InsertedAt
  <1>3. QED
    BY <1>1, <1>2, FunIsSeq DEF InsertedAt

\* exchangeObject keeps the length and swaps two rows.
LEMMA ExchangedSeq ==
    ASSUME NEW S, NEW s \in Seq(S), NEW i \in 1..Len(s), NEW j \in 1..Len(s)
    PROVE  /\ Exchanged(s, i, j) \in Seq(S)
           /\ Len(Exchanged(s, i, j)) = Len(s)
           /\ \A k \in 1..Len(s) :
                 Exchanged(s, i, j)[k] =
                    IF k = j THEN s[i] ELSE IF k = i THEN s[j] ELSE s[k]
  <1>1. Len(s) \in Nat /\ s \in [1..Len(s) -> S] /\ DOMAIN s = 1..Len(s)
    BY LenProperties
  <1>2. Exchanged(s, i, j) \in [1..Len(s) -> S]
    BY <1>1 DEF Exchanged
  <1>3. QED
    BY <1>1, <1>2, FunIsSeq DEF Exchanged

\* Moving keeps the length.
LEMMA MovedSeq ==
    ASSUME NEW S, NEW s \in Seq(S), NEW i \in 1..Len(s), NEW j \in 1..Len(s)
    PROVE  Moved(s, i, j) \in Seq(S) /\ Len(Moved(s, i, j)) = Len(s)
  <1>1. Len(s) \in Nat /\ s[i] \in S
    BY LenProperties, ElementOfSeq
  <1>2. RemovedAt(s, i) \in Seq(S) /\ Len(RemovedAt(s, i)) = Len(s) - 1
    BY RemovedAtSeq
  <1>3. QED
    BY <1>1, <1>2, InsertedAtSeq DEF Moved

\* A move by at most one place is an exchange: the one case in which the drop
\* treats the images and the rows alike.
LEMMA NearMoveIsExchange ==
    ASSUME NEW S, NEW s \in Seq(S), NEW i \in 1..Len(s), NEW j \in 1..Len(s),
           ~(i > j + 1), ~(j > i + 1)
    PROVE  Moved(s, i, j) = Exchanged(s, i, j)
  <1> DEFINE r == RemovedAt(s, i)
  <1>1. Len(s) \in Nat /\ s[i] \in S
    BY LenProperties, ElementOfSeq
  <1>2. /\ r \in Seq(S) /\ Len(r) = Len(s) - 1
        /\ \A k \in 1..(Len(s) - 1) : r[k] = IF k < i THEN s[k] ELSE s[k + 1]
    BY RemovedAtSeq
  <1>3. \A k \in 1..Len(s) :
           Moved(s, i, j)[k] =
              IF k < j THEN r[k] ELSE IF k = j THEN s[i] ELSE r[k - 1]
    <2> HIDE DEF r
    <2>1. \A k \in 1..(Len(r) + 1) :
             InsertedAt(r, j, s[i])[k] =
                IF k < j THEN r[k] ELSE IF k = j THEN s[i] ELSE r[k - 1]
      BY DEF InsertedAt
    <2>2. Moved(s, i, j) = InsertedAt(r, j, s[i])
      BY DEF Moved, r
    <2>3. QED
      BY <1>1, <1>2, <2>1, <2>2
  <1>4. \A k \in 1..Len(s) : Moved(s, i, j)[k] = Exchanged(s, i, j)[k]
    <2> HIDE DEF r
    <2> SUFFICES ASSUME NEW k \in 1..Len(s)
                 PROVE  Moved(s, i, j)[k] = Exchanged(s, i, j)[k]
      OBVIOUS
    <2>1. Exchanged(s, i, j)[k] =
             IF k = j THEN s[i] ELSE IF k = i THEN s[j] ELSE s[k]
      BY ExchangedSeq
    <2>2. k < j => k \in 1..(Len(s) - 1)
      BY <1>1
    <2>3. k > j => k - 1 \in 1..(Len(s) - 1)
      BY <1>1
    <2>4. CASE k < j
      BY <1>1, <1>2, <1>3, <2>1, <2>2, <2>4
    <2>5. CASE k = j
      BY <1>3, <2>1, <2>5
    <2>6. CASE k > j
      BY <1>1, <1>2, <1>3, <2>1, <2>3, <2>6
    <2>7. QED
      BY <1>1, <2>4, <2>5, <2>6
  <1>5. QED
    BY <1>4, MovedSeq, ExchangedSeq, SeqEqual

-----------------------------------------------------------------------------
(* The inductive invariant.                                                  *)

Cell == [shows : Pages \cup {NoPage}, deletes : Nat]

\* The stored file never holds more than the maximum, and the screens that add
\* a page are open only while there is room for it.
RoomToAdd ==
    /\ Len(pictures) <= imageNumMax
    /\ phase \in {"adding", "savingAdd"} => Len(images) < imageNumMax

\* The file is in the database as long as it has pages.
FileHasPages == fileExists <=> pictures # <<>>

\* Until a button strays, the selected page's is the only delete button, and it
\* is aimed at that page.
ButtonAimed ==
    InEditor /\ ~stray =>
       \A k \in DOMAIN images :
          cells[k].deletes = IF k = selectedIndex THEN k ELSE 0

IInv == /\ TypeOK /\ SelectionStored /\ FileHasPages /\ MirrorUnlessFarDrop
        /\ ThumbnailsMatch /\ ButtonAimed /\ RoomToAdd

\* A configured cell is a cell, and shows the page at its place.
LEMMA CellType ==
    ASSUME NEW ims \in Seq(Pages), NEW sel, NEW i \in Nat \ {0}
    PROVE  /\ cellForItemAt(ims, sel, i) \in Cell
           /\ cellForItemAt(ims, sel, i).deletes = IF i = sel THEN i ELSE 0
           /\ i <= Len(ims) => cellForItemAt(ims, sel, i).shows = ims[i]
  <1>1. i <= Len(ims) => ims[i] \in Pages
    BY ElementOfSeq, LenProperties
  <1>2. QED
    BY <1>1 DEF cellForItemAt, Cell

\* Reloading keeps the number of cells.
LEMMA ReloadSeq ==
    ASSUME NEW cs \in Seq(Cell), NEW ims \in Seq(Pages), NEW sel, NEW S
    PROVE  /\ reloadItems(cs, ims, sel, S) \in Seq(Cell)
           /\ Len(reloadItems(cs, ims, sel, S)) = Len(cs)
           /\ \A k \in 1..Len(cs) :
                 reloadItems(cs, ims, sel, S)[k] =
                    IF k \in S THEN cellForItemAt(ims, sel, k) ELSE cs[k]
  <1>1. Len(cs) \in Nat /\ cs \in [1..Len(cs) -> Cell] /\ DOMAIN cs = 1..Len(cs)
    BY LenProperties
  <1>2. \A k \in 1..Len(cs) : cellForItemAt(ims, sel, k) \in Cell
    BY <1>1, CellType
  <1>3. reloadItems(cs, ims, sel, S) \in [1..Len(cs) -> Cell]
    BY <1>1, <1>2 DEF reloadItems
  <1>4. QED
    BY <1>1, <1>3, FunIsSeq DEF reloadItems

\* The number of cells covers the pages.
LEMMA ItemCount ==
    ASSUME NEW n \in Nat
    PROVE  numberOfItems(n) \in Nat /\ n <= numberOfItems(n)
  BY MaxAssumption DEF numberOfItems

\* If the cells that are not reloaded show the pages ims, then after the reload
\* all cells show ims.
LEMMA ReloadShows ==
    ASSUME NEW cs \in Seq(Cell), NEW ims \in Seq(Pages), NEW sel, NEW S,
           Len(ims) <= Len(cs),
           \A k \in 1..Len(ims) : k \notin S => cs[k].shows = ims[k]
    PROVE  \A k \in DOMAIN ims : reloadItems(cs, ims, sel, S)[k].shows = ims[k]
  <1>1. DOMAIN ims = 1..Len(ims) /\ Len(ims) \in Nat /\ Len(cs) \in Nat
    BY LenProperties
  <1>2. SUFFICES ASSUME NEW k \in 1..Len(ims)
                 PROVE  reloadItems(cs, ims, sel, S)[k].shows = ims[k]
    BY <1>1
  <1>3. reloadItems(cs, ims, sel, S)[k] =
           IF k \in S THEN cellForItemAt(ims, sel, k) ELSE cs[k]
    BY <1>1, ReloadSeq
  <1>4. cellForItemAt(ims, sel, k).shows = ims[k]
    BY <1>1, CellType
  <1>5. QED
    BY <1>3, <1>4

\* If the cells that are not reloaded have the buttons they should, then after the
\* reload all have: only the selected cell's shows, and it is well aimed.
LEMMA ReloadAims ==
    ASSUME NEW cs \in Seq(Cell), NEW ims \in Seq(Pages), NEW sel, NEW S,
           Len(ims) <= Len(cs),
           \A k \in 1..Len(ims) :
              k \notin S => cs[k].deletes = IF k = sel THEN k ELSE 0
    PROVE  \A k \in DOMAIN ims :
              reloadItems(cs, ims, sel, S)[k].deletes = IF k = sel THEN k ELSE 0
  <1>1. DOMAIN ims = 1..Len(ims) /\ Len(ims) \in Nat /\ Len(cs) \in Nat
    BY LenProperties
  <1>2. SUFFICES ASSUME NEW k \in 1..Len(ims)
                 PROVE  reloadItems(cs, ims, sel, S)[k].deletes =
                           IF k = sel THEN k ELSE 0
    BY <1>1
  <1>3. reloadItems(cs, ims, sel, S)[k] =
           IF k \in S THEN cellForItemAt(ims, sel, k) ELSE cs[k]
    BY <1>1, ReloadSeq
  <1>4. cellForItemAt(ims, sel, k).deletes = IF k = sel THEN k ELSE 0
    BY <1>1, CellType
  <1>5. QED
    BY <1>3, <1>4

\* The two facts for the reload of the selected cell alone.
LEMMA ReloadSelected ==
    ASSUME NEW cs \in Seq(Cell), NEW ims \in Seq(Pages), NEW sel,
           Len(ims) <= Len(cs)
    PROVE  /\ (\A k \in 1..Len(ims) : cs[k].shows = ims[k]) =>
                 \A k \in DOMAIN ims :
                    reloadItems(cs, ims, sel, {sel})[k].shows = ims[k]
           /\ (\A k \in 1..Len(ims) : k # sel => cs[k].deletes = 0) =>
                 \A k \in DOMAIN ims :
                    reloadItems(cs, ims, sel, {sel})[k].deletes =
                       IF k = sel THEN k ELSE 0
  <1>1. ASSUME \A k \in 1..Len(ims) : cs[k].shows = ims[k]
        PROVE  \A k \in DOMAIN ims :
                  reloadItems(cs, ims, sel, {sel})[k].shows = ims[k]
    BY <1>1, ReloadShows
  <1>2. ASSUME \A k \in 1..Len(ims) : k # sel => cs[k].deletes = 0
        PROVE  \A k \in DOMAIN ims :
                  reloadItems(cs, ims, sel, {sel})[k].deletes =
                     IF k = sel THEN k ELSE 0
    BY <1>2, ReloadAims
  <1>3. QED
    BY <1>1, <1>2

LEMMA InitIInv == Init => IInv
  <1> SUFFICES ASSUME Init PROVE IInv
    OBVIOUS
  <1>1. PICK p \in Pages : pictures = <<p>>
    BY DEF Init
  <1>2. pictures \in Seq(Pages) /\ Len(pictures) = 1 /\ pictures # <<>>
    BY <1>1
  <1>3. /\ images \in Seq(Pages) /\ cells \in Seq(Cell)
        /\ selectedIndex \in Nat \ {0}
    BY EmptySeq DEF Init
  <1>4. Len(pictures) <= imageNumMax
    BY <1>2, MaxAssumption
  <1>5. QED
    BY <1>2, <1>3, <1>4
       DEF Init, IInv, Cell, TypeOK, SelectionStored, FileHasPages, InEditor, Phases,
           MirrorUnlessFarDrop, ThumbnailsMatch, ButtonAimed, RoomToAdd

-----------------------------------------------------------------------------
(* The actions.                                                              *)

\* Once the screen is gone only the store matters.
LEMMA ScreenGoneIInv ==
    ASSUME ScreenGone, phase' \in {"home", "crashed"},
           pictures' \in Seq(Pages), fileExists' \in BOOLEAN, FileHasPages',
           Len(pictures') <= imageNumMax
    PROVE  IInv'
  <1>1. /\ images' \in Seq(Pages) /\ cells' \in Seq(Cell)
        /\ selectedIndex' \in Nat \ {0}
    BY EmptySeq DEF ScreenGone
  <1>2. TypeOK'
    BY <1>1 DEF TypeOK, ScreenGone, Phases, Cell
  <1>3. QED
    BY <1>2 DEF IInv, SelectionStored, InEditor, MirrorUnlessFarDrop,
                ThumbnailsMatch, ButtonAimed, RoomToAdd

\* Going to another screen, with or without giving up a signature.
LEMMA PhaseIInv ==
    ASSUME IInv, InEditor, InEditor', phase' \in Phases, signing' \in BOOLEAN,
           phase' \in {"adding", "savingAdd"} => Len(images) < imageNumMax,
           UNCHANGED <<store, images, selectedIndex, selectedImage, cells,
                       history>>
    PROVE  IInv'
  BY DEF IInv, TypeOK, SelectionStored, FileHasPages, MirrorUnlessFarDrop,
         ThumbnailsMatch, ButtonAimed, RoomToAdd, InEditor, store, history

LEMMA OpenFileIInv ==
    ASSUME IInv, OpenFile
    PROVE  IInv'
  <1>1. pictures \in Seq(Pages) /\ pictures # <<>> /\ Len(pictures) <= imageNumMax
    BY DEF IInv, TypeOK, FileHasPages, RoomToAdd, OpenFile
  <1>2. /\ Len(pictures) \in Nat \ {0} /\ DOMAIN pictures = 1..Len(pictures)
        /\ pictures[1] \in Pages
    BY <1>1, EmptySeq, LenProperties, ElementOfSeq
  <1> DEFINE n == numberOfItems(Len(pictures))
  <1>3. n \in Nat /\ Len(pictures) <= n
    BY <1>2, ItemCount
  <1>4. \A i \in 1..n : cellForItemAt(pictures, 1, i) \in Cell
    <2> HIDE DEF n
    <2> QED BY <1>1, <1>3, CellType
  <1>5. AllCells(pictures, 1) \in [1..n -> Cell]
    BY <1>4 DEF AllCells
  <1>6. AllCells(pictures, 1) \in Seq(Cell) /\ Len(AllCells(pictures, 1)) = n
    <2> HIDE DEF n
    <2> QED BY <1>3, <1>5, FunIsSeq
  <1>7. \A i \in DOMAIN pictures :
           /\ AllCells(pictures, 1)[i].shows = pictures[i]
           /\ AllCells(pictures, 1)[i].deletes = IF i = 1 THEN i ELSE 0
    <2> SUFFICES ASSUME NEW i \in 1..Len(pictures)
                 PROVE  /\ AllCells(pictures, 1)[i].shows = pictures[i]
                        /\ AllCells(pictures, 1)[i].deletes = IF i = 1 THEN i ELSE 0
      BY <1>2
    <2>1. AllCells(pictures, 1)[i] = cellForItemAt(pictures, 1, i)
      <3>1. i \in 1..n
        <4> HIDE DEF n
        <4> QED BY <1>2, <1>3
      <3>2. QED
        BY <3>1 DEF AllCells
    <2>2. QED
      BY <1>1, <1>2, <2>1, CellType
  <1>8. TypeOK'
    BY <1>1, <1>2, <1>6 DEF OpenFile, IInv, TypeOK, Phases, store, history, Cell
  <1>9. ThumbnailsMatch' /\ ButtonAimed'
    BY <1>6, <1>7 DEF OpenFile, ThumbnailsMatch, ButtonAimed
  <1>10. SelectionStored' /\ MirrorUnlessFarDrop' /\ FileHasPages' /\ RoomToAdd'
    BY <1>1, <1>2 DEF OpenFile, IInv, SelectionStored, MirrorUnlessFarDrop,
                      FileHasPages, RoomToAdd, store, history
  <1>11. QED
    BY <1>8, <1>9, <1>10 DEF IInv

LEMMA NewFileIInv ==
    ASSUME IInv, NewFile
    PROVE  IInv'
  <1>1. PICK p \in Pages : pictures' = <<p>>
    BY DEF NewFile
  <1>2. pictures' \in Seq(Pages) /\ Len(pictures') = 1 /\ pictures' # <<>>
    BY <1>1
  <1>3. TypeOK'
    BY <1>2 DEF NewFile, IInv, TypeOK, screen, history
  <1>4. ~InEditor' /\ phase' \notin {"adding", "savingAdd"}
    BY DEF NewFile, InEditor
  <1>5. QED
    BY <1>2, <1>3, <1>4, MaxAssumption
       DEF IInv, SelectionStored, MirrorUnlessFarDrop, FileHasPages, NewFile,
           RoomToAdd, ThumbnailsMatch, ButtonAimed

\* What the invariant says of an open editor, in the form the actions use.
LEMMA OpenFacts ==
    ASSUME IInv, InEditor
    PROVE  /\ images \in Seq(Pages) /\ pictures \in Seq(Pages)
           /\ cells \in Seq(Cell)
           /\ Len(images) \in Nat \ {0} /\ Len(cells) \in Nat
           /\ Len(pictures) = Len(images) /\ Len(images) <= imageNumMax
           /\ DOMAIN images = 1..Len(images) /\ DOMAIN cells = 1..Len(cells)
           /\ Len(cells) = numberOfItems(Len(images)) /\ Len(images) <= Len(cells)
           /\ selectedIndex \in 1..Len(images)
           /\ \A i \in 1..Len(images) : cells[i].shows = images[i]
  <1>1. /\ images \in Seq(Pages) /\ pictures \in Seq(Pages) /\ cells \in Seq(Cell)
    BY DEF IInv, TypeOK, Cell
  <1>2. /\ Len(images) \in Nat /\ Len(cells) \in Nat
        /\ DOMAIN images = 1..Len(images) /\ DOMAIN cells = 1..Len(cells)
    BY <1>1, LenProperties
  <1>3. /\ Len(pictures) = Len(images) /\ Len(images) <= imageNumMax
        /\ selectedIndex \in 1..Len(images)
    BY <1>2 DEF IInv, SelectionStored
  <1>4. /\ Len(cells) = numberOfItems(Len(images))
        /\ \A i \in 1..Len(images) : cells[i].shows = images[i]
    BY <1>2 DEF IInv, ThumbnailsMatch
  <1>5. Len(images) \in Nat \ {0} /\ Len(images) <= Len(cells)
    BY <1>2, <1>3, <1>4, ItemCount
  <1>6. QED
    BY <1>1, <1>2, <1>3, <1>4, <1>5

\* And of its delete buttons.
LEMMA OpenButtons ==
    ASSUME IInv, InEditor, ~stray
    PROVE  \A k \in 1..Len(images) :
              cells[k].deletes = IF k = selectedIndex THEN k ELSE 0
  BY OpenFacts DEF IInv, ButtonAimed

LEMMA SelectPageIInv ==
    ASSUME IInv, NEW i \in 1..imageNumMax, SelectPage(i)
    PROVE  IInv'
  <1>1. InEditor /\ InEditor'
    BY DEF SelectPage, InEditor
  <1>2. images[i] \in Pages /\ i \in 1..Len(images) /\ i \in Nat \ {0}
    BY <1>1, OpenFacts, ElementOfSeq DEF SelectPage
  <1>3. cells' \in Seq(Cell) /\ Len(cells') = Len(cells)
    BY <1>1, OpenFacts, ReloadSeq DEF SelectPage
  <1>4. \A k \in DOMAIN images : cells'[k].shows = images[k]
    BY <1>1, OpenFacts, ReloadShows DEF SelectPage
  <1>5. TypeOK'
    BY <1>2, <1>3 DEF SelectPage, IInv, TypeOK, Cell, store, history
  <1>6. SelectionStored' /\ MirrorUnlessFarDrop' /\ FileHasPages' /\ RoomToAdd'
    BY <1>1, <1>2 DEF SelectPage, IInv, SelectionStored, MirrorUnlessFarDrop,
                      FileHasPages, RoomToAdd, store, history
  <1>7. ThumbnailsMatch'
    BY <1>1, <1>3, <1>4 DEF SelectPage, IInv, ThumbnailsMatch
  <1>8. ButtonAimed'
    <2>1. CASE stray
      BY <2>1 DEF SelectPage, ButtonAimed, history
    <2>2. CASE ~stray
      <3>1. \A k \in 1..Len(images) :
               k \notin Reloaded(selectedIndex, i) =>
                  cells[k].deletes = IF k = i THEN k ELSE 0
        BY <1>1, <2>2, OpenButtons DEF Reloaded
      <3>2. \A k \in DOMAIN images :
               reloadItems(cells, images, i, Reloaded(selectedIndex, i))[k].deletes
                  = IF k = i THEN k ELSE 0
        <4>1. /\ cells \in Seq(Cell) /\ images \in Seq(Pages)
              /\ Len(images) <= Len(cells)
          BY <1>1, OpenFacts
        <4>2. QED
          BY <3>1, <4>1, ReloadAims
      <3>3. QED
        BY <3>2 DEF SelectPage, ButtonAimed
    <2>3. QED
      BY <2>1, <2>2
  <1>9. QED
    BY <1>5, <1>6, <1>7, <1>8 DEF IInv

LEMMA CellReappearsIInv ==
    ASSUME IInv, NEW i \in 1..imageNumMax, CellReappears(i)
    PROVE  IInv'
  <1>1. InEditor /\ InEditor'
    BY DEF CellReappears, InEditor
  <1>2. cells' \in Seq(Cell) /\ Len(cells') = Len(cells)
    BY <1>1, OpenFacts, ReloadSeq DEF CellReappears
  <1>3. \A k \in DOMAIN images : cells'[k].shows = images[k]
    BY <1>1, OpenFacts, ReloadShows DEF CellReappears
  <1>4. TypeOK'
    BY <1>2 DEF CellReappears, IInv, TypeOK, Cell, store, history
  <1>5. SelectionStored' /\ MirrorUnlessFarDrop' /\ FileHasPages' /\ RoomToAdd'
    BY <1>1 DEF CellReappears, IInv, SelectionStored, MirrorUnlessFarDrop,
                FileHasPages, RoomToAdd, store, history
  <1>6. ThumbnailsMatch'
    BY <1>1, <1>2, <1>3 DEF CellReappears, IInv, ThumbnailsMatch
  <1>7. ButtonAimed'
    <2>1. CASE stray
      BY <2>1 DEF CellReappears, ButtonAimed, history
    <2>2. CASE ~stray
      <3>1. \A k \in DOMAIN images :
               reloadItems(cells, images, selectedIndex, {i})[k].deletes
                  = IF k = selectedIndex THEN k ELSE 0
        <4>1. /\ cells \in Seq(Cell) /\ images \in Seq(Pages)
              /\ Len(images) <= Len(cells)
          BY <1>1, OpenFacts
        <4>2. \A k \in 1..Len(images) :
                 cells[k].deletes = IF k = selectedIndex THEN k ELSE 0
          BY <1>1, <2>2, OpenButtons
        <4>3. QED
          BY <4>1, <4>2, ReloadAims
      <3>2. QED
        BY <3>1 DEF CellReappears, ButtonAimed
    <2>3. QED
      BY <2>1, <2>2
  <1>8. QED
    BY <1>4, <1>5, <1>6, <1>7 DEF IInv

\* Editing and signing replace the selected page by p on the screen and in the
\* store.
LEMMA ReplaceIInv ==
    ASSUME IInv, InEditor, NEW p \in Pages, signing' \in BOOLEAN, phase' = "pages",
           selectedImage' = p,
           images' = [images EXCEPT ![selectedIndex] = p],
           pictures' = RowReplaced(pictures, selectedIndex, p),
           cells' = reloadItems(cells, images', selectedIndex, {selectedIndex}),
           UNCHANGED <<fileExists, selectedIndex, history>>
    PROVE  IInv'
  <1>1. /\ images' \in Seq(Pages) /\ Len(images') = Len(images)
        /\ \A k \in 1..Len(images) :
              images'[k] = IF k = selectedIndex THEN p ELSE images[k]
    BY OpenFacts, ExceptSeq
  <1>2. pictures' \in Seq(Pages) /\ Len(pictures') = Len(pictures)
    <2>1. selectedIndex \in 1..Len(pictures)
      BY OpenFacts
    <2>2. QED
      BY OpenFacts, <2>1, ExceptSeq DEF RowReplaced
  <1>3. cells' \in Seq(Cell) /\ Len(cells') = Len(cells)
    <2>1. cells \in Seq(Cell)
      BY OpenFacts
    <2>2. ASSUME NEW ims \in Seq(Pages)
          PROVE  /\ reloadItems(cells, ims, selectedIndex, {selectedIndex})
                       \in Seq(Cell)
                 /\ Len(reloadItems(cells, ims, selectedIndex, {selectedIndex}))
                       = Len(cells)
      BY <2>1, ReloadSeq
    <2>3. QED
      BY <1>1, <2>2
  <1>4. \A k \in DOMAIN images' : cells'[k].shows = images'[k]
    <2>1. Len(images') <= Len(cells)
      BY OpenFacts, <1>1
    <2>2. \A k \in 1..Len(images') :
             k \notin {selectedIndex} => cells[k].shows = images'[k]
      BY OpenFacts, <1>1
    <2>3. QED
      <3>1. cells \in Seq(Cell)
        BY OpenFacts
      <3>2. ASSUME NEW ims \in Seq(Pages), Len(ims) <= Len(cells),
                   \A k \in 1..Len(ims) :
                      k \notin {selectedIndex} => cells[k].shows = ims[k]
            PROVE  \A k \in DOMAIN ims :
                      reloadItems(cells, ims, selectedIndex,
                                  {selectedIndex})[k].shows = ims[k]
        BY <3>1, <3>2, ReloadShows
      <3>3. QED
        BY <1>1, <2>1, <2>2, <3>2
  <1>5. Len(images) \in Nat \ {0} /\ DOMAIN images' = 1..Len(images)
    BY OpenFacts, <1>1, LenProperties
  <1>6. TypeOK'
    BY <1>1, <1>2, <1>3 DEF IInv, TypeOK, Cell, Phases, history
  <1>7. SelectionStored' /\ FileHasPages' /\ RoomToAdd'
    <2>1. pictures # <<>> /\ pictures' # <<>>
      BY OpenFacts, <1>2, EmptySeq
    <2>2. QED
      BY OpenFacts, <1>1, <1>2, <1>5, <2>1
         DEF IInv, SelectionStored, FileHasPages, RoomToAdd
  <1>8. MirrorUnlessFarDrop'
    BY OpenFacts, <1>1 DEF IInv, MirrorUnlessFarDrop, RowReplaced, history
  <1>9. ThumbnailsMatch'
    BY <1>1, <1>3, <1>4 DEF IInv, ThumbnailsMatch
  <1>10. ButtonAimed'
    <2>1. CASE stray
      BY <2>1 DEF ButtonAimed, history
    <2>2. CASE ~stray
      <3>1. \A k \in 1..Len(images) :
               reloadItems(cells, images', selectedIndex, {selectedIndex})[k].deletes
                  = IF k = selectedIndex THEN k ELSE 0
        <4>1. cells \in Seq(Cell) /\ Len(images) <= Len(cells)
          BY OpenFacts
        <4>2. \A k \in 1..Len(images) :
                 cells[k].deletes = IF k = selectedIndex THEN k ELSE 0
          BY <2>2, OpenButtons
        <4>3. ASSUME NEW ims \in Seq(Pages), Len(ims) = Len(images)
              PROVE  \A k \in DOMAIN ims :
                        reloadItems(cells, ims, selectedIndex,
                                    {selectedIndex})[k].deletes
                           = IF k = selectedIndex THEN k ELSE 0
          BY <4>1, <4>2, <4>3, ReloadAims
        <4>4. QED
          BY <1>1, <1>5, <4>3
      <3>2. QED
        BY <1>5, <3>1 DEF ButtonAimed
    <2>3. QED
      BY <2>1, <2>2
  <1>11. QED
    BY <1>6, <1>7, <1>8, <1>9, <1>10 DEF IInv

LEMMA sureAddSignatureIInv ==
    ASSUME IInv, sureAddSignature
    PROVE  IInv'
  <1>1. PICK p \in Fresh :
           /\ selectedImage' = p
           /\ images' = [images EXCEPT ![selectedIndex] = p]
           /\ pictures' = RowReplaced(pictures, selectedIndex, p)
    BY DEF sureAddSignature
  <1>2. p \in Pages
    BY DEF Fresh
  <1>3. QED
    BY <1>1, <1>2, ReplaceIInv DEF sureAddSignature, InEditor

LEMMA EditDoneIInv ==
    ASSUME IInv, EditDone
    PROVE  IInv'
  <1>1. PICK p \in Fresh :
           /\ pictures' = RowReplaced(pictures, selectedIndex, p)
           /\ selectedImage' = p
           /\ images' = [images EXCEPT ![selectedIndex] = p]
    BY DEF EditDone
  <1>2. p \in Pages
    BY DEF Fresh
  <1>3. signing' \in BOOLEAN
    BY DEF EditDone, IInv, TypeOK
  <1>4. QED
    BY <1>1, <1>2, <1>3, ReplaceIInv DEF EditDone, InEditor

LEMMA DropIInv ==
    ASSUME IInv, NEW i \in 1..imageNumMax, NEW j \in 1..imageNumMax, Drop(i, j)
    PROVE  IInv'
  <1> DEFINE moved == Moved(images, i, j)
             gone == RemovedAt(cells, i)
             sel == DroppedSelection(selectedIndex, i, j)
             cell == cellForItemAt(moved, sel, j)
  <1>1. InEditor /\ InEditor' /\ phase' = "pages"
    BY DEF Drop, InEditor
  <1>2. i \in 1..Len(images) /\ j \in 1..Len(images) /\ j \in Nat \ {0}
    BY <1>1, OpenFacts DEF Drop
  <1>3. moved \in Seq(Pages) /\ Len(moved) = Len(images)
    BY <1>1, <1>2, OpenFacts, MovedSeq
  <1>4. /\ pictures' \in Seq(Pages) /\ Len(pictures') = Len(pictures)
    <2>1. i \in 1..Len(pictures) /\ j \in 1..Len(pictures)
      BY <1>1, <1>2, OpenFacts
    <2>2. QED
      BY <1>1, <2>1, OpenFacts, ExchangedSeq DEF Drop
  <1>5. selectedIndex' \in 1..Len(images)
    <2>1. Len(images) \in Nat /\ selectedIndex \in 1..Len(images)
      BY <1>1, OpenFacts
    <2>2. selectedIndex' = DroppedSelection(selectedIndex, i, j)
      BY DEF Drop
    <2>3. QED
      BY <1>2, <2>1, <2>2 DEF DroppedSelection
  <1>6. /\ cell \in Cell /\ cell.shows = moved[j]
        /\ cell.deletes = IF j = sel THEN j ELSE 0
    <2> HIDE DEF moved, sel
    <2> QED BY <1>1, <1>2, <1>3, OpenFacts, CellType
  <1>7. i \in 1..Len(cells) /\ j \in 1..Len(cells)
    BY <1>1, <1>2, OpenFacts
  <1>8. /\ gone \in Seq(Cell) /\ Len(gone) = Len(cells) - 1
        /\ \A k \in 1..(Len(cells) - 1) :
              gone[k] = IF k < i THEN cells[k] ELSE cells[k + 1]
    BY <1>1, <1>7, OpenFacts, RemovedAtSeq
  <1>9. /\ cells' \in Seq(Cell) /\ Len(cells') = Len(cells)
        /\ \A k \in 1..Len(cells) :
              cells'[k] = IF k < j THEN gone[k]
                          ELSE IF k = j THEN cell ELSE gone[k - 1]
    <2> HIDE DEF gone, cell, moved
    <2>1. j \in 1..(Len(gone) + 1) /\ Len(gone) + 1 = Len(cells)
      BY <1>1, <1>7, <1>8, OpenFacts
    <2>2. cells' = InsertedAt(gone, j, cell)
      BY DEF Drop, gone, cell, moved, sel
    <2>3. QED
      BY <1>6, <1>8, <2>1, <2>2, SMTT(20), InsertedAtSeq
  <1>10. \A k \in DOMAIN images' : cells'[k].shows = images'[k]
    <2>1. images' = moved /\ DOMAIN moved = 1..Len(images)
      BY <1>3, LenProperties DEF Drop
    <2> SUFFICES ASSUME NEW k \in 1..Len(images)
                 PROVE  cells'[k].shows = moved[k]
      BY <2>1
    <2> DEFINE r == RemovedAt(images, i)
    <2>2. /\ r \in Seq(Pages) /\ Len(r) = Len(images) - 1
          /\ \A m \in 1..(Len(images) - 1) :
                r[m] = IF m < i THEN images[m] ELSE images[m + 1]
      BY <1>1, <1>2, OpenFacts, RemovedAtSeq
    <2>3. moved[k] = IF k < j THEN r[k] ELSE IF k = j THEN images[i] ELSE r[k - 1]
      <3>1. k \in 1..(Len(r) + 1)
        <4> HIDE DEF r
        <4> QED BY <1>1, <2>2, OpenFacts
      <3>2. QED
        BY <3>1 DEF Moved, InsertedAt
    <2> HIDE DEF r, moved, gone, cell
    <2>4. Len(images) \in Nat /\ Len(cells) \in Nat /\ Len(images) <= Len(cells)
      BY <1>1, OpenFacts
    <2>5. \A m \in 1..Len(images) : cells[m].shows = images[m]
      BY <1>1, OpenFacts
    <2>6. \A m \in 1..(Len(images) - 1) : gone[m].shows = r[m]
      <3> SUFFICES ASSUME NEW m \in 1..(Len(images) - 1)
                   PROVE  gone[m].shows = r[m]
        OBVIOUS
      <3>1. /\ m \in 1..(Len(cells) - 1) /\ m \in 1..Len(images)
            /\ m + 1 \in 1..Len(images)
        BY <2>4
      <3>2. gone[m] = (IF m < i THEN cells[m] ELSE cells[m + 1])
        BY <1>8, <3>1
      <3>3. r[m] = (IF m < i THEN images[m] ELSE images[m + 1])
        BY <2>2
      <3>4. QED
        BY <2>5, <3>1, <3>2, <3>3
    <2>7. cells'[k] = IF k < j THEN gone[k]
                      ELSE IF k = j THEN cell ELSE gone[k - 1]
      BY <1>9, <2>4
    <2>8. CASE k < j
      BY <1>2, <2>3, <2>4, <2>6, <2>7, <2>8
    <2>9. CASE k = j
      BY <1>6, <2>7, <2>9
    <2>10. CASE k > j
      BY <1>2, <2>3, <2>4, <2>6, <2>7, <2>10
    <2>11. QED
      BY <1>2, <2>4, <2>8, <2>9, <2>10
  <1>11. MirrorUnlessFarDrop'
    <2> SUFFICES ASSUME ~farDrop'
                 PROVE  /\ images' = pictures'
                        /\ selectedImage' = images'[selectedIndex']
      BY DEF MirrorUnlessFarDrop
    <2>1. ~farDrop /\ ~(i > j + 1) /\ ~(j > i + 1)
      BY DEF Drop, IInv, TypeOK
    <2>2. images = pictures /\ selectedImage = images[selectedIndex]
      BY <1>1, <2>1 DEF IInv, MirrorUnlessFarDrop
    <2>3. images' = Exchanged(images, i, j)
      BY <1>1, <1>2, <2>1, OpenFacts, NearMoveIsExchange DEF Drop
    <2>4. images' = pictures'
      BY <2>2, <2>3 DEF Drop
    <2>5. \A k \in 1..Len(images) :
             images'[k] = IF k = j THEN images[i]
                          ELSE IF k = i THEN images[j] ELSE images[k]
      <3>1. DOMAIN images = 1..Len(images)
        BY <1>1, OpenFacts
      <3>2. \A k \in 1..Len(images) :
               Exchanged(images, i, j)[k] = IF k = j THEN images[i]
                                ELSE IF k = i THEN images[j] ELSE images[k]
        BY <1>2, <3>1 DEF Exchanged
      <3>3. QED
        BY <2>3, <3>2
    <2>6. images'[selectedIndex'] = images[selectedIndex]
      BY <1>1, <1>2, <1>5, <2>1, <2>5, OpenFacts DEF Drop, DroppedSelection
    <2>7. QED
      BY <2>2, <2>4, <2>6 DEF Drop
  <1>12. TypeOK'
    <2>1. selectedIndex' \in Nat \ {0}
      BY <1>1, <1>5, OpenFacts
    <2>2. farDrop' \in BOOLEAN /\ stray' \in BOOLEAN
      BY DEF Drop
    <2>3. images' \in Seq(Pages)
      BY <1>3 DEF Drop
    <2>4. QED
      BY <1>4, <1>9, <2>1, <2>2, <2>3 DEF Drop, IInv, TypeOK, Cell
  <1>13. SelectionStored' /\ FileHasPages' /\ RoomToAdd'
    <2>1. Len(images') = Len(images) /\ DOMAIN images' = 1..Len(images)
      BY <1>3, LenProperties DEF Drop
    <2>2. pictures # <<>> /\ pictures' # <<>>
      BY <1>1, <1>4, OpenFacts, EmptySeq
    <2>3. QED
      BY <1>1, <1>4, <1>5, <2>1, <2>2, OpenFacts
         DEF Drop, IInv, SelectionStored, FileHasPages, RoomToAdd
  <1>14. ThumbnailsMatch'
    <2>1. Len(images') = Len(images)
      BY <1>3 DEF Drop
    <2>2. QED
      BY <1>1, <1>9, <1>10, <2>1, OpenFacts DEF ThumbnailsMatch
  <1>15. ButtonAimed'
    <2> SUFFICES ASSUME ~stray', NEW k \in 1..Len(images)
                 PROVE  cells'[k].deletes = IF k = sel THEN k ELSE 0
      <3>1. DOMAIN images' = 1..Len(images) /\ selectedIndex' = sel
        BY <1>3, LenProperties DEF Drop
      <3>2. QED
        BY <3>1 DEF ButtonAimed
    <2>1. ~stray /\ selectedIndex \in {i, sel}
      BY DEF Drop, IInv, TypeOK
    <2>2. /\ Len(images) \in Nat /\ Len(cells) \in Nat /\ Len(images) <= Len(cells)
          /\ selectedIndex \in 1..Len(images)
      BY <1>1, OpenFacts
    <2>3. \A m \in 1..Len(images) :
             cells[m].deletes = IF m = selectedIndex THEN m ELSE 0
      BY <1>1, <2>1, OpenButtons
    <2>4. /\ selectedIndex = i => sel = j
          /\ selectedIndex # i => /\ sel = selectedIndex
                                  /\ (sel < i /\ sel < j) \/ (sel > i /\ sel > j)
      BY <1>2, <2>1, <2>2 DEF DroppedSelection
    <2> HIDE DEF gone, cell, moved, sel
    <2>5. \A m \in 1..(Len(images) - 1) :
             gone[m] = IF m < i THEN cells[m] ELSE cells[m + 1]
      BY <1>8, <2>2
    <2>6. cells'[k] = IF k < j THEN gone[k]
                      ELSE IF k = j THEN cell ELSE gone[k - 1]
      BY <1>9, <2>2
    <2>7. CASE k = j
      BY <1>6, <2>6, <2>7
    <2>8. CASE k < j
      <3>1. cells'[k] = IF k < i THEN cells[k] ELSE cells[k + 1]
        BY <1>2, <2>2, <2>5, <2>6, <2>8
      <3>2. k \in 1..Len(images) /\ k + 1 \in 1..Len(images)
        BY <1>2, <2>2, <2>8
      <3>3. QED
        BY <1>2, <2>1, <2>2, <2>3, <2>4, <2>8, <3>1, <3>2
    <2>9. CASE k > j
      <3>1. cells'[k] = IF k - 1 < i THEN cells[k - 1] ELSE cells[k]
        <4>1. k - 1 \in 1..(Len(images) - 1) /\ (k - 1) + 1 = k
          BY <1>2, <2>2, <2>9
        <4>2. QED
          BY <1>2, <2>5, <2>6, <2>9, <4>1
      <3>2. k \in 1..Len(images) /\ k - 1 \in 1..Len(images)
        BY <1>2, <2>2, <2>9
      <3>3. QED
        BY <1>2, <2>1, <2>2, <2>3, <2>4, <2>9, <3>1, <3>2
    <2>10. QED
      BY <1>2, <2>7, <2>8, <2>9
  <1>16. QED
    BY <1>11, <1>12, <1>13, <1>14, <1>15 DEF IInv

\* Deleting at position at, once the collection view has accepted it, and with
\* pages left.
LEMMA DeleteIInv ==
    ASSUME IInv, phase = "pages", NEW at \in 1..Len(images),
           numberOfItems(Len(images) - 1) = Len(cells) - 1,
           NEW previous \in Nat, previous = IF at = 1 THEN 1 ELSE at - 1,
           pictures' = RowRemoved(pictures, at),
           fileExists' = (pictures' # <<>>),
           RemovedAt(images, at) # <<>>,
           images' = RemovedAt(images, at),
           selectedIndex' = previous,
           selectedImage' = RemovedAt(images, at)[previous],
           NEW early \in SUBSET {at},
           cells' = reloadItems(
                       reloadItems(RemovedAt(cells, at), RemovedAt(images, at),
                                   selectedIndex, early),
                       RemovedAt(images, at), previous, {previous}),
           stray' = (stray \/ early \ {previous} # {}),
           ~stray => at = selectedIndex,
           UNCHANGED <<phase, signing, farDrop>>
    PROVE  IInv'
  <1> DEFINE rest == RemovedAt(images, at)
             gone == RemovedAt(cells, at)
             left == reloadItems(gone, rest, selectedIndex, early)
  <1>1. InEditor /\ InEditor'
    BY DEF InEditor
  <1>2. /\ rest \in Seq(Pages) /\ Len(rest) = Len(images) - 1
        /\ \A k \in 1..(Len(images) - 1) :
              rest[k] = IF k < at THEN images[k] ELSE images[k + 1]
    BY <1>1, OpenFacts, RemovedAtSeq
  <1>3. /\ at \in 1..Len(cells) /\ at \in 1..Len(pictures)
    BY <1>1, OpenFacts
  <1>4. /\ gone \in Seq(Cell) /\ Len(gone) = Len(cells) - 1
        /\ \A k \in 1..(Len(cells) - 1) :
              gone[k] = IF k < at THEN cells[k] ELSE cells[k + 1]
    BY <1>1, <1>3, OpenFacts, RemovedAtSeq
  <1>5. pictures' \in Seq(Pages) /\ Len(pictures') = Len(pictures) - 1
    BY <1>1, <1>3, OpenFacts, RemovedAtSeq DEF RowRemoved
  <1>6. /\ rest = images' /\ rest # <<>>
        /\ cells' = reloadItems(left, rest, previous, {previous})
    OBVIOUS
  <1>7. /\ MirrorUnlessFarDrop'
    BY <1>1 DEF IInv, MirrorUnlessFarDrop, RowRemoved
  <1> HIDE DEF rest, gone
  <1>7a. /\ left \in Seq(Cell) /\ Len(left) = Len(cells) - 1
         /\ \A k \in 1..(Len(cells) - 1) :
               left[k] = IF k \in early THEN cellForItemAt(rest, selectedIndex, k)
                         ELSE gone[k]
    BY <1>2, <1>4, ReloadSeq
  <1> HIDE DEF left
  <1>8. /\ Len(rest) \in Nat \ {0} /\ DOMAIN rest = 1..Len(rest)
    BY <1>2, <1>6, EmptySeq, LenProperties
  <1>9. previous \in 1..Len(rest) /\ previous \in Nat \ {0}
    BY <1>1, <1>2, <1>8, OpenFacts
  <1>10. rest[previous] \in Pages
    BY <1>2, <1>9, ElementOfSeq
  <1>11. Len(cells) \in Nat /\ Len(images) \in Nat /\ Len(images) <= Len(cells)
    BY <1>1, OpenFacts
  <1>12. /\ cells' \in Seq(Cell) /\ Len(cells') = Len(cells) - 1
    BY <1>2, <1>6, <1>7a, ReloadSeq
  <1>13. \A k \in DOMAIN images' : cells'[k].shows = images'[k]
    <2>1. \A k \in 1..Len(rest) : gone[k].shows = rest[k]
      <3> SUFFICES ASSUME NEW k \in 1..Len(rest)
                   PROVE  gone[k].shows = rest[k]
        OBVIOUS
      <3>1. /\ k \in 1..(Len(cells) - 1) /\ k \in 1..(Len(images) - 1)
            /\ k \in 1..Len(images) /\ k + 1 \in 1..Len(images)
        BY <1>2, <1>11
      <3>2. gone[k] = (IF k < at THEN cells[k] ELSE cells[k + 1])
        BY <1>4, <3>1
      <3>3. rest[k] = (IF k < at THEN images[k] ELSE images[k + 1])
        BY <1>2, <3>1
      <3>4. cells[k].shows = images[k] /\ cells[k + 1].shows = images[k + 1]
        BY <1>1, <3>1, OpenFacts
      <3>5. QED
        BY <3>2, <3>3, <3>4
    <2>2. Len(rest) <= Len(gone) /\ Len(rest) <= Len(left)
      BY <1>2, <1>4, <1>11, <1>7a
    <2>3. \A k \in DOMAIN rest : left[k].shows = rest[k]
      BY <1>2, <1>4, <2>1, <2>2, ReloadShows DEF left
    <2>4. \A k \in DOMAIN rest :
             reloadItems(left, rest, previous, {previous})[k].shows = rest[k]
      <3>1. \A k \in 1..Len(rest) : left[k].shows = rest[k]
        BY <1>8, <2>3
      <3>2. /\ left \in Seq(Cell) /\ rest \in Seq(Pages)
            /\ Len(rest) <= Len(left)
        BY <1>2, <1>7a, <2>2
      <3>3. QED
        BY <3>1, <3>2, ReloadSelected
    <2>5. QED
      BY <1>6, <2>4
  <1>14. TypeOK'
    <2>1. selectedImage' = rest[previous]
      BY DEF rest
    <2>2. QED
      BY <1>2, <1>5, <1>6, <1>9, <1>10, <1>12, <2>1 DEF IInv, TypeOK, Cell
  <1>15. SelectionStored' /\ FileHasPages' /\ RoomToAdd'
    <2>1. Len(pictures) = Len(images) /\ Len(images) <= imageNumMax
      BY <1>1, OpenFacts
    <2>2. FileHasPages'
      BY DEF FileHasPages
    <2>3. Len(images') = Len(images) - 1 /\ DOMAIN images' = 1..Len(images')
      BY <1>2, <1>6, <1>8
    <2>4. Len(images') <= imageNumMax /\ Len(pictures') <= imageNumMax
      BY <1>5, <1>11, <2>1, <2>3, MaxAssumption
    <2>5. selectedIndex' \in DOMAIN images'
      BY <1>6, <1>8, <1>9
    <2>6. QED
      BY <1>5, <2>1, <2>2, <2>3, <2>4, <2>5 DEF SelectionStored, RoomToAdd
  <1>16. ThumbnailsMatch'
    BY <1>2, <1>6, <1>12, <1>13 DEF ThumbnailsMatch
  <1>17. ButtonAimed'
    <2> SUFFICES ASSUME ~stray'
                 PROVE  \A k \in DOMAIN rest :
                           cells'[k].deletes = IF k = previous THEN k ELSE 0
      BY <1>6 DEF ButtonAimed
    <2>1. ~stray /\ at = selectedIndex /\ early \subseteq {previous}
      BY DEF IInv, TypeOK
    <2>2. \A k \in 1..Len(rest) : k # previous => left[k].deletes = 0
      <3> SUFFICES ASSUME NEW k \in 1..Len(rest), k # previous
                   PROVE  left[k].deletes = 0
        OBVIOUS
      <3>1. /\ k \in 1..(Len(cells) - 1) /\ k \notin early
            /\ k \in 1..Len(images) /\ k + 1 \in 1..Len(images)
        BY <1>2, <1>11, <2>1
      <3>2. left[k] = gone[k]
        BY <1>7a, <3>1
      <3>3. gone[k] = IF k < at THEN cells[k] ELSE cells[k + 1]
        BY <1>4, <3>1
      <3>4. \A m \in 1..Len(images) :
               cells[m].deletes = IF m = selectedIndex THEN m ELSE 0
        BY <1>1, <2>1, OpenButtons
      <3>5. QED
        BY <2>1, <3>1, <3>2, <3>3, <3>4
    <2>3. Len(rest) <= Len(left)
      BY <1>2, <1>11, <1>7a
    <2>4. \A k \in DOMAIN rest :
             reloadItems(left, rest, previous, {previous})[k].deletes
                = IF k = previous THEN k ELSE 0
      <3>1. left \in Seq(Cell) /\ rest \in Seq(Pages)
        BY <1>2, <1>7a
      <3>2. QED
        BY <2>2, <2>3, <3>1, ReloadSelected
    <2>5. QED
      BY <1>6, <2>4
  <1>18. QED
    BY <1>7, <1>14, <1>15, <1>16, <1>17 DEF IInv

\* The button that was pressed is aimed at the selected page, or has strayed.
LEMMA PressedButton ==
    ASSUME IInv, NEW i \in 1..imageNumMax, DeletePage(i)
    PROVE  /\ InEditor /\ phase = "pages"
           /\ cells[i].deletes \in Nat \ {0}
           /\ ~stray => cells[i].deletes = selectedIndex
  <1>1. InEditor /\ phase = "pages" /\ cells[i].deletes # 0 /\ i \in DOMAIN images
    BY DEF DeletePage, InEditor
  <1>2. cells[i] \in Cell
    BY <1>1, OpenFacts, ElementOfSeq
  <1>3. ~stray => cells[i].deletes = IF i = selectedIndex THEN i ELSE 0
    BY <1>1, OpenFacts, OpenButtons
  <1>4. QED
    BY <1>1, <1>2, <1>3 DEF Cell

LEMMA DeletePageIInv ==
    ASSUME IInv, NEW i \in 1..imageNumMax, DeletePage(i)
    PROVE  IInv'
  <1> DEFINE at == cells[i].deletes
             rest == RemovedAt(images, at)
             previous == IF at = 1 THEN 1 ELSE at - 1
             agrees == numberOfItems(Len(images) - 1) = Len(cells) - 1
  <1>1. InEditor /\ phase = "pages"
    BY PressedButton
  <1>2. at \in Nat \ {0} /\ (~stray => at = selectedIndex)
    BY PressedButton
  <1>3. CASE Crash /\ UNCHANGED store
    BY <1>3, ScreenGoneIInv
       DEF Crash, store, IInv, TypeOK, FileHasPages, RoomToAdd
  <1>4. CASE /\ at <= Len(images) /\ agrees
             /\ pictures' = RowRemoved(pictures, at)
             /\ fileExists' = (pictures' # <<>>)
             /\ rest = <<>> /\ phase' = "home" /\ ScreenGone
    <2>1. at \in 1..Len(pictures)
      BY <1>1, <1>2, <1>4, OpenFacts
    <2>2. pictures' \in Seq(Pages) /\ Len(pictures') = Len(pictures) - 1
      BY <1>1, <1>4, <2>1, OpenFacts, RemovedAtSeq DEF RowRemoved
    <2>3. Len(pictures') <= imageNumMax
      BY <1>1, <2>2, OpenFacts, MaxAssumption
    <2>4. fileExists' \in BOOLEAN /\ FileHasPages'
      BY <1>4 DEF FileHasPages
    <2>5. QED
      BY <1>4, <2>2, <2>3, <2>4, ScreenGoneIInv
  <1>5. CASE /\ at <= Len(images) /\ agrees
             /\ pictures' = RowRemoved(pictures, at)
             /\ fileExists' = (pictures' # <<>>)
             /\ rest # <<>>
             /\ images' = rest
             /\ selectedIndex' = previous
             /\ selectedImage' = rest[previous]
             /\ \E early \in SUBSET {at} :
                   /\ cells' = reloadItems(reloadItems(RemovedAt(cells, at), rest,
                                                       selectedIndex, early),
                                           rest, previous, {previous})
                   /\ stray' = (stray \/ early \ {previous} # {})
             /\ UNCHANGED <<phase, signing, farDrop>>
    <2>1. at \in 1..Len(images)
      BY <1>1, <1>2, <1>5, OpenFacts
    <2>2. previous \in Nat
      BY <1>2
    <2>3. PICK early \in SUBSET {at} :
             /\ cells' = reloadItems(reloadItems(RemovedAt(cells, at), rest,
                                                 selectedIndex, early),
                                     rest, previous, {previous})
             /\ stray' = (stray \/ early \ {previous} # {})
      BY <1>5
    <2> HIDE DEF at
    <2>4. QED
      BY <1>1, <1>2, <1>5, <2>1, <2>2, <2>3, DeleteIInv
  <1>6. QED
    BY <1>3, <1>4, <1>5 DEF DeletePage, fileKept

LEMMA AddDoneIInv ==
    ASSUME IInv, AddDone
    PROVE  IInv'
  <1> DEFINE n == Len(images) + 1
  <1>1. InEditor /\ phase = "savingAdd"
    BY DEF AddDone, InEditor
  <1>2. PICK p \in Fresh :
           /\ pictures' = Append(pictures, p)
           /\ \/ n >= imageNumMax /\ Crash
              \/ /\ images' = Append(images, p)
                 /\ selectedImage' = p
                 /\ selectedIndex' = n
                 /\ cells' = reloadItems(
                       IF n >= imageNumMax THEN cells
                       ELSE InsertedAt(cells, n, cellForItemAt(Append(images, p), n, n)),
                       Append(images, p), n, {selectedIndex, n})
                 /\ phase' = "pages"
                 /\ UNCHANGED <<signing, history>>
    BY DEF AddDone
  <1>3. p \in Pages /\ fileExists' = fileExists
    BY DEF Fresh, AddDone
  <1>4. Len(images) < imageNumMax
    BY <1>1 DEF IInv, RoomToAdd
  <1>5. /\ pictures' \in Seq(Pages) /\ Len(pictures') = Len(images) + 1
        /\ Len(pictures') <= imageNumMax /\ pictures' # <<>>
    BY <1>1, <1>2, <1>3, <1>4, OpenFacts, AppendProperties, MaxAssumption
  <1>6. FileHasPages' /\ fileExists' \in BOOLEAN
    <2>1. pictures # <<>>
      BY <1>1, OpenFacts, EmptySeq
    <2>2. QED
      BY <1>3, <1>5, <2>1 DEF IInv, FileHasPages, TypeOK
  <1>7. CASE Crash
    BY <1>5, <1>6, <1>7, ScreenGoneIInv DEF Crash
  <1>8. CASE ~Crash
    <2> DEFINE ims == Append(images, p)
               added == IF n >= imageNumMax THEN cells
                        ELSE InsertedAt(cells, n, cellForItemAt(ims, n, n))
    <2>1. /\ images' = ims /\ selectedImage' = p /\ selectedIndex' = n
          /\ cells' = reloadItems(added, ims, n, {selectedIndex, n})
          /\ phase' = "pages" /\ UNCHANGED <<signing, history>>
      BY <1>2, <1>8
    <2>2. /\ ims \in Seq(Pages) /\ Len(ims) = n /\ DOMAIN ims = 1..n
          /\ \A k \in 1..Len(images) : ims[k] = images[k]
          /\ ims[n] = p
      BY <1>1, <1>3, OpenFacts, AppendProperties, LenProperties
    <2>3. n \in Nat \ {0} /\ n <= imageNumMax /\ Len(cells) = n
      <3>1. Len(images) \in Nat \ {0} /\ Len(cells) = numberOfItems(Len(images))
        BY <1>1, OpenFacts
      <3>2. ~(imageNumMax <= Len(images))
        BY <1>4, <3>1, MaxAssumption
      <3>3. QED
        BY <1>4, <3>1, <3>2, MaxAssumption DEF numberOfItems
    <2> HIDE DEF ims
    <2>4. cellForItemAt(ims, n, n) \in Cell
      BY <2>2, <2>3, CellType
    <2>5. /\ added \in Seq(Cell) /\ Len(added) = numberOfItems(n)
          /\ \A k \in 1..Len(images) : added[k] = cells[k]
      <3>1. CASE n >= imageNumMax
        BY <1>1, <2>3, <3>1, OpenFacts, MaxAssumption DEF numberOfItems
      <3>2. CASE ~(n >= imageNumMax)
        <4>1. n \in 1..(Len(cells) + 1)
          BY <2>3
        <4>2. cells \in Seq(Cell) /\ Len(images) \in Nat
          BY <1>1, OpenFacts
        <4>3. /\ added \in Seq(Cell) /\ Len(added) = Len(cells) + 1
              /\ \A k \in 1..(Len(cells) + 1) :
                    added[k] = IF k < n THEN cells[k]
                               ELSE IF k = n THEN cellForItemAt(ims, n, n)
                               ELSE cells[k - 1]
          <5> DEFINE c == cellForItemAt(ims, n, n)
          <5>1. added = InsertedAt(cells, n, c) /\ c \in Cell
            BY <2>4, <3>2
          <5> HIDE DEF added, n, c
          <5>2. /\ InsertedAt(cells, n, c) \in Seq(Cell)
                /\ Len(InsertedAt(cells, n, c)) = Len(cells) + 1
                /\ \A k \in 1..(Len(cells) + 1) :
                      InsertedAt(cells, n, c)[k] =
                         IF k < n THEN cells[k] ELSE IF k = n THEN c ELSE cells[k - 1]
            <6>1. Len(cells) \in Nat /\ cells \in [1..Len(cells) -> Cell]
              BY <4>2, LenProperties
            <6>2. InsertedAt(cells, n, c) \in [1..(Len(cells) + 1) -> Cell]
              BY <4>1, <5>1, <6>1 DEF InsertedAt
            <6>3. Len(cells) + 1 \in Nat
              BY <6>1
            <6>4. QED
              BY <6>2, <6>3, FunIsSeq DEF InsertedAt
          <5>3. QED
            BY <5>1, <5>2 DEF c
        <4> HIDE DEF added
        <4>4. Len(added) = numberOfItems(n)
          BY <2>3, <3>2, <4>3, MaxAssumption DEF numberOfItems
        <4>5. \A k \in 1..Len(images) : added[k] = cells[k]
          <5> SUFFICES ASSUME NEW k \in 1..Len(images) PROVE added[k] = cells[k]
            OBVIOUS
          <5>1. k \in 1..(Len(cells) + 1) /\ k < n
            BY <2>3, <4>2
          <5>2. QED
            BY <4>3, <5>1
        <4>6. QED
          BY <4>3, <4>4, <4>5
      <3>3. QED
        BY <3>1, <3>2
    <2> HIDE DEF added
    <2>6. n <= Len(added)
      BY <2>3, <2>5, ItemCount
    <2>7. \A k \in 1..Len(ims) :
             k \notin {selectedIndex, n} => added[k].shows = ims[k]
      <3> SUFFICES ASSUME NEW k \in 1..Len(ims), k \notin {selectedIndex, n}
                   PROVE  added[k].shows = ims[k]
        OBVIOUS
      <3>1. k \in 1..Len(images)
        <4>1. k \in 1..n /\ k # n /\ Len(images) \in Nat
          BY <1>1, <2>2, OpenFacts
        <4>2. QED
          BY <4>1
      <3>2. added[k] = cells[k] /\ ims[k] = images[k]
        BY <2>2, <2>5, <3>1
      <3>3. cells[k].shows = images[k]
        BY <1>1, <3>1, OpenFacts
      <3>4. QED
        BY <3>2, <3>3
    <2>8. cells' \in Seq(Cell) /\ Len(cells') = numberOfItems(n)
      BY <2>1, <2>2, <2>5, ReloadSeq
    <2>9. \A k \in DOMAIN ims : cells'[k].shows = ims[k]
      BY <2>1, <2>2, <2>5, <2>6, <2>7, ReloadShows
    <2>10. TypeOK'
      BY <1>3, <1>5, <1>6, <2>1, <2>2, <2>3, <2>8 DEF IInv, TypeOK, Cell, Phases, history
    <2>11. SelectionStored' /\ RoomToAdd'
      BY <1>5, <2>1, <2>2, <2>3 DEF SelectionStored, RoomToAdd
    <2>12. MirrorUnlessFarDrop'
      BY <1>1, <1>2, <2>1, <2>2 DEF IInv, MirrorUnlessFarDrop, ims, history
    <2>13. ThumbnailsMatch'
      BY <2>1, <2>2, <2>8, <2>9 DEF ThumbnailsMatch
    <2>14. ButtonAimed'
      <3>1. CASE stray
        BY <2>1, <3>1 DEF ButtonAimed, history
      <3>2. CASE ~stray
        <4>1. \A k \in 1..Len(ims) :
                 k \notin {selectedIndex, n} =>
                    added[k].deletes = IF k = n THEN k ELSE 0
          <5> SUFFICES ASSUME NEW k \in 1..Len(ims), k \notin {selectedIndex, n}
                       PROVE  added[k].deletes = 0
            OBVIOUS
          <5>1. k \in 1..Len(images)
            <6>1. k \in 1..n /\ k # n /\ Len(images) \in Nat
              BY <1>1, <2>2, OpenFacts
            <6>2. QED
              BY <6>1
          <5>2. added[k] = cells[k] /\ cells[k].deletes = 0
            BY <1>1, <2>5, <3>2, <5>1, OpenButtons
          <5>3. QED
            BY <5>2
        <4>2. \A k \in DOMAIN ims : cells'[k].deletes = IF k = n THEN k ELSE 0
          BY <2>1, <2>2, <2>5, <2>6, <4>1, ReloadAims
        <4>3. QED
          BY <2>1, <4>2 DEF ButtonAimed
      <3>3. QED
        BY <3>1, <3>2
    <2>15. QED
      BY <1>6, <2>10, <2>11, <2>12, <2>13, <2>14 DEF IInv
  <1>9. QED
    BY <1>7, <1>8

LEMMA NextIInv == IInv /\ [Next]_vars => IInv'
  <1> SUFFICES ASSUME IInv, [Next]_vars PROVE IInv'
    OBVIOUS
  <1>1. CASE OpenFile
    BY <1>1, OpenFileIInv
  <1>2. CASE NewFile
    BY <1>2, NewFileIInv
  <1>3. CASE goBack \/ Kill \/ DragAddCell
    <2>1. /\ pictures \in Seq(Pages) /\ fileExists \in BOOLEAN /\ FileHasPages
          /\ Len(pictures) <= imageNumMax
      BY DEF IInv, TypeOK, RoomToAdd
    <2>2. UNCHANGED <<pictures, fileExists>>
      BY <1>3 DEF goBack, Kill, DragAddCell, store
    <2>3. ScreenGone /\ phase' \in {"home", "crashed"}
      BY <1>3 DEF goBack, Kill, DragAddCell, Crash
    <2>4. FileHasPages'
      BY <2>1, <2>2 DEF FileHasPages
    <2>5. QED
      BY <2>1, <2>2, <2>3, <2>4, ScreenGoneIInv
  <1>4. ASSUME NEW i \in 1..imageNumMax, CellReappears(i)
        PROVE  IInv'
    BY <1>4, CellReappearsIInv
  <1>5. ASSUME NEW i \in 1..imageNumMax, SelectPage(i)
        PROVE  IInv'
    BY <1>5, SelectPageIInv
  <1>6. ASSUME NEW i \in 1..imageNumMax, DeletePage(i)
        PROVE  IInv'
    BY <1>6, DeletePageIInv
  <1>7. CASE SelectAdd \/ CancelAdd \/ Edit \/ CancelEdit \/ doneClick
    <2>1. /\ InEditor /\ InEditor' /\ phase' \in Phases
      BY <1>7 DEF SelectAdd, CancelAdd, Edit, CancelEdit, doneClick, InEditor,
                  Phases
    <2>2. signing' \in BOOLEAN
      BY <1>7 DEF SelectAdd, CancelAdd, Edit, CancelEdit, doneClick, IInv,
                  TypeOK, screen
    <2>3. phase' \in {"adding", "savingAdd"} => Len(images) < imageNumMax
      BY <1>7 DEF SelectAdd, CancelAdd, Edit, CancelEdit, doneClick, IInv,
                  RoomToAdd
    <2>4. UNCHANGED <<store, images, selectedIndex, selectedImage, cells, history>>
      BY <1>7 DEF SelectAdd, CancelAdd, Edit, CancelEdit, doneClick, screen
    <2>5. QED
      BY <2>1, <2>2, <2>3, <2>4, PhaseIInv
  <1>8. CASE addSignatureImage \/ cleanSignature
    <2>1. /\ InEditor /\ InEditor' /\ phase' \in Phases /\ signing' \in BOOLEAN
          /\ phase' \notin {"adding", "savingAdd"}
          /\ UNCHANGED <<store, images, selectedIndex, selectedImage, cells,
                         history>>
      BY <1>8 DEF addSignatureImage, cleanSignature, InEditor, Phases
    <2>2. QED
      BY <2>1, PhaseIInv
  <1>9. ASSUME NEW i \in 1..imageNumMax, NEW j \in 1..imageNumMax, Drop(i, j)
        PROVE  IInv'
    BY <1>9, DropIInv
  <1>10. CASE sureAddSignature
    BY <1>10, sureAddSignatureIInv
  <1>11. CASE EditDone
    BY <1>11, EditDoneIInv
  <1>12. CASE AddDone
    BY <1>12, AddDoneIInv
  <1>13. CASE UNCHANGED vars
    BY <1>13 DEF vars, store, screen, history, IInv, TypeOK, SelectionStored,
                 InEditor, FileHasPages, MirrorUnlessFarDrop, ThumbnailsMatch,
                 ButtonAimed, RoomToAdd
  <1>14. QED
    BY <1>1, <1>2, <1>3, <1>4, <1>5, <1>6, <1>7, <1>8, <1>9, <1>10, <1>11,
       <1>12, <1>13 DEF Next

LEMMA SpecIInv == Spec => []IInv
  BY InitIInv, NextIInv, PTL DEF Spec

-----------------------------------------------------------------------------
(* What a step does to the stored pages.                                     *)

\* What StoredPagesKept says of one step.
KeptStep ==
    \A p \in Range(pictures) \ Range(pictures') :
       farDrop \/ p = selectedImage
               \/ /\ phase = "pages" /\ phase' # "crashed"
                  /\ Len(pictures') = Len(pictures) - 1

\* An exchange keeps every row somewhere.
LEMMA ExchangedRange ==
    ASSUME NEW S, NEW s \in Seq(S), NEW i \in 1..Len(s), NEW j \in 1..Len(s)
    PROVE  Range(s) \subseteq Range(Exchanged(s, i, j))
  <1> DEFINE e == Exchanged(s, i, j)
  <1>1. DOMAIN s = 1..Len(s) /\ e \in Seq(S) /\ Len(e) = Len(s)
    BY ExchangedSeq, LenProperties
  <1>2. DOMAIN e = 1..Len(s)
    BY <1>1, LenProperties
  <1>3. \A k \in 1..Len(s) : \E l \in 1..Len(s) : e[l] = s[k]
    <2> SUFFICES ASSUME NEW k \in 1..Len(s)
                 PROVE  \E l \in 1..Len(s) : e[l] = s[k]
      OBVIOUS
    <2>1. \A l \in 1..Len(s) :
             e[l] = IF l = j THEN s[i] ELSE IF l = i THEN s[j] ELSE s[l]
      BY ExchangedSeq
    <2> HIDE DEF e
    <2>2. CASE k = i
      BY <2>1, <2>2
    <2>3. CASE k # i /\ k = j
      BY <2>1, <2>3
    <2>4. CASE k # i /\ k # j
      BY <2>1, <2>4
    <2>5. QED
      BY <2>2, <2>3, <2>4
  <1> HIDE DEF e
  <1>4. QED
    BY <1>1, <1>2, <1>3 DEF Range, e

\* Replacing a row loses the page of that row at most.
LEMMA ReplacedRange ==
    ASSUME NEW S, NEW s \in Seq(S), NEW i \in 1..Len(s), NEW p \in S
    PROVE  \A q \in Range(s) : q \in Range(RowReplaced(s, i, p)) \/ q = s[i]
  BY LenProperties DEF Range, RowReplaced

\* The row that an edit or a signature replaces holds the page on display,
\* unless a far drop has come before.
LEMMA ReplaceKept ==
    ASSUME IInv, InEditor, NEW p \in Pages,
           pictures' = RowReplaced(pictures, selectedIndex, p)
    PROVE  KeptStep
  <1>1. selectedIndex \in 1..Len(pictures) /\ pictures \in Seq(Pages)
    BY OpenFacts
  <1>2. \A q \in Range(pictures) :
           q \in Range(RowReplaced(pictures, selectedIndex, p))
              \/ q = pictures[selectedIndex]
    BY <1>1, ReplacedRange
  <1>3. farDrop \/ pictures[selectedIndex] = selectedImage
    BY DEF IInv, MirrorUnlessFarDrop
  <1>4. QED
    BY <1>2, <1>3 DEF KeptStep

LEMMA DeletePageKept ==
    ASSUME IInv, NEW i \in 1..imageNumMax, DeletePage(i)
    PROVE  KeptStep
  <1> DEFINE at == cells[i].deletes
  <1>1. InEditor /\ phase = "pages"
    BY PressedButton
  <1>2. at \in Nat \ {0}
    BY PressedButton
  <1>3. CASE pictures' = pictures
    BY <1>3 DEF KeptStep
  <1>4. CASE /\ at <= Len(images) /\ pictures' = RowRemoved(pictures, at)
             /\ phase' \in {"home", phase}
    <2>1. at \in 1..Len(pictures) /\ pictures \in Seq(Pages)
      BY <1>1, <1>2, <1>4, OpenFacts
    <2>2. Len(pictures') = Len(pictures) - 1
      BY <1>4, <2>1, RemovedAtSeq DEF RowRemoved
    <2>3. QED
      BY <1>1, <1>4, <2>2 DEF KeptStep
  <1>5. QED
    BY <1>3, <1>4 DEF DeletePage, store

LEMMA AddDoneKept ==
    ASSUME IInv, AddDone
    PROVE  KeptStep
  <1>1. InEditor
    BY DEF AddDone, InEditor
  <1>2. PICK p \in Fresh : pictures' = Append(pictures, p)
    BY DEF AddDone
  <1>3. p \in Pages /\ pictures \in Seq(Pages)
    BY <1>1, OpenFacts DEF Fresh
  <1>4. Range(pictures) \subseteq Range(pictures')
    BY <1>2, <1>3, AppendProperties, LenProperties DEF Range
  <1>5. QED
    BY <1>4 DEF KeptStep

LEMMA NextKept == IInv /\ [Next]_vars => [KeptStep]_vars
  <1> SUFFICES ASSUME IInv, Next PROVE KeptStep
    OBVIOUS
  <1>1. CASE OpenFile \/ goBack \/ Kill \/ SelectAdd \/ CancelAdd \/ DragAddCell
                \/ Edit \/ CancelEdit \/ doneClick
                \/ addSignatureImage \/ cleanSignature
    <2>1. pictures' = pictures
      BY <1>1 DEF OpenFile, goBack, Kill, SelectAdd, CancelAdd, DragAddCell,
                  Edit, CancelEdit, doneClick, addSignatureImage,
                  cleanSignature, store
    <2>2. QED
      BY <2>1 DEF KeptStep
  <1>2. CASE NewFile
    <2>1. pictures = <<>>
      BY <1>2 DEF NewFile, IInv, FileHasPages
    <2>2. Range(pictures) = {}
      BY <2>1 DEF Range
    <2>3. QED
      BY <2>2 DEF KeptStep
  <1>3. ASSUME NEW i \in 1..imageNumMax, CellReappears(i) \/ SelectPage(i)
        PROVE  KeptStep
    BY <1>3 DEF CellReappears, SelectPage, store, KeptStep
  <1>4. ASSUME NEW i \in 1..imageNumMax, DeletePage(i)
        PROVE  KeptStep
    BY <1>4, DeletePageKept
  <1>5. ASSUME NEW i \in 1..imageNumMax, NEW j \in 1..imageNumMax, Drop(i, j)
        PROVE  KeptStep
    <2>1. InEditor
      BY <1>5 DEF Drop, InEditor
    <2>2. i \in 1..Len(pictures) /\ j \in 1..Len(pictures) /\ pictures \in Seq(Pages)
      BY <1>5, <2>1, OpenFacts DEF Drop
    <2>3. Range(pictures) \subseteq Range(pictures')
      BY <1>5, <2>2, ExchangedRange DEF Drop
    <2>4. QED
      BY <2>3 DEF KeptStep
  <1>6. CASE sureAddSignature
    <2>1. InEditor
      BY <1>6 DEF sureAddSignature, InEditor
    <2>2. PICK p \in Fresh : pictures' = RowReplaced(pictures, selectedIndex, p)
      BY <1>6 DEF sureAddSignature
    <2>3. QED
      BY <2>1, <2>2, ReplaceKept DEF Fresh
  <1>7. CASE EditDone
    <2>1. InEditor
      BY <1>7 DEF EditDone, InEditor
    <2>2. PICK p \in Fresh : pictures' = RowReplaced(pictures, selectedIndex, p)
      BY <1>7 DEF EditDone
    <2>3. QED
      BY <2>1, <2>2, ReplaceKept DEF Fresh
  <1>8. CASE AddDone
    BY <1>8, AddDoneKept
  <1>9. QED
    BY <1>1, <1>2, <1>3, <1>4, <1>5, <1>6, <1>7, <1>8 DEF Next

-----------------------------------------------------------------------------
(* What a deletion removes.                                                  *)

\* What DeletesPageOnDisplay says of one step.
DisplayStep ==
    ~stray /\ ~farDrop /\ Len(pictures') < Len(pictures) =>
       /\ pictures[selectedIndex] = selectedImage
       /\ pictures' = RemovedAt(pictures, selectedIndex)

LEMMA DeletePageDisplay ==
    ASSUME IInv, NEW i \in 1..imageNumMax, DeletePage(i)
    PROVE  DisplayStep
  <1> SUFFICES ASSUME ~stray, ~farDrop, Len(pictures') < Len(pictures)
               PROVE  /\ pictures[selectedIndex] = selectedImage
                      /\ pictures' = RemovedAt(pictures, selectedIndex)
    BY DEF DisplayStep
  <1>1. InEditor /\ cells[i].deletes = selectedIndex
    BY PressedButton
  <1>2. pictures[selectedIndex] = selectedImage
    BY <1>1 DEF IInv, MirrorUnlessFarDrop
  <1>3. pictures \in Seq(Pages) /\ Len(pictures) \in Nat
    BY <1>1, OpenFacts
  <1>4. CASE pictures' = pictures
    BY <1>3, <1>4
  <1>5. CASE pictures' = RowRemoved(pictures, cells[i].deletes)
    BY <1>1, <1>2, <1>5 DEF RowRemoved
  <1>6. QED
    BY <1>4, <1>5 DEF DeletePage, store

\* A step that keeps or lengthens the rows.
LEMMA LongerDisplay ==
    ASSUME Len(pictures) \in Nat, Len(pictures') \in Nat,
           Len(pictures') >= Len(pictures)
    PROVE  DisplayStep
  BY DEF DisplayStep

LEMMA NextDisplay == IInv /\ [Next]_vars => [DisplayStep]_vars
  <1> SUFFICES ASSUME IInv, Next PROVE DisplayStep
    OBVIOUS
  <1>1. pictures \in Seq(Pages) /\ Len(pictures) \in Nat
    BY LenProperties DEF IInv, TypeOK
  <1>2. CASE OpenFile \/ goBack \/ Kill \/ SelectAdd \/ CancelAdd \/ DragAddCell
                \/ Edit \/ CancelEdit \/ doneClick
                \/ addSignatureImage \/ cleanSignature
    <2>1. pictures' = pictures
      BY <1>2 DEF OpenFile, goBack, Kill, SelectAdd, CancelAdd, DragAddCell,
                  Edit, CancelEdit, doneClick, addSignatureImage,
                  cleanSignature, store
    <2>2. QED
      BY <1>1, <2>1, LongerDisplay
  <1>3. CASE NewFile
    <2>1. PICK p \in Pages : pictures' = <<p>>
      BY <1>3 DEF NewFile
    <2>2. Len(pictures) = 0 /\ Len(pictures') = 1
      BY <1>3, <2>1 DEF NewFile, IInv, FileHasPages
    <2>3. QED
      BY <2>2, LongerDisplay
  <1>4. ASSUME NEW i \in 1..imageNumMax, CellReappears(i) \/ SelectPage(i)
        PROVE  DisplayStep
    BY <1>1, <1>4, LongerDisplay DEF CellReappears, SelectPage, store
  <1>5. ASSUME NEW i \in 1..imageNumMax, DeletePage(i)
        PROVE  DisplayStep
    BY <1>5, DeletePageDisplay
  <1>6. ASSUME NEW i \in 1..imageNumMax, NEW j \in 1..imageNumMax, Drop(i, j)
        PROVE  DisplayStep
    <2>1. i \in 1..Len(pictures) /\ j \in 1..Len(pictures)
      BY <1>6, OpenFacts DEF Drop, InEditor
    <2>2. Len(pictures') = Len(pictures)
      BY <1>1, <1>6, <2>1, ExchangedSeq DEF Drop
    <2>3. QED
      BY <1>1, <2>2, LongerDisplay
  <1>7. CASE sureAddSignature \/ EditDone
    <2>1. selectedIndex \in 1..Len(pictures)
      BY <1>7, OpenFacts DEF sureAddSignature, EditDone, InEditor
    <2>2. PICK p \in Pages : pictures' = RowReplaced(pictures, selectedIndex, p)
      BY <1>7 DEF sureAddSignature, EditDone, Fresh
    <2>3. Len(pictures') = Len(pictures)
      BY <1>1, <2>1, <2>2, ExceptSeq DEF RowReplaced
    <2>4. QED
      BY <1>1, <2>3, LongerDisplay
  <1>8. CASE AddDone
    <2>1. PICK p \in Pages : pictures' = Append(pictures, p)
      BY <1>8 DEF AddDone, Fresh
    <2>2. Len(pictures') = Len(pictures) + 1
      BY <1>1, <2>1, AppendProperties
    <2>3. QED
      BY <1>1, <2>2, LongerDisplay
  <1>9. QED
    BY <1>2, <1>3, <1>4, <1>5, <1>6, <1>7, <1>8 DEF Next

-----------------------------------------------------------------------------
(* The theorems.                                                             *)

\* Type correctness of the page editor.
THEOREM TypeCorrect == Spec => []TypeOK
  <1>1. IInv => TypeOK
    BY DEF IInv
  <1>2. QED
    BY <1>1, SpecIInv, PTL

\* The screen and the store hold equally many pages, at most imageNumMax, and
\* the selection is one of them: every index the editor passes on is valid.
THEOREM SelectionAlwaysStored == Spec => []SelectionStored
  <1>1. IInv => SelectionStored
    BY DEF IInv
  <1>2. QED
    BY <1>1, SpecIInv, PTL

\* Only a drop over two or more places can make the screen and the database
\* disagree, whatever else happens before or after.
THEOREM MirrorsUnlessFarDrop == Spec => []MirrorUnlessFarDrop
  <1>1. IInv => MirrorUnlessFarDrop
    BY DEF IInv
  <1>2. QED
    BY <1>1, SpecIInv, PTL

\* The collection view always agrees with its data source.
THEOREM ThumbnailsAlwaysMatch == Spec => []ThumbnailsMatch
  <1>1. IInv => ThumbnailsMatch
    BY DEF IInv
  <1>2. QED
    BY <1>1, SpecIInv, PTL

\* No step makes a stored page disappear but a deletion, and an edit or a
\* signature of the very page on display: until a far drop, the row that
\* replaceObject overwrites is the one the user sees, and no crash costs a page.
THEOREM StoredPagesAlwaysKept == Spec => StoredPagesKept
  <1>1. IInv /\ [Next]_vars => [KeptStep]_vars
    BY NextKept
  <1>2. Spec => [][KeptStep]_vars
    BY <1>1, SpecIInv, PTL DEF Spec
  <1>3. QED
    BY <1>2, ZenonT(60) DEF StoredPagesKept, KeptStep

\* The position that the delete button captured is still that of the page on
\* display: whatever has been selected, added, near-dropped, signed, edited or
\* deleted since, deleteFileAtIndexPath removes that page and no other, unless
\* UIKit has moved the selected cell or configured one early, or a far drop has
\* mixed up the rows.
THEOREM DeletesOnlyPageOnDisplay == Spec => DeletesPageOnDisplay
  <1>1. IInv /\ [Next]_vars => [DisplayStep]_vars
    BY NextDisplay
  <1>2. Spec => [][DisplayStep]_vars
    BY <1>1, SpecIInv, PTL DEF Spec
  <1>3. QED
    BY <1>2, ZenonT(60) DEF DeletesPageOnDisplay, DisplayStep
=============================================================================

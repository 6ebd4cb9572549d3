# PDFScanner: a TLA+ model

PDFScanner is an iOS document scanner. The camera screen finds the edges of a
document and takes a picture, by hand or by itself; crop and filter screens
prepare a page; pages are kept in files and folders in a Realm database; a page
can be signed, shared and read by Tesseract. This directory models the parts of
the app that keep state, checks them with TLC, and proves most of the safety
properties with TLAPS for every value of the constants.

All paths below are relative to `src/PDFScanner/PDFScanner/`, or to
`src/PDFScanner/Pods/Realm/Realm/ObjectStore/src/` where Realm is meant. `Pods/`
is vendored. Its AFNetworking, GPUImage, Firebase and so on are external; Realm's
object store, whose C++ sources are part of the repository and on whose
notifications, transactions and migrations the app is built, is modelled where
the app relies on it. The repository has no documentation of its own; what the
code promises is taken from its comments, from the text of its dialogs and from
Realm's headers.

More than nine tenths of the C and C++ lines under `src/` are headers of
third-party libraries (Realm core comes as headers over a binary, sync and its
network layer, gRPC, Firebase, leveldb): declarations whose sources are not there
or which the app never calls. The app itself is Objective-C and Swift. A model of
a third of all lines would be a model of other programs; this one covers the app
and the part of Realm below it.

## Inventory

| Component | State | Operations | Interacts with |
|---|---|---|---|
| Page editor (`EditScanStepThreeVC`, end of `EditScanStepTwoVC`) | pages in memory, rows in Realm, selection, thumbnails, pending signature | open, select, add, edit, sign, delete, drag and drop | home screen opens it; presents the scanner to add a page |
| Camera screen (`ScannerViewController`, `CaptureSessionManager`, `CaptureSession`) | session, `isDetecting`, `isEditing`, auto scan, shutter button, photos under way | shutter, auto scan, photo picker, permission, cancel | main queue, video queue, photo callback, background decoding |
| Rectangle funnel (`RectangleFeaturesFunnel`, `Quadrilateral`) | window of scored rectangles, auto scan count | add a rectangle | called on the video queue by the session manager |
| Document store and home screen (`PSHomeDocViewController`, `PSMoveDirectoryDrawer`, `PSMoveToRootDirectoryDrawer`, `PSFileModel`) | folders, files, lists, marks | create, scan, select, reorder, move, delete, navigate | Realm transactions |
| Language packs and OCR (`AppDelegate`, `PSTrainedDataDownloader`, `PSLanguageDrawer`, `PSTesseract`, `EditScanOCRResultVC`) | language list, files in `Documents/tessdata`, download task | first launch, download, choose, recognise | network, file system, process death |
| File names (`ImageScannerController`, with the screens above) | stored name, `titleStr` of up to two navigation controllers, title bar | rename on three screens, finish a page | the page editor and the home screen |
| Crop and filter screens (`EditScanViewController`, `EditScanStepTwoVC`, `GPUFilterHander`, the progress HUD) | image, marked filter, displayed image, angles, jobs in the background | turn, crop, filter, slide, done, back | page editor opens them and stores what they return |
| Image compression (`UIImage+Extension`) | none | bisection of the quality, shrinking | called before a page is shown or stored |
| Launch and migration (`AppDelegate`, `AppDelegate+Realm`, Realm's `update_schema`) | schema version, old and new pages, settings object, root directory | open, migrate, initialise, show the home screen | process death, reinstallation |
| App lock and settings (`PSLockAppDialog`, `PSSettingViewController`, `PSKeyChainHelper`) | key chain, dialog phase, switch, filter setting | create, confirm, unlock, remove, choose a filter | key chain, launch |
| Realm change sets (`collection_change_builder`, `index_set`, `transact_log_handler`, `list_notifier`) | deletions, insertions, modifications, moves | log entries, merge, finalize | parsed by the listener thread, applied by collection views |
| Realm collection notifications (`realm_coordinator`, `collection_notifier`, `shared_realm`, `external_commit_helper`, `list`) | versions, notifiers, packages, version to skip, wakeups | register, begin, commit, run in the background, deliver | main thread, listener thread, other writers |
| Signature drawing (`UberSignature`) | operation queue, bitmap, path | update, end line, reset, read | main thread and operation queue |
| PDF export, drawers, HUDs, styles, events, subscription | - | - | - |

What is hard in this code:

- the page editor keeps everything twice (memory and database) plus a collection
  view whose cells capture positions, and changes the three one after the other;
- the camera screen's fields are touched by four threads without a lock;
- marks of a selection are persisted and outlive the selection;
- a launch may be cut short, a download may bring an error page;
- the name of a file is copied into every navigation controller that shows it;
- the filter screen applies results of background jobs to whatever it shows by
  then, and only a HUD that swallows touches keeps them together;
- Realm hands changes from the writer to a listener thread and back through a run
  loop, under two locks, with one remembered wakeup and versions to skip.

`PROJECT.json` lists these hazards line by line with the properties that would
catch them.

## Modules

| Module | Models | TLC | Proofs |
|---|---|---|---|
| `PageEditor` | page editor of one file | `MCPageEditor` | `PageEditorProofs` |
| `Capture` | camera screen | `MCCapture.cfg` on the module itself | `CaptureProofs` |
| `Funnel` | rectangle funnel with the displayed rectangle of its client | `MCFunnel` | `FunnelProofs` |
| `DocStore` | document store and home screen | `MCDocStore` | `DocStoreProofs` |
| `Languages` | language packs | `MCLanguages` | `LanguagesProofs` |
| `FileTitle` | the name of a file | `MCFileTitle.cfg` on the module itself | `DocStoreProofs` |
| `FilterScreen` | crop screen, filter screen, compression | `MCFilterScreen.cfg` | `FilterScreenProofs` |
| `AppLife` | launch, migration, lock, settings | `MCAppLife.cfg` | `AppLifeProofs` |
| `Lists` | operators: what is left of a list | through `DocStore` and `ChangeSets` | `DocStoreProofs`, `RealmProofs` |
| `IndexSet`, `ChangeBuilder` | operators: Realm's sets of positions and change sets | through `ChangeSets` | `RealmProofs` |
| `ChangeSets` | a list, its log, the changes a subscriber is told | `MCChangeSets.cfg` | `RealmProofs` |
| `Feed` | abstract: what notifications promise | as a property of `Notifications` | `RealmProofs` |
| `Copies` | operators: the versions a subscriber's copy is made of | through `Feed` and `Notifications` | - |
| `Notifications` | coordinator, listener thread, main thread, another writer | `MCNotifications.cfg` | `RealmProofs` |

`PageEditor`, `FilterScreen`, `DocStore` and `FileTitle` look at the same screens
from different sides: `PageEditor` takes the crop and filter screens as one step
(`doneClick`) that `FilterScreen` opens up, and `DocStore` takes a file as one
object. `Notifications` takes a change set as the set of versions it spans and
merging as union, which is what `ChangeSets` shows of the real merge.

Every definition that stands for code is listed in `PROJECT.json` under `map`
with the lines it stands for. Definitions named `...Not`, `...First`,
`...NoReset` and the like, right before the definition they resemble, are
mutants: plausible slips used to show that a property can fail.

### PageEditor

`pictures` and `fileExists` are persisted; `images`, `selectedIndex`,
`selectedImage`, `signing` and `cells` die with the screen. A page is a value
that stands for its pixels, and editing or signing yields a value not in use.
`cells` models the collection view: each cell has the page it shows and the
position its delete button captured, or 0 while the button is hidden (only the
cell that was configured as the selected one shows it). `phase` is the screen on top; `doneClick` and
`EditDone`/`AddDone` are two steps because compression runs in the background
between them and the app may die there. Where the update of the collection view
disagrees with `numberOfItems` (deleting at the maximum, dragging the add cell)
UIKit raises an exception, modelled as `Crash`; scrolling past the last cell at
the maximum may or may not raise, so both are allowed. `Kill` is possible
everywhere. `farDrop` is a history variable: a drop has moved a page by two or
more places since the file was opened. `stray` is another: UIKit has moved the
selected cell by dragging another one past it, so that its button keeps the
position it had before, or `deleteItems` has brought a cell on screen, and had it
configured, while `selectedIndex` was still the old one, so that a second button
shows. Both are choices the code leaves to UIKit; from then on a button may
delete another page than the one on display. `DeletesPageOnDisplay` says that
these, and the rows mixed up by a far drop, are the only ways to that.

### Capture

`mainQ` is the FIFO of closures on the main queue. The video queue is `frame`
(one frame in the detector), AVFoundation's photo answer and the background
decoding are counters, since their order among themselves is not fixed. What the
funnel answers is nondeterministic: nothing, a new rectangle, or one close to the
displayed one. The photo picker is the one of iOS 14. Dismissing the scanner and
presenting a new one is one action: what was queued for the old manager finds
its weak reference gone, but a decoding job still writes `isEditing`, which is
shared. A new scan is therefore also where `lateJobs` come from. `manager` is what
`CaptureSessionManager.init?` left behind, anew for every scanner: a manager that
works; one that does not (the camera could not be added or locked: the
initialiser returns early, the object is there, and `capturePhoto` finds no
connection and refuses, which switches the shutter on again); or nil, on a device
without a camera, where the first touch of the shutter switches it off and nobody
switches it on until the scanner is dismissed. `ShutterOwned` and
`ShutterComesBack` name this last case as their exception. A decoding job reads
the displayed rectangle (`readRectangle`) and later assigns what it read
(`displayRectangleResult`), by which time the main queue may have hidden it. `overlap` is a
history variable: a second picture was begun before the first had reached the
screen.

### Funnel

The algorithm as it is, with a quadrilateral reduced to one integer by which all
corners move together. `isWithin(p, d, q)` is the half-open square of side `d`
around `p`, as `CGRect.contains` has it, so two rectangles match within half the
distance named and the relation is not symmetric. After a photo the background
job assigns the displayed rectangle the value it has read from it; that a frame
still in the detector may come in between is modelled in `Capture`, here the two
are one step that changes nothing.

### DocStore

The Realm objects of class `PSFileModel` and the lists that link them. Deleting
an object takes it out of every list and leaves what it listed in the database.
The pages of a file are one value. A move is one transaction: copy, delete,
insert in front. `isSelected` is persisted. The swipe back works during a
selection; `stray` remembers the directories whose selection was left like that
or by the death of the app.

### Languages

The first launch is a transaction in which a directory is created and the
English pack copied only if the directory was not there; the process may be
killed between any two steps. A pack is absent, good or bad (the body of an HTTP
error, which AFNetworking moves into place like any other). `cut` remembers that
the English pack was not copied.

### FileTitle

One file: its stored name, the `titleStr` of the controller that shows it, that
of the controller presented over it to add a page, the title on screen, and, as
history, the name the user gave last. `Blank` is a name of spaces, which the home
screen refuses and the editor accepts. Its specification is `TitleSpec`, so that
`DocStoreProofs` can extend it beside `DocStore`.

### FilterScreen

An image is what was done to the photograph: the filters and sliders in order,
its quarter turns, and whether a filter or a rotation failed and silently gave
back what it was handed. Cropping, filtering and saving are jobs: an action takes
a job from the screen into the background and another applies its result to the
screen as it is by then, reading the fields the code reads at that moment (the
marked filter when the save returns, the angle when the crop job runs). A crop
that cannot be started (no quadrilateral, no Core Image) leaves the user on the
crop screen: both delegates ignore the error.
`Touchable` is the HUD. `compress` runs the six rounds over every pair of
thresholds `a <= b` a growing size function can have (small below quality `a`,
over the limit from `b` on), in 64ths, and compares with the best quality. When
the last quality tried is over the limit the image is shrunk although the
quality 1/64 lower would have fitted; `QualityBest` says that this is the
furthest the loop is ever off. Other things the model shows: editing a filtered
page applies its filter once more; a slider drops what the other slider did; a
page no JPEG can be made of is stored as empty data and its file cannot be
opened any more.

### AppLife

The database of the first version has `imageDatas`, this one `pictures`. A launch
is the steps of `didFinishLaunching`: open (with or without migration), settings
object, root directory, home screen with or without the lock. Realm's
migration is one transaction, so that `Kill` while `migrating` leaves the file as
it was. `Reinstall` empties the database and keeps the key chain. Key chain calls
may fail; the app looks at the result of the removal only, hence the exception
`failed` of `SwitchShowsLock`. A password is typed as a whole.

### IndexSet, ChangeBuilder, ChangeSets

`IndexSet` gives the meaning of each operation on a set of positions, which the
code computes on chunks of ranges. `ChangeBuilder` is `CollectionChangeBuilder`
for a list of objects: every log entry, `clean_up_stale_moves`, `merge`,
`finalize`, including that a move merged away is replaced by the last one. The
loops over moves are recursive functions of the number of moves done, with one
round as an operator of its own (`CleanedStep`, `UpdatedStep`).
`ChangeSets` (`ListSpec`) applies log entries to a list and to the change set side by
side and ends a batch at any point with `parse_complete`, `run` and the merge into what
the subscriber has not been told. Each write makes a new value, so that a stale
row can be told from a fresh one.

### Feed and Notifications

Each action is a stretch between two acquisitions of `m_notifier_mutex`, or a
callback of the run loop. The main thread subscribes in two steps
(`register_notifier`, `add_callback`), begins a transaction (`begin_transaction`
takes the write lock, `promote_to_write` goes on once the notifiers are there),
commits and announces. The listener thread reads the version to go to and the
version to skip under one lock, hands over at the skipped version, then at the
last one, then signals. `CommitElsewhere` is a writer on another thread: the app
writes from its main thread only, but Realm's contract is wider and a download or
a second process would meet it. `copy` is what a subscriber holds, as the
versions it was told of. `Feed` is the promise without threads: a copy is
extended by exactly the versions that changed the list, in order and none twice,
and the main thread does not move on without its subscribers. `Notifications`
implements it with `subscribed <- withCallback`, `told <- initialDelivered`
(`KeepsFeedPromise`). `advance_to_ready` throws packages of an older version away
under the comment "This should only happen if begin_read() was used to change the
read version outside of our control" (`realm_coordinator.cpp:904`); the model
reaches that branch without `begin_read`, when the main thread has committed and
another writer commits before the worker runs, and shows that nothing undelivered
is in those packages.

## Runs

Passing runs, with their bounds:

| Run | Bounds | Shows |
|---|---|---|
| `page_editor` | 4 page values, at most 4 pages per file; symmetry of the pages | The selection is always one of the stored pages, screen and database hold equally many, thumbnails agree with the pages, orders agree unless a drop went far, no page is lost that was not on display or deleted, and until a button strays a deletion removes the page on display. |
| `capture` | thresholds 1, 2 queued closures when a frame is processed, 3 pictures | If there is a session manager, the shutter is off only while something will switch it on, and comes back; one picture at a time never captures elsewhere nor opens two edit screens. |
| `funnel` | positions 0..5, window of 4, minimum 3, distances 4 and 2, count 2 | The choice is the documented one, the display is supported by the window, outliers are ignored, a still document is captured again and again. |
| `doc_store` | 5 objects, 3 contents; symmetry of both | A two-level tree in which nothing is listed twice; marks belong to a selection; contents are never shared; pages vanish only by deletion or editing. |
| `languages` | 5 languages, at most 3 chosen; symmetry of all but English | One download at a time; chosen packs are on disk; the fatal error of recognition is explained. |
| `file_title` | 3 names | Names given outside the add screens stay; the title is the stored name. |
| `filter_screen` | 3 filters, 3 filters and sliders per page, all thresholds of the quality | A stored page is labelled with the filter it has and turned as far as asked, also after going back and editing again; the quality is the best the loop promises. |
| `app_life` | 1 file of up to 2 pages, 2 contents, 3 filters, 3 passwords | Launches, also killed ones, keep pages and settings; only a password typed twice is saved; the switch tells the truth. |
| `change_sets` | lists of up to 4 rows, 4 log entries, any batches | The change set told rebuilds the list; its moves are true; its modifications agree in old and new positions. |
| `notifications` | 2 lists, 3 versions | Writers start from up-to-date copies, the worker never goes backwards, the abstract feed is implemented, every change arrives, transactions begin. |

Why the bounds are enough: at the maximum of four pages a deletion raises, below
it three pages have a first, a middle and a last to delete, to drop near and far
and to edit (a full file cannot be edited with four page values, which is left to
the proofs); three pictures allow
two overlapping ones and a third after them; a window of four with six positions
has matching, nearly matching and unrelated rectangles and ties; five objects
allow two folders with files in both and a move of two files at once; four rows
and four entries have a move over a move, a deletion of a moved row, and both
split over two batches; three versions have a first state, a commit of the main
thread and one of another writer, in either order, with the second subscriber
joining in between; three filters are the original and two that can be confused.
The real
values (10 pages, 35 passes, window of 8) change only how long it takes to get
there.

Disagreements between the code and what it says of itself. The first two are
runs of `PROJECT.json`, whose `findings` quote the lines; the others can be
reproduced with the configuration named:

| Configuration | Property | Trace |
|---|---|---|
| `MCPageEditorStore` (run `page_editor_store`) | `StoreMirrorsScreen` | three pages, drag the first to the end: moved on screen, exchanged in the database |
| `MCNotificationsSkip` (run `notifications_skip`) | `NotToldAgain` | the worker takes its version, a subscriber commits a change it asked not to be told of, the worker hands over the older version and with it uses up the wish: the subscriber applies its change twice |
| `MCPageEditorDelete` with `MCPageEditor` | `DeleteAimed` | two pages, exchange them by a drop: the cell that shifted still deletes at its old position |
| `MCCaptureAutoScan` with `Capture` | `AutoScanOnlyOnScanner` | shutter, open and dismiss the photo picker before the photo arrives: the camera runs and captures under the edit screen, against `CaptureSession.swift:20` |
| `MCFileTitleInside` with `FileTitle` | `RenameKept` | rename while adding a page, cancel, edit a page: the old name is written back |
| `MCDocStoreDelete` with `MCDocStore` | `DeletedPermanently` | delete a folder with a file in it: the file stays in the database, listed nowhere, against the dialog of `PSHomeDocViewController.m:387` |
| `MCFunnelMatches` with `MCFunnel` | `ConfidentDisplay` | a rectangle is displayed that one other matches; `minNumberOfMatches` (`RectangleFeaturesFunnel.swift:62`) is never read |

Seen while modelling and not checked: `RLMArray.h:309` says that the first call of
a notification block has no changes. For an array `RLMAddNotificationBlock` is
called without suppressing them (`RLMManagedArray.mm:508`), so that changes made
between subscribing and the first call are passed along with it.

Fairness. `Capture` assumes that Grand Central Dispatch runs what was dispatched
to the main queue and to the background queue, that AVFoundation answers a photo
request, and that loading a picked image ends (weak fairness of each). It assumes
nothing of the user, of the permission alert or of what the camera sees.
`AutoScanComes` carries its own hypothesis: from some point on every frame shows
the same document, and frames keep coming. `Notifications` assumes that the
listener thread keeps running, that the run loop calls a signalled source, that a
transaction once begun is ended, and that a call under way (`add_callback`, the
two announcements, `process_available_async`) returns; it assumes of nobody that
they begin a transaction or subscribe, and of other writers only that a commit is
followed by its announcement. The other modules are safety only.

Deadlock is checked where the user can always do something. `ChangeSets` and
`Notifications` stop at their bounds.

## Proofs

The theorems hold for every value of the constants under the assumptions of the
modules: the special values differ from the ordinary ones, English is one of the
languages, maxima, thresholds and sizes are positive, the identities of
`PSFileModel` objects are finitely many (`ItemsAssumption`), and
`matchingThreshold` is at least 2 (it is 40 in the code; below 2 the half-open
square is so small that a rectangle would not match its equal,
`ThresholdsAssumption`). Each proof module states its inductive invariant, one
lemma per action (or group of actions that leave the same things alone), and ends
with the theorems. TLC checks the conjuncts that are properties of a run.

`PageEditorProofs`: `TypeCorrect`, `SelectionAlwaysStored`,
`MirrorsUnlessFarDrop`, `ThumbnailsAlwaysMatch` and the action properties
`StoredPagesAlwaysKept` and `DeletesOnlyPageOnDisplay`. The invariant `IInv` is the
conjunction of the four properties with `RoomToAdd` (while a page is being added
there is room for it), `FileHasPages` (the file exists as long as it has rows) and
`ButtonAimed` (until a button strays, the selected cell's is the only one and is
aimed at its own position). They need each other: an edit is safe because the
selection is a stored position (`SelectionStored`), a deletion takes the same
position out of both copies because they have the same length, and the copies stay
equal under a near drop because moving a page by one place is an exchange
(`NearMoveIsExchange`). The action properties follow from it: an exchange of rows
loses nothing (`ExchangedRange`), the row that an edit or a signature overwrites is
that of the page on display as long as screen and database agree (`ReplaceKept`),
and the button that was pressed is that of the selected page (`PressedButton`).

`CaptureProofs`: `TypeCorrect`, `ShutterAlwaysOwned`, `NoAutoScanElsewhere`,
`OneEditScreen`, and `AutoScanOnScannerUnlessOverlap`, which is what the comment of
`isEditing` promises, for pictures taken one at a time. `ShutterOwned` is inductive
with the types: each step that consumes what will switch the shutter on either
does so or creates the next in the chain. It says nothing of a scanner without a
session manager; one whose session could not be set up is included, because its
refusal switches the button on. The other two need to know what is still
on the main queue. `OneAtATime` says that, while
nothing overlapped, pictures under way (in the camera, in the decoder or on the queue),
the picker and edit screens are one at most between them, and that the session runs,
or a start of it is queued, on the scanner only; `PickedLast` says that no start of the session
is queued behind a picked image. The lemmas on `Number` say how appending and taking
a closure changes the counts.

`FunnelProofs`: `TypeCorrect`, `DisplayAlwaysSupported`, `BestAlwaysAsDocumented`
and `OutliersAlwaysIgnored`. `bestRectangle` is a recursive function of the window;
`Chosen` says of a position what the scan has established of the part it has seen,
and the step of the scan preserves it. Outliers are ignored because the equal
rectangles score at least as much as their number, a best rectangle is therefore
matched by more than half of the window too, and two such parts have a rectangle in
common. The invariant adds that the scores count the matches of the window as it is
(`Counted`) once they have been computed.

`DocStoreProofs`: `TypeCorrect`, `ParentUnique`, `StoreTwoLevels`, `MarksAccounted`,
`ContentsNeverShared` and the action property `PagesNeverLost`. `OneParent` counts
the folders that list an item; the induction carries `Parted`, the same without
cardinalities, and `DrawerOverSelection` (the drawer from which files are moved lies
over a selection, so that what it moves is marked and listed where the screen is).
What is left of a list after a deletion or a move is the recursive function `Only`.
The last part proves `RenameAlwaysKeptOutside` and `TitleAlwaysStored` of
`FileTitle`; the strengthening `CopiesFresh` says which copy of the name equals which
on each screen.

`FilterScreenProofs`: `LabelAlwaysTrue`, `QualityAlwaysBest` and the action property
`AlwaysTurnedAsAsked`. What is stored is decided before it is written, so `Marked`
and `Turned` say of the images on the screen and in the jobs what the theorems say of
the stored page, and `JobsOnScreen` that a job belongs to the screen that waits for it:
at most one at a time, because the HUD takes the touches. `QualityAlwaysBest` follows
the six rounds of the bisection for any thresholds.

`RealmProofs`, first part: `WorkerAlwaysForward` for any lists, suppressed or not;
`WriterAlwaysSeesAll` and `ImplementsFeed` (`Spec => KeepsFeedPromise`, the refinement
of `Feed`) under the hypothesis `Suppressible = {}`: nobody commits without
notifying. The app never does, it is the configuration of the passing run, and
without it both are false, as the run `notifications_skip` shows. The invariant of the
worker is `Registered` (new notifiers have not run, and what the worker carries
between its stretches covers every notifier the coordinator knows) and `SkipAhead` (a
version to skip lies ahead of what the worker has reached or is going to). On top of
it `Owed` says what subscribers hold: a subscriber that was called once has the list
of some version up to its notifier's, and exactly the changes since are waiting to be
told; its notifier is behind the main thread by the main thread's own last commit at
most (`Delivered`); the notifiers that have run are at one version (`Together`); who
has a callback is known to the coordinator (`Subscribed`); and in a write transaction
nothing is waiting (`Writing`). Copies are sequences in ascending order (`Ascending` in
`Copies`), and appending later versions to one gives that of the union. A step of the threads is then a step of `Feed` or none.

`RealmProofs`, second part: `ListIsDescribed`, `ChangesApplyExactly`, `ChangesMoveTruly`
and `ChangesModifySameRows`, for lists of any length and any number of entries and
batches. The statement that carries them is `Describes(b, X, old, new)`: the deletions
and insertions of `b` leave as many rows on either side (`Shaped`); a row of `new` that
was not inserted is the row of `old` it came from (`Src`, which is `shift` after
`unshift`), unless it is marked as modified or its value is in `X`; and the moves are
apart, each from a deletion to an insertion, with the same exception. The invariant
`ListInv` says that some list in between is described by the accumulated changes from
the subscriber's list (with `X` empty) and describes the list now by the batch (with
the rows whose objects were written to as `X`), and that rows are distinct. In a parsed
state the batch is empty, so the list in between is the list now, and the three
properties are read off `Describes`.

The work lies in three places. Positions: `shift` finds the only position outside a set
with a given number of others before it, so that `shift` and `unshift` are inverse to
each other off the set and keep the order, and `Composed` says that going back through
two change sets is going back through the joined one. Entries: inserting, erasing and
moving one row each have the form of such a composition (`InsertEntry`, `EraseEntry`,
`MoveEntry`). The merge: `UpdatedOnce` and `CleanedOnce` are one round of its two loops
over moves, for which `Updated` and `Fits` say what holds after the first k moves;
dropping a stale move together with its deletion and its insertion changes no other
row's source (`StaleShape`); `MergeEntry` puts the parts together.

`LanguagesProofs`: `LanguagesTypeCorrect`, `AlwaysOneDownload`, `ChosenAlwaysOnDisk`
and `FatalAlwaysExplained`. The strengthening is `LastTaskOnly` (running downloads are
among what the last task stands for, which is one language at most), `EngPlaced` (from
the moment the directory exists, English is being copied, is there or was cut off) and
`EngSpoiltOnlyIfCut` (English can be downloaded, and so spoilt, only after that).

`AppLifeProofs`: `SwitchAlwaysShowsLock`, `LaunchesKeepData` and
`AlwaysSavedAsTypedTwice`. The strengthening is `Choosing` (a dialog that chooses a
password is there only while none is set, with the switch off, and its first entry is
the last one typed) and `Placed` (which pages exist at which version of the schema, and
how far a launch is when they can be seen).

Recursive functions (`Only`, the scan of the funnel, the loops over moves) are proved about by an induction
over a set of numbers: if some number were outside it, the least such number would be,
since every non-empty set of naturals has a minimum (`WFMin`). The theorems of the
library that take a predicate as a parameter are not used.

The SMT encoding of the installed prover takes any function for a sequence of some
length, which contradicts itself once a leaf mentions `Len` or `Append` beside a function
with a domain like `0..n`. The recursive functions are therefore kept behind operators
(`Keeps`, `Runs`) that such leaves do not expand, and the hypotheses of the leaves were
tried alone for a contradiction: those that have one are proofs by contradiction and
impossible cases.

Only model-checked: liveness (`ShutterComesBack`, `AutoScanComes`, `EveryChangeTold`,
`BeginReturns`), which is out of the prover's reach. The type invariants of `Capture`, `Funnel` and `FileTitle` are
not part of a run; they are proved, the last one inside `CopiesFresh`'s invariant.

## Not modelled

- Geometry, pixels, the quadrilateral, the zoom and the drawing of signatures:
  floating point and GPU work. The operation queue of the signature model is
  serial and promises nothing between two operations.
- PDF export and sharing, events, styles, drawers, HUDs but the progress HUD, the
  subscription screens: output only.
- The photo picker of systems before iOS 14, flash, focus and the grid of the
  camera screen.
- Failure of a Realm transaction (a full disk): the code ignores it everywhere.
- In Realm: sync, queries and results notifiers with `calculate`, lists of
  primitives, tables and columns of the change builder, `refresh` by hand,
  callbacks that write, errors opening the file, the deletion of the object that
  holds a list, and the chunks of `IndexSet`.
- All other pods.

## Plan

1. The text tab of the OCR screen beside `Languages`.
2. An abstract document store (a set of named files with pages) that `DocStore`
   and `PageEditor` implement.

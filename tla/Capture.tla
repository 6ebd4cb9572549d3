------------------------------- MODULE Capture -------------------------------
(***************************************************************************)
(* The camera screen: ScannerViewController and its CaptureSessionManager. *)
(* Four threads touch the same fields without a lock: the main queue       *)
(* (mainQ, a FIFO of closures, and the user's gestures), the video queue   *)
(* that detects rectangles in frames, AVFoundation's photo callback, and   *)
(* the background job that decodes a photo.                                *)
(*                                                                         *)
(* Rectangles are reduced to what the funnel answers: nothing, a new one   *)
(* to show, or one that is near the displayed one.  The overlay, the flash *)
(* and the focus are not modelled.  AVFoundation is external: frames come  *)
(* only while the session runs, and a requested photo is answered once.    *)
(***************************************************************************)
EXTENDS Naturals, Sequences, FiniteSets

CONSTANTS noRectangleThreshold,   \* 3 in the code
          autoScanThreshold,      \* 35 in the code
          MaxQueue,      \* bound: a frame is processed only below this many
                         \* closures on the main queue
          MaxPictures    \* bound: pictures on their way or on an edit screen

ASSUME BoundsAssumption ==
    /\ noRectangleThreshold \in Nat /\ autoScanThreshold \in Nat
    /\ MaxQueue \in Nat /\ MaxPictures \in Nat

VARIABLES mainQ,        \* closures dispatched to the main queue
          running,      \* captureSession.isRunning
          isDetecting,
          frame,        \* the video queue is looking for a rectangle
          noRectangleCount,
          passCount,    \* rectangleFunnel.currentAutoScanPassCount
          displayed,    \* displayedRectangleResult # nil
          isEditing,    \* CaptureSession.current.isEditing
          autoScan,     \* CaptureSession.current.isAutoScanEnabled
          shutter,      \* shutterButton.isUserInteractionEnabled
          shots,        \* photos requested and not yet answered
          decoding,     \* background jobs of completeImageCapture
          redisplay,    \* those that have read displayedRectangleResult and
                        \* will assign what they read to it
          lateJobs,     \* such jobs whose scanner has been dismissed
          edits,        \* edit screens pushed over the scanner
          picker,       \* the photo picker: closed, open, or loading its result
          manager,      \* captureSessionManager: ready, with a session that has
                        \* neither input nor output (unusable), or nil (none)
          auth,         \* camera authorization
          overlap       \* history: a second picture was begun before the
                        \* first one had reached the screen

detection == <<frame, noRectangleCount, passCount, displayed>>
jobs == <<decoding, redisplay, lateJobs>>
work == <<shots, jobs>>
vars == <<mainQ, running, isDetecting, detection, isEditing, autoScan, manager,
          shutter, work, edits, picker, auth, overlap>>

Closures == {"startRunning", "start", "noRectangle", "didCapture", "didFail",
             "picked", "pickFailed"}
Count(c) == Cardinality({k \in DOMAIN mainQ : mainQ[k] = c})

\* Pictures that have been begun and have not reached the screen yet.
Outstanding == shots + decoding + Count("didCapture") + Count("didFail")
                 + (IF picker = "closed" THEN 0 ELSE 1)

MayBegin == Outstanding + lateJobs + edits < MaxPictures

Managers == {"ready", "unusable", "none"}

\* The photo and video connections exist and are active.
Connected == running /\ manager = "ready"

OnScanner == edits = 0 /\ picker # "open"

\* The scanner takes gestures: no other screen, no permission alert, no progress
\* HUD, and its own appearance is over, which takes longer than a turn of the
\* main queue.
Touchable ==
    /\ edits = 0 /\ picker = "closed" /\ auth # "asking"
    /\ Count("startRunning") + Count("start") = 0

-----------------------------------------------------------------------------
(* CaptureSessionManager.start, on the main thread; q is the main queue at   *)
(* that moment.                                                              *)

start(q) ==
    \/ /\ auth = "authorized"
       /\ mainQ' = Append(q, "startRunning")
       /\ isDetecting' = TRUE
       /\ UNCHANGED <<auth, shutter>>
    \/ /\ auth = "notDetermined"
       /\ auth' = "asking"
       /\ mainQ' = q
       /\ UNCHANGED <<isDetecting, shutter>>
    \/ /\ auth = "asking"
       /\ mainQ' = q
       /\ UNCHANGED <<auth, isDetecting, shutter>>
    \/ /\ auth = "denied"
       /\ mainQ' = q
       /\ shutter' = TRUE
       /\ UNCHANGED <<auth, isDetecting>>

\* captureSessionManager?.start() is no call at all when there is no manager.
viewWillAppear(q) ==
    /\ isEditing' = FALSE
    /\ IF manager = "none"
       THEN mainQ' = q /\ UNCHANGED <<auth, isDetecting, shutter>>
       ELSE start(q)

\* The main queue of a scanner that has just been presented with manager m.
Presented(m) ==
    IF m = "none" THEN <<>>
    ELSE IF auth = "authorized" THEN <<"startRunning">> ELSE <<"start">>

\* capturePhoto: refused unless the connection is active.
capturePhoto ==
    IF Connected
    THEN /\ shots' = shots + 1
         /\ overlap' = (overlap \/ Outstanding > 0)
    ELSE UNCHANGED <<shots, overlap>>

-----------------------------------------------------------------------------
\* The manager's failable initialiser gives nil without a camera, and a manager
\* that cannot be used when the camera cannot be added or locked.
Init ==
    /\ auth \in {"authorized", "notDetermined", "denied"}
    /\ manager \in Managers
    /\ mainQ = Presented(manager)
    /\ running = FALSE /\ isDetecting = TRUE
    /\ frame = FALSE /\ noRectangleCount = 0 /\ passCount = 0
    /\ displayed = FALSE
    /\ isEditing = FALSE /\ autoScan = TRUE /\ shutter = TRUE
    /\ shots = 0 /\ decoding = 0 /\ redisplay = 0 /\ lateJobs = 0
    /\ edits = 0 /\ picker = "closed"
    /\ overlap = FALSE

-----------------------------------------------------------------------------
(* The user.                                                                 *)

\* The button is switched off before the manager is asked.  A refusal enables it
\* again (didFailWithError); without a manager there is nobody to refuse.
captureImage ==
    /\ Touchable /\ shutter /\ MayBegin
    /\ shutter' = (manager # "none" /\ ~Connected)
    /\ capturePhoto
    /\ UNCHANGED <<mainQ, running, isDetecting, detection, isEditing, autoScan,
                   manager, jobs, edits, picker, auth>>

SelectMode ==
    /\ Touchable
    /\ autoScan' = ~autoScan
    /\ UNCHANGED <<mainQ, running, isDetecting, detection, isEditing, manager,
                   shutter, work, edits, picker, auth, overlap>>

showImagePickVC ==
    /\ Touchable /\ MayBegin
    /\ running' = FALSE
    /\ picker' = "open"
    /\ overlap' = (overlap \/ Outstanding > 0)
    /\ UNCHANGED <<mainQ, isDetecting, detection, isEditing, autoScan, manager,
                   shutter, work, edits, auth>>

\* The picker is dismissed, with or without a choice; the scanner reappears
\* under the HUD while the choice is loaded.
didFinishPicking(chosen) ==
    /\ picker = "open"
    /\ picker' = IF chosen THEN "loading" ELSE "closed"
    /\ IF edits = 0 THEN viewWillAppear(mainQ)
       ELSE UNCHANGED <<mainQ, isEditing, isDetecting, auth, shutter>>
    /\ UNCHANGED <<running, detection, autoScan, manager, work, edits, overlap>>

PickLoaded(ok) ==
    /\ picker = "loading"
    /\ Count("picked") + Count("pickFailed") = 0
    /\ mainQ' = Append(mainQ, IF ok THEN "picked" ELSE "pickFailed")
    /\ UNCHANGED <<running, isDetecting, detection, isEditing, autoScan,
                   manager, shutter, work, edits, picker, auth, overlap>>

\* Back from an edit screen.
PopEdit ==
    /\ edits > 0 /\ picker = "closed"
    /\ edits' = edits - 1
    /\ IF edits = 1 THEN viewWillAppear(mainQ)
       ELSE UNCHANGED <<mainQ, isEditing, isDetecting, auth, shutter>>
    /\ UNCHANGED <<running, detection, autoScan, manager, work, picker,
                   overlap>>

\* Cancel, or the last step of the edit: the whole controller is dismissed and
\* later a new one is presented.  What was queued for the old manager finds its
\* weak reference gone, but a background job still sets isEditing.  The new one
\* builds a manager of its own.
DismissAndRescan ==
    /\ Touchable \/ edits > 0
    /\ picker = "closed"
    /\ lateJobs' = lateJobs + (decoding - redisplay)
    /\ shots' = 0 /\ decoding' = 0 /\ redisplay' = 0
    /\ manager' \in Managers
    /\ running' = FALSE
    /\ isEditing' = FALSE
    /\ isDetecting' = TRUE
    /\ mainQ' = Presented(manager')
    /\ frame' = FALSE /\ noRectangleCount' = 0 /\ passCount' = 0
    /\ displayed' = FALSE
    /\ shutter' = TRUE
    /\ edits' = 0
    /\ overlap' = FALSE
    /\ UNCHANGED <<autoScan, picker, auth>>

\* The answer to the camera permission request.
AccessAnswered(granted) ==
    /\ auth = "asking"
    /\ auth' = IF granted THEN "authorized" ELSE "denied"
    /\ mainQ' = Append(mainQ, "start")
    /\ UNCHANGED <<running, isDetecting, detection, isEditing, autoScan,
                   manager, shutter, work, edits, picker, overlap>>

-----------------------------------------------------------------------------
(* The video queue.                                                          *)

captureOutput ==
    /\ Connected /\ isDetecting /\ ~frame
    /\ frame' = TRUE
    /\ UNCHANGED <<mainQ, running, isDetecting, noRectangleCount, passCount,
                   displayed, isEditing, autoScan, manager, shutter, work,
                   edits, picker, auth, overlap>>

\* No rectangle in the frame: the main queue is told to count it.
processNoRectangle ==
    /\ frame /\ frame' = FALSE
    /\ Len(mainQ) < MaxQueue
    /\ mainQ' = Append(mainQ, "noRectangle")
    /\ UNCHANGED <<running, isDetecting, noRectangleCount, passCount, displayed,
                   isEditing, autoScan, manager, shutter, work, edits, picker,
                   auth, overlap>>

\* A rectangle the funnel does not act on, or shows as the new one.
processRectangle(shown) ==
    /\ frame /\ frame' = FALSE
    /\ noRectangleCount' = 0
    /\ displayed' = (displayed \/ shown)
    /\ UNCHANGED <<mainQ, running, isDetecting, passCount, isEditing, autoScan,
                   manager, shutter, work, edits, picker, auth, overlap>>

\* The funnel's count of passes, which starts over once it exceeds the threshold.
passesAfter(n) == IF n + 1 > autoScanThreshold THEN 0 ELSE n + 1

\* The condition under which a stable rectangle is captured by itself.
mayAutoScan == autoScan /\ ~isEditing

\* A rectangle close to the displayed one: the funnel counts it, and past the
\* threshold the picture is taken.
processStableRectangle ==
    /\ frame /\ frame' = FALSE
    /\ displayed
    /\ noRectangleCount' = 0
    /\ passCount' = passesAfter(passCount)
    /\ \/ /\ passCount + 1 <= autoScanThreshold
          /\ UNCHANGED <<shots, overlap, shutter>>
       \/ /\ passCount + 1 > autoScanThreshold
          /\ \/ ~mayAutoScan /\ UNCHANGED <<shots, overlap, shutter>>
             \/ /\ mayAutoScan /\ MayBegin
                /\ capturePhoto
                /\ shutter' = (shutter \/ ~Connected)
    /\ UNCHANGED <<mainQ, running, isDetecting, displayed, isEditing, autoScan,
                   manager, jobs, edits, picker, auth>>

-----------------------------------------------------------------------------
(* AVFoundation answers a photo request: with an error, without data, or     *)
(* with a picture.                                                           *)

photoError ==
    /\ shots > 0 /\ shots' = shots - 1
    /\ shutter' = TRUE
    /\ UNCHANGED <<mainQ, running, isDetecting, detection, isEditing, autoScan,
                   manager, jobs, edits, picker, auth, overlap>>

photoShutterNot(data) == FALSE

\* After didStartCapturingPicture (off) a missing picture turns it on again.
photoShutter(data) == ~data

photoOutput(data) ==
    /\ shots > 0 /\ shots' = shots - 1
    /\ isDetecting' = FALSE
    /\ passCount' = 0
    /\ running' = FALSE
    /\ shutter' = photoShutter(data)
    /\ decoding' = IF data THEN decoding + 1 ELSE decoding
    /\ UNCHANGED <<redisplay, mainQ, frame, noRectangleCount, displayed,
                   isEditing, autoScan, manager, lateJobs, edits, picker, auth,
                   overlap>>

\* The background job.  It fails to decode the data, or finds no rectangle on
\* display, or reads the displayed one ...
completeImageCapture(ok) ==
    /\ decoding > redisplay /\ decoding' = decoding - 1
    /\ ok => ~displayed
    /\ isEditing' = TRUE
    /\ mainQ' = Append(mainQ, IF ok THEN "didCapture" ELSE "didFail")
    /\ UNCHANGED <<running, isDetecting, detection, autoScan, manager, shutter,
                   shots, redisplay, lateJobs, edits, picker, auth, overlap>>

readRectangle ==
    /\ decoding > redisplay /\ displayed
    /\ isEditing' = TRUE
    /\ redisplay' = redisplay + 1
    /\ UNCHANGED <<mainQ, running, isDetecting, detection, autoScan, manager,
                   shutter, shots, decoding, lateJobs, edits, picker, auth,
                   overlap>>

\* ... and displays it, even if the main queue has hidden it in the meantime.
displayRectangleResult ==
    /\ redisplay > 0 /\ redisplay' = redisplay - 1
    /\ decoding' = decoding - 1
    /\ displayed' = TRUE
    /\ mainQ' = Append(mainQ, "didCapture")
    /\ UNCHANGED <<running, isDetecting, frame, noRectangleCount, passCount,
                   isEditing, autoScan, manager, shutter, shots, lateJobs,
                   edits, picker, auth, overlap>>

LateJob ==
    /\ lateJobs > 0 /\ lateJobs' = lateJobs - 1
    /\ isEditing' = TRUE
    /\ UNCHANGED <<mainQ, running, isDetecting, detection, autoScan, manager,
                   shutter, shots, decoding, redisplay, edits, picker, auth,
                   overlap>>

-----------------------------------------------------------------------------
(* The main queue runs its next closure.                                     *)

Runs(c) == mainQ # <<>> /\ Head(mainQ) = c

startRunning ==
    /\ Runs("startRunning") /\ mainQ' = Tail(mainQ)
    /\ running' = TRUE
    /\ UNCHANGED <<isDetecting, detection, isEditing, autoScan, manager,
                   shutter, work, edits, picker, auth, overlap>>

RunStart ==
    /\ Runs("start")
    /\ start(Tail(mainQ))
    /\ UNCHANGED <<running, detection, isEditing, autoScan, manager, work,
                   edits, picker, overlap>>

\* Counts one more frame; more than the threshold hides the rectangle.
noRectangle ==
    LET n == noRectangleCount + 1
        gone == n > noRectangleThreshold
    IN
    /\ Runs("noRectangle") /\ mainQ' = Tail(mainQ)
    /\ noRectangleCount' = IF gone THEN noRectangleThreshold + 1 ELSE n
    /\ passCount' = IF gone THEN 0 ELSE passCount
    /\ displayed' = (displayed /\ ~gone)
    /\ UNCHANGED <<running, isDetecting, frame, isEditing, autoScan, manager,
                   shutter, work, edits, picker, auth, overlap>>

PushEditNoStop == edits' = edits + 1 /\ UNCHANGED running

\* An edit screen is pushed; if the scanner was on top, it disappears and stops
\* the session.
PushEdit ==
    /\ edits' = edits + 1
    /\ running' = (running /\ ~OnScanner)

didCapturePicture ==
    /\ Runs("didCapture") /\ mainQ' = Tail(mainQ)
    /\ PushEdit
    /\ shutter' = TRUE
    /\ UNCHANGED <<isDetecting, detection, isEditing, autoScan, manager, work,
                   picker, auth, overlap>>

didFailWithError ==
    /\ Runs("didFail") /\ mainQ' = Tail(mainQ)
    /\ shutter' = TRUE
    /\ UNCHANGED <<running, isDetecting, detection, isEditing, autoScan,
                   manager, work, edits, picker, auth, overlap>>

pushEditVC ==
    /\ Runs("picked") /\ mainQ' = Tail(mainQ)
    /\ picker' = "closed"
    /\ PushEdit
    /\ UNCHANGED <<isDetecting, detection, isEditing, autoScan, manager,
                   shutter, work, auth, overlap>>

PickFailed ==
    /\ Runs("pickFailed") /\ mainQ' = Tail(mainQ)
    /\ picker' = "closed"
    /\ UNCHANGED <<running, isDetecting, detection, isEditing, autoScan,
                   manager, shutter, work, edits, auth, overlap>>

MainQueue ==
    \/ startRunning \/ RunStart \/ noRectangle \/ didCapturePicture
    \/ didFailWithError \/ pushEditVC \/ PickFailed

-----------------------------------------------------------------------------
User == captureImage \/ SelectMode \/ showImagePickVC \/ PopEdit
          \/ DismissAndRescan \/ \E b \in BOOLEAN : didFinishPicking(b)

Photo == photoError \/ \E b \in BOOLEAN : photoOutput(b)

Decode == readRectangle \/ displayRectangleResult
            \/ \E b \in BOOLEAN : completeImageCapture(b)

Next ==
    \/ User
    \/ \E b \in BOOLEAN : PickLoaded(b) \/ AccessAnswered(b)
    \/ captureOutput \/ processNoRectangle \/ processStableRectangle
    \/ \E b \in BOOLEAN : processRectangle(b)
    \/ Photo \/ Decode \/ LateJob
    \/ MainQueue

\* Grand Central Dispatch runs what has been dispatched, AVFoundation answers
\* every photo request, and loading a picked image ends.  Nothing is assumed of
\* the user or of what the camera sees.
Fairness ==
    /\ WF_vars(MainQueue) /\ WF_vars(Photo) /\ WF_vars(Decode)
    /\ WF_vars(\E b \in BOOLEAN : PickLoaded(b))

Spec == Init /\ [][Next]_vars /\ Fairness

-----------------------------------------------------------------------------
(* Properties.                                                               *)

\* Every variable has its type and stays within its bound.
TypeOK ==
    /\ mainQ \in Seq(Closures)
    /\ running \in BOOLEAN /\ isDetecting \in BOOLEAN
    /\ frame \in BOOLEAN /\ displayed \in BOOLEAN
    /\ noRectangleCount \in 0..(noRectangleThreshold + 1)
    /\ passCount \in 0..autoScanThreshold
    /\ isEditing \in BOOLEAN /\ autoScan \in BOOLEAN /\ shutter \in BOOLEAN
    /\ shots \in Nat /\ decoding \in Nat /\ lateJobs \in Nat /\ edits \in Nat
    /\ redisplay \in 0..decoding
    /\ Outstanding + lateJobs + edits <= MaxPictures
    /\ picker \in {"closed", "open", "loading"}
    /\ auth \in {"authorized", "notDetermined", "asking", "denied"}
    /\ manager \in Managers
    /\ overlap \in BOOLEAN

\* If there is a session manager, usable or not, the shutter button is off only
\* while a picture is on its way that will turn it on again.  (On a device
\* without a camera there is none, and the button stays off once touched, until
\* the scanner is dismissed.)
ShutterOwned ==
    manager # "none" /\ ~shutter =>
      shots + decoding + Count("didCapture") + Count("didFail") > 0

\* While pictures are taken one at a time, auto scan is off on other screens,
\* whatever isEditing says: the camera does not run under them.
AutoScanOffUnlessOverlap == ~overlap /\ ~OnScanner => ~running

\* One picture at a time leads to one edit screen.
OneEditUnlessOverlap == ~overlap => edits <= 1

\* A shutter button that a session manager's picture switched off comes back.
ShutterComesBack == (manager # "none" /\ ~shutter) ~> shutter

\* What CaptureSession.isEditing is for: "needed to disable auto scan on other
\* screens".
AutoScanOnlyOnScanner == [][processStableRectangle /\ shots' > shots => OnScanner]_vars
=============================================================================

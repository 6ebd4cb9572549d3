---------------------------- MODULE FilterScreen ----------------------------
(***************************************************************************)
(* From a photograph to a stored page: the crop screen                     *)
(* (EditScanViewController), the filter screen (EditScanStepTwoVC) and the *)
(* compression of UIImage+Extension.  Cropping, filtering and saving run   *)
(* in the background under a progress HUD that covers the window; their    *)
(* results come back to the main thread and are applied to the screen as   *)
(* it is by then.                                                          *)
(*                                                                         *)
(* An image is what was done to the photograph: the filters and sliders    *)
(* applied to it in order, its quarter turns, and whether, since the crop  *)
(* screen opened, a filter or a rotation failed and silently gave back the *)
(* image it was handed.  One page of the document is followed.  GPUImage,  *)
(* Core Image and the JPEG encoder are external; how large a JPEG is grows *)
(* with its quality.                                                       *)
(***************************************************************************)
EXTENDS Integers, Sequences, FiniteSetsExt

CONSTANTS Filters,    \* PSSettingScannerFilter
          Original,
          Slider,     \* brightness or contrast, laid over the chosen filter
          NoPicture,
          MaxLook     \* bound: filters and sliders a page has been through

ASSUME FiltersAssumption == Original \in Filters /\ Slider \notin Filters
ASSUME LookAssumption == MaxLook \in Nat

VARIABLES picture,        \* the page's row, persisted
          scannerFilter,  \* the setting, persisted
          screen,
          opened,         \* what the screens were opened for
          cropImage,      \* EditScanViewController.image
          rotationAngle,  \* of the crop screen, in quarters
          image,          \* EditScanStepTwoVC.image, after crop and rotation
          selectedIndex,  \* the filter that is marked as chosen
          selectedImage,  \* image under that filter
          scalableImage,  \* what is displayed
          viewAngle,      \* of the displayed image, in quarters
          jobs,           \* work in the background
          asked,          \* history: quarter turns pressed on the two screens
          encoded         \* history: how close the last quality came

crop == <<opened, cropImage, rotationAngle>>
step == <<image, selectedIndex, selectedImage, scalableImage, viewAngle>>
vars == <<picture, scannerFilter, screen, crop, step, jobs, asked, encoded>>

Photo == [look |-> <<>>, turn |-> 0, missed |-> FALSE]

TouchableAlways == TRUE

\* ps_showProgressHUDInWindow: while a job runs the HUD takes every touch.
Touchable == jobs = {}

-----------------------------------------------------------------------------
(* Images.                                                                   *)

RotatedUnsigned(i, quarters) ==
    {[i EXCEPT !.turn = (i.turn + (IF quarters < 0 THEN -quarters ELSE quarters)) % 4]}

\* rotated(by:), the outcome when the image can be drawn.
Rotated(i, quarters) == {[i EXCEPT !.turn = (i.turn + quarters) % 4]}

\* The fallback of the callers, another image that was not turned.
Unturned(i) == {[i EXCEPT !.missed = TRUE]}

\* getFilterImage: a filter without a framebuffer gives the image back.
getFilterImage(i, f) ==
    IF f = Original THEN {i}
    ELSE {[i EXCEPT !.look = Append(@, f)], [i EXCEPT !.missed = TRUE]}

\* formTruncatingRemainder(dividingBy: 360): the sign stays with the angle.
TruncatingRemainder(quarters) ==
    IF quarters < 0 THEN -((-quarters) % 4) ELSE quarters % 4

-----------------------------------------------------------------------------
(* compress(byte:).  Qualities count in 64ths, the finest six halvings       *)
(* reach.  A JPEG is small below quality a (under 0.9 of the limit) and over *)
(* the limit from quality b on; between them it is in the band.              *)

Rounds == 6
Qualities == 0 .. 2^Rounds

Small(q, a) == q < a
Over(q, b) == q >= b

halvedKeepsMax(s, a, b) ==
    LET q == (s.max + s.min) \div 2
    IN  [min |-> IF Small(q, a) THEN q ELSE s.min, max |-> s.max, compression |-> q,
         done |-> ~Small(q, a) /\ ~Over(q, b)]

\* One round of the loop.
halved(s, a, b) ==
    LET q == (s.max + s.min) \div 2
    IN  [min |-> IF Small(q, a) THEN q ELSE s.min,
         max |-> IF ~Small(q, a) /\ Over(q, b) THEN q ELSE s.max,
         compression |-> q,
         done |-> ~Small(q, a) /\ ~Over(q, b)]

bisected(a, b) ==
    LET after[k \in 0 .. Rounds] ==
            IF k = 0 THEN [min |-> 0, max |-> 2^Rounds, compression |-> 2^Rounds,
                           done |-> FALSE]
            ELSE IF after[k - 1].done THEN after[k - 1]
            ELSE halved(after[k - 1], a, b)
    IN  after[Rounds].compression

\* The best quality the loop could have ended on: the reference.
best(b) == Max({q \in Qualities : q < 2^Rounds /\ q < b} \cup {0})

NoLoop == [loop |-> FALSE, inBand |-> FALSE, over |-> FALSE, gap |-> 0]

\* The loop ends in the band, or just beside the limit.  Over the limit, the
\* image is made smaller at that quality until it fits or stops shrinking.
Encoding(a, b) ==
    LET q == bisected(a, b)
        inBand == ~Small(q, a) /\ ~Over(q, b)
    IN  [loop |-> TRUE, inBand |-> inBand, over |-> Over(q, b),
         gap |-> IF inBand THEN 0 ELSE q - best(b)]

\* What can come of a compression: the image already fits (no loop), or it takes
\* the loop, wherever the two limits lie.
compress ==
    {NoLoop} \cup UNION {{Encoding(a, b) : a \in 0 .. b} : b \in 0 .. 2^Rounds + 1}

\* The step compresses nothing.
Unencoded == encoded' = NoLoop

\* The filter screen is not on the stack.
NoStep ==
    /\ image' = Photo /\ selectedIndex' = Original
    /\ selectedImage' = Photo /\ scalableImage' = Photo /\ viewAngle' = 0

NoCrop ==
    /\ cropImage' = Photo /\ rotationAngle' = 0 /\ opened' = "dir"
    /\ asked' = [crop |-> 0, filter |-> 0]

-----------------------------------------------------------------------------
Init ==
    /\ picture = NoPicture
    /\ scannerFilter \in Filters
    /\ screen = "pages" /\ opened = "dir"
    /\ cropImage = Photo /\ rotationAngle = 0
    /\ image = Photo /\ selectedIndex = Original
    /\ selectedImage = Photo /\ scalableImage = Photo /\ viewAngle = 0
    /\ jobs = {}
    /\ asked = [crop |-> 0, filter |-> 0]
    /\ encoded = NoLoop

\* The crop screen opens on a photograph, for a new file in a directory or one
\* more page of a file, or on a stored page that is edited.  (A file with an
\* empty page cannot be opened: PSHomeDocViewController puts a nil image into an
\* array.)
OpenCrop(o) ==
    /\ screen = "pages" /\ Touchable
    /\ o = "edit" => /\ picture # NoPicture /\ ~picture.empty
                     /\ Len(picture.data.look) + 2 <= MaxLook
    /\ screen' = "crop"
    /\ opened' = o
    /\ cropImage' = IF o = "edit" THEN [picture.data EXCEPT !.missed = FALSE] ELSE Photo
    /\ rotationAngle' = 0
    /\ asked' = [crop |-> 0, filter |-> 0]
    /\ Unencoded
    /\ UNCHANGED <<picture, scannerFilter, step, jobs>>

\* leftClick (-1) and rightClick (1).
turnClick(d) ==
    /\ screen = "crop" /\ Touchable
    /\ rotationAngle' = TruncatingRemainder(rotationAngle + d)
    /\ asked' = [asked EXCEPT !.crop = (@ + d) % 4]
    /\ Unencoded
    /\ UNCHANGED <<picture, scannerFilter, screen, opened, cropImage, step, jobs>>

\* The crop goes to the background.  Without a quadrilateral, or when Core Image
\* cannot take the image, didFailWithError is called instead, whose delegates do
\* nothing: the user stays on the crop screen.
pushStepTwoVC ==
    /\ screen = "crop" /\ Touchable
    /\ \E crops \in SUBSET {[kind |-> "crop"]} : jobs' = jobs \cup crops
    /\ Unencoded
    /\ UNCHANGED <<picture, scannerFilter, screen, crop, step, asked>>

\* configDefaultSelectedIndex, in two parts: the filter that is marked, and its
\* image.
defaultIndex ==
    CASE opened = "dir" -> scannerFilter
      [] opened = "edit" -> picture.appliedFilter
      [] OTHER -> Original

configDefaultSelectedIndex(i, f) ==
    /\ selectedIndex' = f
    /\ \E s \in getFilterImage(i, f) : selectedImage' = s /\ scalableImage' = s

\* The background job rotates and compresses, then the main thread pushes the
\* filter screen.  A rotation that fails leaves the screen's own image.
cropDone ==
    /\ \E j \in jobs : j.kind = "crop" /\ jobs' = jobs \ {j}
    /\ \E i \in Rotated(cropImage, rotationAngle) \cup Unturned(cropImage) :
          /\ image' = i
          /\ configDefaultSelectedIndex(i, defaultIndex)
    /\ encoded' \in compress
    /\ viewAngle' = 0
    /\ screen' = "filter"
    /\ asked' = [asked EXCEPT !.filter = 0]
    /\ UNCHANGED <<picture, scannerFilter, crop>>

clickClockwise ==
    /\ screen = "filter" /\ Touchable
    /\ viewAngle' = TruncatingRemainder(viewAngle + 1)
    /\ asked' = [asked EXCEPT !.filter = (@ + 1) % 4]
    /\ Unencoded
    /\ UNCHANGED <<picture, scannerFilter, screen, crop, image, selectedIndex,
                   selectedImage, scalableImage, jobs>>

\* didSelectItemAt: the mark moves at once, the image follows from the
\* background; the original is there at once.
didSelectItemAt(f) ==
    /\ screen = "filter" /\ Touchable
    /\ f # selectedIndex
    /\ selectedIndex' = f
    /\ IF f = Original
       THEN /\ selectedImage' = image /\ scalableImage' = image
            /\ UNCHANGED jobs
       ELSE /\ jobs' = jobs \cup {[kind |-> "filter", filter |-> f]}
            /\ UNCHANGED <<selectedImage, scalableImage>>
    /\ Unencoded
    /\ UNCHANGED <<picture, scannerFilter, screen, crop, image, viewAngle, asked>>

filterDone ==
    /\ \E j \in jobs : /\ j.kind = "filter"
                       /\ jobs' = jobs \ {j}
                       /\ \E s \in getFilterImage(image, j.filter) :
                             selectedImage' = s /\ scalableImage' = s
    /\ Unencoded
    /\ UNCHANGED <<picture, scannerFilter, screen, crop, image, selectedIndex,
                   viewAngle, asked>>

\* filterSliderChangeBlock, of either slider: over the chosen filter, so that
\* moving one slider drops what the other did.
filterSliderChange ==
    /\ screen = "filter" /\ Touchable
    /\ \E s \in {[selectedImage EXCEPT !.look = Append(@, Slider)], selectedImage} :
          scalableImage' = s
    /\ Unencoded
    /\ UNCHANGED <<picture, scannerFilter, screen, crop, image, selectedIndex,
                   selectedImage, viewAngle, jobs, asked>>

\* The displayed image is turned, then compressed and stored in the background.
doneClick ==
    /\ screen = "filter" /\ Touchable
    /\ \E i \in Rotated(scalableImage, viewAngle) \cup Unturned(scalableImage) :
          jobs' = jobs \cup {[kind |-> "save", data |-> i]}
    /\ Unencoded
    /\ UNCHANGED <<picture, scannerFilter, screen, crop, step, asked>>

\* An image no JPEG can be made of is stored as empty data.  The filter is the
\* one marked by now.
saveDone ==
    /\ \E j \in jobs : /\ j.kind = "save"
                       /\ jobs' = jobs \ {j}
                       /\ \E e \in BOOLEAN :
                            /\ picture' = [data |-> j.data,
                                           appliedFilter |-> selectedIndex, empty |-> e]
                            /\ IF e THEN Unencoded ELSE encoded' \in compress
    /\ screen' = "pages"
    /\ NoCrop /\ NoStep
    /\ UNCHANGED scannerFilter

\* Back from the filter screen to the crop screen, and from there to the pages.
goBack ==
    /\ Touchable
    /\ \/ /\ screen = "filter" /\ screen' = "crop"
          /\ asked' = [asked EXCEPT !.filter = 0]
          /\ UNCHANGED crop
       \/ screen = "crop" /\ screen' = "pages" /\ NoCrop
    /\ NoStep
    /\ Unencoded
    /\ UNCHANGED <<picture, scannerFilter, jobs>>

\* The settings screen, and a killed process: what is stored stays.
setScannerFilter(f) ==
    /\ screen = "pages"
    /\ scannerFilter' = f
    /\ Unencoded
    /\ UNCHANGED <<picture, screen, crop, step, jobs, asked>>

Kill ==
    /\ screen' = "pages" /\ jobs' = {}
    /\ NoCrop /\ NoStep /\ Unencoded
    /\ UNCHANGED <<picture, scannerFilter>>

Next ==
    \/ \E o \in {"dir", "file", "edit"} : OpenCrop(o)
    \/ \E d \in {-1, 1} : turnClick(d)
    \/ pushStepTwoVC \/ cropDone \/ clickClockwise
    \/ \E f \in Filters : didSelectItemAt(f) \/ setScannerFilter(f)
    \/ filterDone \/ filterSliderChange \/ doneClick \/ saveDone
    \/ goBack \/ Kill

Spec == Init /\ [][Next]_vars

-----------------------------------------------------------------------------
(* Properties.                                                               *)

LastFilterIs(look, f) ==
    \E k \in DOMAIN look :
       look[k] = f /\ \A l \in DOMAIN look : l > k => look[l] = Slider

\* The filter a stored page is labelled with is the last one its pixels went
\* through, unless a filter or a rotation failed: the label is read when the
\* save returns and the pixels when Done was pressed, and a filter marked on
\* the screen arrives from the background (EditScanStepTwoVC doneClick,
\* didSelectItemAt).
LabelTrue ==
    picture # NoPicture /\ ~picture.data.missed /\ picture.appliedFilter # Original
        => LastFilterIs(picture.data.look, picture.appliedFilter)

\* A page is stored as far turned as the user asked: the turns pressed on the
\* crop screen, which the background job reads, and the turns pressed on the
\* filter screen since it opened, whatever screen was left and entered again.
TurnedAsAsked ==
    [][picture' # picture /\ ~picture'.data.missed
        => picture'.data.turn = (cropImage.turn + asked.crop + asked.filter) % 4]_vars

\* The quality loop ends in the band below the limit, or on the best of the 63
\* qualities, or one step above it, and then the image is made smaller though
\* the quality below would have fitted (compress(byte:)).
QualityBest ==
    encoded.loop /\ ~encoded.inBand => encoded.gap = IF encoded.over THEN 1 ELSE 0

=============================================================================

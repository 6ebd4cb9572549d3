------------------------- MODULE FilterScreenProofs -------------------------
(***************************************************************************)
(* Proofs about the way from a photograph to a stored page, for any set of *)
(* filters and pages of any length.                                        *)
(*                                                                         *)
(* What is stored is decided long before it is written: the label and the  *)
(* turn of a page hold of the images on the screen and in the background   *)
(* jobs (Marked, Turned, JobsOnScreen), which in turn needs that there is  *)
(* one job at a time, because the HUD takes the touches.                   *)
(***************************************************************************)
EXTENDS FilterScreen, TLAPS

-----------------------------------------------------------------------------
(* The quality loop.                                                         *)

First == [min |-> 0, max |-> 2^Rounds, compression |-> 2^Rounds, done |-> FALSE]
Round(s, a, b) == IF s.done THEN s ELSE halved(s, a, b)
Recursion(g, a, b, k) == IF k = 0 THEN First ELSE Round(g[k - 1], a, b)

\* g is the function that bisected defines by recursion.
Loops(g, a, b) == g = [k \in 0..6 |-> Recursion(g, a, b, k)]

\* There is one.
LEMMA LoopDefined ==
  ASSUME NEW a, NEW b
  PROVE  \E g : Loops(g, a, b)
<1> DEFINE s0 == First
           s1 == Round(s0, a, b)
           s2 == Round(s1, a, b)
           s3 == Round(s2, a, b)
           s4 == Round(s3, a, b)
           s5 == Round(s4, a, b)
           s6 == Round(s5, a, b)
           h == [k \in 0..6 |->
                   CASE k = 0 -> s0 [] k = 1 -> s1 [] k = 2 -> s2 [] k = 3 -> s3
                     [] k = 4 -> s4 [] k = 5 -> s5 [] k = 6 -> s6]
<1>1. /\ s1 = Round(s0, a, b) /\ s2 = Round(s1, a, b) /\ s3 = Round(s2, a, b)
      /\ s4 = Round(s3, a, b) /\ s5 = Round(s4, a, b) /\ s6 = Round(s5, a, b)
  OBVIOUS
<1>2. s0 = First
  OBVIOUS
<1> HIDE DEF s0, s1, s2, s3, s4, s5, s6
<1>3. /\ h[0] = s0 /\ h[1] = s1 /\ h[2] = s2 /\ h[3] = s3 /\ h[4] = s4 /\ h[5] = s5
      /\ h[6] = s6
  OBVIOUS
<1>4. h = [k \in 0..6 |-> h[k]]
  OBVIOUS
<1> HIDE DEF h
<1>5. ASSUME NEW k \in 0..6 PROVE h[k] = Recursion(h, a, b, k)
  BY <1>1, <1>2, <1>3 DEF Recursion
<1>6. h = [k \in 0..6 |-> Recursion(h, a, b, k)]
  BY <1>4, <1>5
<1> QED BY <1>6 DEF Loops

\* An interval of width w that still holds the limit, or a quality in the band.
Narrowed(s, w, a, b) ==
    /\ s.done \in BOOLEAN /\ s.compression \in Int
    /\ s.done => ~Small(s.compression, a) /\ ~Over(s.compression, b)
    /\ ~s.done => /\ s.min \in Nat /\ s.max = s.min + w /\ s.max <= 64
                  /\ s.min = 0 \/ Small(s.min, a)
                  /\ s.max = 64 \/ Over(s.max, b)

\* The last quality tried is the end of the interval it belongs to.
Landed(s, a, b) ==
    ~s.done => \/ s.compression = s.min /\ Small(s.min, a)
               \/ s.compression = s.max /\ ~Small(s.max, a) /\ Over(s.max, b)

\* One round halves the interval.
LEMMA RoundNarrows ==
  ASSUME NEW a \in Nat, NEW b \in Nat, a <= b, NEW w \in Nat \ {0}, NEW s,
         Narrowed(s, 2 * w, a, b)
  PROVE  Narrowed(Round(s, a, b), w, a, b) /\ Landed(Round(s, a, b), a, b)
<1>1. CASE s.done
  BY <1>1 DEF Narrowed, Landed, Round
<1>2. CASE ~s.done
  <2> DEFINE q == (s.max + s.min) \div 2
             t == Round(s, a, b)
  <2>1. /\ s.min \in Nat /\ s.max = s.min + 2 * w /\ s.max <= 64
        /\ s.min = 0 \/ s.min < a
        /\ s.max = 64 \/ s.max >= b
    BY <1>2 DEF Narrowed, Small, Over
  <2>2. q = s.min + w
    BY <2>1
  <2>3. t = [min |-> IF q < a THEN q ELSE s.min,
             max |-> IF ~(q < a) /\ q >= b THEN q ELSE s.max,
             compression |-> q,
             done |-> ~(q < a) /\ ~(q >= b)]
    BY <1>2 DEF Round, halved, Small, Over
  <2> HIDE DEF q, t
  <2>4. /\ t.min = (IF q < a THEN q ELSE s.min)
        /\ t.max = (IF ~(q < a) /\ q >= b THEN q ELSE s.max)
        /\ t.compression = q
        /\ (t.done <=> ~(q < a) /\ ~(q >= b)) /\ t.done \in BOOLEAN
    BY <2>3
  <2>5. CASE q < a
    <3>1. ~t.done /\ t.min = q /\ t.max = s.max
      BY <2>4, <2>5
    <3> QED BY <2>1, <2>2, <2>4, <2>5, <3>1 DEF Narrowed, Landed, Small, Over, t
  <2>6. CASE ~(q < a) /\ q >= b
    <3>1. ~t.done /\ t.min = s.min /\ t.max = q
      BY <2>4, <2>6
    <3> QED BY <2>1, <2>2, <2>4, <2>6, <3>1 DEF Narrowed, Landed, Small, Over, t
  <2>7. CASE ~(q < a) /\ ~(q >= b)
    <3>1. t.done
      BY <2>4, <2>7
    <3>2. q \in Int
      BY <2>1, <2>2
    <3> QED BY <2>4, <2>7, <3>1, <3>2 DEF Narrowed, Landed, Small, Over, t
  <2> QED BY <2>5, <2>6, <2>7
<1>3. s.done \in BOOLEAN
  BY DEF Narrowed
<1> QED BY <1>1, <1>2, <1>3

\* Six rounds leave a quality in the band, or the two neighbours at the limit.
LEMMA SixRounds ==
  ASSUME NEW a \in Nat, NEW b \in Nat, a <= b
  PROVE  \E s : bisected(a, b) = s.compression /\ Narrowed(s, 1, a, b) /\ Landed(s, a, b)
<1> DEFINE g == CHOOSE f : Loops(f, a, b)
<1>1. g = [k \in 0..6 |-> Recursion(g, a, b, k)]
  <2>1. \E f : Loops(f, a, b)
    BY LoopDefined
  <2>2. Loops(g, a, b)
    BY <2>1
  <2> QED BY <2>2 DEF Loops
<1>2. bisected(a, b) = g[6].compression
  BY DEF bisected, Loops, Recursion, Round, First, Rounds
<1> HIDE DEF g
<1>3. g[0] = First /\ \A k \in 1..6 : g[k] = Round(g[k - 1], a, b)
  <2>1. \A k \in 0..6 : g[k] = Recursion(g, a, b, k)
    BY <1>1
  <2> QED BY <2>1 DEF Recursion
<1>4. /\ g[1] = Round(g[0], a, b) /\ g[2] = Round(g[1], a, b) /\ g[3] = Round(g[2], a, b)
      /\ g[4] = Round(g[3], a, b) /\ g[5] = Round(g[4], a, b) /\ g[6] = Round(g[5], a, b)
  BY <1>3
<1>5. Narrowed(g[0], 2 * 32, a, b)
  <2>1. 2^Rounds = 64
    BY DEF Rounds
  <2> QED BY <1>3, <2>1 DEF First, Narrowed
<1>6. Narrowed(g[1], 2 * 16, a, b)
  BY <1>4, <1>5, RoundNarrows
<1>7. Narrowed(g[2], 2 * 8, a, b)
  BY <1>4, <1>6, RoundNarrows
<1>8. Narrowed(g[3], 2 * 4, a, b)
  BY <1>4, <1>7, RoundNarrows
<1>9. Narrowed(g[4], 2 * 2, a, b)
  BY <1>4, <1>8, RoundNarrows
<1>10. Narrowed(g[5], 2 * 1, a, b)
  BY <1>4, <1>9, RoundNarrows
<1>11. Narrowed(g[6], 1, a, b) /\ Landed(g[6], a, b)
  BY <1>4, <1>10, RoundNarrows
<1> QED BY <1>2, <1>11

\* The lower neighbour is the reference.
LEMMA BestIs ==
  ASSUME NEW b \in Nat, NEW m \in Nat, m < 64, m = 0 \/ m < b, m + 1 = 64 \/ m + 1 >= b
  PROVE  best(b) = m
<1> DEFINE S == {q \in Qualities : q < 2^Rounds /\ q < b} \cup {0}
<1>1. 2^Rounds = 64 /\ Qualities = 0..64
  BY DEF Qualities, Rounds
<1>2. m \in S /\ \A q \in S : q \in Nat /\ q <= m
  BY <1>1
<1> HIDE DEF S
<1>3. best(b) = CHOOSE x \in S : \A y \in S : x >= y
  BY DEF best, Max, S
<1>4. \A x \in S : (\A y \in S : x >= y) => x = m
  BY <1>2
<1>5. m \in S /\ \A y \in S : m >= y
  BY <1>2
<1> QED BY <1>3, <1>4, <1>5

\* Wherever the limits lie, the loop ends as QualityBest says.
LEMMA EncodingBest ==
  ASSUME NEW e \in compress, e.loop, ~e.inBand
  PROVE  e.gap = IF e.over THEN 1 ELSE 0
<1>1. e # NoLoop
  BY DEF NoLoop
<1>2. PICK b \in 0..(2^Rounds + 1) : e \in {Encoding(a, b) : a \in 0..b}
  BY <1>1 DEF compress
<1> PICK a \in 0..b : e = Encoding(a, b)
  BY <1>2
<1>3. a \in Nat /\ b \in Nat /\ a <= b
  <2>1. 2^Rounds = 64
    BY DEF Rounds
  <2> QED BY <1>2, <2>1
<1> DEFINE q == bisected(a, b)
<1>4. PICK s : q = s.compression /\ Narrowed(s, 1, a, b) /\ Landed(s, a, b)
  BY <1>3, SixRounds
<1> HIDE DEF q
<1>5. /\ ~(~Small(q, a) /\ ~Over(q, b)) /\ (e.over <=> Over(q, b))
      /\ e.gap = q - best(b)
  BY <1>2 DEF Encoding, q
<1>6. ~s.done
  BY <1>4, <1>5 DEF Narrowed
<1>7. /\ s.min \in Nat /\ s.max = s.min + 1 /\ s.max <= 64
      /\ s.min = 0 \/ s.min < a
      /\ s.max = 64 \/ s.max >= b
  BY <1>4, <1>6 DEF Narrowed, Small, Over
<1>8. best(b) = s.min
  BY <1>3, <1>7, BestIs
<1>9. \/ q = s.min /\ q < a
      \/ q = s.max /\ q >= b
  BY <1>4, <1>6 DEF Landed, Small, Over
<1> QED BY <1>3, <1>5, <1>7, <1>8, <1>9 DEF Over

-----------------------------------------------------------------------------
(* Images.                                                                   *)

Images == [look : Seq(Filters \cup {Slider}), turn : 0..3, missed : BOOLEAN]
Pages == [data : Images, appliedFilter : Filters, empty : BOOLEAN]

\* The image is under filter f, as far as nothing failed.
Labelled(i, f) == ~i.missed /\ f # Original => LastFilterIs(i.look, f)

\* The photograph itself.
LEMMA PhotoImage == Photo \in Images
BY DEF Photo, Images

\* A rotation keeps the look; one that fails says so.
LEMMA RotatedImage ==
  ASSUME NEW i \in Images, NEW q \in Int, NEW r \in Rotated(i, q) \cup Unturned(i)
  PROVE  /\ r \in Images /\ r.look = i.look /\ (i.missed => r.missed)
         /\ ~r.missed => r.turn = (i.turn + q) % 4
<1>1. CASE r \in Rotated(i, q)
  <2>1. r = [i EXCEPT !.turn = (i.turn + q) % 4] /\ (i.turn + q) % 4 \in 0..3
    BY <1>1 DEF Rotated, Images
  <2> QED BY <2>1 DEF Images
<1>2. CASE r \in Unturned(i)
  BY <1>2 DEF Unturned, Images
<1> QED BY <1>1, <1>2

\* Appended last, a filter is the last one.
LEMMA AppendedLast ==
  ASSUME NEW look \in Seq(Filters \cup {Slider}), NEW f \in Filters
  PROVE  LastFilterIs(Append(look, f), f)
<1>1. /\ DOMAIN Append(look, f) = 1..(Len(look) + 1) /\ Len(look) \in Nat
      /\ Append(look, f)[Len(look) + 1] = f
  OBVIOUS
<1> QED BY <1>1 DEF LastFilterIs

\* A slider does not count.
LEMMA SliderLast ==
  ASSUME NEW look \in Seq(Filters \cup {Slider}), NEW f \in Filters, LastFilterIs(look, f)
  PROVE  LastFilterIs(Append(look, Slider), f)
<1> DEFINE r == Append(look, Slider)
<1>1. /\ DOMAIN r = 1..(Len(look) + 1) /\ Len(look) \in Nat /\ DOMAIN look = 1..Len(look)
      /\ r[Len(look) + 1] = Slider /\ \A k \in DOMAIN look : r[k] = look[k]
  OBVIOUS
<1>2. PICK k \in DOMAIN look :
        look[k] = f /\ \A l \in DOMAIN look : l > k => look[l] = Slider
  BY DEF LastFilterIs
<1> HIDE DEF r
<1>3. ASSUME NEW l \in DOMAIN r, l > k PROVE r[l] = Slider
  <2>1. CASE l \in DOMAIN look
    BY <1>1, <1>2, <1>3, <2>1
  <2>2. CASE l = Len(look) + 1
    BY <1>1, <2>2
  <2> QED BY <1>1, <2>1, <2>2
<1>4. k \in DOMAIN r /\ r[k] = f
  BY <1>1, <1>2
<1> QED BY <1>3, <1>4 DEF LastFilterIs, r

\* A filter keeps the turn; one that fails says so.
LEMMA FilteredImage ==
  ASSUME NEW i \in Images, NEW f \in Filters, NEW r \in getFilterImage(i, f)
  PROVE  /\ r \in Images /\ r.turn = i.turn /\ (i.missed => r.missed) /\ Labelled(r, f)
<1>1. CASE f = Original
  BY <1>1 DEF getFilterImage, Labelled
<1>2. CASE f # Original /\ r = [i EXCEPT !.look = Append(i.look, f)]
  <2>1. i.look \in Seq(Filters \cup {Slider})
    BY DEF Images
  <2>2. Append(i.look, f) \in Seq(Filters \cup {Slider})
    BY <2>1
  <2>3. r \in Images /\ r.turn = i.turn /\ r.missed = i.missed /\ r.look = Append(i.look, f)
    BY <1>2, <2>2 DEF Images
  <2> QED BY <2>1, <2>3, AppendedLast DEF Labelled
<1>3. CASE r = [i EXCEPT !.missed = TRUE]
  BY <1>3 DEF Images, Labelled
<1> QED BY <1>1, <1>2, <1>3 DEF getFilterImage

\* A slider is laid over the chosen filter.
LEMMA SlidImage ==
  ASSUME NEW i \in Images, NEW f \in Filters, Labelled(i, f),
         NEW r \in {[i EXCEPT !.look = Append(@, Slider)], i}
  PROVE  /\ r \in Images /\ r.turn = i.turn /\ (i.missed => r.missed) /\ Labelled(r, f)
<1>1. CASE r = [i EXCEPT !.look = Append(i.look, Slider)]
  <2>1. i.look \in Seq(Filters \cup {Slider})
    BY DEF Images
  <2>2. Append(i.look, Slider) \in Seq(Filters \cup {Slider})
    BY <2>1
  <2>3. /\ r \in Images /\ r.turn = i.turn /\ r.missed = i.missed
        /\ r.look = Append(i.look, Slider)
    BY <1>1, <2>2 DEF Images
  <2> QED BY <2>1, <2>3, SliderLast DEF Labelled
<1>2. CASE r = i
  BY <1>2
<1> QED BY <1>1, <1>2

\* Turning a screen's angle and counting the press agree.
LEMMA Turning ==
  ASSUME NEW angle \in -3..3, NEW n \in 0..3, angle % 4 = n, NEW d \in {-1, 1}
  PROVE  /\ TruncatingRemainder(angle + d) \in -3..3
         /\ (n + d) % 4 \in 0..3
         /\ TruncatingRemainder(angle + d) % 4 = (n + d) % 4
BY DEF TruncatingRemainder

\* An angle may be replaced by the number of turns it stands for.
LEMMA Quarters ==
  ASSUME NEW x \in 0..3, NEW y \in 0..3, NEW n \in 0..3, NEW angle \in -3..3, angle % 4 = n
  PROVE  /\ (x + angle) % 4 = (x + n) % 4
         /\ (((x + y) % 4) + angle) % 4 = (x + y + n) % 4
OBVIOUS

-----------------------------------------------------------------------------
(* The inductive invariant.                                                  *)

Types ==
    /\ picture = NoPicture \/ picture \in Pages
    /\ scannerFilter \in Filters
    /\ screen \in {"pages", "crop", "filter"}
    /\ opened \in {"dir", "file", "edit"}
    /\ opened = "edit" => picture \in Pages
    /\ cropImage \in Images /\ image \in Images
    /\ selectedImage \in Images /\ scalableImage \in Images
    /\ selectedIndex \in Filters
    /\ rotationAngle \in -3..3 /\ viewAngle \in -3..3
    /\ asked \in [crop : 0..3, filter : 0..3]
    /\ encoded \in compress

\* How far the finished page has to be turned.
Wanted == (cropImage.turn + asked.crop + asked.filter) % 4

\* One job at a time, for the screen that is shown.
JobsOnScreen ==
    /\ \A j, k \in jobs : j = k
    /\ \A j \in jobs :
         /\ j.kind \in {"crop", "filter", "save"}
         /\ j.kind = "crop" => screen = "crop"
         /\ j.kind = "filter" => screen = "filter" /\ j.filter = selectedIndex
         /\ j.kind = "save" => /\ screen = "filter" /\ j.data \in Images
                               /\ Labelled(j.data, selectedIndex)
                               /\ ~j.data.missed => j.data.turn = Wanted

\* The displayed images are under the filter that is marked, but while the
\* background applies it.
Marked ==
    screen = "filter" /\ (\A j \in jobs : j.kind # "filter")
      => Labelled(selectedImage, selectedIndex) /\ Labelled(scalableImage, selectedIndex)

\* The angles of the screens are the turns that were pressed, and the images are
\* turned as the crop screen asked.
Turned ==
    /\ rotationAngle % 4 = asked.crop
    /\ screen = "filter" =>
         /\ viewAngle % 4 = asked.filter
         /\ ~image.missed => image.turn = (cropImage.turn + asked.crop) % 4
         /\ selectedImage.turn = image.turn /\ (image.missed => selectedImage.missed)
         /\ scalableImage.turn = image.turn /\ (image.missed => scalableImage.missed)

IInv == Types /\ JobsOnScreen /\ Marked /\ Turned /\ LabelTrue

\* The app has been launched.
LEMMA InitIInv == Init => IInv
<1> SUFFICES ASSUME Init PROVE IInv
  OBVIOUS
<1>1. NoLoop \in compress
  BY DEF compress
<1>2. asked \in [crop : 0..3, filter : 0..3]
  BY DEF Init
<1>3. Types
  BY <1>1, <1>2, FiltersAssumption, PhotoImage DEF Init, Types
<1>4. JobsOnScreen /\ Marked /\ LabelTrue
  BY DEF Init, JobsOnScreen, Marked, LabelTrue
<1>5. Turned
  <2>1. rotationAngle = 0 /\ asked.crop = 0 /\ screen = "pages"
    BY DEF Init
  <2> QED BY <2>1 DEF Turned
<1> QED BY <1>3, <1>4, <1>5 DEF IInv

\* Leaving both screens, with nothing in the background.
LEMMA ScreensLeft ==
  ASSUME IInv, NoCrop, NoStep, screen' = "pages", jobs' = {}, encoded' \in compress,
         UNCHANGED scannerFilter, picture' = NoPicture \/ picture' \in Pages, LabelTrue'
  PROVE  IInv'
<1>1. asked' \in [crop : 0..3, filter : 0..3] /\ asked'.crop = 0
  BY DEF NoCrop
<1>2. Types'
  BY <1>1, FiltersAssumption, PhotoImage DEF IInv, Types, NoCrop, NoStep
<1>3. JobsOnScreen' /\ Marked'
  BY DEF JobsOnScreen, Marked
<1>4. Turned'
  BY <1>1 DEF Turned, NoCrop
<1> QED BY <1>2, <1>3, <1>4 DEF IInv

\* The step leaves the page, its row and the setting alone.
LEMMA RowKept ==
  ASSUME LabelTrue, UNCHANGED picture
  PROVE  LabelTrue'
BY DEF LabelTrue

\* The crop screen opens.
LEMMA OpenCropIInv ==
  ASSUME IInv, NEW o \in {"dir", "file", "edit"}, OpenCrop(o)
  PROVE  IInv'
<1>1. /\ UNCHANGED <<picture, scannerFilter, image, selectedIndex, selectedImage,
                     scalableImage, viewAngle>>
      /\ jobs = {} /\ jobs' = {} /\ screen' = "crop" /\ opened' = o /\ rotationAngle' = 0
      /\ asked' = [crop |-> 0, filter |-> 0] /\ encoded' = NoLoop
      /\ (o = "edit" => picture \in Pages)
      /\ cropImage' = IF o = "edit" THEN [picture.data EXCEPT !.missed = FALSE] ELSE Photo
  BY DEF IInv, Types, OpenCrop, Touchable, Unencoded, step
<1>2. cropImage' \in Images
  <2>1. CASE o = "edit"
    <3>1. picture.data \in Images
      BY <1>1, <2>1 DEF Pages
    <3> QED BY <1>1, <2>1, <3>1 DEF Images
  <2> QED BY <1>1, <2>1, PhotoImage
<1>3. asked' \in [crop : 0..3, filter : 0..3] /\ asked'.crop = 0
  BY <1>1
<1>4. encoded' \in compress
  BY <1>1 DEF compress
<1>5. Types'
  BY <1>1, <1>2, <1>3, <1>4 DEF IInv, Types
<1>6. JobsOnScreen' /\ Marked'
  BY <1>1 DEF JobsOnScreen, Marked
<1>7. Turned'
  BY <1>1, <1>3 DEF Turned
<1> QED BY <1>1, <1>5, <1>6, <1>7, RowKept DEF IInv

\* A turn on the crop screen.
LEMMA turnClickIInv ==
  ASSUME IInv, NEW d \in {-1, 1}, turnClick(d)
  PROVE  IInv'
<1>1. /\ UNCHANGED <<picture, scannerFilter, screen, opened, cropImage, image, selectedIndex,
                     selectedImage, scalableImage, viewAngle>>
      /\ jobs = {} /\ jobs' = {} /\ screen = "crop"
      /\ rotationAngle' = TruncatingRemainder(rotationAngle + d)
      /\ asked' = [asked EXCEPT !.crop = (asked.crop + d) % 4] /\ encoded' = NoLoop
  BY DEF turnClick, Touchable, Unencoded, step
<1>2. rotationAngle \in -3..3 /\ asked.crop \in 0..3 /\ rotationAngle % 4 = asked.crop
  BY DEF IInv, Types, Turned
<1>3. /\ rotationAngle' \in -3..3 /\ (asked.crop + d) % 4 \in 0..3
      /\ rotationAngle' % 4 = (asked.crop + d) % 4
  BY <1>1, <1>2, Turning
<1>4. asked' \in [crop : 0..3, filter : 0..3] /\ asked'.crop = (asked.crop + d) % 4
  BY <1>1, <1>3 DEF IInv, Types
<1>5. encoded' \in compress
  BY <1>1 DEF compress
<1>6. Types'
  BY <1>1, <1>3, <1>4, <1>5 DEF IInv, Types
<1>7. JobsOnScreen' /\ Marked'
  BY <1>1 DEF JobsOnScreen, Marked
<1>8. Turned'
  BY <1>1, <1>3, <1>4 DEF Turned
<1> QED BY <1>1, <1>6, <1>7, <1>8, RowKept DEF IInv

\* Cropping goes to the background, or is refused.
LEMMA pushStepTwoVCIInv ==
  ASSUME IInv, pushStepTwoVC
  PROVE  IInv'
<1>1. /\ UNCHANGED <<picture, scannerFilter, screen, opened, cropImage, rotationAngle, image,
                     selectedIndex, selectedImage, scalableImage, viewAngle, asked>>
      /\ jobs' \in SUBSET {[kind |-> "crop"]} /\ screen = "crop" /\ encoded' = NoLoop
  BY DEF pushStepTwoVC, Touchable, Unencoded, step, crop
<1>2. encoded' \in compress
  BY <1>1 DEF compress
<1>3. Types'
  BY <1>1, <1>2 DEF IInv, Types
<1>4. JobsOnScreen' /\ Marked'
  BY <1>1 DEF JobsOnScreen, Marked
<1>5. Turned'
  BY <1>1 DEF IInv, Turned
<1> QED BY <1>1, <1>3, <1>4, <1>5, RowKept DEF IInv

\* The filter screen is pushed with the cropped image.
LEMMA cropDoneIInv ==
  ASSUME IInv, cropDone
  PROVE  IInv'
<1>1. /\ UNCHANGED <<picture, scannerFilter, opened, cropImage, rotationAngle>>
      /\ encoded' \in compress /\ viewAngle' = 0 /\ screen' = "filter"
      /\ asked' = [asked EXCEPT !.filter = 0]
  BY DEF cropDone, crop
<1>2. jobs' = {}
  <2>1. PICK j \in jobs : jobs' = jobs \ {j}
    BY DEF cropDone
  <2> QED BY <2>1 DEF IInv, JobsOnScreen
<1>3. PICK i \in Rotated(cropImage, rotationAngle) \cup Unturned(cropImage) :
        image' = i /\ configDefaultSelectedIndex(i, defaultIndex)
  BY DEF cropDone
<1>4. cropImage \in Images /\ rotationAngle \in -3..3 /\ rotationAngle \in Int
  BY DEF IInv, Types
<1>5. /\ i \in Images
      /\ ~i.missed => i.turn = (cropImage.turn + rotationAngle) % 4
  BY <1>3, <1>4, RotatedImage
<1>6. defaultIndex \in Filters
  <2>1. picture \in Pages => picture.appliedFilter \in Filters
    BY DEF Pages
  <2> QED BY <2>1, FiltersAssumption DEF IInv, Types, defaultIndex
<1>7. PICK s \in getFilterImage(i, defaultIndex) :
        selectedIndex' = defaultIndex /\ selectedImage' = s /\ scalableImage' = s
  BY <1>3 DEF configDefaultSelectedIndex
<1>8. s \in Images /\ s.turn = i.turn /\ (i.missed => s.missed) /\ Labelled(s, defaultIndex)
  BY <1>5, <1>6, <1>7, FilteredImage
<1>9. /\ asked' \in [crop : 0..3, filter : 0..3] /\ asked'.crop = asked.crop
      /\ asked'.filter = 0
  BY <1>1 DEF IInv, Types
<1>10. Types'
  BY <1>1, <1>3, <1>4, <1>5, <1>6, <1>7, <1>8, <1>9 DEF IInv, Types
<1>11. JobsOnScreen'
  BY <1>2 DEF JobsOnScreen
<1>12. Marked'
  BY <1>7, <1>8 DEF Marked, Labelled
<1>13. Turned'
  <2>1. cropImage.turn \in 0..3 /\ asked.crop \in 0..3 /\ rotationAngle % 4 = asked.crop
    BY <1>4 DEF IInv, Types, Turned, Images
  <2>2. (cropImage.turn + rotationAngle) % 4 = (cropImage.turn + asked.crop) % 4
    BY <1>4, <2>1, Quarters, ZenonT(60)
  <2>3. viewAngle' % 4 = asked'.filter
    BY <1>1, <1>9
  <2> QED BY <1>1, <1>3, <1>5, <1>7, <1>8, <1>9, <2>1, <2>2, <2>3 DEF Turned
<1> QED BY <1>1, <1>10, <1>11, <1>12, <1>13, RowKept DEF IInv

\* A turn on the filter screen.
LEMMA clickClockwiseIInv ==
  ASSUME IInv, clickClockwise
  PROVE  IInv'
<1>1. /\ UNCHANGED <<picture, scannerFilter, screen, opened, cropImage, rotationAngle, image,
                     selectedIndex, selectedImage, scalableImage>>
      /\ jobs = {} /\ jobs' = {} /\ screen = "filter"
      /\ viewAngle' = TruncatingRemainder(viewAngle + 1)
      /\ asked' = [asked EXCEPT !.filter = (asked.filter + 1) % 4] /\ encoded' = NoLoop
  BY DEF clickClockwise, Touchable, Unencoded, crop
<1>2. viewAngle \in -3..3 /\ asked.filter \in 0..3 /\ viewAngle % 4 = asked.filter
  BY <1>1 DEF IInv, Types, Turned
<1>3. /\ viewAngle' \in -3..3 /\ (asked.filter + 1) % 4 \in 0..3
      /\ viewAngle' % 4 = (asked.filter + 1) % 4
  BY <1>1, <1>2, Turning
<1>4. /\ asked' \in [crop : 0..3, filter : 0..3] /\ asked'.filter = (asked.filter + 1) % 4
      /\ asked'.crop = asked.crop
  BY <1>1, <1>3 DEF IInv, Types
<1>5. encoded' \in compress
  BY <1>1 DEF compress
<1>6. Types'
  BY <1>1, <1>3, <1>4, <1>5 DEF IInv, Types
<1>7. JobsOnScreen'
  BY <1>1 DEF JobsOnScreen
<1>8. Marked'
  BY <1>1 DEF IInv, Marked, Labelled
<1>9. Turned'
  BY <1>1, <1>3, <1>4 DEF IInv, Turned
<1> QED BY <1>1, <1>6, <1>7, <1>8, <1>9, RowKept DEF IInv

\* Another filter is marked.
LEMMA didSelectItemAtIInv ==
  ASSUME IInv, NEW f \in Filters, didSelectItemAt(f)
  PROVE  IInv'
<1>1. /\ UNCHANGED <<picture, scannerFilter, screen, opened, cropImage, rotationAngle, image,
                     viewAngle, asked>>
      /\ jobs = {} /\ screen = "filter" /\ selectedIndex' = f /\ encoded' = NoLoop
  BY DEF didSelectItemAt, Touchable, Unencoded, crop
<1>2. encoded' \in compress
  BY <1>1 DEF compress
<1>3. CASE f = Original
  <2>1. selectedImage' = image /\ scalableImage' = image /\ jobs' = {}
    BY <1>1, <1>3 DEF didSelectItemAt
  <2>2. Types'
    BY <1>1, <1>2, <2>1 DEF IInv, Types
  <2>3. JobsOnScreen' /\ Marked'
    BY <1>1, <1>3, <2>1 DEF JobsOnScreen, Marked, Labelled
  <2>4. Turned'
    BY <1>1, <2>1 DEF IInv, Turned
  <2> QED BY <1>1, <2>2, <2>3, <2>4, RowKept DEF IInv
<1>4. CASE f # Original
  <2>1. /\ UNCHANGED <<selectedImage, scalableImage>>
        /\ jobs' = {[kind |-> "filter", filter |-> f]}
    BY <1>1, <1>4 DEF didSelectItemAt
  <2>2. Types'
    BY <1>1, <1>2, <2>1 DEF IInv, Types
  <2>3. JobsOnScreen' /\ Marked'
    BY <1>1, <2>1 DEF JobsOnScreen, Marked
  <2>4. Turned'
    BY <1>1, <2>1 DEF IInv, Turned
  <2> QED BY <1>1, <2>2, <2>3, <2>4, RowKept DEF IInv
<1> QED BY <1>3, <1>4

\* The filtered image arrives.
LEMMA filterDoneIInv ==
  ASSUME IInv, filterDone
  PROVE  IInv'
<1>1. /\ UNCHANGED <<picture, scannerFilter, screen, opened, cropImage, rotationAngle, image,
                     selectedIndex, viewAngle, asked>>
      /\ encoded' = NoLoop
  BY DEF filterDone, Unencoded, crop
<1>2. PICK j \in jobs : /\ j.kind = "filter" /\ jobs' = jobs \ {j}
                        /\ \E s \in getFilterImage(image, j.filter) :
                             selectedImage' = s /\ scalableImage' = s
  BY DEF filterDone
<1>3. jobs' = {} /\ screen = "filter" /\ j.filter = selectedIndex
  BY <1>2 DEF IInv, JobsOnScreen
<1>4. PICK s \in getFilterImage(image, selectedIndex) :
        selectedImage' = s /\ scalableImage' = s
  BY <1>2, <1>3
<1>5. /\ s \in Images /\ s.turn = image.turn /\ (image.missed => s.missed)
      /\ Labelled(s, selectedIndex)
  BY <1>4, FilteredImage DEF IInv, Types
<1>6. encoded' \in compress
  BY <1>1 DEF compress
<1>7. Types'
  BY <1>1, <1>4, <1>5, <1>6 DEF IInv, Types
<1>8. JobsOnScreen'
  BY <1>3 DEF JobsOnScreen
<1>9. Marked'
  BY <1>1, <1>4, <1>5 DEF Marked, Labelled
<1>10. Turned'
  BY <1>1, <1>3, <1>4, <1>5 DEF IInv, Turned
<1> QED BY <1>1, <1>7, <1>8, <1>9, <1>10, RowKept DEF IInv

\* A slider is moved.
LEMMA filterSliderChangeIInv ==
  ASSUME IInv, filterSliderChange
  PROVE  IInv'
<1>1. /\ UNCHANGED <<picture, scannerFilter, screen, opened, cropImage, rotationAngle, image,
                     selectedIndex, selectedImage, viewAngle, asked>>
      /\ jobs = {} /\ jobs' = {} /\ screen = "filter" /\ encoded' = NoLoop
  BY DEF filterSliderChange, Touchable, Unencoded, crop
<1>2. PICK s \in {[selectedImage EXCEPT !.look = Append(@, Slider)], selectedImage} :
        scalableImage' = s
  BY DEF filterSliderChange
<1>3. /\ s \in Images /\ s.turn = selectedImage.turn /\ (selectedImage.missed => s.missed)
      /\ Labelled(s, selectedIndex)
  BY <1>1, <1>2, SlidImage DEF IInv, Types, Marked
<1>4. encoded' \in compress
  BY <1>1 DEF compress
<1>5. Types'
  BY <1>1, <1>2, <1>3, <1>4 DEF IInv, Types
<1>6. JobsOnScreen'
  BY <1>1 DEF JobsOnScreen
<1>7. Marked'
  BY <1>1, <1>2, <1>3 DEF IInv, Marked, Labelled
<1>8. Turned'
  BY <1>1, <1>2, <1>3 DEF IInv, Turned
<1> QED BY <1>1, <1>5, <1>6, <1>7, <1>8, RowKept DEF IInv

\* The displayed image goes to the background to be stored.
LEMMA doneClickIInv ==
  ASSUME IInv, doneClick
  PROVE  IInv'
<1>1. /\ UNCHANGED <<picture, scannerFilter, screen, opened, cropImage, rotationAngle, image,
                     selectedIndex, selectedImage, scalableImage, viewAngle, asked>>
      /\ jobs = {} /\ screen = "filter" /\ encoded' = NoLoop
  BY DEF doneClick, Touchable, Unencoded, crop, step
<1>2. PICK i \in Rotated(scalableImage, viewAngle) \cup Unturned(scalableImage) :
        jobs' = {[kind |-> "save", data |-> i]}
  BY <1>1 DEF doneClick
<1>3. /\ scalableImage \in Images /\ viewAngle \in -3..3 /\ viewAngle \in Int
      /\ Labelled(scalableImage, selectedIndex)
  BY <1>1 DEF IInv, Types, Marked
<1>4. /\ i \in Images /\ i.look = scalableImage.look /\ (scalableImage.missed => i.missed)
      /\ ~i.missed => i.turn = (scalableImage.turn + viewAngle) % 4
  BY <1>2, <1>3, RotatedImage
<1>5. Labelled(i, selectedIndex)
  BY <1>3, <1>4 DEF Labelled
<1>6. ~i.missed => i.turn = Wanted
  <2>1. /\ viewAngle % 4 = asked.filter /\ scalableImage.turn = image.turn
        /\ image.missed => scalableImage.missed
        /\ ~image.missed => image.turn = (cropImage.turn + asked.crop) % 4
    BY <1>1 DEF IInv, Turned
  <2>2. cropImage.turn \in 0..3 /\ asked.crop \in 0..3 /\ asked.filter \in 0..3
    BY DEF IInv, Types, Images
  <2> SUFFICES ASSUME ~i.missed PROVE i.turn = Wanted
    OBVIOUS
  <2>3. ~image.missed
    BY <1>3, <1>4, <2>1 DEF IInv, Types, Images
  <2>4. i.turn = (((cropImage.turn + asked.crop) % 4) + viewAngle) % 4
    BY <1>4, <2>1, <2>3
  <2> QED BY <1>3, <2>1, <2>2, <2>4, Quarters, ZenonT(60) DEF Wanted
<1>7. encoded' \in compress
  BY <1>1 DEF compress
<1>8. Types'
  BY <1>1, <1>7 DEF IInv, Types
<1>9. JobsOnScreen'
  <2>1. Wanted' = Wanted /\ screen' = "filter" /\ selectedIndex' = selectedIndex
    BY <1>1 DEF Wanted
  <2>2. Labelled(i, selectedIndex)'
    BY <1>1, <1>5 DEF Labelled
  <2> QED BY <1>2, <1>4, <1>5, <1>6, <2>1 DEF JobsOnScreen, Labelled
<1>10. Marked'
  BY <1>1, <1>2 DEF IInv, Marked, Labelled
<1>11. Turned'
  BY <1>1 DEF IInv, Turned
<1> QED BY <1>1, <1>8, <1>9, <1>10, <1>11, RowKept DEF IInv

\* The page is stored.
LEMMA saveDoneIInv ==
  ASSUME IInv, saveDone
  PROVE  IInv'
<1>1. /\ UNCHANGED scannerFilter /\ screen' = "pages" /\ NoCrop /\ NoStep
  BY DEF saveDone
<1>2. PICK j \in jobs :
        /\ j.kind = "save" /\ jobs' = jobs \ {j}
        /\ \E e \in BOOLEAN :
             /\ picture' = [data |-> j.data, appliedFilter |-> selectedIndex, empty |-> e]
             /\ IF e THEN Unencoded ELSE encoded' \in compress
  BY DEF saveDone
<1>3. jobs' = {} /\ j.data \in Images /\ Labelled(j.data, selectedIndex)
  BY <1>2 DEF IInv, JobsOnScreen
<1>4. PICK e \in BOOLEAN :
        /\ picture' = [data |-> j.data, appliedFilter |-> selectedIndex, empty |-> e]
        /\ IF e THEN Unencoded ELSE encoded' \in compress
  BY <1>2
<1>5. encoded' \in compress
  BY <1>4 DEF Unencoded, compress
<1>6. picture' \in Pages /\ picture'.data = j.data /\ picture'.appliedFilter = selectedIndex
  BY <1>3, <1>4 DEF IInv, Types, Pages
<1>7. LabelTrue'
  BY <1>3, <1>6 DEF LabelTrue, Labelled
<1> QED BY <1>1, <1>3, <1>5, <1>6, <1>7, ScreensLeft

\* Back.
LEMMA goBackIInv ==
  ASSUME IInv, goBack
  PROVE  IInv'
<1>1. /\ UNCHANGED <<picture, scannerFilter>> /\ jobs = {} /\ jobs' = {} /\ NoStep
      /\ encoded' = NoLoop
  BY DEF goBack, Touchable, Unencoded
<1>2. encoded' \in compress
  BY <1>1 DEF compress
<1>3. CASE /\ screen = "filter" /\ screen' = "crop" /\ UNCHANGED crop
           /\ asked' = [asked EXCEPT !.filter = 0]
  <2>1. asked' \in [crop : 0..3, filter : 0..3] /\ asked'.crop = asked.crop
    BY <1>3 DEF IInv, Types
  <2>2. Types'
    BY <1>1, <1>2, <1>3, <2>1, FiltersAssumption, PhotoImage DEF IInv, Types, NoStep, crop
  <2>3. JobsOnScreen' /\ Marked'
    BY <1>1, <1>3 DEF JobsOnScreen, Marked
  <2>4. Turned'
    BY <1>3, <2>1 DEF IInv, Turned, crop
  <2> QED BY <1>1, <2>2, <2>3, <2>4, RowKept DEF IInv
<1>4. CASE screen = "crop" /\ screen' = "pages" /\ NoCrop
  <2>1. LabelTrue' /\ (picture' = NoPicture \/ picture' \in Pages)
    BY <1>1, RowKept DEF IInv, Types
  <2> QED BY <1>1, <1>2, <1>4, <2>1, ScreensLeft
<1> QED BY <1>3, <1>4 DEF goBack

\* Every step keeps the invariant.
LEMMA NextIInv == IInv /\ [Next]_vars => IInv'
<1> SUFFICES ASSUME IInv, [Next]_vars PROVE IInv'
  OBVIOUS
<1>1. ASSUME UNCHANGED <<picture, screen, crop, step, jobs, asked>>, scannerFilter' \in Filters,
             encoded' \in compress
      PROVE  IInv'
  <2>1. Types'
    BY <1>1 DEF IInv, Types, crop, step
  <2>2. JobsOnScreen'
    BY <1>1 DEF IInv, JobsOnScreen, Wanted, Labelled, crop, step
  <2>3. Marked'
    BY <1>1 DEF IInv, Marked, Labelled, crop, step
  <2>4. Turned'
    BY <1>1 DEF IInv, Turned, crop, step
  <2> QED BY <1>1, <2>1, <2>2, <2>3, <2>4, RowKept DEF IInv
<1>2. CASE UNCHANGED vars
  BY <1>1, <1>2 DEF IInv, Types, vars
<1>3. ASSUME NEW f \in Filters, setScannerFilter(f) PROVE IInv'
  BY <1>1, <1>3 DEF setScannerFilter, Unencoded, compress
<1>4. CASE Kill
  <2>1. LabelTrue' /\ (picture' = NoPicture \/ picture' \in Pages)
    BY <1>4, RowKept DEF IInv, Types, Kill
  <2>2. encoded' \in compress
    BY <1>4 DEF Kill, Unencoded, compress
  <2> QED BY <1>4, <2>1, <2>2, ScreensLeft DEF Kill
<1> QED
  BY <1>2, <1>3, <1>4, OpenCropIInv, turnClickIInv, pushStepTwoVCIInv, cropDoneIInv,
     clickClockwiseIInv, didSelectItemAtIInv, filterDoneIInv, filterSliderChangeIInv,
     doneClickIInv, saveDoneIInv, goBackIInv
  DEF Next

\* The invariant holds throughout.
LEMMA Invariance == Spec => []IInv
<1> QED BY InitIInv, NextIInv, PTL DEF Spec

-----------------------------------------------------------------------------
(* The theorems.                                                             *)

\* The filter a stored page is labelled with is the last one its pixels went
\* through, though the label is read when the save returns and the pixels when
\* Done was pressed.
THEOREM LabelAlwaysTrue == Spec => []LabelTrue
<1>1. IInv => LabelTrue
  BY DEF IInv
<1> QED BY <1>1, Invariance, PTL

\* The quality loop of compress(byte:) ends in the band, or on the best quality,
\* or one above it.
THEOREM QualityAlwaysBest == Spec => []QualityBest
<1>1. IInv => QualityBest
  BY EncodingBest DEF IInv, Types, QualityBest
<1> QED BY <1>1, Invariance, PTL

\* A page is stored as far turned as the user asked on the two screens.
THEOREM AlwaysTurnedAsAsked == Spec => TurnedAsAsked
<1> DEFINE A == picture' # picture /\ ~picture'.data.missed
                  => picture'.data.turn = (cropImage.turn + asked.crop + asked.filter) % 4
<1>1. IInv /\ [Next]_vars => [A]_vars
  <2> SUFFICES ASSUME IInv, Next, picture' # picture, ~picture'.data.missed
               PROVE  picture'.data.turn = Wanted
    BY DEF Wanted
  <2>1. saveDone
    BY DEF Next, OpenCrop, turnClick, pushStepTwoVC, cropDone, clickClockwise,
           didSelectItemAt, setScannerFilter, filterDone, filterSliderChange, doneClick,
           goBack, Kill
  <2>2. PICK j \in jobs : j.kind = "save" /\ picture'.data = j.data
    BY <2>1 DEF saveDone
  <2> QED BY <2>2 DEF IInv, JobsOnScreen
<1> QED BY <1>1, Invariance, PTL DEF Spec, TurnedAsAsked
=============================================================================

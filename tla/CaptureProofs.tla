---------------------------- MODULE CaptureProofs ----------------------------
(***************************************************************************)
(* Proofs about the camera screen, for all thresholds and bounds.          *)
(*                                                                         *)
(* ShutterOwned rests on what a scanner without a session manager never    *)
(* has: a start on its queue, a photograph, a permission alert             *)
(* (Authorization).  What holds while pictures are taken one at a time     *)
(* needs more of the main queue: how many closures of each kind it holds   *)
(* (the lemmas on Number) and that the session's start is never behind a   *)
(* picked image (PickedLast), which would leave the camera running under   *)
(* its edit screen.                                                        *)
(***************************************************************************)
EXTENDS Capture, FiniteSetTheorems, TLAPS

-----------------------------------------------------------------------------
(* How many closures of a kind a queue holds.                                *)

Places(q, c) == {k \in DOMAIN q : q[k] = c}
Number(q, c) == Cardinality(Places(q, c))

\* A queue holds finitely many of each.
LEMMA NumberType ==
  ASSUME NEW q \in Seq(Closures), NEW c
  PROVE  IsFiniteSet(Places(q, c)) /\ Number(q, c) \in Nat
<1>1. DOMAIN q = 1..Len(q) /\ Len(q) \in Nat
  OBVIOUS
<1>2. IsFiniteSet(1..Len(q))
  BY <1>1, FS_Interval
<1>3. IsFiniteSet(Places(q, c))
  BY <1>1, <1>2, FS_Subset DEF Places
<1> QED BY <1>3, FS_CardinalityType DEF Number

\* None of a kind, or one somewhere.
LEMMA NumberZero ==
  ASSUME NEW q \in Seq(Closures), NEW c
  PROVE  Number(q, c) = 0 <=> \A k \in DOMAIN q : q[k] # c
<1>1. Number(q, c) = 0 <=> Places(q, c) = {}
  BY NumberType, FS_EmptySet DEF Number
<1> QED BY <1>1 DEF Places

\* dispatchMain adds one closure at the end.
LEMMA NumberAppend ==
  ASSUME NEW q \in Seq(Closures), NEW x \in Closures, NEW c
  PROVE  Number(Append(q, x), c) = Number(q, c) + (IF x = c THEN 1 ELSE 0)
<1> DEFINE n == Len(q) + 1
           r == Append(q, x)
<1>1. /\ DOMAIN q = 1..Len(q) /\ Len(q) \in Nat /\ DOMAIN r = 1..n
      /\ r[n] = x /\ \A k \in 1..Len(q) : r[k] = q[k]
      /\ n \notin 1..Len(q) /\ 1..n = (1..Len(q)) \cup {n}
  OBVIOUS
<1> HIDE DEF n, r
<1>2. IsFiniteSet(Places(q, c)) /\ Number(q, c) \in Nat
  BY NumberType
<1>3. CASE x = c
  <2>1. Places(r, c) = Places(q, c) \cup {n} /\ n \notin Places(q, c)
    BY <1>1, <1>3 DEF Places
  <2>2. Cardinality(Places(r, c)) = Cardinality(Places(q, c)) + 1
    BY <1>2, <2>1, FS_AddElement
  <2> QED BY <1>3, <2>2 DEF Number, r
<1>4. CASE x # c
  <2>1. Places(r, c) = Places(q, c)
    BY <1>1, <1>4 DEF Places
  <2> QED BY <1>2, <1>4, <2>1 DEF Number, r
<1> QED BY <1>3, <1>4

\* The main queue takes the closure at the front.
LEMMA NumberTail ==
  ASSUME NEW q \in Seq(Closures), q # <<>>, NEW c
  PROVE  Number(q, c) = Number(Tail(q), c) + (IF Head(q) = c THEN 1 ELSE 0)
<1> DEFINE r == Tail(q)
           f == [k \in Places(r, c) |-> k + 1]
<1>1. /\ DOMAIN q = 1..Len(q) /\ Len(q) \in Nat /\ Len(q) > 0
      /\ DOMAIN r = 1..(Len(q) - 1) /\ \A k \in 1..(Len(q) - 1) : r[k] = q[k + 1]
      /\ Head(q) = q[1] /\ r \in Seq(Closures)
  OBVIOUS
<1> HIDE DEF r
<1>2. /\ IsFiniteSet(Places(q, c)) /\ Number(q, c) \in Nat
      /\ IsFiniteSet(Places(r, c)) /\ Number(r, c) \in Nat
  BY <1>1, NumberType
<1>3. f \in Bijection(Places(r, c), Places(q, c) \ {1})
  <2>1. Places(r, c) \subseteq 1..(Len(q) - 1) /\ Places(q, c) \subseteq 1..Len(q)
    BY <1>1 DEF Places
  <2>2. ASSUME NEW k \in Places(r, c) PROVE k + 1 \in Places(q, c) \ {1}
    BY <1>1, <2>1 DEF Places
  <2>3. f \in [Places(r, c) -> Places(q, c) \ {1}]
    BY <2>2
  <2>4. ASSUME NEW k \in Places(r, c), NEW l \in Places(r, c), f[k] = f[l] PROVE k = l
    BY <2>1, <2>4
  <2>5. ASSUME NEW m \in Places(q, c) \ {1} PROVE \E k \in Places(r, c) : f[k] = m
    <3>1. m \in 1..Len(q) /\ m # 1 /\ q[m] = c
      BY <1>1 DEF Places
    <3>2. m - 1 \in 1..(Len(q) - 1) /\ (m - 1) + 1 = m
      BY <1>1, <3>1
    <3>3. m - 1 \in Places(r, c)
      BY <1>1, <3>1, <3>2 DEF Places
    <3> QED BY <3>2, <3>3
  <2> QED BY <2>3, <2>4, <2>5 DEF Bijection, Injection, Surjection, IsInjective
<1> HIDE DEF f
<1>4. Cardinality(Places(q, c) \ {1}) = Cardinality(Places(r, c))
  BY <1>2, <1>3, FS_Bijection DEF ExistsBijection
<1>5. 1 \in Places(q, c) <=> Head(q) = c
  BY <1>1 DEF Places
<1>6. Cardinality(Places(q, c) \ {1}) =
        IF 1 \in Places(q, c) THEN Cardinality(Places(q, c)) - 1 ELSE Cardinality(Places(q, c))
  BY <1>2, FS_RemoveElement
<1> QED BY <1>2, <1>4, <1>5, <1>6 DEF Number, r

\* A queue of one closure.
LEMMA NumberSingle ==
  ASSUME NEW x \in Closures, NEW c
  PROVE  Number(<<x>>, c) = IF x = c THEN 1 ELSE 0
<1>1. DOMAIN <<x>> = {1} /\ <<x>>[1] = x
  OBVIOUS
<1>2. CASE x = c
  <2>1. Places(<<x>>, c) = {1}
    BY <1>1, <1>2 DEF Places
  <2> QED BY <1>2, <2>1, FS_Singleton DEF Number
<1>3. CASE x # c
  <2>1. Places(<<x>>, c) = {}
    BY <1>1, <1>3 DEF Places
  <2> QED BY <1>3, <2>1, FS_EmptySet DEF Number
<1> QED BY <1>2, <1>3

\* A scanner without a manager is presented with an empty queue, any other with
\* the manager's start.
LEMMA PresentedQueue ==
  ASSUME NEW m
  PROVE  /\ Presented(m) \in Seq(Closures)
         /\ \A k \in DOMAIN Presented(m) : Presented(m)[k] # "picked"
         /\ \A c : Number(Presented(m), c) =
              IF m # "none" /\ c = (IF auth = "authorized" THEN "startRunning" ELSE "start")
              THEN 1 ELSE 0
<1>1. CASE m = "none"
  <2>1. Presented(m) = <<>>
    BY <1>1 DEF Presented
  <2>2. <<>> \in Seq(Closures) /\ DOMAIN <<>> = {} /\ \A c : Places(<<>>, c) = {}
    <3>1. <<>> \in Seq(Closures) /\ DOMAIN <<>> = {}
      OBVIOUS
    <3> QED BY <3>1 DEF Places
  <2>3. Cardinality({}) = 0
    BY FS_EmptySet
  <2> QED BY <1>1, <2>1, <2>2, <2>3 DEF Number
<1>2. CASE m # "none"
  <2> DEFINE x == IF auth = "authorized" THEN "startRunning" ELSE "start"
  <2>1. Presented(m) = <<x>> /\ x \in Closures /\ x # "picked"
    BY <1>2 DEF Presented, Closures
  <2>2. \A c : Number(<<x>>, c) = IF c = x THEN 1 ELSE 0
    BY <2>1, NumberSingle
  <2>3. <<x>> \in Seq(Closures) /\ DOMAIN <<x>> = {1} /\ <<x>>[1] = x
    BY <2>1
  <2> QED BY <1>2, <2>1, <2>2, <2>3
<1> QED BY <1>1, <1>2

-----------------------------------------------------------------------------
(* The inductive invariant.                                                  *)

Starts == Count("startRunning") + Count("start")

\* Photographs on their way: requested, being decoded, or waiting to be shown.
Pictures == shots + decoding + Count("didCapture") + Count("didFail")

Picks == Count("picked") + Count("pickFailed")

Busy == picker # "closed"

\* Until the user has decided about the camera nothing else happens if there is a
\* manager, whose start is on the main queue at most once.  If there is none the
\* user is not asked, and no photograph is taken.
Authorization ==
    /\ manager # "none" /\ auth \in {"notDetermined", "asking"} =>
         /\ edits = 0 /\ ~Busy /\ ~running /\ Pictures = 0
         /\ Count("startRunning") = 0
    /\ manager # "none" /\ auth = "notDetermined" => Count("start") = 1
    /\ auth = "asking" => Count("start") = 0
    /\ manager = "none" => auth # "asking" /\ ~running /\ Pictures = 0 /\ Starts = 0
    /\ Count("start") > 0 =>
         /\ Starts = 1 /\ edits = 0 /\ ~Busy /\ ~running /\ Pictures = 0

\* What the picker has loaded is delivered once, while the HUD is up.
Picking == Picks <= 1 /\ (Picks = 1 => picker = "loading")

\* The session was told to run before a picked image is shown.
Ordered(q) ==
    \A k, l \in DOMAIN q : q[k] = "picked" /\ q[l] = "startRunning" => l < k

PickedLast == Ordered(mainQ)

\* Pictures taken one at a time: there is one of a photograph, a picker and an
\* edit screen, and the session runs, or is about to, only on the scanner.
OneAtATime ==
    ~overlap =>
      /\ Pictures + (IF Busy THEN 1 ELSE 0) + edits <= 1
      /\ Starts <= 1
      /\ running => Starts = 0
      /\ ~OnScanner => ~running /\ Starts = 0
      /\ Pictures > 0 => Starts = 0

\* TypeOK in two parts: the types, and the bound on pictures.
Types ==
    /\ mainQ \in Seq(Closures)
    /\ running \in BOOLEAN /\ isDetecting \in BOOLEAN
    /\ frame \in BOOLEAN /\ displayed \in BOOLEAN
    /\ noRectangleCount \in 0..(noRectangleThreshold + 1)
    /\ passCount \in 0..autoScanThreshold
    /\ isEditing \in BOOLEAN /\ autoScan \in BOOLEAN /\ shutter \in BOOLEAN
    /\ shots \in Nat /\ decoding \in Nat /\ lateJobs \in Nat /\ edits \in Nat
    /\ redisplay \in 0..decoding
    /\ picker \in {"closed", "open", "loading"}
    /\ auth \in {"authorized", "notDetermined", "asking", "denied"}
    /\ manager \in Managers
    /\ overlap \in BOOLEAN

Bounded == Pictures + (IF Busy THEN 1 ELSE 0) + lateJobs + edits <= MaxPictures

Rest == /\ Bounded /\ Authorization /\ Picking /\ PickedLast /\ OneAtATime
        /\ ShutterOwned

IInv == Types /\ Rest

\* What a proof about a step starts from.
Facts ==
    /\ Types /\ Bounded /\ Authorization /\ Picking /\ PickedLast /\ OneAtATime
    /\ ShutterOwned
    /\ mainQ \in Seq(Closures) /\ shots \in Nat /\ decoding \in Nat
    /\ lateJobs \in Nat /\ edits \in Nat
    /\ \A c : Count(c) \in Nat
    /\ Pictures \in Nat /\ Starts \in Nat /\ Picks \in Nat
    /\ Outstanding = Pictures + (IF Busy THEN 1 ELSE 0)

\* They follow from the invariant.
LEMMA IInvFacts == IInv => Facts
<1> SUFFICES ASSUME IInv PROVE Facts
  OBVIOUS
<1>1. Types
  BY DEF IInv
<1>2. \A c : Count(c) \in Nat
  <2>1. \A c : Number(mainQ, c) \in Nat
    BY <1>1, NumberType DEF Types
  <2> QED BY <2>1 DEF Count, Number, Places
<1> QED BY <1>1, <1>2, SMTT(60)
      DEF Facts, IInv, Rest, Types, Pictures, Starts, Picks, Outstanding, Busy

\* The counts are numbers.
LEMMA CountType ==
  ASSUME mainQ \in Seq(Closures)
  PROVE  \A c : Count(c) \in Nat /\ Count(c) = Number(mainQ, c)
BY NumberType DEF Count, Number, Places

\* A closure is dispatched to the main queue, which is q at that moment.
LEMMA Dispatched ==
  ASSUME NEW q \in Seq(Closures), Ordered(q), NEW x \in Closures,
         mainQ' = Append(q, x)
  PROVE  /\ mainQ' \in Seq(Closures)
         /\ \A c : Count(c)' = Number(q, c) + (IF x = c THEN 1 ELSE 0)
         /\ (x = "startRunning" => Number(q, "picked") = 0) => PickedLast'
<1>1. mainQ' \in Seq(Closures)
  OBVIOUS
<1>2. ASSUME NEW c PROVE Count(c)' = Number(q, c) + (IF x = c THEN 1 ELSE 0)
  <2>1. Count(c)' = Number(mainQ', c)
    BY DEF Count, Number, Places
  <2> QED BY <2>1, NumberAppend
<1>3. ASSUME x = "startRunning" => Number(q, "picked") = 0 PROVE PickedLast'
  <2>1. /\ DOMAIN q = 1..Len(q) /\ Len(q) \in Nat
        /\ DOMAIN mainQ' = 1..(Len(q) + 1)
        /\ mainQ'[Len(q) + 1] = x /\ \A k \in DOMAIN q : mainQ'[k] = q[k]
    OBVIOUS
  <2>2. x = "startRunning" => \A k \in DOMAIN q : q[k] # "picked"
    BY <1>3, NumberZero
  <2> SUFFICES ASSUME NEW k \in 1..(Len(q) + 1), NEW l \in 1..(Len(q) + 1),
                      mainQ'[k] = "picked", mainQ'[l] = "startRunning"
               PROVE  l < k
    BY <2>1 DEF PickedLast, Ordered
  <2>3. CASE k \in DOMAIN q /\ l \in DOMAIN q
    BY <2>1, <2>3 DEF Ordered
  <2>4. CASE k \in DOMAIN q /\ l = Len(q) + 1
    BY <2>1, <2>2, <2>4
  <2>5. CASE k = Len(q) + 1 /\ l \in DOMAIN q
    BY <2>1, <2>5
  <2>6. CASE k = Len(q) + 1 /\ l = Len(q) + 1
    BY <2>1, <2>6
  <2> QED BY <2>1, <2>3, <2>4, <2>5, <2>6
<1> QED BY <1>1, <1>2, <1>3

\* The main queue takes its first closure, which leaves q.
LEMMA Taken ==
  ASSUME mainQ \in Seq(Closures), PickedLast, NEW x, Runs(x), NEW q, q = Tail(mainQ)
  PROVE  /\ q \in Seq(Closures) /\ x \in Closures /\ Ordered(q)
         /\ \A c : Number(q, c) \in Nat
         /\ \A c : Count(c) = Number(q, c) + (IF x = c THEN 1 ELSE 0)
         /\ x = "picked" => Count("startRunning") = 0
<1>1. /\ DOMAIN mainQ = 1..Len(mainQ) /\ Len(mainQ) \in Nat /\ Len(mainQ) > 0
      /\ DOMAIN q = 1..(Len(mainQ) - 1)
      /\ \A k \in 1..(Len(mainQ) - 1) : q[k] = mainQ[k + 1] /\ k + 1 \in DOMAIN mainQ
      /\ mainQ # <<>> /\ x = mainQ[1] /\ x = Head(mainQ) /\ 1 \in DOMAIN mainQ
      /\ q \in Seq(Closures) /\ x \in Closures
  BY DEF Runs
<1>2. ASSUME NEW c
      PROVE  Number(q, c) \in Nat /\ Count(c) = Number(q, c) + (IF x = c THEN 1 ELSE 0)
  BY <1>1, NumberTail, NumberType, CountType
<1>3. ASSUME NEW k \in DOMAIN q, NEW l \in DOMAIN q, q[k] = "picked", q[l] = "startRunning"
      PROVE  l < k
  <2>1. l + 1 < k + 1
    BY <1>1, <1>3 DEF PickedLast, Ordered
  <2> QED BY <1>1, <2>1
<1>4. ASSUME x = "picked" PROVE Count("startRunning") = 0
  <2>1. \A l \in DOMAIN mainQ : mainQ[l] # "startRunning"
    BY <1>1, <1>4 DEF PickedLast, Ordered
  <2> QED BY <2>1, NumberZero, CountType
<1> QED BY <1>1, <1>2, <1>3, <1>4 DEF Ordered

\* A closure that dispatches nothing has run.
LEMMA Finished ==
  ASSUME Facts, NEW x, Runs(x), mainQ' = Tail(mainQ)
  PROVE  /\ PickedLast' /\ x \in Closures
         /\ \A c : Count(c)' \in Nat /\ Count(c) = Count(c)' + (IF x = c THEN 1 ELSE 0)
         /\ x = "picked" => Count("startRunning") = 0
<1>1. \A c : Count(c)' = Number(Tail(mainQ), c)
  BY DEF Count, Number, Places
<1>2. mainQ \in Seq(Closures) /\ PickedLast
  BY DEF Facts
<1>3. PickedLast' <=> Ordered(Tail(mainQ))
  BY DEF PickedLast, Ordered
<1> QED BY <1>1, <1>2, <1>3, Taken

\* A closure is dispatched; nothing else happens to the queue.
LEMMA Added ==
  ASSUME Facts, NEW x \in Closures \ {"startRunning"}, mainQ' = Append(mainQ, x)
  PROVE  PickedLast' /\ \A c : Count(c)' = Count(c) + (IF x = c THEN 1 ELSE 0)
<1>1. mainQ \in Seq(Closures) /\ Ordered(mainQ)
  BY DEF Facts, PickedLast
<1> QED BY <1>1, Dispatched, CountType

\* The manager's start, after the user has decided about the camera.
LEMMA Started ==
  ASSUME NEW q \in Seq(Closures), Ordered(q), Number(q, "picked") = 0,
         auth \in {"authorized", "denied"}, shutter \in BOOLEAN, start(q)
  PROVE  /\ PickedLast' /\ auth' = auth /\ (shutter => shutter')
         /\ \A c : c # "startRunning" => Count(c)' = Number(q, c)
         /\ Count("startRunning")' =
              Number(q, "startRunning") + (IF auth = "authorized" THEN 1 ELSE 0)
<1>1. CASE auth = "authorized"
  <2>1. mainQ' = Append(q, "startRunning") /\ auth' = auth /\ (shutter => shutter')
    BY <1>1 DEF start
  <2>2. "startRunning" \in Closures
    BY DEF Closures
  <2>3. \A c : Number(q, c) \in Nat
    BY NumberType
  <2> QED BY <1>1, <2>1, <2>2, <2>3, Dispatched
<1>2. CASE auth = "denied"
  <2>1. mainQ' = q /\ auth' = auth /\ shutter'
    BY <1>2 DEF start
  <2>2. \A c : Count(c)' = Number(q, c) /\ Number(q, c) \in Nat
    BY <2>1, NumberType DEF Count, Number, Places
  <2>3. PickedLast'
    BY <2>1 DEF PickedLast, Ordered
  <2> QED BY <1>2, <2>1, <2>2, <2>3
<1> QED BY <1>1, <1>2

-----------------------------------------------------------------------------
(* The types.                                                                *)

\* start keeps the types.
LEMMA StartTypes ==
  ASSUME Types, NEW q \in Seq(Closures), start(q)
  PROVE  /\ mainQ' \in Seq(Closures) /\ isDetecting' \in BOOLEAN /\ shutter' \in BOOLEAN
         /\ auth' \in {"authorized", "notDetermined", "asking", "denied"}
<1>1. "startRunning" \in Closures
  BY DEF Closures
<1>2. Append(q, "startRunning") \in Seq(Closures)
  BY <1>1
<1> QED BY <1>2 DEF Types, start

\* Every step keeps the types.
LEMMA NextTypes == Types /\ [Next]_vars => Types'
<1> SUFFICES ASSUME Types, [Next]_vars PROVE Types'
  OBVIOUS
<1> USE BoundsAssumption
<1>0. /\ \A x \in Closures : Append(mainQ, x) \in Seq(Closures)
      /\ mainQ # <<>> => Tail(mainQ) \in Seq(Closures)
  BY DEF Types
<1>1. CASE UNCHANGED vars
  BY <1>1 DEF Types, vars, detection, work, jobs
<1>2. CASE captureImage
  <2>1. shots' \in Nat /\ shutter' \in BOOLEAN
    BY <1>2 DEF Types, captureImage, capturePhoto
  <2>2. overlap' \in BOOLEAN
    BY <1>2 DEF Types, captureImage, capturePhoto
  <2> QED BY <1>2, <2>1, <2>2 DEF Types, captureImage, detection, jobs
<1>3. CASE SelectMode
  BY <1>3 DEF Types, SelectMode, detection, work, jobs
<1>4. CASE showImagePickVC
  BY <1>4 DEF Types, showImagePickVC, detection, work, jobs
<1>5. CASE PopEdit
  <2>1. edits' \in Nat
    BY <1>5 DEF Types, PopEdit
  <2>2. isEditing' \in BOOLEAN
    BY <1>5 DEF Types, PopEdit, viewWillAppear
  <2>3. /\ mainQ' \in Seq(Closures) /\ isDetecting' \in BOOLEAN /\ shutter' \in BOOLEAN
        /\ auth' \in {"authorized", "notDetermined", "asking", "denied"}
    BY <1>5, StartTypes DEF Types, PopEdit, viewWillAppear
  <2> QED BY <1>5, <2>1, <2>2, <2>3 DEF Types, PopEdit, detection, work, jobs
<1>6. CASE DismissAndRescan
  <2>1. mainQ' \in Seq(Closures)
    BY <1>6, PresentedQueue DEF DismissAndRescan
  <2>2. /\ lateJobs' \in Nat /\ shots' \in Nat /\ decoding' \in Nat /\ edits' \in Nat
        /\ redisplay' \in 0..decoding'
        /\ noRectangleCount' \in 0..(noRectangleThreshold + 1)
        /\ passCount' \in 0..autoScanThreshold
    BY <1>6 DEF Types, DismissAndRescan
  <2> QED BY <1>6, <2>1, <2>2 DEF Types, DismissAndRescan
<1>7. ASSUME NEW b \in BOOLEAN, didFinishPicking(b) PROVE Types'
  <2>1. picker' \in {"closed", "open", "loading"} /\ isEditing' \in BOOLEAN
    BY <1>7 DEF Types, didFinishPicking, viewWillAppear
  <2>2. /\ mainQ' \in Seq(Closures) /\ isDetecting' \in BOOLEAN /\ shutter' \in BOOLEAN
        /\ auth' \in {"authorized", "notDetermined", "asking", "denied"}
    BY <1>7, StartTypes DEF Types, didFinishPicking, viewWillAppear
  <2> QED BY <1>7, <2>1, <2>2 DEF Types, didFinishPicking, detection, work, jobs
<1>8. ASSUME NEW b \in BOOLEAN, PickLoaded(b) PROVE Types'
  <2>1. mainQ' \in Seq(Closures)
    BY <1>0, <1>8 DEF PickLoaded, Closures
  <2> QED BY <1>8, <2>1 DEF Types, PickLoaded, detection, work, jobs
<1>9. ASSUME NEW b \in BOOLEAN, AccessAnswered(b) PROVE Types'
  <2>1. mainQ' \in Seq(Closures)
    BY <1>0, <1>9 DEF AccessAnswered, Closures
  <2> QED BY <1>9, <2>1 DEF Types, AccessAnswered, detection, work, jobs
<1>10. CASE captureOutput
  BY <1>10 DEF Types, captureOutput, work, jobs
<1>11. CASE processNoRectangle
  <2>1. mainQ' \in Seq(Closures)
    BY <1>0, <1>11 DEF processNoRectangle, Closures
  <2> QED BY <1>11, <2>1, ZenonT(60) DEF Types, processNoRectangle, work, jobs
<1>12. CASE processStableRectangle
  <2>1. passCount' \in 0..autoScanThreshold
    <3>1. passCount' = passesAfter(passCount) /\ passCount \in Nat
      BY <1>12 DEF Types, processStableRectangle
    <3> QED BY <3>1 DEF passesAfter
  <2>2. noRectangleCount' \in 0..(noRectangleThreshold + 1)
    <3>1. noRectangleCount' = 0
      BY <1>12 DEF processStableRectangle
    <3> QED BY <3>1
  <2>3. shots' \in Nat
    BY <1>12 DEF Types, processStableRectangle, capturePhoto
  <2>4. overlap' \in BOOLEAN
    BY <1>12 DEF Types, processStableRectangle, capturePhoto
  <2>5. shutter' \in BOOLEAN
    BY <1>12 DEF Types, processStableRectangle
  <2> QED BY <1>12, <2>1, <2>2, <2>3, <2>4, <2>5 DEF Types, processStableRectangle, jobs
<1>13. ASSUME NEW b \in BOOLEAN, processRectangle(b) PROVE Types'
  <2>1. noRectangleCount' \in 0..(noRectangleThreshold + 1)
    BY <1>13 DEF processRectangle
  <2>2. displayed' \in BOOLEAN /\ frame' \in BOOLEAN
    BY <1>13 DEF processRectangle
  <2> QED BY <1>13, <2>1, <2>2 DEF Types, processRectangle, work, jobs
<1>14. CASE photoError
  BY <1>14 DEF Types, photoError, detection, jobs
<1>15. ASSUME NEW b \in BOOLEAN, photoOutput(b) PROVE Types'
  <2>1. shots' \in Nat /\ decoding' \in Nat /\ passCount' \in 0..autoScanThreshold
    BY <1>15 DEF Types, photoOutput
  <2>2. shutter' \in BOOLEAN /\ isDetecting' \in BOOLEAN /\ running' \in BOOLEAN
    BY <1>15 DEF photoOutput, photoShutter
  <2> QED BY <1>15, <2>1, <2>2 DEF Types, photoOutput
<1>16. ASSUME NEW b \in BOOLEAN, completeImageCapture(b) PROVE Types'
  <2>1. mainQ' \in Seq(Closures)
    BY <1>0, <1>16 DEF completeImageCapture, Closures
  <2> QED BY <1>16, <2>1 DEF Types, completeImageCapture, detection
<1>17. CASE LateJob
  BY <1>17 DEF Types, LateJob, detection
<1>18. CASE startRunning
  BY <1>0, <1>18 DEF Types, startRunning, Runs, detection, work, jobs
<1>19. CASE RunStart
  <2>1. Tail(mainQ) \in Seq(Closures)
    BY <1>0, <1>19 DEF RunStart, Runs
  <2>2. /\ mainQ' \in Seq(Closures) /\ isDetecting' \in BOOLEAN /\ shutter' \in BOOLEAN
        /\ auth' \in {"authorized", "notDetermined", "asking", "denied"}
    BY <1>19, <2>1, StartTypes DEF RunStart
  <2> QED BY <1>19, <2>2 DEF Types, RunStart, detection, work, jobs
<1>20. CASE noRectangle
  <2>1. /\ noRectangleCount' \in 0..(noRectangleThreshold + 1)
        /\ passCount' \in 0..autoScanThreshold /\ displayed' \in BOOLEAN
    BY <1>20 DEF Types, noRectangle
  <2> QED BY <1>0, <1>20, <2>1 DEF Types, noRectangle, Runs, work, jobs
<1>21. CASE didCapturePicture
  BY <1>0, <1>21 DEF Types, didCapturePicture, PushEdit, Runs, detection, work, jobs
<1>22. CASE didFailWithError
  BY <1>0, <1>22 DEF Types, didFailWithError, Runs, detection, work, jobs
<1>23. CASE pushEditVC
  BY <1>0, <1>23 DEF Types, pushEditVC, PushEdit, Runs, detection, work, jobs
<1>24. CASE PickFailed
  BY <1>0, <1>24 DEF Types, PickFailed, Runs, detection, work, jobs
<1>25. CASE readRectangle
  <2>1. redisplay' \in 0..decoding'
    BY <1>25 DEF Types, readRectangle
  <2> QED BY <1>25, <2>1 DEF Types, readRectangle, detection
<1>26. CASE displayRectangleResult
  <2>1. mainQ' \in Seq(Closures)
    BY <1>0, <1>26 DEF displayRectangleResult, Closures
  <2>2. redisplay' \in 0..decoding' /\ decoding' \in Nat
    BY <1>26 DEF Types, displayRectangleResult
  <2> QED BY <1>26, <2>1, <2>2 DEF Types, displayRectangleResult
<1> QED BY <1>1, <1>2, <1>3, <1>4, <1>5, <1>6, <1>7, <1>8, <1>9, <1>10, <1>11, <1>12,
           <1>13, <1>14, <1>15, <1>16, <1>17, <1>18, <1>19, <1>20, <1>21, <1>22, <1>23,
           <1>24, <1>25, <1>26 DEF Next, User, Photo, Decode, MainQueue

-----------------------------------------------------------------------------
(* The steps that leave the main queue alone.                                *)

\* The counts stay with the queue.
LEMMA QueueKept ==
  ASSUME PickedLast, UNCHANGED mainQ
  PROVE  PickedLast' /\ \A c : Count(c)' = Count(c)
BY DEF PickedLast, Ordered, Count

\* What the frames of the video queue, the mode button and a background job of
\* a dismissed scanner change is of no concern to the rest.
LEMMA QuietRest ==
  ASSUME IInv,
         UNCHANGED <<manager, running, shutter, shots, decoding, edits, picker, auth, overlap>>,
         lateJobs' \in Nat, lateJobs' <= lateJobs,
         PickedLast', \A c \in Closures \ {"noRectangle"} : Count(c)' = Count(c)
  PROVE  Rest'
<1>0. Facts
  BY IInvFacts
<1> USE DEF Facts
<1>1. /\ Count("startRunning")' = Count("startRunning") /\ Count("start")' = Count("start")
      /\ Count("didCapture")' = Count("didCapture") /\ Count("didFail")' = Count("didFail")
      /\ Count("picked")' = Count("picked") /\ Count("pickFailed")' = Count("pickFailed")
  BY DEF Closures
<1>2. /\ Pictures' = Pictures /\ Starts' = Starts /\ Picks' = Picks
      /\ (Busy' <=> Busy) /\ (OnScanner' <=> OnScanner)
  <2>1. Pictures' = Pictures /\ Starts' = Starts /\ Picks' = Picks
    BY <1>1 DEF Pictures, Starts, Picks
  <2>2. (Busy' <=> Busy) /\ (OnScanner' <=> OnScanner)
    BY DEF Busy, OnScanner
  <2> QED BY <2>1, <2>2
<1>3. Bounded'
  <2>1. Pictures' + (IF Busy' THEN 1 ELSE 0) = Pictures + (IF Busy THEN 1 ELSE 0)
    BY <1>2
  <2>2. edits' = edits
    OBVIOUS
  <2> QED BY <1>0, <2>1, <2>2, BoundsAssumption DEF Bounded
<1>4. Picking'
  BY <1>0, <1>2 DEF Picking
<1>5. ShutterOwned'
  BY <1>0, <1>1 DEF ShutterOwned
<1>6. Authorization'
  BY <1>0, <1>1, <1>2 DEF Authorization
<1>7. OneAtATime'
  BY <1>0, <1>2 DEF OneAtATime
<1> QED BY <1>3, <1>4, <1>5, <1>6, <1>7 DEF Rest

\* The shutter button.
LEMMA captureImageRest ==
  ASSUME IInv, captureImage
  PROVE  Rest'
<1>0. Facts
  BY IInvFacts
<1> USE DEF Facts
<1>1. PickedLast' /\ \A c : Count(c)' = Count(c)
  BY <1>0, QueueKept DEF captureImage
<1>2. /\ UNCHANGED <<manager, running, decoding, lateJobs, edits, picker, auth>>
      /\ edits = 0 /\ ~Busy /\ auth # "asking" /\ Starts = 0
      /\ Pictures + lateJobs < MaxPictures
  BY <1>0, BoundsAssumption DEF captureImage, Touchable, Starts, MayBegin, Busy, jobs
<1>3. CASE Connected
  <2>1. shots' = shots + 1 /\ (~overlap' => ~overlap /\ Pictures = 0)
    <3>1. shots' = shots + 1 /\ (overlap' <=> overlap \/ Outstanding > 0)
      BY <1>0, <1>3 DEF captureImage, capturePhoto, Types
    <3> QED BY <1>0, <1>2, <3>1
  <2>2. /\ Pictures' = Pictures + 1 /\ Starts' = Starts /\ Picks' = Picks /\ ~Busy'
        /\ OnScanner'
    <3>1. Pictures' = Pictures + 1
      BY <1>0, <1>1, <1>2, <2>1 DEF Pictures
    <3>2. Starts' = Starts /\ Picks' = Picks
      BY <1>1 DEF Starts, Picks
    <3>3. ~Busy' /\ OnScanner'
      BY <1>2 DEF Busy, OnScanner
    <3> QED BY <3>1, <3>2, <3>3
  <2>3. Bounded' /\ Picking'
    BY <1>0, <1>2, <2>2, BoundsAssumption DEF Bounded, Picking
  <2>4. Authorization'
    BY <1>0, <1>1, <1>2, <1>3, <2>2 DEF Authorization, Connected
  <2>5. OneAtATime'
    BY <1>0, <1>2, <2>1, <2>2 DEF OneAtATime
  <2>6. ShutterOwned'
    BY <1>0, <2>2 DEF ShutterOwned, Pictures
  <2> QED BY <1>1, <2>3, <2>4, <2>5, <2>6 DEF Rest
<1>4. CASE ~Connected
  <2>1. UNCHANGED <<shots, overlap>> /\ (manager # "none" => shutter')
    BY <1>0, <1>4 DEF captureImage, capturePhoto
  <2>2. /\ Pictures' = Pictures /\ Starts' = Starts /\ Picks' = Picks /\ ~Busy'
        /\ OnScanner' /\ OnScanner
    BY <1>0, <1>1, <1>2, <2>1 DEF Pictures, Starts, Picks, Busy, OnScanner
  <2>3. Bounded' /\ Picking' /\ ShutterOwned'
    BY <1>0, <1>2, <2>1, <2>2, BoundsAssumption DEF Bounded, Picking, ShutterOwned
  <2>4. Authorization'
    BY <1>0, <1>1, <1>2, <2>2 DEF Authorization
  <2>5. OneAtATime'
    BY <1>0, <1>2, <2>1, <2>2 DEF OneAtATime
  <2> QED BY <1>1, <2>3, <2>4, <2>5 DEF Rest
<1> QED BY <1>3, <1>4

\* The photo picker opens.
LEMMA showImagePickVCRest ==
  ASSUME IInv, showImagePickVC
  PROVE  Rest'
<1>0. Facts
  BY IInvFacts
<1> USE DEF Facts
<1>1. PickedLast' /\ \A c : Count(c)' = Count(c)
  BY <1>0, QueueKept DEF showImagePickVC
<1>2. /\ UNCHANGED <<manager, shutter, shots, decoding, lateJobs, edits, auth>>
      /\ edits = 0 /\ ~Busy /\ auth # "asking" /\ Starts = 0
      /\ Pictures + lateJobs < MaxPictures
      /\ ~running' /\ picker' = "open" /\ (~overlap' => ~overlap /\ Pictures = 0)
  <2>1. /\ UNCHANGED <<manager, shutter, shots, decoding, lateJobs, edits, auth>>
        /\ edits = 0 /\ ~Busy /\ auth # "asking" /\ Starts = 0
        /\ ~running' /\ picker' = "open"
    BY DEF showImagePickVC, Touchable, Starts, Busy, work, jobs
  <2>2. overlap' <=> overlap \/ Outstanding > 0
    BY <1>0 DEF showImagePickVC, Types
  <2>3. MayBegin
    BY DEF showImagePickVC
  <2> QED BY <1>0, <2>1, <2>2, <2>3, BoundsAssumption DEF MayBegin
<1>3. /\ Pictures' = Pictures /\ Starts' = Starts /\ Picks' = Picks /\ Busy' /\ ~OnScanner'
  BY <1>0, <1>1, <1>2 DEF Pictures, Starts, Picks, Busy, OnScanner
<1>4. Bounded' /\ ShutterOwned'
  BY <1>0, <1>2, <1>3, BoundsAssumption, SMTT(60) DEF Bounded, ShutterOwned, Pictures
<1>5. Picking'
  <2>1. picker = "closed"
    BY <1>2 DEF Busy
  <2> QED BY <1>0, <1>3, <2>1 DEF Picking
<1>6. Authorization'
  BY <1>0, <1>1, <1>2, <1>3 DEF Authorization, Starts
<1>7. OneAtATime'
  BY <1>0, <1>2, <1>3 DEF OneAtATime
<1> QED BY <1>1, <1>4, <1>5, <1>6, <1>7 DEF Rest

\* The photograph could not be taken.
LEMMA photoErrorRest ==
  ASSUME IInv, photoError
  PROVE  Rest'
<1>0. Facts
  BY IInvFacts
<1> USE DEF Facts
<1>1. PickedLast' /\ \A c : Count(c)' = Count(c)
  BY <1>0, QueueKept DEF photoError
<1>2. /\ UNCHANGED <<manager, running, decoding, lateJobs, edits, picker, auth, overlap>>
      /\ shots' = shots - 1 /\ shots > 0 /\ shutter'
  BY DEF photoError, jobs
<1>3. /\ Pictures' = Pictures - 1 /\ Pictures > 0 /\ Starts' = Starts /\ Picks' = Picks
      /\ (Busy' <=> Busy) /\ (OnScanner' <=> OnScanner)
  BY <1>0, <1>1, <1>2, SMTT(60) DEF Pictures, Starts, Picks, Busy, OnScanner
<1>4. Bounded' /\ Picking' /\ ShutterOwned'
  BY <1>0, <1>2, <1>3, BoundsAssumption DEF Bounded, Picking, ShutterOwned
<1>5. Authorization'
  BY <1>0, <1>1, <1>2, <1>3 DEF Authorization
<1>6. OneAtATime'
  BY <1>0, <1>2, <1>3 DEF OneAtATime
<1> QED BY <1>1, <1>4, <1>5, <1>6 DEF Rest

\* The photograph has been taken, with or without data.
LEMMA photoOutputRest ==
  ASSUME IInv, NEW data \in BOOLEAN, photoOutput(data)
  PROVE  Rest'
<1>0. Facts
  BY IInvFacts
<1> USE DEF Facts
<1>1. PickedLast' /\ \A c : Count(c)' = Count(c)
  BY <1>0, QueueKept DEF photoOutput
<1>2. /\ UNCHANGED <<manager, lateJobs, edits, picker, auth, overlap>> /\ ~running'
      /\ shots' = shots - 1 /\ shots > 0
      /\ (~shutter' => data) /\ decoding' = IF data THEN decoding + 1 ELSE decoding
  BY DEF photoOutput, photoShutter
<1>3. /\ Pictures' = (IF data THEN Pictures ELSE Pictures - 1) /\ Pictures > 0
      /\ data => decoding' > 0
  BY <1>0, <1>1, <1>2 DEF Pictures
<1>4. /\ Starts' = Starts /\ Picks' = Picks /\ (Busy' <=> Busy) /\ (OnScanner' <=> OnScanner)
  BY <1>1, <1>2 DEF Starts, Picks, Busy, OnScanner
<1>5. Bounded' /\ Picking'
  BY <1>0, <1>2, <1>3, <1>4, BoundsAssumption DEF Bounded, Picking
<1>6. ShutterOwned'
  BY <1>0, <1>1, <1>2, <1>3 DEF ShutterOwned
<1>7. Authorization'
  BY <1>0, <1>1, <1>2, <1>3, <1>4 DEF Authorization
<1>8. OneAtATime'
  BY <1>0, <1>2, <1>3, <1>4 DEF OneAtATime
<1> QED BY <1>1, <1>5, <1>6, <1>7, <1>8 DEF Rest

\* A stable rectangle may be captured by itself, also under another screen.
LEMMA processStableRectangleRest ==
  ASSUME IInv, processStableRectangle
  PROVE  Rest'
<1>0. Facts
  BY IInvFacts
<1> USE DEF Facts
<1>1. PickedLast' /\ \A c : Count(c)' = Count(c)
  BY <1>0, QueueKept DEF processStableRectangle
<1>2. UNCHANGED <<manager, running, decoding, lateJobs, edits, picker, auth>>
  BY DEF processStableRectangle, jobs
<1>3. CASE UNCHANGED <<shots, overlap, shutter>>
  BY <1>0, <1>1, <1>2, <1>3, QuietRest
<1>4. CASE UNCHANGED <<shots, overlap>> /\ shutter'
  <2>1. /\ Pictures' = Pictures /\ Starts' = Starts /\ Picks' = Picks
        /\ (Busy' <=> Busy) /\ (OnScanner' <=> OnScanner)
    BY <1>1, <1>2, <1>4 DEF Pictures, Starts, Picks, Busy, OnScanner
  <2>2. Bounded' /\ Picking' /\ ShutterOwned'
    BY <1>0, <1>2, <1>4, <2>1, BoundsAssumption DEF Bounded, Picking, ShutterOwned
  <2>3. Authorization'
    BY <1>0, <1>1, <1>2, <2>1 DEF Authorization
  <2>4. OneAtATime'
    BY <1>0, <1>2, <1>4, <2>1 DEF OneAtATime
  <2> QED BY <1>1, <2>2, <2>3, <2>4 DEF Rest
<1>5. CASE /\ Connected /\ shots' = shots + 1 /\ MayBegin
           /\ (~overlap' => ~overlap /\ Outstanding = 0)
  <2>1. /\ Pictures' = Pictures + 1 /\ Starts' = Starts /\ Picks' = Picks
        /\ (Busy' <=> Busy) /\ (OnScanner' <=> OnScanner)
    BY <1>0, <1>1, <1>2, <1>5, SMTT(60) DEF Pictures, Starts, Picks, Busy, OnScanner
  <2>2. Bounded' /\ Picking'
    BY <1>0, <1>2, <1>5, <2>1, BoundsAssumption, SMTT(60) DEF Bounded, Picking, MayBegin
  <2>3. ShutterOwned'
    BY <1>0, <2>1 DEF ShutterOwned, Pictures
  <2>4. Authorization'
    BY <1>0, <1>1, <1>2, <1>5, <2>1 DEF Authorization, Connected
  <2>5. OneAtATime'
    BY <1>0, <1>2, <1>5, <2>1 DEF OneAtATime, OnScanner, Connected
  <2> QED BY <1>1, <2>2, <2>3, <2>4, <2>5 DEF Rest
<1>6. \/ UNCHANGED <<shots, overlap, shutter>>
      \/ MayBegin /\ capturePhoto /\ shutter' = (shutter \/ ~Connected)
  BY DEF processStableRectangle
<1>7. CASE MayBegin /\ capturePhoto /\ shutter' = (shutter \/ ~Connected)
  <2>1. CASE Connected
    <3>1. shots' = shots + 1 /\ (overlap' <=> overlap \/ Outstanding > 0)
      BY <1>0, <1>7, <2>1 DEF capturePhoto, Types
    <3>2. Outstanding \in Nat
      BY <1>0
    <3> QED BY <1>5, <1>7, <2>1, <3>1, <3>2
  <2>2. CASE ~Connected
    BY <1>4, <1>7, <2>2 DEF capturePhoto
  <2> QED BY <2>1, <2>2
<1> QED BY <1>3, <1>6, <1>7

-----------------------------------------------------------------------------
(* The steps that add to the main queue.                                     *)

\* The picked image has been loaded.
LEMMA PickLoadedRest ==
  ASSUME IInv, NEW ok \in BOOLEAN, PickLoaded(ok)
  PROVE  Rest'
<1>0. Facts
  BY IInvFacts
<1> USE DEF Facts
<1> DEFINE x == IF ok THEN "picked" ELSE "pickFailed"
<1>1. /\ UNCHANGED <<manager, running, shutter, shots, decoding, lateJobs, edits, picker, auth, overlap>>
      /\ picker = "loading" /\ Picks = 0 /\ mainQ' = Append(mainQ, x)
  BY DEF PickLoaded, Picks, work, jobs
<1>2. x \in Closures \ {"startRunning"} /\ x \in {"picked", "pickFailed"}
  BY DEF Closures
<1> HIDE DEF x
<1>3. PickedLast' /\ \A c : Count(c)' = Count(c) + (IF x = c THEN 1 ELSE 0)
  BY <1>0, <1>1, <1>2, Added
<1>4. /\ Count("startRunning")' = Count("startRunning") /\ Count("start")' = Count("start")
      /\ Count("didCapture")' = Count("didCapture") /\ Count("didFail")' = Count("didFail")
      /\ Picks' = Picks + 1
  BY <1>0, <1>2, <1>3, SMTT(60) DEF Picks
<1>5. Pictures' = Pictures /\ Starts' = Starts
  BY <1>1, <1>4 DEF Pictures, Starts
<1>6. (Busy' <=> Busy) /\ (OnScanner' <=> OnScanner) /\ picker' = "loading"
  BY <1>1 DEF Busy, OnScanner
<1>7. Bounded' /\ Picking'
  BY <1>0, <1>1, <1>4, <1>5, <1>6, BoundsAssumption DEF Bounded, Picking
<1>8. ShutterOwned'
  BY <1>0, <1>1, <1>4 DEF ShutterOwned
<1>9. Authorization'
  BY <1>0, <1>1, <1>4, <1>5, <1>6 DEF Authorization
<1>10. OneAtATime'
  BY <1>0, <1>1, <1>5, <1>6 DEF OneAtATime
<1> QED BY <1>3, <1>7, <1>8, <1>9, <1>10 DEF Rest

\* The user has decided about the camera.
LEMMA AccessAnsweredRest ==
  ASSUME IInv, NEW granted \in BOOLEAN, AccessAnswered(granted)
  PROVE  Rest'
<1>0. Facts
  BY IInvFacts
<1> USE DEF Facts
<1>1. /\ UNCHANGED <<manager, running, shutter, shots, decoding, lateJobs, edits, picker, overlap>>
      /\ auth = "asking" /\ auth' \in {"authorized", "denied"}
      /\ mainQ' = Append(mainQ, "start")
  BY DEF AccessAnswered, work, jobs
<1>2. "start" \in Closures \ {"startRunning"}
  BY DEF Closures
<1>3. PickedLast' /\ \A c : Count(c)' = Count(c) + (IF "start" = c THEN 1 ELSE 0)
  BY <1>0, <1>1, <1>2, Added
<1>4. /\ Count("startRunning")' = Count("startRunning") /\ Count("start")' = Count("start") + 1
      /\ Count("didCapture")' = Count("didCapture") /\ Count("didFail")' = Count("didFail")
      /\ Count("picked")' = Count("picked") /\ Count("pickFailed")' = Count("pickFailed")
  BY <1>0, <1>3
<1>5. /\ edits = 0 /\ ~Busy /\ ~running /\ Pictures = 0
      /\ Count("startRunning") = 0 /\ Count("start") = 0
  BY <1>0, <1>1 DEF Authorization
<1>6. Pictures' = Pictures /\ Starts' = 1 /\ Picks' = Picks
  BY <1>1, <1>4, <1>5 DEF Pictures, Starts, Picks
<1>7. ~Busy' /\ OnScanner'
  BY <1>1, <1>5 DEF Busy, OnScanner
<1>8. Bounded' /\ Picking'
  BY <1>0, <1>1, <1>5, <1>6, <1>7, BoundsAssumption DEF Bounded, Picking
<1>9. ShutterOwned'
  BY <1>0, <1>1, <1>4 DEF ShutterOwned
<1>10. Authorization'
  BY <1>0, <1>1, <1>4, <1>5, <1>6, <1>7 DEF Authorization
<1>11. OneAtATime'
  BY <1>0, <1>1, <1>5, <1>6, <1>7 DEF OneAtATime
<1> QED BY <1>3, <1>8, <1>9, <1>10, <1>11 DEF Rest

\* A background job has decoded the photograph, with or without a rectangle to
\* display again, or could not decode it.
LEMMA DecodedRest ==
  ASSUME IInv, NEW x \in {"didCapture", "didFail"},
         UNCHANGED <<manager, running, shutter, shots, lateJobs, edits, picker, auth, overlap>>,
         decoding > 0, decoding' = decoding - 1, mainQ' = Append(mainQ, x)
  PROVE  Rest'
<1>0. Facts
  BY IInvFacts
<1> USE DEF Facts
<1>1. /\ UNCHANGED <<manager, running, shutter, shots, lateJobs, edits, picker, auth, overlap>>
      /\ decoding > 0 /\ decoding' = decoding - 1 /\ mainQ' = Append(mainQ, x)
  OBVIOUS
<1>2. x \in Closures \ {"startRunning"} /\ x \in {"didCapture", "didFail"}
  BY DEF Closures
<1>3. PickedLast' /\ \A c : Count(c)' = Count(c) + (IF x = c THEN 1 ELSE 0)
  BY <1>0, <1>1, <1>2, Added
<1>4. /\ Count("startRunning")' = Count("startRunning") /\ Count("start")' = Count("start")
      /\ Count("picked")' = Count("picked") /\ Count("pickFailed")' = Count("pickFailed")
      /\ Count("didCapture")' + Count("didFail")' = Count("didCapture") + Count("didFail") + 1
      /\ Count("didCapture")' \in Nat /\ Count("didFail")' \in Nat
  BY <1>0, <1>2, <1>3, SMTT(60)
<1>5. Pictures' = Pictures /\ Starts' = Starts /\ Picks' = Picks
  <2>0. /\ Count("didCapture") \in Nat /\ Count("didFail") \in Nat
        /\ Count("startRunning") \in Nat /\ Count("start") \in Nat
        /\ shots \in Nat /\ decoding \in Nat
    BY <1>0
  <2>1. Pictures' = Pictures
    <3>1. Pictures' = shots + (decoding - 1) + Count("didCapture")' + Count("didFail")'
      BY <1>1 DEF Pictures
    <3>2. Count("didCapture")' + Count("didFail")' = Count("didCapture") + Count("didFail") + 1
      BY <1>4
    <3>3. Count("didCapture")' \in Nat /\ Count("didFail")' \in Nat
      BY <1>4
    <3> QED BY <2>0, <3>1, <3>2, <3>3, SMTT(60) DEF Pictures
  <2>2. Starts' = Starts /\ Picks' = Picks
    BY <1>4 DEF Starts, Picks
  <2> QED BY <2>1, <2>2
<1>6. (Busy' <=> Busy) /\ (OnScanner' <=> OnScanner)
  BY <1>1 DEF Busy, OnScanner
<1>7. Bounded' /\ Picking'
  BY <1>0, <1>1, <1>5, <1>6, BoundsAssumption DEF Bounded, Picking
<1>8. ShutterOwned'
  BY <1>0, <1>1, <1>5 DEF ShutterOwned, Pictures
<1>9. Authorization'
  BY <1>0, <1>1, <1>4, <1>5, <1>6 DEF Authorization
<1>10. OneAtATime'
  BY <1>0, <1>1, <1>5, <1>6 DEF OneAtATime
<1> QED BY <1>3, <1>7, <1>8, <1>9, <1>10 DEF Rest

\* The scanner comes back from the picker.
LEMMA didFinishPickingRest ==
  ASSUME IInv, NEW chosen \in BOOLEAN, didFinishPicking(chosen)
  PROVE  Rest'
<1>0. Facts
  BY IInvFacts
<1> USE DEF Facts
<1>1. /\ UNCHANGED <<manager, running, shots, decoding, lateJobs, edits, overlap>>
      /\ picker = "open" /\ picker' \in {"closed", "loading"} /\ shutter \in BOOLEAN
  BY <1>0 DEF didFinishPicking, work, jobs, Types
<1>2. Busy /\ ~OnScanner /\ Picks = 0
  BY <1>0, <1>1 DEF Busy, OnScanner, Picking
<1>3. /\ manager # "none" => auth \in {"authorized", "denied"}
      /\ auth # "asking" /\ Count("start") = 0 /\ Count("picked") = 0
  BY <1>0, <1>2 DEF Authorization, Types, Picks
<1>4. /\ PickedLast' /\ auth' = auth /\ (shutter => shutter')
      /\ \A c : c # "startRunning" => Count(c)' = Count(c)
      /\ Count("startRunning")' \in Nat
      /\ edits = 0 => Count("startRunning")' <= Count("startRunning") + 1
      /\ manager = "none" => Count("startRunning")' = Count("startRunning")
  <2>1. CASE edits = 0 /\ manager # "none"
    <3>1. start(mainQ) /\ Ordered(mainQ) /\ Number(mainQ, "picked") = 0
      BY <1>0, <1>3, <2>1, CountType DEF didFinishPicking, viewWillAppear, PickedLast
    <3> QED BY <1>0, <1>1, <1>3, <2>1, <3>1, Started, CountType
  <2>2. CASE edits # 0 \/ manager = "none"
    <3>1. UNCHANGED <<mainQ, auth, shutter>>
      BY <2>2 DEF didFinishPicking, viewWillAppear
    <3> QED BY <1>0, <2>2, <3>1, QueueKept
  <2> QED BY <2>1, <2>2
<1>5. /\ Count("start")' = Count("start")
      /\ Count("didCapture")' = Count("didCapture") /\ Count("didFail")' = Count("didFail")
      /\ Count("picked")' = Count("picked") /\ Count("pickFailed")' = Count("pickFailed")
  BY <1>4
<1>6. /\ Pictures' = Pictures /\ Picks' = 0 /\ Starts' \in Nat
      /\ edits = 0 => Starts' <= Starts + 1
      /\ manager = "none" => Starts' = Starts
  <2>0. /\ Count("didCapture") \in Nat /\ Count("didFail") \in Nat
        /\ Count("startRunning") \in Nat /\ Count("start") \in Nat
        /\ shots \in Nat /\ decoding \in Nat
    BY <1>0
  <2>1. Pictures' = Pictures
    BY <1>1, <1>5 DEF Pictures
  <2>2. Picks' = 0
    BY <1>2, <1>5 DEF Picks
  <2>3. /\ Starts' \in Nat /\ (edits = 0 => Starts' <= Starts + 1)
        /\ manager = "none" => Starts' = Starts
    BY <1>3, <1>4, <1>5, <2>0 DEF Starts
  <2> QED BY <2>1, <2>2, <2>3
<1>7. edits = 0 => OnScanner'
  BY <1>1 DEF OnScanner
<1>8. Bounded' /\ Picking'
  BY <1>0, <1>1, <1>2, <1>6, BoundsAssumption DEF Bounded, Picking
<1>9. ShutterOwned'
  BY <1>0, <1>1, <1>4, <1>5 DEF ShutterOwned
<1>10. Authorization'
  BY <1>0, <1>1, <1>3, <1>4, <1>5, <1>6 DEF Authorization
<1>11. OneAtATime'
  <2>1. ASSUME ~overlap
        PROVE  edits = 0 /\ Pictures = 0 /\ ~running /\ Starts = 0
    BY <1>0, <1>2, <2>1 DEF OneAtATime
  <2> QED BY <1>0, <1>1, <1>6, <1>7, <2>1 DEF OneAtATime
<1> QED BY <1>4, <1>8, <1>9, <1>10, <1>11 DEF Rest

\* Back from an edit screen.
LEMMA PopEditRest ==
  ASSUME IInv, PopEdit
  PROVE  Rest'
<1>0. Facts
  BY IInvFacts
<1> USE DEF Facts
<1>1. /\ UNCHANGED <<manager, running, shots, decoding, lateJobs, picker, overlap>>
      /\ picker = "closed" /\ edits > 0 /\ edits' = edits - 1 /\ shutter \in BOOLEAN
  BY <1>0 DEF PopEdit, work, jobs, Types
<1>2. ~Busy /\ ~Busy' /\ ~OnScanner /\ Picks = 0
  BY <1>0, <1>1 DEF Busy, OnScanner, Picking
<1>3. /\ manager # "none" => auth \in {"authorized", "denied"}
      /\ auth # "asking" /\ Count("start") = 0 /\ Count("picked") = 0
  BY <1>0, <1>1, <1>2 DEF Authorization, Types, Picks
<1>4. /\ PickedLast' /\ auth' = auth /\ (shutter => shutter')
      /\ \A c : c # "startRunning" => Count(c)' = Count(c)
      /\ Count("startRunning")' \in Nat
      /\ edits = 1 => Count("startRunning")' <= Count("startRunning") + 1
      /\ manager = "none" => Count("startRunning")' = Count("startRunning")
  <2>1. CASE edits = 1 /\ manager # "none"
    <3>1. start(mainQ) /\ Ordered(mainQ) /\ Number(mainQ, "picked") = 0
      BY <1>0, <1>3, <2>1, CountType DEF PopEdit, viewWillAppear, PickedLast
    <3> QED BY <1>0, <1>1, <1>3, <2>1, <3>1, Started, CountType
  <2>2. CASE edits # 1 \/ manager = "none"
    <3>1. UNCHANGED <<mainQ, auth, shutter>>
      BY <2>2 DEF PopEdit, viewWillAppear
    <3> QED BY <1>0, <2>2, <3>1, QueueKept
  <2> QED BY <2>1, <2>2
<1>5. /\ Count("start")' = Count("start")
      /\ Count("didCapture")' = Count("didCapture") /\ Count("didFail")' = Count("didFail")
      /\ Count("picked")' = Count("picked") /\ Count("pickFailed")' = Count("pickFailed")
  BY <1>4
<1>6. /\ Pictures' = Pictures /\ Picks' = 0 /\ Starts' \in Nat
      /\ edits = 1 => Starts' <= Starts + 1
      /\ manager = "none" => Starts' = Starts
  <2>0. /\ Count("didCapture") \in Nat /\ Count("didFail") \in Nat
        /\ Count("startRunning") \in Nat /\ Count("start") \in Nat
        /\ shots \in Nat /\ decoding \in Nat
    BY <1>0
  <2>1. Pictures' = Pictures
    BY <1>1, <1>5 DEF Pictures
  <2>2. Picks' = 0
    BY <1>2, <1>5 DEF Picks
  <2>3. /\ Starts' \in Nat /\ (edits = 1 => Starts' <= Starts + 1)
        /\ manager = "none" => Starts' = Starts
    BY <1>3, <1>4, <1>5, <2>0 DEF Starts
  <2> QED BY <2>1, <2>2, <2>3
<1>7. edits = 1 => OnScanner'
  BY <1>1 DEF OnScanner
<1>8. Bounded' /\ Picking'
  BY <1>0, <1>1, <1>2, <1>6, BoundsAssumption DEF Bounded, Picking
<1>9. ShutterOwned'
  BY <1>0, <1>1, <1>4, <1>5 DEF ShutterOwned
<1>10. Authorization'
  BY <1>0, <1>1, <1>3, <1>4, <1>5, <1>6 DEF Authorization
<1>11. OneAtATime'
  <2>1. ASSUME ~overlap
        PROVE  edits = 1 /\ Pictures = 0 /\ ~running /\ Starts = 0
    BY <1>0, <1>1, <1>2, <2>1 DEF OneAtATime
  <2> QED BY <1>0, <1>1, <1>2, <1>6, <1>7, <2>1 DEF OneAtATime
<1> QED BY <1>4, <1>8, <1>9, <1>10, <1>11 DEF Rest

\* The scanner is dismissed and another one presented.
LEMMA DismissAndRescanRest ==
  ASSUME IInv, DismissAndRescan
  PROVE  Rest'
<1>0. Facts
  BY IInvFacts
<1> USE DEF Facts
<1>1. /\ UNCHANGED <<picker, auth>> /\ picker = "closed" /\ ~running'
      /\ shots' = 0 /\ decoding' = 0 /\ edits' = 0 /\ shutter'
      /\ lateJobs' = lateJobs + (decoding - redisplay)
      /\ mainQ' = Presented(manager')
  BY DEF DismissAndRescan
<1>2. auth # "asking"
  <2>1. CASE edits > 0
    BY <1>0, <2>1 DEF Authorization
  <2>2. CASE Touchable
    BY <2>2 DEF Touchable
  <2> QED BY <2>1, <2>2 DEF DismissAndRescan
<1>3. \A c : Count(c)' =
        IF manager' # "none" /\ c = (IF auth = "authorized" THEN "startRunning" ELSE "start")
        THEN 1 ELSE 0
  <2>1. \A c : Count(c)' = Number(mainQ', c)
    BY DEF Count, Number, Places
  <2> QED BY <1>1, <2>1, PresentedQueue
<1>4. PickedLast'
  BY <1>1, PresentedQueue DEF PickedLast, Ordered
<1>5. /\ Count("didCapture")' = 0 /\ Count("didFail")' = 0
      /\ Count("picked")' = 0 /\ Count("pickFailed")' = 0
      /\ Count("startRunning")' = (IF manager' # "none" /\ auth = "authorized" THEN 1 ELSE 0)
      /\ Count("start")' = (IF manager' # "none" /\ auth # "authorized" THEN 1 ELSE 0)
  BY <1>3
<1>6. Pictures' = 0 /\ Picks' = 0 /\ Starts' = (IF manager' = "none" THEN 0 ELSE 1)
  BY <1>1, <1>5 DEF Pictures, Picks, Starts
<1>7. ~Busy' /\ OnScanner'
  BY <1>1 DEF Busy, OnScanner
<1>8. Bounded' /\ Picking' /\ ShutterOwned'
  <2>1. Pictures >= decoding
    BY <1>0 DEF Pictures
  <2>2. Bounded'
    <3>1. decoding + lateJobs <= MaxPictures
      BY <1>0, <2>1, BoundsAssumption DEF Bounded
    <3>2. lateJobs' \in Nat /\ lateJobs' <= decoding + lateJobs
      BY <1>0, <1>1 DEF Types
    <3>3. lateJobs' <= MaxPictures
      BY <1>0, <3>1, <3>2, BoundsAssumption
    <3> QED BY <1>1, <1>6, <1>7, <3>2, <3>3, BoundsAssumption DEF Bounded
  <2> QED BY <1>1, <1>6, <2>2 DEF Picking, ShutterOwned
<1>9. Authorization'
  BY <1>1, <1>2, <1>5, <1>6, <1>7 DEF Authorization
<1>10. OneAtATime'
  BY <1>1, <1>6, <1>7 DEF OneAtATime
<1> QED BY <1>4, <1>8, <1>9, <1>10 DEF Rest

-----------------------------------------------------------------------------
(* The main queue.                                                           *)

\* The session is started.
LEMMA startRunningRest ==
  ASSUME IInv, startRunning
  PROVE  Rest'
<1>0. Facts
  BY IInvFacts
<1> USE DEF Facts
<1>1. /\ UNCHANGED <<manager, shutter, shots, decoding, lateJobs, edits, picker, auth, overlap>>
      /\ Runs("startRunning") /\ mainQ' = Tail(mainQ) /\ running'
  BY DEF startRunning, work, jobs
<1>2. /\ PickedLast' 
      /\ \A c : Count(c)' \in Nat /\ Count(c) = Count(c)' + (IF "startRunning" = c THEN 1 ELSE 0)
  BY <1>0, <1>1, Finished
<1>3. /\ Count("startRunning") = Count("startRunning")' + 1 /\ Count("startRunning")' \in Nat
      /\ Count("start")' = Count("start")
      /\ Count("didCapture")' = Count("didCapture") /\ Count("didFail")' = Count("didFail")
      /\ Count("picked")' = Count("picked") /\ Count("pickFailed")' = Count("pickFailed")
  BY <1>0, <1>2
<1>4. Pictures' = Pictures /\ Starts' = Starts - 1 /\ Starts > 0 /\ Picks' = Picks
  <2>0. /\ Count("didCapture") \in Nat /\ Count("didFail") \in Nat
        /\ Count("startRunning") \in Nat /\ Count("start") \in Nat
        /\ shots \in Nat /\ decoding \in Nat
    BY <1>0
  <2>1. Pictures' = Pictures /\ Picks' = Picks
    BY <1>1, <1>3 DEF Pictures, Picks
  <2>2. Starts' = Starts - 1 /\ Starts > 0
    BY <1>3, <2>0 DEF Starts
  <2> QED BY <2>1, <2>2
<1>5. (Busy' <=> Busy) /\ (OnScanner' <=> OnScanner)
  BY <1>1 DEF Busy, OnScanner
<1>6. auth \notin {"notDetermined", "asking"} /\ Count("start") = 0 /\ manager # "none"
  BY <1>0, <1>3, <1>4 DEF Authorization, Starts
<1>7. Bounded' /\ Picking' /\ ShutterOwned'
  BY <1>0, <1>1, <1>3, <1>4, <1>5, BoundsAssumption DEF Bounded, Picking, ShutterOwned
<1>8. Authorization'
  BY <1>1, <1>3, <1>6 DEF Authorization
<1>9. OneAtATime'
  <2>1. ASSUME ~overlap PROVE Starts' = 0 /\ OnScanner
    BY <1>0, <1>4, <2>1 DEF OneAtATime
  <2> QED BY <1>0, <1>1, <1>4, <1>5, <2>1 DEF OneAtATime
<1> QED BY <1>2, <1>7, <1>8, <1>9 DEF Rest

\* The manager's start runs.
LEMMA RunStartRest ==
  ASSUME IInv, RunStart
  PROVE  Rest'
<1>0. Facts
  BY IInvFacts
<1> USE DEF Facts
<1> DEFINE q == Tail(mainQ)
<1>1. /\ UNCHANGED <<manager, running, shots, decoding, lateJobs, edits, picker, overlap>>
      /\ Runs("start") /\ start(q) /\ shutter \in BOOLEAN
  BY <1>0 DEF RunStart, work, jobs, Types
<1>2. /\ q \in Seq(Closures) /\ Ordered(q)
      /\ \A c : Number(q, c) \in Nat
      /\ \A c : Count(c) = Number(q, c) + (IF "start" = c THEN 1 ELSE 0)
  BY <1>0, <1>1, Taken
<1> HIDE DEF q
<1>3. Count("start") > 0
  BY <1>2
<1>4. /\ Starts = 1 /\ edits = 0 /\ ~Busy /\ ~running /\ Pictures = 0
      /\ auth # "asking" /\ picker = "closed" /\ manager # "none"
  BY <1>0, <1>3 DEF Authorization, Busy
<1>5. Picks = 0
  BY <1>0, <1>4 DEF Picking
<1>6. /\ Number(q, "startRunning") = 0 /\ Number(q, "start") = 0
      /\ Number(q, "didCapture") = Count("didCapture") /\ Number(q, "didFail") = Count("didFail")
      /\ Number(q, "picked") = Count("picked") /\ Number(q, "pickFailed") = Count("pickFailed")
  BY <1>2, <1>4 DEF Starts
<1>7. Count("picked") = 0 /\ Count("pickFailed") = 0 /\ shutter
  <2>1. Count("picked") \in Nat /\ Count("pickFailed") \in Nat
    BY <1>0
  <2>2. Count("picked") = 0 /\ Count("pickFailed") = 0
    BY <1>5, <2>1 DEF Picks
  <2>3. shutter
    BY <1>0, <1>4 DEF ShutterOwned, Pictures
  <2> QED BY <2>2, <2>3
<1>8. /\ PickedLast' /\ shutter'
      /\ Count("start")' = 0 /\ Count("startRunning")' \in {0, 1}
      /\ Count("didCapture")' = Count("didCapture") /\ Count("didFail")' = Count("didFail")
      /\ Count("picked")' = 0 /\ Count("pickFailed")' = 0
      /\ auth' = "asking" => Count("startRunning")' = 0
      /\ auth' # "notDetermined"
  <2>1. CASE auth = "notDetermined"
    <3>1. mainQ' = q /\ auth' = "asking" /\ shutter' = shutter
      BY <1>1, <2>1 DEF start
    <3>2. \A c : Count(c)' = Number(q, c)
      BY <3>1 DEF Count, Number, Places
    <3>3. PickedLast'
      BY <1>2, <3>1 DEF PickedLast, Ordered
    <3> QED BY <1>6, <1>7, <3>1, <3>2, <3>3
  <2>2. CASE auth \in {"authorized", "denied"}
    <3>1. /\ PickedLast' /\ auth' = auth /\ (shutter => shutter')
          /\ \A c : c # "startRunning" => Count(c)' = Number(q, c)
          /\ Count("startRunning")' =
               Number(q, "startRunning") + (IF auth = "authorized" THEN 1 ELSE 0)
      BY <1>1, <1>2, <1>6, <1>7, <2>2, Started
    <3> QED BY <1>6, <1>7, <2>2, <3>1
  <2> QED BY <1>0, <1>4, <2>1, <2>2 DEF Types
<1>9. Pictures' = Pictures /\ Picks' = 0 /\ ~Busy' /\ OnScanner' /\ Starts' \in {0, 1}
  <2>1. Pictures' = Pictures
    BY <1>1, <1>8 DEF Pictures
  <2>2. Picks' = 0 /\ Starts' \in {0, 1}
    BY <1>8 DEF Picks, Starts
  <2>3. ~Busy' /\ OnScanner'
    BY <1>1, <1>4 DEF Busy, OnScanner
  <2> QED BY <2>1, <2>2, <2>3
<1>10. Bounded' /\ Picking' /\ ShutterOwned'
  <2>1. Bounded'
    BY <1>0, <1>1, <1>4, <1>9, BoundsAssumption DEF Bounded
  <2> QED BY <1>8, <1>9, <2>1 DEF Picking, ShutterOwned
<1>11. Authorization'
  BY <1>1, <1>4, <1>8, <1>9 DEF Authorization
<1>12. OneAtATime'
  BY <1>1, <1>4, <1>9 DEF OneAtATime
<1> QED BY <1>8, <1>10, <1>11, <1>12 DEF Rest

\* A photograph is shown on an edit screen.
LEMMA didCapturePictureRest ==
  ASSUME IInv, didCapturePicture
  PROVE  Rest'
<1>0. Facts
  BY IInvFacts
<1> USE DEF Facts
<1>1. /\ UNCHANGED <<manager, shots, decoding, lateJobs, picker, auth, overlap>>
      /\ Runs("didCapture") /\ mainQ' = Tail(mainQ) /\ edits' = edits + 1 /\ shutter'
      /\ (running' => running /\ ~OnScanner)
  BY <1>0 DEF didCapturePicture, PushEdit, work, jobs, Types
<1>2. /\ PickedLast'
      /\ \A c : Count(c)' \in Nat /\ Count(c) = Count(c)' + (IF "didCapture" = c THEN 1 ELSE 0)
  BY <1>0, <1>1, Finished
<1>3. /\ Count("didCapture") = Count("didCapture")' + 1 /\ Count("didCapture")' \in Nat
      /\ Count("startRunning")' = Count("startRunning") /\ Count("start")' = Count("start")
      /\ Count("didFail")' = Count("didFail")
      /\ Count("picked")' = Count("picked") /\ Count("pickFailed")' = Count("pickFailed")
  BY <1>0, <1>2
<1>4. Pictures' = Pictures - 1 /\ Pictures > 0 /\ Starts' = Starts /\ Picks' = Picks
  <2>0. /\ Count("didCapture") \in Nat /\ Count("didFail") \in Nat
        /\ Count("startRunning") \in Nat /\ Count("start") \in Nat
        /\ shots \in Nat /\ decoding \in Nat
    BY <1>0
  <2>1. Starts' = Starts /\ Picks' = Picks
    BY <1>3 DEF Starts, Picks
  <2>2. Pictures' = Pictures - 1 /\ Pictures > 0
    BY <1>1, <1>3, <2>0, SMTT(60) DEF Pictures
  <2> QED BY <2>1, <2>2
<1>5. (Busy' <=> Busy)
  BY <1>1 DEF Busy
<1>6. auth \notin {"notDetermined", "asking"} /\ Count("start") = 0 /\ manager # "none"
  BY <1>0, <1>4 DEF Authorization
<1>7. Bounded' /\ Picking' /\ ShutterOwned'
  BY <1>0, <1>1, <1>4, <1>5, BoundsAssumption DEF Bounded, Picking, ShutterOwned
<1>8. Authorization'
  BY <1>1, <1>3, <1>6 DEF Authorization
<1>9. OneAtATime'
  <2>1. ASSUME ~overlap
        PROVE  edits = 0 /\ ~Busy /\ Pictures' = 0 /\ Starts = 0
    BY <1>0, <1>4, <2>1 DEF OneAtATime
  <2>2. ASSUME ~overlap PROVE ~running'
    BY <1>1, <2>1, <2>2 DEF OnScanner, Busy
  <2> QED BY <1>0, <1>1, <1>4, <1>5, <2>1, <2>2 DEF OneAtATime
<1> QED BY <1>2, <1>7, <1>8, <1>9 DEF Rest

\* A photograph could not be decoded.
LEMMA didFailWithErrorRest ==
  ASSUME IInv, didFailWithError
  PROVE  Rest'
<1>0. Facts
  BY IInvFacts
<1> USE DEF Facts
<1>1. /\ UNCHANGED <<manager, running, shots, decoding, lateJobs, edits, picker, auth, overlap>>
      /\ Runs("didFail") /\ mainQ' = Tail(mainQ) /\ shutter'
  BY DEF didFailWithError, work, jobs
<1>2. /\ PickedLast'
      /\ \A c : Count(c)' \in Nat /\ Count(c) = Count(c)' + (IF "didFail" = c THEN 1 ELSE 0)
  BY <1>0, <1>1, Finished
<1>3. /\ Count("didFail") = Count("didFail")' + 1 /\ Count("didFail")' \in Nat
      /\ Count("startRunning")' = Count("startRunning") /\ Count("start")' = Count("start")
      /\ Count("didCapture")' = Count("didCapture")
      /\ Count("picked")' = Count("picked") /\ Count("pickFailed")' = Count("pickFailed")
  BY <1>0, <1>2
<1>4. Pictures' = Pictures - 1 /\ Pictures > 0 /\ Starts' = Starts /\ Picks' = Picks
  <2>0. /\ Count("didCapture") \in Nat /\ Count("didFail") \in Nat
        /\ Count("startRunning") \in Nat /\ Count("start") \in Nat
        /\ shots \in Nat /\ decoding \in Nat
    BY <1>0
  <2>1. Starts' = Starts /\ Picks' = Picks
    BY <1>3 DEF Starts, Picks
  <2>2. Pictures' = Pictures - 1 /\ Pictures > 0
    BY <1>1, <1>3, <2>0 DEF Pictures
  <2> QED BY <2>1, <2>2
<1>5. (Busy' <=> Busy) /\ (OnScanner' <=> OnScanner)
  BY <1>1 DEF Busy, OnScanner
<1>6. Bounded' /\ Picking' /\ ShutterOwned'
  BY <1>0, <1>1, <1>4, <1>5, BoundsAssumption DEF Bounded, Picking, ShutterOwned
<1>7. Authorization'
  BY <1>0, <1>1, <1>3, <1>4, <1>5 DEF Authorization
<1>8. OneAtATime'
  BY <1>0, <1>1, <1>4, <1>5 DEF OneAtATime
<1> QED BY <1>2, <1>6, <1>7, <1>8 DEF Rest

\* The picked image is shown on an edit screen.
LEMMA pushEditVCRest ==
  ASSUME IInv, pushEditVC
  PROVE  Rest'
<1>0. Facts
  BY IInvFacts
<1> USE DEF Facts
<1>1. /\ UNCHANGED <<manager, shutter, shots, decoding, lateJobs, auth, overlap>>
      /\ Runs("picked") /\ mainQ' = Tail(mainQ) /\ edits' = edits + 1 /\ picker' = "closed"
      /\ (running' => running /\ ~OnScanner)
  BY <1>0 DEF pushEditVC, PushEdit, work, jobs, Types
<1>2. /\ PickedLast'
      /\ \A c : Count(c)' \in Nat /\ Count(c) = Count(c)' + (IF "picked" = c THEN 1 ELSE 0)
      /\ Count("startRunning") = 0
  BY <1>0, <1>1, Finished
<1>3. /\ Count("picked") = Count("picked")' + 1 /\ Count("picked")' \in Nat
      /\ Count("startRunning")' = 0 /\ Count("start")' = Count("start")
      /\ Count("didCapture")' = Count("didCapture") /\ Count("didFail")' = Count("didFail")
      /\ Count("pickFailed")' = Count("pickFailed")
  BY <1>0, <1>2
<1>4. Picks' = Picks - 1 /\ Picks > 0
  <2>1. Count("picked") \in Nat /\ Count("pickFailed") \in Nat
    BY <1>0
  <2> QED BY <1>3, <2>1 DEF Picks
<1>5. picker = "loading" /\ Picks' = 0
  BY <1>0, <1>4 DEF Picking
<1>6. Busy /\ ~Busy' /\ (edits = 0 => OnScanner)
  BY <1>1, <1>5 DEF Busy, OnScanner
<1>7. /\ manager # "none" => auth \notin {"notDetermined", "asking"}
      /\ Count("start") = 0 /\ auth # "asking"
  BY <1>0, <1>6 DEF Authorization
<1>8. Pictures' = Pictures /\ Starts' = 0
  BY <1>1, <1>3, <1>7 DEF Pictures, Starts
<1>9. Bounded' /\ Picking' /\ ShutterOwned'
  BY <1>0, <1>1, <1>3, <1>5, <1>6, <1>8, BoundsAssumption DEF Bounded, Picking, ShutterOwned
<1>10. Authorization'
  BY <1>0, <1>1, <1>3, <1>7, <1>8 DEF Authorization
<1>11. OneAtATime'
  <2>1. ASSUME ~overlap PROVE edits = 0 /\ Pictures = 0
    BY <1>0, <1>6, <2>1 DEF OneAtATime
  <2>2. ASSUME ~overlap PROVE ~running'
    BY <1>1, <1>6, <2>1, <2>2
  <2> QED BY <1>0, <1>1, <1>6, <1>8, <2>1, <2>2 DEF OneAtATime
<1> QED BY <1>2, <1>9, <1>10, <1>11 DEF Rest

\* The picked image could not be loaded.
LEMMA PickFailedRest ==
  ASSUME IInv, PickFailed
  PROVE  Rest'
<1>0. Facts
  BY IInvFacts
<1> USE DEF Facts
<1>1. /\ UNCHANGED <<manager, running, shutter, shots, decoding, lateJobs, edits, auth, overlap>>
      /\ Runs("pickFailed") /\ mainQ' = Tail(mainQ) /\ picker' = "closed"
  BY DEF PickFailed, work, jobs
<1>2. /\ PickedLast'
      /\ \A c : Count(c)' \in Nat /\ Count(c) = Count(c)' + (IF "pickFailed" = c THEN 1 ELSE 0)
  BY <1>0, <1>1, Finished
<1>3. /\ Count("pickFailed") = Count("pickFailed")' + 1 /\ Count("pickFailed")' \in Nat
      /\ Count("startRunning")' = Count("startRunning") /\ Count("start")' = Count("start")
      /\ Count("didCapture")' = Count("didCapture") /\ Count("didFail")' = Count("didFail")
      /\ Count("picked")' = Count("picked")
  BY <1>0, <1>2
<1>4. Picks' = Picks - 1 /\ Picks > 0
  <2>1. Count("picked") \in Nat /\ Count("pickFailed") \in Nat
    BY <1>0
  <2> QED BY <1>3, <2>1 DEF Picks
<1>5. picker = "loading" /\ Picks' = 0
  BY <1>0, <1>4 DEF Picking
<1>6. Busy /\ ~Busy' /\ (edits = 0 => OnScanner')
  BY <1>1, <1>5 DEF Busy, OnScanner
<1>7. /\ manager # "none" => auth \notin {"notDetermined", "asking"}
      /\ Count("start") = 0 /\ auth # "asking"
  BY <1>0, <1>6 DEF Authorization
<1>8. Pictures' = Pictures /\ Starts' = Starts
  BY <1>1, <1>3 DEF Pictures, Starts
<1>9. Bounded' /\ Picking' /\ ShutterOwned'
  BY <1>0, <1>1, <1>3, <1>5, <1>6, <1>8, BoundsAssumption DEF Bounded, Picking, ShutterOwned
<1>10. Authorization'
  BY <1>0, <1>1, <1>3, <1>7, <1>8 DEF Authorization
<1>11. OneAtATime'
  <2>1. ASSUME ~overlap PROVE edits = 0 /\ Pictures = 0
    BY <1>0, <1>6, <2>1 DEF OneAtATime
  <2> QED BY <1>0, <1>1, <1>6, <1>8, <2>1 DEF OneAtATime
<1> QED BY <1>2, <1>9, <1>10, <1>11 DEF Rest

-----------------------------------------------------------------------------
(* The theorems.                                                             *)

\* The scanner is presented for the first time.
LEMMA InitIInv == Init => IInv
<1> SUFFICES ASSUME Init PROVE IInv
  OBVIOUS
<1>1. /\ mainQ = Presented(manager) /\ manager \in Managers
      /\ auth \in {"authorized", "notDetermined", "denied"}
      /\ ~running /\ shutter /\ shots = 0 /\ decoding = 0 /\ lateJobs = 0 /\ edits = 0
      /\ picker = "closed" /\ ~overlap
  BY DEF Init
<1>2. \A c : Count(c) =
        IF manager # "none" /\ c = (IF auth = "authorized" THEN "startRunning" ELSE "start")
        THEN 1 ELSE 0
  <2>1. \A c : Count(c) = Number(mainQ, c)
    BY DEF Count, Number, Places
  <2> QED BY <1>1, <2>1, PresentedQueue
<1>3. PickedLast
  BY <1>1, PresentedQueue DEF PickedLast, Ordered
<1>4. Types
  <2>1. mainQ \in Seq(Closures)
    BY <1>1, PresentedQueue
  <2>2. /\ noRectangleCount \in 0..(noRectangleThreshold + 1)
        /\ passCount \in 0..autoScanThreshold /\ redisplay \in 0..decoding
    BY BoundsAssumption DEF Init
  <2> QED BY <2>1, <2>2 DEF Init, Types
<1>5. /\ Count("didCapture") = 0 /\ Count("didFail") = 0
      /\ Count("picked") = 0 /\ Count("pickFailed") = 0
      /\ Count("startRunning") = (IF manager # "none" /\ auth = "authorized" THEN 1 ELSE 0)
      /\ Count("start") = (IF manager # "none" /\ auth # "authorized" THEN 1 ELSE 0)
  BY <1>2
<1>6. /\ Pictures = 0 /\ Picks = 0 /\ Starts = (IF manager = "none" THEN 0 ELSE 1)
      /\ ~Busy /\ OnScanner
  BY <1>1, <1>5 DEF Pictures, Picks, Starts, Busy, OnScanner
<1>7. Bounded /\ Picking /\ ShutterOwned
  BY <1>1, <1>6, BoundsAssumption DEF Bounded, Picking, ShutterOwned
<1>8. Authorization
  BY <1>1, <1>5, <1>6 DEF Authorization
<1>9. OneAtATime
  BY <1>1, <1>6 DEF OneAtATime
<1> QED BY <1>3, <1>4, <1>7, <1>8, <1>9 DEF IInv, Rest

\* Every step of the four threads keeps the invariant.
LEMMA NextIInv == IInv /\ [Next]_vars => IInv'
<1> SUFFICES ASSUME IInv, [Next]_vars PROVE Rest'
  BY NextTypes DEF IInv
<1>0. Facts
  BY IInvFacts
<1> USE DEF Facts
<1>1. ASSUME UNCHANGED <<manager, mainQ, running, shutter, shots, decoding, edits, picker, auth, overlap>>,
             lateJobs' \in Nat, lateJobs' <= lateJobs
      PROVE  Rest'
  BY <1>0, <1>1, QueueKept, QuietRest
<1>2. CASE UNCHANGED vars
  BY <1>0, <1>1, <1>2 DEF vars, work, jobs
<1>3. CASE SelectMode
  BY <1>0, <1>1, <1>3 DEF SelectMode, work, jobs
<1>4. CASE captureOutput
  BY <1>0, <1>1, <1>4 DEF captureOutput, work, jobs
<1>5. ASSUME NEW b \in BOOLEAN, processRectangle(b) PROVE Rest'
  BY <1>0, <1>1, <1>5 DEF processRectangle, work, jobs
<1>6. CASE LateJob
  BY <1>0, <1>1, <1>6 DEF LateJob
<1>7. CASE processNoRectangle
  <2>1. PickedLast' /\ \A c : Count(c)' = Count(c) + (IF "noRectangle" = c THEN 1 ELSE 0)
    BY <1>0, <1>7, Added DEF processNoRectangle, Closures
  <2>2. \A c \in Closures \ {"noRectangle"} : Count(c)' = Count(c)
    BY <1>0, <2>1
  <2> QED BY <1>0, <1>7, <2>1, <2>2, QuietRest DEF processNoRectangle, work, jobs
<1>8. CASE noRectangle
  <2>1. /\ PickedLast'
        /\ \A c : Count(c)' \in Nat /\ Count(c) = Count(c)' + (IF "noRectangle" = c THEN 1 ELSE 0)
    BY <1>0, <1>8, Finished DEF noRectangle
  <2>2. \A c \in Closures \ {"noRectangle"} : Count(c)' = Count(c)
    BY <1>0, <2>1
  <2> QED BY <1>0, <1>8, <2>1, <2>2, QuietRest DEF noRectangle, work, jobs
<1>9. ASSUME NEW b \in BOOLEAN, completeImageCapture(b) PROVE Rest'
  <2>1. decoding > 0
    BY <1>0, <1>9 DEF completeImageCapture, Types
  <2> QED BY <1>9, <2>1, DecodedRest DEF completeImageCapture
<1>10. CASE displayRectangleResult
  <2>1. decoding > 0
    BY <1>0, <1>10 DEF displayRectangleResult, Types
  <2> QED BY <1>10, <2>1, DecodedRest DEF displayRectangleResult
<1>11. CASE readRectangle
  BY <1>0, <1>1, <1>11 DEF readRectangle
<1> QED
  BY <1>2, <1>3, <1>4, <1>5, <1>6, <1>7, <1>8, <1>9, <1>10, <1>11, captureImageRest, showImagePickVCRest,
     photoErrorRest, photoOutputRest, processStableRectangleRest, PickLoadedRest,
     AccessAnsweredRest, didFinishPickingRest, PopEditRest,
     DismissAndRescanRest, startRunningRest, RunStartRest, didCapturePictureRest,
     didFailWithErrorRest, pushEditVCRest, PickFailedRest
  DEF Next, User, Photo, Decode, MainQueue

\* The invariant holds throughout.
LEMMA Invariance == Spec => []IInv
<1> QED BY InitIInv, NextIInv, PTL DEF Spec

\* Every variable has its type, and pictures stay within their bound.
THEOREM TypeCorrect == Spec => []TypeOK
<1>1. IInv => TypeOK
  <2> SUFFICES ASSUME IInv PROVE TypeOK
    OBVIOUS
  <2>1. Facts
    BY IInvFacts
  <2>2. Outstanding + lateJobs + edits <= MaxPictures
    BY <2>1 DEF Facts, Bounded
  <2> QED BY <2>1, <2>2 DEF Facts, Types, TypeOK
<1> QED BY <1>1, Invariance, PTL

\* Whatever the four threads do, also when pictures overlap or the manager came
\* out of its initialiser with a session it cannot use, the shutter button is off
\* only while a photograph is on its way that turns it on again, unless there is
\* no manager at all.
THEOREM ShutterAlwaysOwned == Spec => []ShutterOwned
<1>1. IInv => ShutterOwned
  BY DEF IInv, Rest
<1> QED BY <1>1, Invariance, PTL

\* As long as no second picture is begun before the first is shown, the session
\* never runs under another screen, so that nothing there can be captured.
THEOREM NoAutoScanElsewhere == Spec => []AutoScanOffUnlessOverlap
<1>1. IInv => AutoScanOffUnlessOverlap
  BY DEF IInv, Rest, OneAtATime, AutoScanOffUnlessOverlap
<1> QED BY <1>1, Invariance, PTL

\* As long as no second picture is begun before the first is shown, at most one
\* edit screen lies over the scanner.
THEOREM OneEditScreen == Spec => []OneEditUnlessOverlap
<1>1. IInv => OneEditUnlessOverlap
  <2> SUFFICES ASSUME IInv, ~overlap PROVE edits <= 1
    BY DEF OneEditUnlessOverlap
  <2>1. Facts
    BY IInvFacts
  <2> QED BY <2>1 DEF Facts, OneAtATime
<1> QED BY <1>1, Invariance, PTL

\* What isEditing is documented to be for holds of those pictures: a stable
\* rectangle is captured by itself only on the scanner.
THEOREM AutoScanOnScannerUnlessOverlap ==
  Spec => [][~overlap /\ processStableRectangle /\ shots' > shots => OnScanner]_vars
<1>1. IInv /\ [Next]_vars =>
        [~overlap /\ processStableRectangle /\ shots' > shots => OnScanner]_vars
  <2> SUFFICES ASSUME IInv, ~overlap, processStableRectangle, shots' > shots
               PROVE  OnScanner
    OBVIOUS
  <2>1. shots \in Nat /\ running \in BOOLEAN
    BY DEF IInv, Types
  <2>2. running
    BY <2>1 DEF processStableRectangle, capturePhoto, Connected
  <2> QED BY <2>2 DEF IInv, Rest, OneAtATime
<1> QED BY <1>1, Invariance, PTL DEF Spec
=============================================================================

---------------------------- MODULE FunnelProofs ----------------------------
(***************************************************************************)
(* Proofs about the rectangle funnel, for any positions, thresholds and    *)
(* sizes of the window.                                                    *)
(*                                                                         *)
(* Two arguments carry them.  The scan from the newest rectangle to the    *)
(* oldest is a recursive function; Chosen says of a position what the scan *)
(* has established of the part it has seen, and is carried from one        *)
(* rectangle to the next by induction over their number.  And two parts of *)
(* the window that are each more than half of it have a rectangle in       *)
(* common, which ties the best rectangle to the majority.                  *)
(***************************************************************************)
EXTENDS Funnel, FiniteSetTheorems, WellFoundedInduction, TLAPS

Rectangle == [feature : Quadrilaterals, matchingScore : Nat]

-----------------------------------------------------------------------------
(* Induction.                                                                *)

\* A non-empty set of natural numbers has a least element.
LEMMA LeastNatural ==
  ASSUME NEW T, T \subseteq Nat, T # {}
  PROVE  \E x \in T : \A y \in T : x <= y
<1> DEFINE R == {p \in Nat \X Nat : p[1] < p[2]}
<1>1. IsWellFoundedOn(R, Nat)
  BY NatLessThanWellFounded DEF OpToRel
<1>2. \E x \in T : \A y \in T : ~ (<<y, x>> \in R)
  <2> HIDE DEF R
  <2> QED BY <1>1, WFMin
<1>3. PICK x \in T : \A y \in T : ~ (<<y, x>> \in R)
  BY <1>2
<1>4. ASSUME NEW y \in T PROVE x <= y
  <2>1. y \in Nat /\ x \in Nat
    OBVIOUS
  <2>2. ~ (<<y, x>> \in R)
    BY <1>3
  <2>3. ~ (y < x)
    BY <2>1, <2>2
  <2> QED BY <2>1, <2>3
<1> QED BY <1>4

\* Induction over the natural numbers, for a set.
LEMMA SetInduction ==
  ASSUME NEW S, 0 \in S, \A n \in Nat : n \in S => n + 1 \in S
  PROVE  Nat \subseteq S
<1> SUFFICES ASSUME Nat \ S # {} PROVE FALSE
  OBVIOUS
<1>1. PICK x \in Nat \ S : \A y \in Nat \ S : x <= y
  BY LeastNatural
<1>2. x - 1 \in Nat /\ x - 1 \in S
  BY <1>1
<1> QED BY <1>1, <1>2

-----------------------------------------------------------------------------
(* The scan of bestRectangle.                                                *)

Score(rs, j) == rs[j].matchingScore
Near(rs, current, j) ==
    current # None /\ isWithin(rs[j].feature, matchingThreshold, current)

\* b is the choice among the rectangles from k on: none has a higher score, none
\* with the same score is near the displayed rectangle unless b is, and the newer
\* ones with the same score are not while b is.
Chosen(rs, current, k, b) ==
    /\ b \in k .. Len(rs)
    /\ \A j \in k .. Len(rs) :
          /\ Score(rs, j) <= Score(rs, b)
          /\ Score(rs, j) = Score(rs, b) =>
                /\ Near(rs, current, j) => Near(rs, current, b)
                /\ j > b => Near(rs, current, b) /\ ~Near(rs, current, j)

\* One step of the scan, when g is what it has found so far.
Scan(g, rs, current, k) ==
    IF k = Len(rs) THEN rs[k]
    ELSE LET best == g[k + 1] IN
         CASE rs[k].matchingScore > best.matchingScore -> rs[k]
           [] rs[k].matchingScore < best.matchingScore -> best
           [] OTHER -> IF current = None THEN best
                       ELSE breakTie(best, rs[k], current)

\* A step of the scan carries the choice on.
LEMMA ScanChooses ==
  ASSUME NEW rs \in Seq(Rectangle), NEW current, NEW k \in 1 .. Len(rs), k # Len(rs),
         NEW g, NEW b, Chosen(rs, current, k + 1, b), g[k + 1] = rs[b]
  PROVE  \E c : Chosen(rs, current, k, c) /\ Scan(g, rs, current, k) = rs[c]
<1>1. /\ Len(rs) \in Nat /\ b \in 1 .. Len(rs) /\ b > k /\ k + 1 \in 1 .. Len(rs)
      /\ b \in k .. Len(rs)
  BY DEF Chosen
<1>2. \A j \in 1 .. Len(rs) : Score(rs, j) \in Nat
  <2>1. \A j \in 1 .. Len(rs) : rs[j] \in Rectangle
    OBVIOUS
  <2> QED BY <2>1 DEF Score, Rectangle
<1>3. \A j \in k .. Len(rs) : j \in 1 .. Len(rs) /\ (j = k \/ j \in (k + 1) .. Len(rs))
  BY <1>1
<1>4. CASE Score(rs, k) > Score(rs, b)
  <2>1. Scan(g, rs, current, k) = rs[k]
    BY <1>1, <1>2, <1>4 DEF Scan, Score
  <2>2. \A j \in (k + 1) .. Len(rs) : Score(rs, j) < Score(rs, k)
    <3> SUFFICES ASSUME NEW j \in (k + 1) .. Len(rs) PROVE Score(rs, j) < Score(rs, k)
      OBVIOUS
    <3>1. Score(rs, j) <= Score(rs, b)
      BY DEF Chosen
    <3>2. j \in 1 .. Len(rs)
      BY <1>1
    <3> QED BY <1>1, <1>2, <1>4, <3>1, <3>2
  <2>3. Chosen(rs, current, k, k)
    BY <1>1, <1>2, <1>3, <2>2 DEF Chosen
  <2> QED BY <2>1, <2>3
<1>5. CASE Score(rs, k) < Score(rs, b)
  <2>1. Scan(g, rs, current, k) = rs[b]
    BY <1>1, <1>2, <1>5 DEF Scan, Score
  <2>2. Chosen(rs, current, k, b)
    BY <1>1, <1>2, <1>3, <1>5 DEF Chosen
  <2> QED BY <2>1, <2>2
<1>6. CASE Score(rs, k) = Score(rs, b)
  <2>1. Scan(g, rs, current, k) =
          IF current = None THEN rs[b] ELSE breakTie(rs[b], rs[k], current)
    BY <1>1, <1>2, <1>6 DEF Scan, Score
  <2>2. CASE Near(rs, current, b) \/ ~Near(rs, current, k)
    <3>1. Scan(g, rs, current, k) = rs[b]
      BY <2>1, <2>2 DEF breakTie, Near
    <3>2. Chosen(rs, current, k, b)
      BY <1>1, <1>2, <1>3, <1>6, <2>2 DEF Chosen
    <3> QED BY <3>1, <3>2
  <2>3. CASE ~Near(rs, current, b) /\ Near(rs, current, k)
    <3>1. Scan(g, rs, current, k) = rs[k]
      BY <2>1, <2>3 DEF breakTie, Near
    <3>2. Chosen(rs, current, k, k)
      BY <1>1, <1>2, <1>3, <1>6, <2>3 DEF Chosen
    <3> QED BY <3>1, <3>2
  <2> QED BY <2>2, <2>3
<1>7. Score(rs, k) \in Nat /\ Score(rs, b) \in Nat
  BY <1>1, <1>2
<1> QED BY <1>4, <1>5, <1>6, <1>7

\* The function that bestRectangle defines by recursion exists.
LEMMA ScanDefined ==
  ASSUME NEW rs \in Seq(Rectangle), NEW current, rs # <<>>
  PROVE  \E g : g = [k \in 1 .. Len(rs) |-> Scan(g, rs, current, k)]
<1> DEFINE n == Len(rs)
           Good == {d \in Nat : d < n => \E g : g = [k \in (n - d) .. n |-> Scan(g, rs, current, k)]}
<1>1. n \in Nat /\ n >= 1
  OBVIOUS
<1>2. 0 \in Good
  <2> DEFINE g == [k \in (n - 0) .. n |-> rs[n]]
  <2>1. \A k \in (n - 0) .. n : k = n
    BY <1>1
  <2>2. g = [k \in (n - 0) .. n |-> Scan(g, rs, current, k)]
    BY <2>1 DEF Scan
  <2> QED BY <2>2
<1>3. ASSUME NEW d \in Nat, d \in Good PROVE d + 1 \in Good
  <2> SUFFICES ASSUME d + 1 < n
               PROVE  \E h : h = [k \in (n - (d + 1)) .. n |-> Scan(h, rs, current, k)]
    OBVIOUS
  <2> DEFINE first == n - (d + 1)
  <2>1. first \in Nat /\ first + 1 = n - d /\ first # n /\ d < n
    BY <1>1
  <2>2. PICK g : g = [k \in (n - d) .. n |-> Scan(g, rs, current, k)]
    BY <1>3, <2>1
  <2> HIDE DEF first
  <2> DEFINE h == [k \in first .. n |-> IF k = first THEN Scan(g, rs, current, first) ELSE g[k]]
  <2>3. ASSUME NEW k \in first .. n PROVE h[k] = Scan(h, rs, current, k)
    <3>1. k # n => k + 1 \in first .. n /\ k + 1 # first
      BY <1>1, <2>1
    <3>2. k # n => h[k + 1] = g[k + 1]
      BY <3>1
    <3>3. Scan(h, rs, current, k) = Scan(g, rs, current, k)
      <4> HIDE DEF h
      <4>1. CASE k = n
        BY <4>1 DEF Scan
      <4>2. CASE k # n
        BY <3>2, <4>2 DEF Scan
      <4> QED BY <4>1, <4>2
    <3>4. CASE k = first
      BY <3>3, <3>4
    <3>5. CASE k # first
      <4>1. k \in (n - d) .. n
        BY <1>1, <2>1, <3>5
      <4>2. g[k] = Scan(g, rs, current, k)
        BY <2>2, <4>1
      <4> QED BY <3>3, <3>5, <4>2
    <3> QED BY <3>4, <3>5
  <2>4. h = [k \in first .. n |-> Scan(h, rs, current, k)]
    <3> DEFINE r == [k \in first .. n |-> Scan(h, rs, current, k)]
    <3>1. \A k \in first .. n : h[k] = r[k]
      BY <2>3
    <3>2. h = [k \in first .. n |-> h[k]] /\ r = [k \in first .. n |-> r[k]]
      OBVIOUS
    <3> HIDE DEF h, r
    <3>3. h = r
      BY <3>1, <3>2
    <3> QED BY <3>3 DEF r
  <2> HIDE DEF h
  <2> QED BY <2>4 DEF first
<1>4. Nat \subseteq Good
  <2> HIDE DEF Good
  <2> QED BY <1>2, <1>3, SetInduction
<1>5. n - 1 \in Good /\ n - 1 < n /\ n - (n - 1) = 1
  <2>1. n - 1 \in Nat /\ n - 1 < n /\ n - (n - 1) = 1
    BY <1>1
  <2> HIDE DEF Good
  <2> QED BY <1>4, <2>1
<1>6. \E g : g = [k \in (n - (n - 1)) .. n |-> Scan(g, rs, current, k)]
  BY <1>5
<1> QED BY <1>5, <1>6

\* The best rectangle of a window is the choice among all of it.
LEMMA BestChosen ==
  ASSUME NEW rs \in Seq(Rectangle), NEW current, rs # <<>>
  PROVE  \E b : Chosen(rs, current, 1, b) /\ bestRectangle(rs, current) = rs[b]
<1> DEFINE n == Len(rs)
           found == CHOOSE g : g = [k \in 1 .. n |-> Scan(g, rs, current, k)]
<1>1. n \in Nat /\ n >= 1 /\ DOMAIN rs = 1 .. n
  OBVIOUS
<1>2. found = [k \in 1 .. n |-> Scan(found, rs, current, k)]
  <2>1. \E g : g = [k \in 1 .. n |-> Scan(g, rs, current, k)]
    BY ScanDefined
  <2> QED BY <2>1
<1>3. bestRectangle(rs, current) = found[1]
  BY <1>1 DEF bestRectangle, Scan
<1> HIDE DEF found
<1> DEFINE Good == {d \in Nat : d < n => \E b : /\ Chosen(rs, current, n - d, b)
                                                /\ found[n - d] = rs[b]}
<1>4. 0 \in Good
  <2>1. n - 0 = n /\ n \in 1 .. n /\ n .. n = {n}
    BY <1>1
  <2>2. found[n] = rs[n]
    BY <1>2, <2>1 DEF Scan
  <2>3. Score(rs, n) \in Nat
    <3>1. rs[n] \in Rectangle
      BY <2>1
    <3> QED BY <3>1 DEF Score, Rectangle
  <2>4. Chosen(rs, current, n, n)
    BY <1>1, <2>1, <2>3 DEF Chosen
  <2> QED BY <2>1, <2>2, <2>4
<1>5. ASSUME NEW d \in Nat, d \in Good PROVE d + 1 \in Good
  <2> SUFFICES ASSUME d + 1 < n
               PROVE  \E b : /\ Chosen(rs, current, n - (d + 1), b)
                             /\ found[n - (d + 1)] = rs[b]
    OBVIOUS
  <2> DEFINE k == n - (d + 1)
  <2>1. k \in 1 .. n /\ k # n /\ k + 1 = n - d /\ d < n
    <3> HIDE DEF Good, n
    <3> QED BY <1>1
  <2>2. PICK b : Chosen(rs, current, n - d, b) /\ found[n - d] = rs[b]
    BY <1>5, <2>1
  <2> HIDE DEF k
  <2>3. Chosen(rs, current, k + 1, b) /\ found[k + 1] = rs[b]
    BY <2>1, <2>2
  <2>4. PICK c : Chosen(rs, current, k, c) /\ Scan(found, rs, current, k) = rs[c]
    BY <2>1, <2>3, ScanChooses
  <2>5. found[k] = Scan(found, rs, current, k)
    BY <1>2, <2>1
  <2> QED BY <2>4, <2>5 DEF k
<1>6. Nat \subseteq Good
  <2> HIDE DEF Good
  <2> QED BY <1>4, <1>5, SetInduction
<1>7. n - 1 \in Good /\ n - 1 < n /\ n - (n - 1) = 1
  <2>1. n - 1 \in Nat /\ n - 1 < n /\ n - (n - 1) = 1
    BY <1>1
  <2> HIDE DEF Good
  <2> QED BY <1>6, <2>1
<1>8. \E b : Chosen(rs, current, n - (n - 1), b) /\ found[n - (n - 1)] = rs[b]
  BY <1>7
<1> QED BY <1>3, <1>7, <1>8

-----------------------------------------------------------------------------
(* Scores.                                                                   *)

\* The rectangles that i of the window forms a matching pair with.
Matching(rs, i) ==
    {j \in DOMAIN rs : \/ i < j /\ matches(rs[i], rs[j])
                       \/ j < i /\ matches(rs[j], rs[i])}

\* Scores count matches.
Counted(rs) ==
    \A i \in DOMAIN rs : rs[i].matchingScore = 1 + Cardinality(Matching(rs, i))

\* Parts of a window are finite and no larger than it.
LEMMA Parts ==
  ASSUME NEW n \in Nat, NEW A \in SUBSET (1 .. n)
  PROVE  IsFiniteSet(A) /\ Cardinality(A) \in Nat /\ Cardinality(A) <= n
<1>1. IsFiniteSet(1 .. n) /\ Cardinality(1 .. n) = n
  <2>1. 1 \in Int /\ n \in Int
    OBVIOUS
  <2>2. /\ IsFiniteSet(1 .. n)
        /\ Cardinality(1 .. n) = IF 1 > n THEN 0 ELSE n - 1 + 1
    BY <2>1, FS_Interval
  <2> QED BY <2>2
<1>2. IsFiniteSet(A) /\ Cardinality(A) <= Cardinality(1 .. n)
  BY <1>1, FS_Subset
<1>3. Cardinality(A) \in Nat
  BY <1>2, FS_CardinalityType
<1> QED BY <1>1, <1>2, <1>3

\* A rectangle is no match of itself: with it, its matches are one more.
LEMMA MatchingAndSelf ==
  ASSUME NEW rs \in Seq(Rectangle), NEW i \in DOMAIN rs
  PROVE  /\ Matching(rs, i) \subseteq DOMAIN rs /\ i \notin Matching(rs, i)
         /\ Cardinality(Matching(rs, i)) \in Nat
         /\ Cardinality(Matching(rs, i) \cup {i}) = 1 + Cardinality(Matching(rs, i))
         /\ 1 + Cardinality(Matching(rs, i)) <= Len(rs)
<1>1. Len(rs) \in Nat /\ DOMAIN rs = 1 .. Len(rs) /\ i \in Nat
  OBVIOUS
<1>2. Matching(rs, i) \subseteq DOMAIN rs /\ i \notin Matching(rs, i)
  BY <1>1 DEF Matching
<1>3. IsFiniteSet(Matching(rs, i)) /\ Cardinality(Matching(rs, i)) \in Nat
  BY <1>1, <1>2, Parts
<1>4. Cardinality(Matching(rs, i) \cup {i}) = Cardinality(Matching(rs, i)) + 1
  BY <1>2, <1>3, FS_AddElement
<1>5. Cardinality(Matching(rs, i) \cup {i}) <= Len(rs)
  <2>1. Matching(rs, i) \cup {i} \in SUBSET (1 .. Len(rs))
    BY <1>1, <1>2
  <2> QED BY <1>1, <2>1, Parts
<1> QED BY <1>2, <1>3, <1>4, <1>5

\* What updateRectangleMatches returns: the same rectangles, with scores that
\* count and that the size of the window bounds.
LEMMA Updated ==
  ASSUME NEW rs \in Seq(Rectangle)
  PROVE  LET u == updateRectangleMatches(rs) IN
           /\ u \in Seq(Rectangle) /\ Len(u) = Len(rs) /\ Counted(u)
           /\ \A i \in DOMAIN u : u[i].matchingScore <= Len(rs)
<1> DEFINE u == updateRectangleMatches(rs)
<1>1. Len(rs) \in Nat /\ DOMAIN rs = 1 .. Len(rs) /\ \A i \in DOMAIN rs : rs[i] \in Rectangle
  OBVIOUS
<1>2. u = [i \in DOMAIN rs |-> [rs[i] EXCEPT !.matchingScore = 1 + Cardinality(Matching(rs, i))]]
  BY DEF updateRectangleMatches, Matching
<1> HIDE DEF u
<1>3. ASSUME NEW i \in DOMAIN rs
      PROVE  /\ u[i] \in Rectangle /\ u[i].feature = rs[i].feature
             /\ u[i].matchingScore = 1 + Cardinality(Matching(rs, i))
             /\ u[i].matchingScore <= Len(rs)
  <2>1. /\ Cardinality(Matching(rs, i)) \in Nat
        /\ 1 + Cardinality(Matching(rs, i)) <= Len(rs)
    BY MatchingAndSelf
  <2>2. u[i] = [rs[i] EXCEPT !.matchingScore = 1 + Cardinality(Matching(rs, i))]
    BY <1>2
  <2>3. 1 + Cardinality(Matching(rs, i)) \in Nat
    BY <2>1
  <2> QED BY <1>1, <2>1, <2>2, <2>3 DEF Rectangle
<1>4. DOMAIN u = DOMAIN rs
  BY <1>2
<1>5. u \in Seq(Rectangle) /\ Len(u) = Len(rs)
  <2>1. u = [i \in 1 .. Len(rs) |-> u[i]]
    BY <1>1, <1>2
  <2>2. [i \in 1 .. Len(rs) |-> u[i]] \in Seq(Rectangle)
    BY <1>1, <1>3
  <2> QED BY <1>1, <1>4, <2>1, <2>2
<1>6. ASSUME NEW i \in DOMAIN u PROVE Matching(u, i) = Matching(rs, i)
  BY <1>3, <1>4 DEF Matching, matches
<1>7. Counted(u)
  BY <1>3, <1>4, <1>6 DEF Counted
<1> QED BY <1>3, <1>4, <1>5, <1>7 DEF u

\* Two parts of a window that are together larger than it have something in
\* common.
LEMMA Overlap ==
  ASSUME NEW n \in Nat, NEW A \in SUBSET (1 .. n), NEW B \in SUBSET (1 .. n),
         Cardinality(A) + Cardinality(B) > n
  PROVE  A \cap B # {}
<1>1. /\ IsFiniteSet(A) /\ Cardinality(A) \in Nat
      /\ IsFiniteSet(B) /\ Cardinality(B) \in Nat
  BY Parts
<1>2. Cardinality(A \cup B) = Cardinality(A) + Cardinality(B) - Cardinality(A \cap B)
  BY <1>1, FS_Union
<1>3. A \cup B \in SUBSET (1 .. n)
  OBVIOUS
<1>4. Cardinality(A \cup B) \in Nat /\ Cardinality(A \cup B) <= n
  BY <1>3, Parts
<1>5. A \cap B = {} => Cardinality(A \cap B) = 0
  BY FS_EmptySet
<1> QED BY <1>1, <1>2, <1>4, <1>5

-----------------------------------------------------------------------------
(* The inductive invariant.                                                  *)

Types == rectangles \in Seq(Rectangle) /\ TypeOK

\* Beside the property itself: once there are enough rectangles, their scores are
\* those of the window as it is.
IInv == Types /\ (Scored => Counted(rectangles)) /\ DisplaySupported

\* The choice among the whole window has the highest score.
LEMMA ChosenHighest ==
  ASSUME NEW rs \in Seq(Rectangle), NEW current, NEW b, Chosen(rs, current, 1, b)
  PROVE  /\ b \in DOMAIN rs /\ rs[b] \in Rectangle
         /\ \A j \in DOMAIN rs : rs[j].matchingScore <= rs[b].matchingScore
<1>1. DOMAIN rs = 1 .. Len(rs)
  OBVIOUS
<1> QED BY <1>1 DEF Chosen, Score

\* The window after a rectangle has arrived.
LEMMA Appended ==
  ASSUME Types, NEW q \in Quadrilaterals
  PROVE  LET rs == appended([feature |-> q, matchingScore |-> 0]) IN
           /\ rs \in Seq(Rectangle) /\ rs # <<>>
           /\ Len(rs) <= maxNumberOfRectangles
           /\ Len(rs) =
                IF Len(rectangles) = maxNumberOfRectangles THEN Len(rectangles)
                ELSE Len(rectangles) + 1
           /\ \A i \in DOMAIN rs : rs[i].matchingScore \in 0 .. maxNumberOfRectangles
<1> DEFINE r == [feature |-> q, matchingScore |-> 0]
           w == rectangles
           max == maxNumberOfRectangles
<1>1. r \in Rectangle /\ w \in Seq(Rectangle)
  BY DEF Types, Rectangle
<1>2. max \in Nat /\ max > 0 /\ Len(w) \in Nat /\ Len(w) <= max
  BY <1>1, ThresholdsAssumption DEF Types, TypeOK
<1>3. \A i \in DOMAIN w : w[i].matchingScore \in 0 .. max
  BY DEF Types, TypeOK
<1>4. r.matchingScore \in 0 .. max
  BY <1>2
<1> HIDE DEF r, w, max
<1>5. CASE Len(w) = max
  <2> DEFINE t == Tail(w)
             rs == Append(t, r)
  <2>1. /\ t \in Seq(Rectangle) /\ Len(t) = Len(w) - 1
        /\ \A i \in 1 .. Len(t) : t[i] = w[i + 1] /\ i + 1 \in DOMAIN w
    BY <1>1, <1>2, <1>5
  <2> HIDE DEF t
  <2>2. /\ rs \in Seq(Rectangle) /\ Len(rs) = Len(t) + 1 /\ rs # <<>>
        /\ DOMAIN rs = 1 .. (Len(t) + 1) /\ rs[Len(t) + 1] = r
        /\ \A i \in 1 .. Len(t) : rs[i] = t[i]
    BY <1>1, <2>1
  <2> HIDE DEF rs
  <2>3. Len(rs) = Len(w)
    BY <1>2, <2>1, <2>2
  <2>4. ASSUME NEW i \in DOMAIN rs PROVE rs[i].matchingScore \in 0 .. max
    <3>1. CASE i = Len(t) + 1
      BY <1>4, <2>2, <3>1
    <3>2. CASE i \in 1 .. Len(t)
      BY <1>3, <2>1, <2>2, <3>2
    <3> QED BY <1>2, <2>1, <2>2, <3>1, <3>2
  <2>5. appended(r) = rs
    BY <1>5 DEF appended, rs, t, w, max
  <2> QED BY <1>2, <1>5, <2>2, <2>3, <2>4, <2>5 DEF r, w, max
<1>6. CASE Len(w) # max
  <2> DEFINE rs == Append(w, r)
  <2>1. /\ rs \in Seq(Rectangle) /\ Len(rs) = Len(w) + 1 /\ rs # <<>>
        /\ DOMAIN rs = 1 .. (Len(w) + 1) /\ DOMAIN w = 1 .. Len(w)
        /\ rs[Len(w) + 1] = r
        /\ \A i \in 1 .. Len(w) : rs[i] = w[i]
    BY <1>1
  <2> HIDE DEF rs
  <2>2. ASSUME NEW i \in DOMAIN rs PROVE rs[i].matchingScore \in 0 .. max
    <3>1. CASE i = Len(w) + 1
      BY <1>4, <2>1, <3>1
    <3>2. CASE i \in 1 .. Len(w)
      BY <1>3, <2>1, <3>2
    <3> QED BY <1>2, <2>1, <3>1, <3>2
  <2>3. appended(r) = rs
    BY <1>6 DEF appended, rs, w, max
  <2>4. Len(rs) <= max
    <3>1. Len(w) + 1 <= max
      BY <1>2, <1>6
    <3> QED BY <2>1, <3>1
  <2> QED BY <1>6, <2>1, <2>2, <2>3, <2>4 DEF r, w, max
<1> QED BY <1>5, <1>6

\* The empty window.
LEMMA InitIInv == Init => IInv
BY ThresholdsAssumption
   DEF Init, IInv, Types, TypeOK, Scored, DisplaySupported

\* Too few rectangles to say anything.
LEMMA TooFewIInv ==
  ASSUME IInv, NEW q \in Quadrilaterals, TooFew(q)
  PROVE  IInv'
<1> DEFINE rs == appended([feature |-> q, matchingScore |-> 0])
<1>1. /\ Len(rectangles) + 1 < minNumberOfRectangles /\ rectangles' = rs
      /\ result' = "none" /\ UNCHANGED <<currentAutoScanPassCount, displayed>>
  BY DEF TooFew
<1>2. /\ rs \in Seq(Rectangle)
      /\ Len(rs) <= maxNumberOfRectangles
      /\ Len(rs) =
           IF Len(rectangles) = maxNumberOfRectangles THEN Len(rectangles)
           ELSE Len(rectangles) + 1
      /\ \A i \in DOMAIN rs : rs[i].matchingScore \in 0 .. maxNumberOfRectangles
  BY Appended DEF IInv
<1> HIDE DEF rs
<1>3. /\ minNumberOfRectangles \in Nat /\ maxNumberOfRectangles \in Nat
      /\ Len(rectangles) \in Nat
  BY ThresholdsAssumption DEF IInv, Types
<1>4. ~Scored'
  BY <1>1, <1>2, <1>3 DEF Scored
<1>5. \A i \in DOMAIN rs : rs[i] \in [feature : Quadrilaterals,
                                      matchingScore : 0 .. maxNumberOfRectangles]
  <2>1. \A i \in DOMAIN rs : rs[i] \in Rectangle
    BY <1>2
  <2> QED BY <1>2, <2>1 DEF Rectangle
<1>6. Types'
  BY <1>1, <1>2, <1>5 DEF IInv, Types, TypeOK
<1> QED BY <1>4, <1>6 DEF IInv, DisplaySupported

\* The best of the new window is put on display or is near what is there.
LEMMA AddIInv ==
  ASSUME IInv, NEW q \in Quadrilaterals, add(q)
  PROVE  IInv'
<1> DEFINE w == appended([feature |-> q, matchingScore |-> 0])
           rs == updateRectangleMatches(w)
           best == bestRectangle(rs, displayed).feature
<1>1. rectangles' = rs /\ compare(rs)
  BY DEF add
<1>2. w \in Seq(Rectangle) /\ w # <<>> /\ Len(w) <= maxNumberOfRectangles
  BY Appended DEF IInv
<1> HIDE DEF w
<1>3. /\ rs \in Seq(Rectangle) /\ Len(rs) = Len(w) /\ Counted(rs)
      /\ \A i \in DOMAIN rs : rs[i].matchingScore <= Len(w)
  BY <1>2, Updated
<1> HIDE DEF rs
<1>4. Len(w) \in Nat /\ rs # <<>> /\ maxNumberOfRectangles \in Nat
  BY <1>2, <1>3, ThresholdsAssumption
<1>5. PICK b : Chosen(rs, displayed, 1, b) /\ bestRectangle(rs, displayed) = rs[b]
  BY <1>3, <1>4, BestChosen
<1>6. /\ b \in DOMAIN rs /\ rs[b] \in Rectangle /\ best = rs[b].feature
      /\ \A j \in DOMAIN rs : rs[j].matchingScore <= rs[b].matchingScore
  BY <1>3, <1>5, ChosenHighest
<1> HIDE DEF best
<1>7. \/ /\ displayed # None /\ isWithin(best, autoScanMatchingThreshold, displayed)
         /\ displayed' = displayed
      \/ displayed' = best
  BY <1>1 DEF compare, best
<1>8. best \in Quadrilaterals
  BY <1>6 DEF Rectangle
<1>9. DisplaySupported'
  <2>1. b \in Highest'
    BY <1>1, <1>6 DEF Highest
  <2>2. \/ rs[b].feature = displayed'
        \/ isWithin(rs[b].feature, autoScanMatchingThreshold, displayed')
    BY <1>6, <1>7
  <2> QED BY <1>1, <2>1, <2>2 DEF DisplaySupported
<1>10. currentAutoScanPassCount' \in 0 .. autoScanThreshold
  <2>1. currentAutoScanPassCount \in 0 .. autoScanThreshold /\ autoScanThreshold \in Nat
    BY ThresholdsAssumption DEF IInv, Types, TypeOK
  <2>2. \/ /\ ~ (currentAutoScanPassCount + 1 > autoScanThreshold)
           /\ currentAutoScanPassCount' = currentAutoScanPassCount + 1
        \/ currentAutoScanPassCount' = 0
        \/ currentAutoScanPassCount' = currentAutoScanPassCount
    BY <1>1 DEF compare
  <2> QED BY <2>1, <2>2
<1>11. result' \in {"none", "showOnly", "showAndAutoScan"}
  BY <1>1 DEF compare
<1>12. \A i \in DOMAIN rs : rs[i] \in [feature : Quadrilaterals,
                                       matchingScore : 0 .. maxNumberOfRectangles]
  <2> SUFFICES ASSUME NEW i \in DOMAIN rs
               PROVE  rs[i] \in [feature : Quadrilaterals,
                                 matchingScore : 0 .. maxNumberOfRectangles]
    OBVIOUS
  <2>1. rs[i] \in Rectangle /\ rs[i].matchingScore <= Len(w)
    BY <1>3
  <2>2. rs[i].matchingScore \in Nat
    BY <2>1 DEF Rectangle
  <2>3. rs[i].matchingScore \in 0 .. maxNumberOfRectangles
    BY <1>2, <1>4, <2>1, <2>2
  <2> QED BY <2>1, <2>3 DEF Rectangle
<1>13. displayed' \in Quadrilaterals \cup {None}
  BY <1>7, <1>8 DEF IInv, Types, TypeOK
<1>14. Types'
  BY <1>1, <1>2, <1>3, <1>10, <1>11, <1>12, <1>13 DEF Types, TypeOK
<1>15. Counted(rectangles)'
  BY <1>1, <1>3 DEF Counted, Matching
<1> QED BY <1>9, <1>14, <1>15 DEF IInv

\* Every step preserves the invariant.
LEMMA NextIInv == IInv /\ [Next]_vars => IInv'
<1> SUFFICES ASSUME IInv, [Next]_vars PROVE IInv'
  OBVIOUS
<1>1. ASSUME NEW q \in Quadrilaterals, Frame(q) PROVE IInv'
  BY <1>1, TooFewIInv, AddIInv DEF Frame
<1>2. 0 \in 0 .. autoScanThreshold
  BY ThresholdsAssumption
<1>3. CASE RectangleGone
  <2>1. /\ rectangles' = rectangles /\ displayed' = None
        /\ currentAutoScanPassCount' = 0 /\ result' = "none"
    BY <1>3 DEF RectangleGone
  <2>2. Types'
    BY <1>2, <2>1 DEF IInv, Types, TypeOK
  <2> QED BY <2>1, <2>2 DEF IInv, Scored, Counted, Matching, DisplaySupported
<1>4. CASE PhotoTaken
  <2>1. /\ rectangles' = rectangles /\ displayed' = displayed
        /\ currentAutoScanPassCount' = 0 /\ result' = "none"
    BY <1>4 DEF PhotoTaken
  <2>2. Types'
    BY <1>2, <2>1 DEF IInv, Types, TypeOK
  <2> QED BY <2>1, <2>2 DEF IInv, Scored, Counted, Matching, DisplaySupported, Highest
<1>5. CASE UNCHANGED vars
  BY <1>5 DEF vars, IInv, Types, TypeOK, Scored, Counted, Matching, DisplaySupported, Highest
<1> QED BY <1>1, <1>3, <1>4, <1>5 DEF Next

\* The invariant holds throughout.
LEMMA Invariance == Spec => []IInv
BY InitIInv, NextIInv, PTL DEF Spec

-----------------------------------------------------------------------------
(* The theorems.                                                             *)

\* The window and the scores stay within maxNumberOfRectangles and the passes
\* within autoScanThreshold (RectangleFeaturesFunnel.add).
THEOREM TypeCorrect == Spec => []TypeOK
<1>1. IInv => TypeOK
  BY DEF IInv, Types
<1> QED BY <1>1, Invariance, PTL

\* The rectangle on display is always one of the best of the window or within the
\* auto scan distance of one (add, processRectangle).
THEOREM DisplayAlwaysSupported == Spec => []DisplaySupported
<1>1. IInv => DisplaySupported
  BY DEF IInv
<1> QED BY <1>1, Invariance, PTL

\* The scan of bestRectangle returns what its comment says for every window of
\* rectangles and every rectangle on display: the highest score, then nearness to
\* the one on display, then the newest.
THEOREM BestAlwaysAsDocumented == Spec => []BestAsDocumented
<1>1. IInv => BestAsDocumented
  <2> SUFFICES ASSUME IInv, Scored, NEW current \in Quadrilaterals \cup {None}
               PROVE  LET close == {i \in Highest : current # None
                                      /\ isWithin(rectangles[i].feature, matchingThreshold,
                                                  current)}
                          choice == IF close = {} THEN Highest ELSE close
                      IN  bestRectangle(rectangles, current) = rectangles[Max(choice)]
    BY DEF BestAsDocumented
  <2> DEFINE rs == rectangles
             close == {i \in Highest : Near(rs, current, i)}
             choice == IF close = {} THEN Highest ELSE close
  <2>1. rs \in Seq(Rectangle) /\ rs # <<>> /\ DOMAIN rs = 1 .. Len(rs) /\ Len(rs) \in Nat
    BY ThresholdsAssumption DEF IInv, Types, Scored
  <2>2. PICK b : Chosen(rs, current, 1, b) /\ bestRectangle(rs, current) = rs[b]
    BY <2>1, BestChosen
  <2>3. \A j \in DOMAIN rs : Score(rs, j) \in Nat
    <3>1. \A j \in DOMAIN rs : rs[j] \in Rectangle
      BY <2>1
    <3> QED BY <3>1 DEF Score, Rectangle
  <2>4. /\ b \in DOMAIN rs
        /\ \A j \in DOMAIN rs :
              /\ Score(rs, j) <= Score(rs, b)
              /\ Score(rs, j) = Score(rs, b) =>
                    /\ Near(rs, current, j) => Near(rs, current, b)
                    /\ j > b => Near(rs, current, b) /\ ~Near(rs, current, j)
    BY <2>1, <2>2 DEF Chosen
  <2>5. Highest = {i \in DOMAIN rs : Score(rs, i) = Score(rs, b)}
    <3>1. Highest = {i \in DOMAIN rs : \A j \in DOMAIN rs : Score(rs, j) <= Score(rs, i)}
      BY DEF Highest, Score
    <3>2. \A i \in DOMAIN rs : (\A j \in DOMAIN rs : Score(rs, j) <= Score(rs, i))
                                 <=> Score(rs, i) = Score(rs, b)
      BY <2>3, <2>4
    <3> QED BY <3>1, <3>2
  <2>6. b \in choice /\ \A j \in choice : j <= b
    <3>1. b \in Highest
      BY <2>4, <2>5
    <3>2. \A j \in Highest : j \in Nat /\ b \in Nat
      BY <2>1, <2>4, <2>5
    <3>3. CASE Near(rs, current, b)
      <4>1. b \in close /\ choice = close
        BY <3>1, <3>3
      <4>2. \A j \in close : ~ (j > b)
        BY <2>4, <2>5
      <4> QED BY <3>2, <4>1, <4>2
    <3>4. CASE ~Near(rs, current, b)
      <4>1. close = {}
        BY <2>4, <2>5, <3>4
      <4>2. \A j \in Highest : ~ (j > b)
        BY <2>4, <2>5, <3>4
      <4> QED BY <3>1, <3>2, <4>1, <4>2
    <3> QED BY <3>3, <3>4
  <2>7. choice \subseteq Nat
    BY <2>1, <2>5
  <2> HIDE DEF choice
  <2>8. Max(choice) = b
    <3>1. \A x \in choice : (\A y \in choice : x >= y) <=> x = b
      BY <2>6, <2>7
    <3> QED BY <2>6, <3>1 DEF Max
  <2>9. bestRectangle(rs, current) = rs[Max(choice)]
    BY <2>2, <2>8
  <2> QED BY <2>9 DEF choice, Near
<1> QED BY <1>1, Invariance, PTL

\* A rectangle with the highest score is within half the matching threshold of any
\* that makes up more than half of the window: the matches of either, together with
\* it, are more than half of the window too.
LEMMA Majority ==
  ASSUME NEW rs \in Seq(Rectangle), Counted(rs), NEW i \in DOMAIN rs,
         \A j \in DOMAIN rs : rs[j].matchingScore <= rs[i].matchingScore,
         NEW q \in Quadrilaterals,
         2 * Cardinality({j \in DOMAIN rs : rs[j].feature = q}) > Len(rs)
  PROVE  /\ 2 * (rs[i].feature - q) <= matchingThreshold
         /\ 2 * (q - rs[i].feature) <= matchingThreshold
<1> DEFINE n == Len(rs)
           M == {j \in DOMAIN rs : rs[j].feature = q}
           A == Matching(rs, i) \cup {i}
           half == matchingThreshold \div 2
<1>1. n \in Nat /\ DOMAIN rs = 1 .. n /\ \A j \in DOMAIN rs : rs[j] \in Rectangle
  OBVIOUS
<1>2. matchingThreshold \in Nat /\ half \in Nat /\ half >= 1 /\ 2 * half <= matchingThreshold
  BY ThresholdsAssumption
<1>3. q \in Int /\ \A j \in DOMAIN rs : rs[j].feature \in Int
  BY <1>1, QuadrilateralsAssumption DEF Rectangle
<1>4. M \in SUBSET (1 .. n) /\ A \in SUBSET (1 .. n)
  BY <1>1, MatchingAndSelf
<1>5. IsFiniteSet(M) /\ Cardinality(M) \in Nat /\ IsFiniteSet(A) /\ Cardinality(A) \in Nat
  BY <1>1, <1>4, Parts
<1>6. PICK m : m \in M
  <2>1. M # {}
    BY <1>1, <1>5, FS_EmptySet
  <2> QED BY <2>1
<1>7. Cardinality(M) <= 1 + Cardinality(Matching(rs, m))
  <2>1. m \in DOMAIN rs
    BY <1>6
  <2>2. M \subseteq Matching(rs, m) \cup {m}
    <3> SUFFICES ASSUME NEW j \in M, j # m PROVE j \in Matching(rs, m)
      OBVIOUS
    <3>1. j \in Int /\ m \in Int /\ rs[j].feature = q /\ rs[m].feature = q
      BY <1>1, <1>6
    <3>2. matches(rs[j], rs[m]) /\ matches(rs[m], rs[j])
      BY <1>2, <1>3, <3>1 DEF matches, isWithin
    <3> QED BY <3>1, <3>2 DEF Matching
  <2>3. /\ Cardinality(Matching(rs, m) \cup {m}) = 1 + Cardinality(Matching(rs, m))
        /\ Matching(rs, m) \cup {m} \in SUBSET (1 .. n)
    BY <1>1, <2>1, MatchingAndSelf
  <2>4. IsFiniteSet(Matching(rs, m) \cup {m})
    BY <1>1, <2>3, Parts
  <2>5. Cardinality(M) <= Cardinality(Matching(rs, m) \cup {m})
    BY <2>2, <2>4, FS_Subset
  <2> QED BY <2>3, <2>5
<1>8. Cardinality(M) <= Cardinality(A)
  <2>1. m \in DOMAIN rs
    BY <1>6
  <2>2. /\ rs[m].matchingScore = 1 + Cardinality(Matching(rs, m))
        /\ rs[i].matchingScore = 1 + Cardinality(Matching(rs, i))
        /\ rs[m].matchingScore <= rs[i].matchingScore
    BY <2>1 DEF Counted
  <2>3. /\ Cardinality(A) = 1 + Cardinality(Matching(rs, i))
        /\ Cardinality(Matching(rs, i)) \in Nat /\ Cardinality(Matching(rs, m)) \in Nat
    BY <2>1, MatchingAndSelf
  <2> QED BY <1>5, <1>7, <2>2, <2>3
<1>9. A \cap M # {}
  <2>1. Cardinality(A) + Cardinality(M) > n
    BY <1>1, <1>5, <1>8
  <2> HIDE DEF A, M, n
  <2> QED BY <1>1, <1>4, <2>1, Overlap
<1>10. PICK j : j \in A /\ j \in M
  BY <1>9
<1>11. j \in DOMAIN rs /\ rs[j].feature = q
  BY <1>10
<1>12. CASE j = i
  BY <1>2, <1>3, <1>11, <1>12
<1>13. CASE j # i
  <2>1. j \in Matching(rs, i)
    BY <1>10, <1>13
  <2>2. matches(rs[i], rs[j]) \/ matches(rs[j], rs[i])
    BY <2>1 DEF Matching
  <2>3. \/ rs[i].feature - half <= q /\ q < rs[i].feature + half
        \/ q - half <= rs[i].feature /\ rs[i].feature < q + half
    BY <1>11, <2>2 DEF matches, isWithin
  <2>4. rs[i].feature \in Int
    BY <1>3
  <2> HIDE DEF half
  <2> QED BY <1>2, <1>3, <2>3, <2>4, SMTT(60)
<1> QED BY <1>12, <1>13

\* Outliers never win: whenever one and the same rectangle makes up more than half
\* of the window, what is on display is within the two distances of it, for every
\* size of window and every threshold from two pixels on (updateRectangleMatches,
\* bestRectangle, add).
THEOREM OutliersAlwaysIgnored == Spec => []OutliersIgnored
<1>1. IInv => OutliersIgnored
  <2> SUFFICES ASSUME IInv, Scored, displayed # None, NEW q \in Quadrilaterals,
                      2 * Cardinality({i \in DOMAIN rectangles : rectangles[i].feature = q})
                        > Len(rectangles)
               PROVE  /\ 2 * (displayed - q) <= matchingThreshold + autoScanMatchingThreshold
                      /\ 2 * (q - displayed) <= matchingThreshold + autoScanMatchingThreshold
    BY DEF OutliersIgnored
  <2> DEFINE half == autoScanMatchingThreshold \div 2
  <2>1. PICK i \in Highest :
           \/ rectangles[i].feature = displayed
           \/ isWithin(rectangles[i].feature, autoScanMatchingThreshold, displayed)
    BY DEF IInv, DisplaySupported
  <2>2. rectangles \in Seq(Rectangle) /\ Counted(rectangles)
    BY DEF IInv, Types
  <2>3. i \in DOMAIN rectangles /\ \A j \in DOMAIN rectangles :
           rectangles[j].matchingScore <= rectangles[i].matchingScore
    BY DEF Highest
  <2>4. /\ 2 * (rectangles[i].feature - q) <= matchingThreshold
        /\ 2 * (q - rectangles[i].feature) <= matchingThreshold
    BY <2>2, <2>3, Majority
  <2>5. rectangles[i] \in Rectangle /\ displayed \in Quadrilaterals
    BY <2>2, <2>3 DEF IInv, Types, TypeOK
  <2>6. rectangles[i].feature \in Int /\ displayed \in Int /\ q \in Int
    BY <2>5, QuadrilateralsAssumption DEF Rectangle
  <2>7. /\ matchingThreshold \in Nat /\ autoScanMatchingThreshold \in Nat
        /\ half \in Nat /\ 2 * half <= autoScanMatchingThreshold
    BY ThresholdsAssumption
  <2>8. /\ rectangles[i].feature - half <= displayed
        /\ displayed <= rectangles[i].feature + half
    BY <2>1, <2>6, <2>7 DEF isWithin
  <2> HIDE DEF half
  <2>9. PICK f \in Int : f = rectangles[i].feature
    BY <2>6
  <2>10. /\ 2 * (f - q) <= matchingThreshold /\ 2 * (q - f) <= matchingThreshold
         /\ f - half <= displayed /\ displayed <= f + half
    BY <2>4, <2>8, <2>9
  <2> QED BY <2>6, <2>7, <2>10
<1> QED BY <1>1, Invariance, PTL
=============================================================================

------------------------------- MODULE Funnel -------------------------------
(***************************************************************************)
(* RectangleFeaturesFunnel, which decides from the last few rectangles the *)
(* detector found which one to display and when the picture takes itself,  *)
(* together with the displayed rectangle of its only client,               *)
(* CaptureSessionManager.processRectangle.                                 *)
(*                                                                         *)
(* A quadrilateral is reduced to one coordinate, an integer, by which all  *)
(* four corners move together: the code treats the corners and the axes    *)
(* alike.                                                                  *)
(***************************************************************************)
EXTENDS Integers, Sequences, FiniteSetsExt

CONSTANTS Quadrilaterals,            \* positions a detected rectangle may have
          None,                      \* nil: no rectangle on display
          maxNumberOfRectangles,     \* 8 in the code
          minNumberOfRectangles,     \* 3
          matchingThreshold,         \* 40 pixels
          minNumberOfMatches,        \* 3, and used nowhere
          autoScanThreshold,         \* 35
          autoScanMatchingThreshold  \* 6 pixels

ASSUME QuadrilateralsAssumption == 
    Quadrilaterals \subseteq Int /\ None \notin Quadrilaterals
ASSUME ThresholdsAssumption ==
    /\ {maxNumberOfRectangles, minNumberOfRectangles, matchingThreshold,
        minNumberOfMatches, autoScanThreshold, autoScanMatchingThreshold}
          \subseteq Nat
    /\ 0 < minNumberOfRectangles /\ minNumberOfRectangles < maxNumberOfRectangles
    /\ 2 <= matchingThreshold   \* or no rectangle would match its equal

VARIABLES rectangles,                \* the window: features with their scores
          currentAutoScanPassCount,
          displayed,                 \* displayedRectangleResult
          result                     \* what the last rectangle led to

vars == <<rectangles, currentAutoScanPassCount, displayed, result>>

-----------------------------------------------------------------------------
isWithinSlipped(p, d, q) == p + (d \div 2) <= q /\ q < p + d + (d \div 2)

\* q lies in the square of side d around p.  A CGRect contains its lower edge
\* and not its upper one.
isWithin(p, d, q) == p - (d \div 2) <= q /\ q < p + (d \div 2)

matches(r1, r2) == isWithin(r1.feature, matchingThreshold, r2.feature)

updateNoReset(rs) ==
    [i \in DOMAIN rs |->
        [rs[i] EXCEPT !.matchingScore =
            @ + Cardinality({j \in DOMAIN rs :
                   \/ i < j /\ matches(rs[i], rs[j])
                   \/ j < i /\ matches(rs[j], rs[i])})]]

\* Every rectangle starts at 1 and gains one for each pair it is in whose older
\* member is within the threshold of the newer.
updateRectangleMatches(rs) ==
    [i \in DOMAIN rs |->
        [rs[i] EXCEPT !.matchingScore =
            1 + Cardinality({j \in DOMAIN rs :
                   \/ i < j /\ matches(rs[i], rs[j])
                   \/ j < i /\ matches(rs[j], rs[i])})]]

breakTieSecond(rect1, rect2, current) ==
    IF isWithin(rect2.feature, matchingThreshold, current) THEN rect2 ELSE rect1

breakTie(rect1, rect2, current) ==
    IF \/ isWithin(rect1.feature, matchingThreshold, current)
       \/ ~isWithin(rect2.feature, matchingThreshold, current)
    THEN rect1 ELSE rect2

bestRectangleLatest(rs, current) == rs[Len(rs)]

\* From the newest rectangle to the oldest; found[k] is the best from k on.
bestRectangle(rs, current) ==
    LET found[k \in DOMAIN rs] ==
          IF k = Len(rs) THEN rs[k]
          ELSE LET best == found[k + 1] IN
               CASE rs[k].matchingScore > best.matchingScore -> rs[k]
                 [] rs[k].matchingScore < best.matchingScore -> best
                 [] OTHER -> IF current = None THEN best
                             ELSE breakTie(best, rs[k], current)
    IN  found[1]

\* The window after a rectangle has arrived.  Below the minimum, which is below
\* the maximum, nothing is removed.
appended(rect) ==
    IF Len(rectangles) = maxNumberOfRectangles
    THEN Append(Tail(rectangles), rect) ELSE Append(rectangles, rect)

-----------------------------------------------------------------------------
Init ==
    /\ rectangles = <<>>
    /\ currentAutoScanPassCount = 0
    /\ displayed = None
    /\ result = "none"

TooFew(q) ==
    /\ Len(rectangles) + 1 < minNumberOfRectangles
    /\ rectangles' = appended([feature |-> q, matchingScore |-> 0])
    /\ result' = "none"
    /\ UNCHANGED <<currentAutoScanPassCount, displayed>>

\* The best of the window rs is compared with the rectangle on display.
compare(rs) ==
    LET best == bestRectangle(rs, displayed).feature
        near == displayed # None
                  /\ isWithin(best, autoScanMatchingThreshold, displayed)
        full == currentAutoScanPassCount + 1 > autoScanThreshold
    IN
    \/ /\ near /\ ~full
       /\ currentAutoScanPassCount' = currentAutoScanPassCount + 1
       /\ result' = "none"
       /\ UNCHANGED displayed
    \/ /\ near /\ full
       /\ currentAutoScanPassCount' = 0
       /\ result' = "showAndAutoScan"
       /\ displayed' = best
    \/ /\ ~near
       /\ result' = "showOnly"
       /\ displayed' = best
       /\ UNCHANGED currentAutoScanPassCount

add(q) ==
    /\ Len(rectangles) + 1 >= minNumberOfRectangles
    /\ \E rs \in {updateRectangleMatches(appended([feature |-> q, matchingScore |-> 0]))} :
          /\ rectangles' = rs
          /\ compare(rs)

\* More than noRectangleThreshold frames without a rectangle.
RectangleGone ==
    /\ displayed # None
    /\ displayed' = None
    /\ currentAutoScanPassCount' = 0
    /\ result' = "none"
    /\ UNCHANGED rectangles

\* A photo has been taken, by hand or not.  Its background job assigns the
\* displayed rectangle what it has read from it; what may come between the read and
\* the assignment is in Capture.
PhotoTaken ==
    /\ currentAutoScanPassCount' = 0
    /\ result' = "none"
    /\ UNCHANGED <<rectangles, displayed>>

Frame(q) == TooFew(q) \/ add(q)

Next ==
    \/ \E q \in Quadrilaterals : Frame(q)
    \/ RectangleGone \/ PhotoTaken

Spec == Init /\ [][Next]_vars

-----------------------------------------------------------------------------
(* Properties.                                                               *)

\* Every variable has its type; the window never outgrows its maximum, so no
\* score does either, and the passes never exceed the threshold.
TypeOK ==
    /\ Len(rectangles) <= maxNumberOfRectangles
    /\ \A i \in DOMAIN rectangles :
          rectangles[i] \in [feature : Quadrilaterals,
                             matchingScore : 0..maxNumberOfRectangles]
    /\ currentAutoScanPassCount \in 0..autoScanThreshold
    /\ displayed \in Quadrilaterals \cup {None}
    /\ result \in {"none", "showOnly", "showAndAutoScan"}

Scored == Len(rectangles) >= minNumberOfRectangles
Highest == {i \in DOMAIN rectangles : \A j \in DOMAIN rectangles :
               rectangles[j].matchingScore <= rectangles[i].matchingScore}

\* What bestRectangle's comment promises, for the window and every rectangle
\* that may be on display: the answer has the highest score, among those one
\* close to the displayed rectangle if there is any, and then the newest.
BestAsDocumented ==
    Scored => \A current \in Quadrilaterals \cup {None} :
      LET close == {i \in Highest : current # None
                      /\ isWithin(rectangles[i].feature, matchingThreshold, current)}
          choice == IF close = {} THEN Highest ELSE close
      IN  bestRectangle(rectangles, current) = rectangles[Max(choice)]

\* What is on display is always supported by the window: it is one of the
\* rectangles with the highest score or within the auto scan distance of one,
\* however the displayed rectangle and the window have changed since.
DisplaySupported ==
    Scored /\ displayed # None =>
      \E i \in Highest :
         \/ rectangles[i].feature = displayed
         \/ isWithin(rectangles[i].feature, autoScanMatchingThreshold, displayed)

\* Outliers are ignored: when more than half of the window is one and the same
\* rectangle, what is on display is that rectangle up to the two distances.
OutliersIgnored ==
    Scored /\ displayed # None =>
      \A q \in Quadrilaterals :
         2 * Cardinality({i \in DOMAIN rectangles : rectangles[i].feature = q})
             > Len(rectangles)
         => /\ 2 * (displayed - q) <= matchingThreshold + autoScanMatchingThreshold
            /\ 2 * (q - displayed) <= matchingThreshold + autoScanMatchingThreshold

\* A document held still is captured by itself, again and again, whatever came
\* before: if from some point on every frame shows it, and frames keep coming.
AutoScanComes ==
    \A q \in Quadrilaterals :
       <>[][Frame(q)]_vars /\ WF_vars(Frame(q))
         => []<>(result = "showAndAutoScan")

\* What minNumberOfMatches documents: a rectangle is displayed only if that many
\* rectangles of the window match.
ConfidentDisplay ==
    result = "showOnly" =>
      \E i \in Highest : /\ rectangles[i].feature = displayed
                         /\ rectangles[i].matchingScore >= minNumberOfMatches
=============================================================================

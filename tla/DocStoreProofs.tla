--------------------------- MODULE DocStoreProofs ---------------------------
(***************************************************************************)
(* Proofs about the document store, for any number of items and contents.  *)
(*                                                                         *)
(* OneParent counts the folders an item is listed in; the induction uses   *)
(* Parted, the same said without cardinalities.  Beside the properties     *)
(* themselves it needs DrawerOverSelection: the drawer, from which files   *)
(* are moved and deleted, lies over a selection.  What deleting and moving *)
(* leave of a list is a recursive function of it (Only), whose values are  *)
(* known by induction over the list's length (SetInduction).               *)
(*                                                                         *)
(* The last part is about the name of one stored file, which FileTitle     *)
(* follows through the screens that copy it.                               *)
(***************************************************************************)
EXTENDS DocStore, FileTitle, FiniteSetTheorems, SequenceTheorems,
        WellFoundedInduction, TLAPS

\* A non-empty set of natural numbers has a least element.
LEMMA LeastNatural ==
  ASSUME NEW T, T \subseteq Nat, T # {}
  PROVE  \E x \in T : \A y \in T : x <= y
<1> DEFINE R == {p \in Nat \X Nat : p[1] < p[2]}
<1>1. IsWellFoundedOn(R, Nat)
  BY NatLessThanWellFounded DEF OpToRel
<1>2. \E x \in T : \A y \in T : ~ (<<y, x>> \in R)
  <2> HIDE DEF R
  <2> QED BY <1>1, WFMin
<1>3. PICK x \in T : \A y \in T : ~ (<<y, x>> \in R)
  BY <1>2
<1>4. ASSUME NEW y \in T PROVE x <= y
  <2>1. y \in Nat /\ x \in Nat
    OBVIOUS
  <2>2. ~ (<<y, x>> \in R)
    BY <1>3
  <2>3. ~ (y < x)
    BY <2>1, <2>2
  <2> QED BY <2>1, <2>3
<1> QED BY <1>4

\* Induction over the natural numbers, for a set.
LEMMA SetInduction ==
  ASSUME NEW S, 0 \in S, \A n \in Nat : n \in S => n + 1 \in S
  PROVE  Nat \subseteq S
<1> SUFFICES ASSUME Nat \ S # {} PROVE FALSE
  OBVIOUS
<1>1. PICK x \in Nat \ S : \A y \in Nat \ S : x <= y
  BY LeastNatural
<1>2. x - 1 \in Nat /\ x - 1 \in S
  BY <1>1
<1> QED BY <1>1, <1>2

\* One step of the recursion of Only.
Taken(x, s, S, k) == IF s[k] \in S THEN Append(x, s[k]) ELSE x

Step(start, g, s, S, k) == IF k = 0 THEN start ELSE Taken(g[k - 1], s, S, k)

\* g is the function that n steps define by recursion.
Keeps(start, g, s, S, n) == g = [k \in 0..n |-> Step(start, g, s, S, k)]

\* There is one.
LEMMA OnlyDefined ==
  ASSUME NEW start, NEW s, NEW S, NEW n \in Nat
  PROVE  \E g : Keeps(start, g, s, S, n)
<1> DEFINE Upto == {x \in Nat : \E g : Keeps(start, g, s, S, x)}
<1>1. 0 \in Upto
  <2> DEFINE g == [k \in 0..0 |-> start]
  <2>1. Keeps(start, g, s, S, 0)
    BY DEF Keeps, Step
  <2> HIDE DEF g
  <2> QED BY <2>1
<1>2. ASSUME NEW x \in Nat, x \in Upto PROVE x + 1 \in Upto
  <2>1. PICK g : Keeps(start, g, s, S, x)
    BY <1>2
  <2> DEFINE h == [k \in 0..(x + 1) |->
                     IF k = x + 1 THEN Step(start, g, s, S, x + 1) ELSE g[k]]
  <2>2. ASSUME NEW k \in 0..(x + 1) PROVE h[k] = Step(start, h, s, S, k)
    <3>1. CASE k = 0
      BY <2>1, <3>1 DEF Step, Keeps
    <3>2. CASE k # 0
      <4>1. k - 1 \in 0..x /\ k - 1 \in 0..(x + 1) /\ k - 1 # x + 1
        BY <3>2
      <4>2. h[k - 1] = g[k - 1]
        BY <4>1
      <4>3. Step(start, h, s, S, k) = Step(start, g, s, S, k)
        BY <3>2, <4>2 DEF Step
      <4>4. CASE k = x + 1
        BY <4>3, <4>4
      <4>5. CASE k # x + 1
        <5>1. k \in 0..x
          BY <4>5
        <5> QED BY <2>1, <4>3, <4>5, <5>1 DEF Keeps
      <4> QED BY <4>4, <4>5
    <3> QED BY <3>1, <3>2
  <2>3. Keeps(start, h, s, S, x + 1)
    <3> DEFINE r == [k \in 0..(x + 1) |-> Step(start, h, s, S, k)]
    <3>1. \A k \in 0..(x + 1) : h[k] = r[k]
      BY <2>2
    <3>2. h = [k \in 0..(x + 1) |-> h[k]] /\ r = [k \in 0..(x + 1) |-> r[k]]
      OBVIOUS
    <3> HIDE DEF h, r
    <3>3. h = r
      BY <3>1, <3>2
    <3> QED BY <3>3 DEF r, Keeps
  <2> HIDE DEF h
  <2> QED BY <2>3
<1>3. Nat \subseteq Upto
  <2> HIDE DEF Upto
  <2> QED BY <1>1, <1>2, SetInduction
<1> QED BY <1>3

\* And it takes the elements one after the other.
Steps(start, g, s, S, n) ==
    /\ g[0] = start
    /\ \A k \in 0..n : k # 0 => g[k] = Taken(g[k - 1], s, S, k)

LEMMA OnlySteps ==
  ASSUME NEW start, NEW s, NEW S, NEW n \in Nat, NEW g, Keeps(start, g, s, S, n)
  PROVE  Steps(start, g, s, S, n)
<1>1. \A k \in 0..n : g[k] = Step(start, g, s, S, k)
  BY DEF Keeps
<1>2. 0 \in 0..n
  OBVIOUS
<1> QED BY <1>1, <1>2 DEF Step, Steps

\* What Only returns: a list of the elements of s that are in S, each once if s
\* has each once.
LEMMA OnlyProperties ==
  ASSUME NEW T, NEW s \in Seq(T), NEW S
  PROVE  /\ Only(s, S) \in Seq(T)
         /\ Range(Only(s, S)) = Range(s) \cap S
         /\ IsInjective(s) => IsInjective(Only(s, S))
<1> DEFINE kept == CHOOSE g : Keeps(<<>>, g, s, S, Len(s))
<1>1. /\ kept[0] = <<>>
      /\ \A k \in 0..Len(s) : k # 0 => kept[k] = Taken(kept[k - 1], s, S, k)
  <2>1. Len(s) \in Nat
    OBVIOUS
  <2>2. \E g : Keeps(<<>>, g, s, S, Len(s))
    BY <2>1, OnlyDefined
  <2>3. Keeps(<<>>, kept, s, S, Len(s))
    BY <2>2
  <2> HIDE DEF kept
  <2>4. Steps(<<>>, kept, s, S, Len(s))
    BY <2>1, <2>3, OnlySteps, Zenon
  <2> QED BY <2>4 DEF Steps
<1>2. Only(s, S) = kept[Len(s)]
  BY Zenon DEF Only, Step, Taken, Keeps
<1> HIDE DEF kept
<1> DEFINE Prefix(k) == {s[j] : j \in 1..k}
           Inj(t) == \A a, b \in DOMAIN t : t[a] = t[b] => a = b
           Good == {k \in Nat : k <= Len(s) =>
                       /\ kept[k] \in Seq(T)
                       /\ Range(kept[k]) = Prefix(k) \cap S
                       /\ Inj(s) => Inj(kept[k])}
<1>3. 0 \in Good
  <2>1. kept[0] = <<>>
    BY <1>1
  <2>2. Prefix(0) = {} /\ Range(<<>>) = {}
    BY DEF Range
  <2>3. <<>> \in Seq(T) /\ DOMAIN <<>> = {}
    OBVIOUS
  <2> QED BY <2>1, <2>2, <2>3
<1>4. ASSUME NEW k \in Nat, k \in Good PROVE k + 1 \in Good
  <2> SUFFICES ASSUME k + 1 <= Len(s)
               PROVE  /\ kept[k + 1] \in Seq(T)
                      /\ Range(kept[k + 1]) = Prefix(k + 1) \cap S
                      /\ Inj(s) => Inj(kept[k + 1])
    OBVIOUS
  <2> DEFINE t == kept[k]
             e == s[k + 1]
  <2>1. /\ t \in Seq(T)
        /\ Range(t) = Prefix(k) \cap S
        /\ Inj(s) => Inj(t)
    BY <1>4
  <2>2. k + 1 \in 0..Len(s) /\ k + 1 # 0 /\ (k + 1) - 1 = k
    OBVIOUS
  <2>3. kept[k + 1] = IF e \in S THEN Append(t, e) ELSE t
    BY <1>1, <2>2 DEF Taken
  <2>4. Prefix(k + 1) = Prefix(k) \cup {e} /\ e \in T
    OBVIOUS
  <2>5. Inj(s) => e \notin Prefix(k)
    OBVIOUS
  <2>6. CASE e \notin S
    <3> HIDE DEF t, e, Inj, Prefix
    <3> QED BY <2>1, <2>3, <2>4, <2>6
  <2>7. CASE e \in S
    <3> HIDE DEF t, e, Prefix
    <3>1. Append(t, e) \in Seq(T)
      BY <2>1, <2>4
    <3>2. /\ DOMAIN Append(t, e) = 1..(Len(t) + 1) /\ DOMAIN t = 1..Len(t)
          /\ Append(t, e)[Len(t) + 1] = e
          /\ \A a \in 1..Len(t) : Append(t, e)[a] = t[a]
          /\ Len(t) \in Nat
      BY <2>1, <2>4
    <3>3. Range(Append(t, e)) = Range(t) \cup {e}
      BY <3>2 DEF Range
    <3>4. Inj(s) => \A a \in DOMAIN t : t[a] # e
      BY <2>1, <2>5 DEF Range
    <3>5. ASSUME Inj(s) PROVE Inj(Append(t, e))
      BY <3>2, <3>4, <3>5, <2>1
    <3> QED BY <3>1, <3>3, <3>5, <2>1, <2>3, <2>4, <2>7
  <2> QED BY <2>6, <2>7
<1>5. Nat \subseteq Good
  <2> HIDE DEF Good
  <2> QED BY <1>3, <1>4, SetInduction
<1>6. Len(s) \in Nat /\ Len(s) \in Good
  <2>1. Len(s) \in Nat
    OBVIOUS
  <2> HIDE DEF Good
  <2> QED BY <1>5, <2>1
<1>7. Prefix(Len(s)) = Range(s)
  BY DEF Range
<1>8. Inj(s) => Inj(kept[Len(s)])
  BY <1>6
<1>9. IsInjective(s) => IsInjective(kept[Len(s)])
  BY <1>8 DEF IsInjective
<1> QED BY <1>2, <1>6, <1>7, <1>9

-----------------------------------------------------------------------------
(* What the operations on lists return.                                      *)

\* Deleted objects are out of the list, the others stay in it.
LEMMA WithoutProperties ==
  ASSUME NEW T, NEW s \in Seq(T), NEW S
  PROVE  /\ Without(s, S) \in Seq(T)
         /\ Range(Without(s, S)) = Range(s) \ S
         /\ IsInjective(s) => IsInjective(Without(s, S))
<1>1. /\ Without(s, S) \in Seq(T)
      /\ Range(Without(s, S)) = Range(s) \cap (Range(s) \ S)
      /\ IsInjective(s) => IsInjective(Without(s, S))
  BY OnlyProperties, Zenon DEF Without
<1> QED BY <1>1

\* Inserting at index 0.
LEMMA InFrontProperties ==
  ASSUME NEW T, NEW s \in Seq(T), NEW t \in Seq(T)
  PROVE  /\ InFront(s, t) \in Seq(T)
         /\ Range(InFront(s, t)) = Range(s) \cup Range(t)
         /\ IsInjective(s) /\ IsInjective(t) /\ Range(s) \cap Range(t) = {}
              => IsInjective(InFront(s, t))
<1> DEFINE m == Len(s)
           n == Len(t)
           u == s \o t
<1>1. /\ m \in Nat /\ n \in Nat
      /\ DOMAIN s = 1..m /\ DOMAIN t = 1..n /\ DOMAIN u = 1..(m + n)
      /\ \A k \in 1..m : u[k] = s[k]
      /\ \A k \in 1..n : u[m + k] = t[k]
      /\ \A k \in (m + 1)..(m + n) : u[k] = t[k - m] /\ k - m \in 1..n
      /\ u \in Seq(T)
  OBVIOUS
<1> HIDE DEF m, n, u
<1>2. Range(u) = Range(s) \cup Range(t)
  BY RangeConcatenation DEF u
<1>3. ASSUME IsInjective(s), IsInjective(t), Range(s) \cap Range(t) = {},
             NEW a \in 1..(m + n), NEW b \in 1..(m + n), u[a] = u[b]
      PROVE  a = b
  <2>1. \A k \in 1..m : s[k] \in Range(s)
    BY <1>1 DEF Range
  <2>2. \A k \in 1..n : t[k] \in Range(t)
    BY <1>1 DEF Range
  <2>3. (a \in 1..m \/ a \in (m + 1)..(m + n)) /\ (b \in 1..m \/ b \in (m + 1)..(m + n))
    BY <1>1
  <2>4. CASE a \in 1..m /\ b \in 1..m
    BY <1>1, <1>3, <2>4 DEF IsInjective
  <2>5. CASE a \in 1..m /\ b \in (m + 1)..(m + n)
    BY <1>1, <1>3, <2>1, <2>2, <2>5
  <2>6. CASE a \in (m + 1)..(m + n) /\ b \in 1..m
    BY <1>1, <1>3, <2>1, <2>2, <2>6
  <2>7. CASE a \in (m + 1)..(m + n) /\ b \in (m + 1)..(m + n)
    <3>1. /\ a - m \in DOMAIN t /\ u[a] = t[a - m]
          /\ b - m \in DOMAIN t /\ u[b] = t[b - m]
      BY <1>1, <2>7
    <3>2. a - m = b - m
      BY <1>3, <3>1, Zenon DEF IsInjective
    <3> QED BY <1>1, <3>2
  <2> QED BY <2>3, <2>4, <2>5, <2>6, <2>7
<1> QED BY <1>1, <1>2, <1>3 DEF InFront, u, IsInjective

\* Moving an object within a list changes neither what is listed nor how often.
LEMMA MovedProperties ==
  ASSUME NEW T, NEW s \in Seq(T), NEW i \in DOMAIN s, NEW j \in DOMAIN s
  PROVE  /\ MovedObject(s, i, j) \in Seq(T)
         /\ Range(MovedObject(s, i, j)) = Range(s)
         /\ IsInjective(s) => IsInjective(MovedObject(s, i, j))
<1> DEFINE n == Len(s)
           u == MovedObject(s, i, j)
           from(k) == IF k = j THEN i
                      ELSE IF k < j THEN (IF k < i THEN k ELSE k + 1)
                      ELSE IF k - 1 < i THEN k - 1 ELSE k
           to(k) == IF k = i THEN j
                    ELSE IF k < i THEN (IF k < j THEN k ELSE k + 1)
                    ELSE IF k - 1 < j THEN k - 1 ELSE k
<1>1. n \in Nat /\ DOMAIN s = 1..n /\ i \in 1..n /\ j \in 1..n
  OBVIOUS
<1>2. \A k \in 1..n : from(k) \in 1..n /\ to(k) \in 1..n
  <2> HIDE DEF n
  <2> QED BY <1>1
<1>3. \A k \in 1..n : from(to(k)) = k /\ to(from(k)) = k
  <2> HIDE DEF n
  <2> QED BY <1>1
<1>4. u = [k \in 1..n |-> s[from(k)]]
  <2> DEFINE rest == [k \in 1..(n - 1) |-> IF k < i THEN s[k] ELSE s[k + 1]]
             v == [k \in 1..n |->
                     IF k < j THEN rest[k] ELSE IF k = j THEN s[i] ELSE rest[k - 1]]
  <2>1. u = v
    BY DEF MovedObject
  <2>2. ASSUME NEW k \in 1..n PROVE v[k] = s[from(k)]
    <3> HIDE DEF n
    <3>1. CASE k < j
      <4>1. k \in 1..(n - 1)
        BY <1>1, <3>1
      <4> QED BY <4>1, <3>1, <1>1
    <3>2. CASE k = j
      BY <3>2, <1>1
    <3>3. CASE k > j
      <4>1. k - 1 \in 1..(n - 1) /\ (k - 1) + 1 = k
        BY <1>1, <3>3
      <4> QED BY <4>1, <3>3, <1>1
    <3> QED BY <1>1, <3>1, <3>2, <3>3
  <2>3. v = [k \in 1..n |-> v[k]]
    OBVIOUS
  <2> HIDE DEF v, from, n
  <2> QED BY <2>1, <2>2, <2>3
<1> HIDE DEF u, from, to, n
<1>5. DOMAIN u = 1..n /\ \A k \in 1..n : u[k] = s[from(k)]
  BY <1>4
<1>6. u \in Seq(T)
  <2>1. \A l \in 1..n : s[l] \in T
    BY <1>1
  <2>2. \A k \in 1..n : s[from(k)] \in T
    BY <1>2, <2>1
  <2> QED BY <1>1, <1>4, <2>2
<1>7. Range(u) = Range(s)
  <2>1. \A k \in 1..n : s[k] = u[to(k)]
    BY <1>2, <1>3, <1>5
  <2>2. Range(s) = {s[k] : k \in 1..n} /\ Range(u) = {u[k] : k \in 1..n}
    BY <1>1, <1>5 DEF Range
  <2>3. \A k \in 1..n : s[k] \in {u[l] : l \in 1..n} /\ u[k] \in {s[l] : l \in 1..n}
    BY <1>2, <1>5, <2>1
  <2> QED BY <2>2, <2>3
<1>8. ASSUME IsInjective(s) PROVE IsInjective(u)
  <2> SUFFICES ASSUME NEW a \in 1..n, NEW b \in 1..n, u[a] = u[b] PROVE a = b
    BY <1>5 DEF IsInjective
  <2>1. from(a) = from(b)
    BY <1>1, <1>2, <1>5, <1>8 DEF IsInjective
  <2> QED BY <2>1, <1>3
<1> QED BY <1>6, <1>7, <1>8 DEF u

-----------------------------------------------------------------------------
(* The inductive invariant.                                                  *)

Directories == Items \cup {Root}

\* OneParent, by directory: a list has nothing twice and two lists have nothing
\* in common.
Parted ==
    /\ \A d \in Directories : IsInjective(fileOrDirs[d])
    /\ \A d, e \in Directories : d # e => Listed(d) \cap Listed(e) = {}

\* The drawer is opened from a selection, which stays under it.
DrawerOverSelection == drawer => isInSelection

IInv == /\ TypeOK /\ Parted /\ TwoLevels /\ MarksOwned /\ ContentsDistinct
        /\ DrawerOverSelection

\* Parted and OneParent say the same of well-typed lists.
LEMMA PartedIsOneParent == TypeOK => (Parted <=> OneParent)
<1> SUFFICES ASSUME TypeOK PROVE Parted <=> OneParent
  OBVIOUS
<1>1. ASSUME Parted,
             NEW d \in Directories, NEW e \in Directories,
             NEW k \in DOMAIN fileOrDirs[d], NEW l \in DOMAIN fileOrDirs[e],
             fileOrDirs[d][k] = fileOrDirs[e][l]
      PROVE  d = e /\ k = l
  <2>1. fileOrDirs[d][k] \in Listed(d) /\ fileOrDirs[e][l] \in Listed(e)
    BY DEF Listed, Range
  <2>2. d = e
    BY <1>1, <2>1 DEF Parted
  <2> QED BY <1>1, <2>2 DEF Parted, IsInjective
<1>2. ASSUME OneParent, NEW d \in Directories PROVE IsInjective(fileOrDirs[d])
  BY <1>2 DEF OneParent, IsInjective, Directories
<1>3. ASSUME OneParent, NEW d \in Directories, NEW e \in Directories, d # e,
             NEW i, i \in Listed(d), i \in Listed(e)
      PROVE  FALSE
  <2>1. PICK k \in DOMAIN fileOrDirs[d] : fileOrDirs[d][k] = i
    BY <1>3 DEF Listed, Range
  <2>2. PICK l \in DOMAIN fileOrDirs[e] : fileOrDirs[e][l] = i
    BY <1>3 DEF Listed, Range
  <2> QED BY <1>3, <2>1, <2>2 DEF OneParent, Directories
<1>4. Parted => OneParent
  BY <1>1 DEF OneParent, Directories
<1>5. OneParent => Parted
  BY <1>2, <1>3 DEF Parted
<1> QED BY <1>4, <1>5

\* The empty store.
LEMMA InitIInv == Init => IInv
<1> SUFFICES ASSUME Init PROVE IInv
  OBVIOUS
<1>1. \A d \in Directories : fileOrDirs[d] = <<>>
  BY DEF Init, Directories
<1>2. Range(<<>>) = {} /\ IsInjective(<<>>)
  BY DEF Range, IsInjective
<1>3. \A d \in Directories : Listed(d) = {} /\ IsInjective(fileOrDirs[d])
  BY <1>1, <1>2 DEF Listed
<1>4. TypeOK
  <2>1. <<>> \in Seq(Items)
    OBVIOUS
  <2>2. kind \in [Items -> {"unused", "dir", "file"}] /\ \A i \in Items : kind[i] = "unused"
    BY DEF Init
  <2>3. fileOrDirs \in [Items \cup {Root} -> Seq(Items)]
    BY <2>1 DEF Init
  <2>4. content \in [Items -> Contents \cup {NoContent}] /\ \A i \in Items : content[i] = NoContent
    BY DEF Init
  <2> QED BY <2>2, <2>3, <2>4 DEF Init, TypeOK
<1>5. Dirs = {}
  BY DEF Init, Dirs
<1> QED BY <1>3, <1>4, <1>5
        DEF Init, IInv, Parted, TwoLevels, MarksOwned, ContentsDistinct,
            DrawerOverSelection, Directories

\* What is listed are items, which exist.
LEMMA ListedItems ==
  ASSUME TypeOK, NEW d \in Directories
  PROVE  fileOrDirs[d] \in Seq(Items) /\ Listed(d) \subseteq Items
BY RangeOfSeq DEF TypeOK, Listed, Directories

\* A step that leaves the objects and their lists alone.
LEMMA ObjectsUnchanged ==
  ASSUME IInv, UNCHANGED <<kind, fileOrDirs, content>>
  PROVE  /\ Parted' /\ ContentsDistinct'
         /\ Dirs' = Dirs /\ Unused' = Unused
         /\ \A d \in Directories : Listed(d)' = Listed(d)
         /\ (currentDirectory' \in Dirs \cup {Root}) => TwoLevels'
<1>1. Dirs' = Dirs /\ Unused' = Unused
  BY DEF Dirs, Unused
<1>2. \A d \in Directories : Listed(d)' = Listed(d)
  BY DEF Listed
<1> QED BY <1>1, <1>2 DEF IInv, Parted, ContentsDistinct, TwoLevels, Directories, isDir

\* The steps that only change what is on the screen and what is marked.
LEMMA ScreenIInv ==
  ASSUME IInv,
         \/ Relaunch \/ goBack \/ selection \/ cancelSelection
         \/ OpenDrawer \/ CloseDrawer
         \/ \E i \in Items : OpenDirectory(i) \/ clickRadioButton(i)
  PROVE  IInv'
<1>0. /\ TypeOK /\ TwoLevels /\ MarksOwned /\ DrawerOverSelection
  BY DEF IInv
<1>1. UNCHANGED <<kind, fileOrDirs, content>>
  BY DEF Relaunch, goBack, selection, cancelSelection, OpenDrawer, CloseDrawer,
         OpenDirectory, clickRadioButton, stored
<1>2. /\ Parted' /\ ContentsDistinct'
      /\ Dirs' = Dirs /\ Unused' = Unused
      /\ \A d \in Directories : Listed(d)' = Listed(d)
      /\ (currentDirectory' \in Dirs \cup {Root}) => TwoLevels'
  BY <1>1, ObjectsUnchanged
<1>3. currentDirectory \in Directories /\ currentDirectory \in Dirs \cup {Root}
  BY <1>0 DEF TypeOK, TwoLevels, Directories
<1>4. Listed(currentDirectory) \subseteq Items
      /\ Listed(currentDirectory) \cap Unused = {}
  BY <1>0, <1>3, ListedItems DEF TwoLevels, Directories
<1>5. Dirs \subseteq Directories
  BY DEF Dirs, Directories
<1>6. CASE Relaunch
  BY <1>0, <1>1, <1>2, <1>3, <1>5, <1>6
     DEF Relaunch, stored, IInv, TypeOK, MarksOwned, DrawerOverSelection, Directories
<1>7. CASE goBack
  BY <1>0, <1>1, <1>2, <1>3, <1>5, <1>7
     DEF goBack, stored, IInv, TypeOK, MarksOwned, DrawerOverSelection, Directories
<1>8. CASE selection
  BY <1>0, <1>1, <1>2, <1>3, <1>5, <1>8
     DEF selection, Idle, stored, IInv, TypeOK, MarksOwned, DrawerOverSelection,
         Directories
<1>9. CASE cancelSelection
  <2>1. isSelected' = isSelected \ Listed(currentDirectory)
    BY <1>1, <1>9 DEF cancelSelection, EndSelection, clearSelection, Listed
  <2>2. /\ ~isInSelection' /\ isInSelection' \in BOOLEAN /\ ~drawer'
        /\ UNCHANGED <<currentDirectory, drawer>>
        /\ stray' = stray \ {currentDirectory}
    BY <1>9 DEF cancelSelection, EndSelection, Selecting
  <2>3. MarksOwned'
    BY <1>0, <1>2, <1>5, <2>1, <2>2 DEF MarksOwned, Directories
  <2>4. TypeOK'
    BY <1>0, <1>1, <1>2, <2>1, <2>2 DEF TypeOK
  <2> QED BY <1>0, <1>2, <1>3, <2>2, <2>3, <2>4 DEF IInv, DrawerOverSelection
<1>10. CASE OpenDrawer
  BY <1>0, <1>1, <1>2, <1>3, <1>5, <1>10
     DEF OpenDrawer, Selecting, stored, IInv, TypeOK, MarksOwned,
         DrawerOverSelection, Directories
<1>11. CASE CloseDrawer
  BY <1>0, <1>1, <1>2, <1>3, <1>5, <1>11
     DEF CloseDrawer, stored, IInv, TypeOK, MarksOwned, DrawerOverSelection, Directories
<1>12. ASSUME NEW i \in Items, OpenDirectory(i) PROVE IInv'
  BY <1>0, <1>1, <1>2, <1>3, <1>5, <1>12
     DEF OpenDirectory, Idle, stored, isDir, Dirs, IInv, TypeOK, MarksOwned,
         DrawerOverSelection, Directories
<1>13. ASSUME NEW i \in Items, clickRadioButton(i) PROVE IInv'
  <2>1. \A d \in Dirs \cup {Root} : i \in Listed(d) => d = currentDirectory
    BY <1>3, <1>5, <1>13 DEF IInv, Parted, clickRadioButton, Directories
  <2> QED BY <1>0, <1>1, <1>2, <1>3, <1>4, <1>5, <1>13, <2>1
          DEF clickRadioButton, Selecting, screen, IInv, TypeOK, MarksOwned,
              DrawerOverSelection, Directories
<1> QED BY <1>6, <1>7, <1>8, <1>9, <1>10, <1>11, <1>12, <1>13

\* A new object in front of one list.
LEMMA Inserted ==
  ASSUME IInv, NEW i \in Unused, NEW t \in Directories,
         fileOrDirs' = [fileOrDirs EXCEPT ![t] = InFront(<<i>>, @)]
  PROVE  /\ fileOrDirs' \in [Directories -> Seq(Items)]
         /\ \A d \in Directories :
               Listed(d)' = IF d = t THEN Listed(d) \cup {i} ELSE Listed(d)
         /\ Parted'
<1>0. i \in Items /\ TypeOK /\ Parted /\ TwoLevels
  BY DEF IInv, Unused
<1>1. \A d \in Directories : i \notin Listed(d)
  BY DEF IInv, TwoLevels, Directories
<1>2. <<i>> \in Seq(Items) /\ Range(<<i>>) = {i} /\ IsInjective(<<i>>)
  BY <1>0 DEF Range, IsInjective
<1>3. fileOrDirs \in [Directories -> Seq(Items)]
  BY <1>0 DEF TypeOK, Directories
<1>4. /\ InFront(<<i>>, fileOrDirs[t]) \in Seq(Items)
      /\ Range(InFront(<<i>>, fileOrDirs[t])) = {i} \cup Listed(t)
      /\ IsInjective(InFront(<<i>>, fileOrDirs[t]))
  <2>1. fileOrDirs[t] \in Seq(Items) /\ IsInjective(fileOrDirs[t])
    BY <1>0, <1>3 DEF Parted
  <2>2. Range(<<i>>) \cap Range(fileOrDirs[t]) = {}
    BY <1>1, <1>2 DEF Listed
  <2>3. /\ InFront(<<i>>, fileOrDirs[t]) \in Seq(Items)
        /\ Range(InFront(<<i>>, fileOrDirs[t])) = Range(<<i>>) \cup Range(fileOrDirs[t])
        /\ IsInjective(InFront(<<i>>, fileOrDirs[t]))
    <3> DEFINE one == <<i>>
               list == fileOrDirs[t]
    <3>1. /\ one \in Seq(Items) /\ IsInjective(one)
          /\ list \in Seq(Items) /\ IsInjective(list) /\ Range(one) \cap Range(list) = {}
      BY <1>2, <2>1, <2>2
    <3> HIDE DEF one, list
    <3>2. /\ InFront(one, list) \in Seq(Items)
          /\ Range(InFront(one, list)) = Range(one) \cup Range(list)
          /\ IsInjective(InFront(one, list))
      BY <3>1, InFrontProperties
    <3> QED BY <3>2 DEF one, list
  <2> QED BY <1>2, <2>3 DEF Listed
<1>5. \A d \in Directories :
         fileOrDirs'[d] = IF d = t THEN InFront(<<i>>, fileOrDirs[t]) ELSE fileOrDirs[d]
  BY <1>3
<1>6. fileOrDirs' \in [Directories -> Seq(Items)]
  BY <1>3, <1>4
<1>7. \A d \in Directories :
         Listed(d)' = IF d = t THEN Listed(d) \cup {i} ELSE Listed(d)
  <2> SUFFICES ASSUME NEW d \in Directories
               PROVE  Listed(d)' = IF d = t THEN Listed(d) \cup {i} ELSE Listed(d)
    OBVIOUS
  <2>1. Listed(d)' = Range(fileOrDirs'[d])
    BY DEF Listed
  <2>2. CASE d = t
    BY <1>4, <1>5, <2>1, <2>2
  <2>3. CASE d # t
    BY <1>5, <2>1, <2>3 DEF Listed
  <2> QED BY <2>2, <2>3
<1>8. \A d \in Directories : IsInjective(fileOrDirs'[d])
  BY <1>0, <1>4, <1>5 DEF Parted
<1>9. Parted'
  BY <1>0, <1>1, <1>7, <1>8 DEF Parted
<1> QED BY <1>6, <1>7, <1>9

\* A new folder in the root.
LEMMA createDirectoryIInv ==
  ASSUME IInv, NEW d \in Items, createDirectory(d)
  PROVE  IInv'
<1>0. /\ TypeOK /\ TwoLevels /\ MarksOwned /\ ContentsDistinct /\ DrawerOverSelection
      /\ d \in Unused /\ Root \in Directories /\ d \notin Dirs
  BY DEF IInv, createDirectory, Directories, Unused, Dirs
<1>1. /\ fileOrDirs' \in [Directories -> Seq(Items)]
      /\ \A e \in Directories :
            Listed(e)' = IF e = Root THEN Listed(e) \cup {d} ELSE Listed(e)
      /\ Parted'
  BY <1>0, Inserted DEF createDirectory
<1>2. \A i \in Items : kind'[i] = IF i = d THEN "dir" ELSE kind[i]
  BY <1>0 DEF createDirectory, TypeOK
<1>3. Dirs' = Dirs \cup {d} /\ Unused' = Unused \ {d}
  BY <1>2 DEF Dirs, Unused
<1>4. UNCHANGED <<content, isSelected, screen>>
  BY DEF createDirectory
<1>5. d \notin isSelected
  BY <1>0 DEF TypeOK
<1>6. Listed(d) = {}
  BY <1>0 DEF TwoLevels, isDir, Unused
<1>7. TypeOK'
  <2>1. kind' \in [Items -> {"unused", "dir", "file"}]
    BY <1>0 DEF createDirectory, TypeOK
  <2>2. \A i \in Items : kind'[i] = "file" <=> content'[i] # NoContent
    BY <1>0, <1>2, <1>4 DEF TypeOK, Unused
  <2> QED BY <1>0, <1>1, <1>3, <1>4, <1>5, <2>1, <2>2 DEF TypeOK, screen, Directories
<1>8. TwoLevels'
  <2>1. \A e \in Items : Listed(e)' = Listed(e)
    BY <1>1, ItemsAssumption DEF Directories
  <2>2. \A e \in Items : d \notin Listed(e)
    BY <1>0 DEF TwoLevels
  <2>3. Listed(Root)' = Listed(Root) \cup {d}
    BY <1>0, <1>1
  <2>4. \A e \in Items : isDir(e)' <=> e \in Dirs'
    BY DEF isDir, Dirs
  <2>5. \A e \in Items : isDir(e) <=> e \in Dirs
    BY DEF isDir, Dirs
  <2> QED BY <1>0, <1>3, <1>4, <2>1, <2>2, <2>3, <2>4, <2>5 DEF TwoLevels, screen
<1>9. MarksOwned'
  <2>1. \A e \in Dirs' \cup {Root} : Listed(e)' \cap isSelected' = Listed(e) \cap isSelected
    BY <1>0, <1>1, <1>3, <1>4, <1>5 DEF Dirs, Directories
  <2> QED BY <1>0, <1>3, <1>4, <1>6, <2>1 DEF MarksOwned, screen
<1> QED BY <1>0, <1>1, <1>4, <1>7, <1>8, <1>9
        DEF IInv, ContentsDistinct, DrawerOverSelection, screen

\* A new file in the directory on screen.
LEMMA NewFileIInv ==
  ASSUME IInv, NEW f \in Items, NEW c \in Contents, NewFile(f, c)
  PROVE  IInv'
<1>0. /\ TypeOK /\ TwoLevels /\ MarksOwned /\ ContentsDistinct /\ DrawerOverSelection
      /\ f \in Unused /\ f \notin Dirs /\ c \notin Range(content) /\ c # NoContent
      /\ currentDirectory \in Directories /\ currentDirectory \in Dirs \cup {Root}
  BY ContentsAssumption DEF IInv, NewFile, Directories, Unused, Dirs, TypeOK, TwoLevels
<1>1. /\ fileOrDirs' \in [Directories -> Seq(Items)]
      /\ \A e \in Directories :
            Listed(e)' = IF e = currentDirectory THEN Listed(e) \cup {f} ELSE Listed(e)
      /\ Parted'
  BY <1>0, Inserted DEF NewFile
<1>2. \A i \in Items : /\ kind'[i] = IF i = f THEN "file" ELSE kind[i]
                       /\ content'[i] = IF i = f THEN c ELSE content[i]
                       /\ content[i] # c
  BY <1>0 DEF NewFile, TypeOK, Range
<1>3. Dirs' = Dirs /\ Unused' = Unused \ {f}
  BY <1>0, <1>2 DEF Dirs, Unused
<1>4. UNCHANGED <<isSelected, screen>>
  BY DEF NewFile
<1>5. f \notin isSelected
  BY <1>0 DEF TypeOK
<1>6. TypeOK'
  <2>1. kind' \in [Items -> {"unused", "dir", "file"}]
    BY <1>0 DEF NewFile, TypeOK
  <2>2. content' \in [Items -> Contents \cup {NoContent}]
    BY <1>0 DEF NewFile, TypeOK
  <2>3. \A i \in Items : kind'[i] = "file" <=> content'[i] # NoContent
    BY <1>0, <1>2 DEF TypeOK
  <2> QED BY <1>0, <1>1, <1>3, <1>4, <1>5, <2>1, <2>2, <2>3 DEF TypeOK, screen, Directories
<1>7. TwoLevels'
  <2>1. \A e \in Items : (isDir(e)' <=> e \in Dirs') /\ (isDir(e) <=> e \in Dirs)
    BY DEF isDir, Dirs
  <2>2. \A e \in Directories : Listed(e)' \cap Unused' = {}
    BY <1>0, <1>1, <1>3 DEF TwoLevels, Directories
  <2>3. \A e \in Items : Listed(e)' # {} => isDir(e)'
    BY <1>0, <1>1, <1>3, <2>1, ItemsAssumption DEF TwoLevels, Directories
  <2>4. Dirs' \subseteq Listed(Root)'
    BY <1>0, <1>1, <1>3 DEF TwoLevels, Directories
  <2>5. \A e \in Items : Listed(e)' \cap Dirs' = {}
    <3>1. \A e \in Items : Listed(e) \cap Dirs = {}
      BY <1>0 DEF TwoLevels
    <3>2. \A e \in Items : Listed(e)' \subseteq Listed(e) \cup {f}
      BY <1>1 DEF Directories
    <3> QED BY <1>0, <1>3, <3>1, <3>2
  <2>6. currentDirectory' \in Dirs' \cup {Root}
    BY <1>0, <1>3, <1>4 DEF screen
  <2> QED BY <2>2, <2>3, <2>4, <2>5, <2>6 DEF TwoLevels, Directories
<1>8. MarksOwned'
  <2>1. \A e \in Dirs' \cup {Root} : Listed(e)' \cap isSelected' = Listed(e) \cap isSelected
    BY <1>0, <1>1, <1>3, <1>4, <1>5 DEF Dirs, Directories
  <2> QED BY <1>0, <1>3, <1>4, <2>1 DEF MarksOwned, screen
<1>9. ContentsDistinct'
  BY <1>0, <1>2 DEF ContentsDistinct
<1> QED BY <1>0, <1>1, <1>4, <1>6, <1>7, <1>8, <1>9 DEF IInv, DrawerOverSelection, screen

\* The pages of a file are others.
LEMMA FileEditedIInv ==
  ASSUME IInv, NEW f \in Items, NEW c \in Contents, FileEdited(f, c)
  PROVE  IInv'
<1>0. /\ TypeOK /\ Parted /\ TwoLevels /\ MarksOwned /\ ContentsDistinct
      /\ DrawerOverSelection /\ c \notin Range(content) /\ c # NoContent
      /\ currentDirectory \in Directories
      /\ UNCHANGED <<kind, fileOrDirs, isSelected, screen>>
  BY ContentsAssumption DEF IInv, FileEdited, Directories, TypeOK
<1>1. \A i \in Items : /\ content'[i] = IF i = f THEN c ELSE content[i]
                       /\ content[i] # c
  BY <1>0 DEF FileEdited, TypeOK, Range
<1>2. kind[f] = "file"
  <2>1. f \notin Unused
    BY <1>0 DEF FileEdited, TwoLevels, Directories
  <2> QED BY <1>0, <2>1 DEF FileEdited, isDir, Unused, TypeOK
<1>3. Dirs' = Dirs /\ Unused' = Unused /\ \A d \in Directories : Listed(d)' = Listed(d)
  BY <1>0 DEF Dirs, Unused, Listed
<1>4. TypeOK'
  <2>1. content' \in [Items -> Contents \cup {NoContent}]
    BY <1>0 DEF FileEdited, TypeOK
  <2>2. \A i \in Items : kind'[i] = "file" <=> content'[i] # NoContent
    BY <1>0, <1>1, <1>2 DEF TypeOK
  <2> QED BY <1>0, <1>3, <2>1, <2>2 DEF TypeOK, screen
<1>5. Parted' /\ TwoLevels' /\ MarksOwned' /\ DrawerOverSelection'
  BY <1>0, <1>3 DEF Parted, TwoLevels, MarksOwned, DrawerOverSelection, screen, isDir,
                    Directories, Dirs
<1>6. ContentsDistinct'
  BY <1>0, <1>1 DEF ContentsDistinct
<1> QED BY <1>4, <1>5, <1>6 DEF IInv

\* A list is reordered.
LEMMA moveItemIInv ==
  ASSUME IInv, NEW i, NEW j, moveItem(i, j)
  PROVE  IInv'
<1> DEFINE list == fileOrDirs[currentDirectory]
<1>0. /\ TypeOK /\ Parted /\ TwoLevels /\ MarksOwned /\ ContentsDistinct
      /\ DrawerOverSelection
      /\ currentDirectory \in Directories
      /\ UNCHANGED <<kind, content, isSelected, screen>>
      /\ i \in DOMAIN list /\ j \in DOMAIN list
      /\ fileOrDirs' = [fileOrDirs EXCEPT ![currentDirectory] = MovedObject(list, i, j)]
      /\ fileOrDirs \in [Directories -> Seq(Items)]
      /\ list \in Seq(Items)
  BY DEF IInv, moveItem, Directories, TypeOK
<1>1. /\ MovedObject(list, i, j) \in Seq(Items)
      /\ Range(MovedObject(list, i, j)) = Range(list)
      /\ IsInjective(list) => IsInjective(MovedObject(list, i, j))
  BY <1>0, MovedProperties, Zenon
<1>2. \A d \in Directories :
        fileOrDirs'[d] = IF d = currentDirectory THEN MovedObject(list, i, j) ELSE fileOrDirs[d]
  BY <1>0
<1>3. \A d \in Directories : Listed(d)' = Listed(d) /\ IsInjective(fileOrDirs'[d])
  BY <1>0, <1>1, <1>2 DEF Listed, Parted
<1>4. Dirs' = Dirs /\ Unused' = Unused
  BY <1>0 DEF Dirs, Unused
<1>5. TypeOK'
  <2>1. fileOrDirs' \in [Directories -> Seq(Items)]
    BY <1>0, <1>1
  <2> QED BY <1>0, <1>4, <2>1 DEF TypeOK, screen, Directories
<1>6. Parted' /\ TwoLevels' /\ MarksOwned' /\ DrawerOverSelection' /\ ContentsDistinct'
  BY <1>0, <1>3, <1>4
     DEF Parted, TwoLevels, MarksOwned, DrawerOverSelection, ContentsDistinct, screen,
         isDir, Directories, Dirs
<1> QED BY <1>5, <1>6 DEF IInv

-----------------------------------------------------------------------------
(* Deleting.                                                                 *)

\* The lists once the objects of S are deleted.
LEMMA Deleted ==
  ASSUME TypeOK, Parted, NEW S
  PROVE  /\ deleteObjects(S, fileOrDirs) \in [Directories -> Seq(Items)]
         /\ \A d \in Directories :
              /\ IsInjective(deleteObjects(S, fileOrDirs)[d])
              /\ Range(deleteObjects(S, fileOrDirs)[d]) = IF d \in S THEN {} ELSE Listed(d) \ S
<1> DEFINE left == deleteObjects(S, fileOrDirs)
<1>1. fileOrDirs \in [Directories -> Seq(Items)]
  BY DEF TypeOK, Directories
<1>2. left = [d \in Directories |-> IF d \in S THEN <<>> ELSE Without(fileOrDirs[d], S)]
  BY <1>1 DEF deleteObjects
<1>3. <<>> \in Seq(Items) /\ Range(<<>>) = {} /\ IsInjective(<<>>)
  BY DEF Range, IsInjective
<1>4. ASSUME NEW d \in Directories
      PROVE  /\ Without(fileOrDirs[d], S) \in Seq(Items)
             /\ Range(Without(fileOrDirs[d], S)) = Listed(d) \ S
             /\ IsInjective(Without(fileOrDirs[d], S))
  <2>1. fileOrDirs[d] \in Seq(Items) /\ IsInjective(fileOrDirs[d])
    BY <1>1 DEF Parted
  <2> QED BY <2>1, WithoutProperties DEF Listed
<1> HIDE DEF left
<1>5. \A d \in Directories :
        left[d] = IF d \in S THEN <<>> ELSE Without(fileOrDirs[d], S)
  BY <1>2
<1>6. left \in [Directories -> Seq(Items)]
  BY <1>2, <1>3, <1>4
<1>7. ASSUME NEW d \in Directories
      PROVE  IsInjective(left[d]) /\ Range(left[d]) = IF d \in S THEN {} ELSE Listed(d) \ S
  <2>1. CASE d \in S
    BY <1>3, <1>5, <2>1
  <2>2. CASE d \notin S
    BY <1>4, <1>5, <2>2
  <2> QED BY <2>1, <2>2
<1> QED BY <1>6, <1>7 DEF left

\* Objects of the directory on screen are deleted.
LEMMA DeletionIInv ==
  ASSUME IInv, NEW S \in SUBSET Items, S \subseteq Listed(currentDirectory),
         kind' = [i \in Items |-> IF i \in S THEN "unused" ELSE kind[i]],
         content' = [i \in Items |-> IF i \in S THEN NoContent ELSE content[i]],
         fileOrDirs' = deleteObjects(S, fileOrDirs),
         isSelected' \subseteq isSelected \ S,
         UNCHANGED <<currentDirectory, drawer>>
  PROVE  /\ Parted' /\ TwoLevels' /\ ContentsDistinct'
         /\ isInSelection' \in BOOLEAN /\ stray' \subseteq Directories => TypeOK'
         /\ Dirs' = Dirs \ S /\ Unused' = Unused \cup S
         /\ \A d \in Directories :
              Listed(d)' = IF d \in S THEN {} ELSE Listed(d) \ S
<1>0. TypeOK /\ Parted /\ TwoLevels /\ ContentsDistinct
  BY DEF IInv
<1>1. /\ fileOrDirs' \in [Directories -> Seq(Items)]
      /\ \A d \in Directories : IsInjective(fileOrDirs'[d])
      /\ \A d \in Directories : Listed(d)' = IF d \in S THEN {} ELSE Listed(d) \ S
  BY <1>0, Deleted DEF Listed
<1>2. \A i \in Items : /\ kind'[i] = IF i \in S THEN "unused" ELSE kind[i]
                       /\ content'[i] = IF i \in S THEN NoContent ELSE content[i]
  OBVIOUS
<1>3. Dirs' = Dirs \ S /\ Unused' = Unused \cup S
  BY <1>2 DEF Dirs, Unused
<1>4. Parted'
  <2>1. ASSUME NEW d \in Directories, NEW e \in Directories, d # e
        PROVE  Listed(d)' \cap Listed(e)' = {}
    <3>1. Listed(d) \cap Listed(e) = {}
      BY <1>0, <2>1 DEF Parted
    <3>2. Listed(d)' \subseteq Listed(d) /\ Listed(e)' \subseteq Listed(e)
      BY <1>1
    <3> QED BY <3>1, <3>2
  <2> QED BY <1>1, <2>1 DEF Parted
<1>5. ContentsDistinct'
  BY <1>0, <1>2 DEF ContentsDistinct
<1>6. TwoLevels'
  <2>1. \A e \in Items : (isDir(e)' <=> e \in Dirs') /\ (isDir(e) <=> e \in Dirs)
    BY DEF isDir, Dirs
  <2>2. \A e \in Directories : Listed(e)' \cap Unused' = {}
    BY <1>0, <1>1, <1>3 DEF TwoLevels, Directories
  <2>3. \A e \in Items : Listed(e)' # {} => isDir(e)'
    BY <1>0, <1>1, <1>3, <2>1 DEF TwoLevels, Directories
  <2>4. Dirs' \subseteq Listed(Root)'
    BY <1>0, <1>1, <1>3, ItemsAssumption DEF TwoLevels, Directories
  <2>5. \A e \in Items : Listed(e)' \cap Dirs' = {}
    BY <1>0, <1>1, <1>3 DEF TwoLevels, Directories
  <2>6. currentDirectory' \in Dirs' \cup {Root}
    BY <1>0, <1>3 DEF TwoLevels, Dirs
  <2> QED BY <2>2, <2>3, <2>4, <2>5, <2>6 DEF TwoLevels, Directories
<1>7. ASSUME isInSelection' \in BOOLEAN, stray' \subseteq Directories PROVE TypeOK'
  <2>1. kind' \in [Items -> {"unused", "dir", "file"}]
    BY <1>0 DEF TypeOK
  <2>2. content' \in [Items -> Contents \cup {NoContent}]
    BY <1>0 DEF TypeOK
  <2>3. \A i \in Items : kind'[i] = "file" <=> content'[i] # NoContent
    BY <1>0, <1>2 DEF TypeOK
  <2> QED BY <1>0, <1>1, <1>3, <1>7, <2>1, <2>2, <2>3 DEF TypeOK, Directories
<1> QED BY <1>1, <1>3, <1>4, <1>5, <1>6, <1>7

\* A file whose last page was deleted.
LEMMA FileEmptiedIInv ==
  ASSUME IInv, NEW f \in Items, FileEmptied(f)
  PROVE  IInv'
<1>0. /\ TypeOK /\ TwoLevels /\ MarksOwned /\ DrawerOverSelection
      /\ f \in Listed(currentDirectory) /\ f \notin Dirs
      /\ isSelected' = isSelected \ {f} /\ UNCHANGED screen
      /\ fileOrDirs' = deleteObjects({f}, fileOrDirs)
  BY DEF IInv, FileEmptied, isDir, Dirs
<1>1. kind' = [i \in Items |-> IF i \in {f} THEN "unused" ELSE kind[i]]
  BY <1>0 DEF FileEmptied, TypeOK
<1>2. content' = [i \in Items |-> IF i \in {f} THEN NoContent ELSE content[i]]
  BY <1>0 DEF FileEmptied, TypeOK
<1>3. /\ Parted' /\ TwoLevels' /\ ContentsDistinct' /\ TypeOK'
      /\ Dirs' = Dirs
      /\ \A d \in Directories : Listed(d)' \subseteq Listed(d)
  <2>1. /\ {f} \in SUBSET Items /\ {f} \subseteq Listed(currentDirectory)
        /\ isSelected' \subseteq isSelected \ {f}
        /\ UNCHANGED <<currentDirectory, drawer>>
        /\ isInSelection' \in BOOLEAN /\ stray' \subseteq Directories
    BY <1>0 DEF screen, TypeOK, Directories
  <2>2. /\ Parted' /\ TwoLevels' /\ ContentsDistinct'
        /\ isInSelection' \in BOOLEAN /\ stray' \subseteq Directories => TypeOK'
        /\ Dirs' = Dirs \ {f}
        /\ \A d \in Directories : Listed(d)' = IF d \in {f} THEN {} ELSE Listed(d) \ {f}
    BY <1>0, <1>1, <1>2, <2>1, DeletionIInv
  <2> QED BY <1>0, <2>1, <2>2
<1>4. MarksOwned'
  BY <1>0, <1>3 DEF MarksOwned, screen, Dirs, Directories
<1> QED BY <1>0, <1>3, <1>4 DEF IInv, DrawerOverSelection, screen

\* The selection, or one item, is deleted.
LEMMA deleteDirOrFilesIInv ==
  ASSUME IInv, NEW S \in SUBSET Items, deleteDirOrFiles(S)
  PROVE  IInv'
<1>0. /\ TypeOK /\ TwoLevels /\ MarksOwned /\ DrawerOverSelection /\ ~drawer
      /\ S \subseteq Listed(currentDirectory)
      /\ currentDirectory \in Directories
      /\ UNCHANGED <<currentDirectory, drawer>>
      /\ isInSelection' = FALSE
      /\ isSelected' = (isSelected \ S) \ Listed(currentDirectory)'
      /\ stray' = stray \ (S \cup {currentDirectory})
  BY DEF IInv, deleteDirOrFiles, Selecting, Idle, EndSelection, clearSelection, Listed,
         TypeOK, Directories
<1>1. /\ Parted' /\ TwoLevels' /\ ContentsDistinct' /\ TypeOK'
      /\ Dirs' = Dirs \ S
      /\ \A d \in Directories : Listed(d)' \subseteq Listed(d)
  <2>1. /\ isSelected' \subseteq isSelected \ S
        /\ isInSelection' \in BOOLEAN /\ stray' \subseteq Directories
    BY <1>0 DEF TypeOK, Directories
  <2>2. /\ Parted' /\ TwoLevels' /\ ContentsDistinct'
        /\ isInSelection' \in BOOLEAN /\ stray' \subseteq Directories => TypeOK'
        /\ Dirs' = Dirs \ S
        /\ \A d \in Directories : Listed(d)' = IF d \in S THEN {} ELSE Listed(d) \ S
    BY <1>0, <2>1, DeletionIInv DEF deleteDirOrFiles
  <2> QED BY <2>1, <2>2
<1>2. MarksOwned'
  <2> SUFFICES ASSUME NEW d \in Dirs' \cup {Root}, Listed(d)' \cap isSelected' # {}
               PROVE  d \in stray'
    BY DEF MarksOwned
  <2>1. d \in Dirs \cup {Root} /\ d \notin S /\ d \in Directories
    BY <1>1, ItemsAssumption DEF Dirs, Directories
  <2>2. d # currentDirectory
    BY <1>0
  <2>3. Listed(d) \cap isSelected # {}
    BY <1>0, <1>1, <2>1
  <2> QED BY <1>0, <2>1, <2>2, <2>3 DEF MarksOwned
<1> QED BY <1>0, <1>1, <1>2 DEF IInv, DrawerOverSelection

-----------------------------------------------------------------------------
(* Moving files.                                                             *)

\* The files that _copySelectedFiles copies and its caller deletes.
Gone == Range(selectedFiles)

\* The originals are files of the directory on screen, in a list that has each
\* of them once.
LEMMA SelectedFiles ==
  ASSUME IInv
  PROVE  /\ selectedFiles \in Seq(Items) /\ IsInjective(selectedFiles)
         /\ Gone \subseteq Listed(currentDirectory) /\ Gone \subseteq isSelected
         /\ Gone \subseteq Items
         /\ Gone \cap Unused = {} /\ Gone \cap Dirs = {}
         /\ \A i \in Gone : kind[i] = "file" /\ content[i] # NoContent
<1> DEFINE M == {i \in isSelected : ~isDir(i)}
           list == fileOrDirs[currentDirectory]
<1>1. /\ TypeOK /\ TwoLevels /\ currentDirectory \in Directories
      /\ list \in Seq(Items) /\ IsInjective(list) /\ Range(list) = Listed(currentDirectory)
  BY DEF IInv, TypeOK, Parted, Directories, Listed
<1>2. selectedFiles = Only(list, M)
  BY DEF selectedFiles
<1>3. /\ selectedFiles \in Seq(Items) /\ IsInjective(selectedFiles)
      /\ Gone = Listed(currentDirectory) \cap M
  <2> HIDE DEF list, M
  <2> QED BY <1>1, <1>2, OnlyProperties DEF Gone
<1>4. Listed(currentDirectory) \subseteq Items /\ Listed(currentDirectory) \cap Unused = {}
  BY <1>1, ListedItems DEF TwoLevels, Directories
<1>5. Gone \cap Dirs = {}
  BY <1>3 DEF isDir, Dirs
<1>6. \A i \in Gone : kind[i] = "file" /\ content[i] # NoContent
  BY <1>1, <1>3, <1>4, <1>5 DEF TypeOK, Dirs, Unused
<1> QED BY <1>3, <1>4, <1>5, <1>6

\* A move in terms of sets: the copies take the place of the originals, each
\* with the pages of the original at its place.
LEMMA MoveFilesFacts ==
  ASSUME IInv, NEW target \in Directories,
         NEW copies \in UNION {[1..n -> Unused] : n \in 1..Cardinality(Unused)},
         MoveFiles(target, copies)
  PROVE  /\ target \in Dirs \cup {Root} /\ target # currentDirectory
         /\ Range(copies) \subseteq Unused
         /\ fileOrDirs' \in [Directories -> Seq(Items)]
         /\ \A d \in Directories : IsInjective(fileOrDirs'[d])
         /\ \A d \in Directories :
              Listed(d)' = IF d = target THEN Range(copies) \cup (Listed(d) \ Gone)
                           ELSE Listed(d) \ Gone
         /\ \A i \in Items : kind'[i] = IF i \in Gone THEN "unused"
                                        ELSE IF i \in Range(copies) THEN "file" ELSE kind[i]
         /\ \A i \in Items \ Range(copies) :
              content'[i] = IF i \in Gone THEN NoContent ELSE content[i]
         /\ DOMAIN copies = DOMAIN selectedFiles
         /\ \A k \in DOMAIN copies : content'[copies[k]] = content[selectedFiles[k]]
         /\ isSelected' = (isSelected \ Gone) \ Listed(currentDirectory)'
         /\ isInSelection' = FALSE /\ drawer' = FALSE
         /\ stray' = stray \ {currentDirectory} /\ UNCHANGED currentDirectory
<1>0. /\ TypeOK /\ Parted /\ TwoLevels /\ Unused \subseteq Items
      /\ currentDirectory \in Directories
      /\ currentDirectory \in Dirs \cup {Root}
  BY DEF IInv, Unused, TypeOK, TwoLevels, Directories
<1>1. /\ selectedFiles \in Seq(Items) /\ IsInjective(selectedFiles)
      /\ Gone \subseteq Items /\ Gone \cap Unused = {} /\ Gone \cap Dirs = {}
  BY SelectedFiles
<1>2. PICK n \in Nat : copies \in [1..n -> Unused]
  <2>1. PICK n \in 1..Cardinality(Unused) : copies \in [1..n -> Unused]
    OBVIOUS
  <2>2. n \in Nat
    <3>1. IsFiniteSet(Unused)
      BY <1>0, ItemsAssumption, FS_Subset
    <3>2. Cardinality(Unused) \in Nat
      BY <3>1, FS_CardinalityType
    <3> QED BY <3>2
  <2> QED BY <2>1, <2>2
<1>3. copies \in Seq(Items) /\ DOMAIN copies = 1..n /\ Len(copies) = n
  BY <1>0, <1>2
<1>4. Range(copies) \subseteq Unused
  BY <1>2, <1>3 DEF Range
<1>5. IsInjective(copies) /\ DOMAIN copies = DOMAIN selectedFiles
  <2>1. IsInjective(copies) /\ Len(copies) = Len(selectedFiles)
    BY Zenon DEF MoveFiles
  <2>2. DOMAIN selectedFiles = 1..Len(selectedFiles)
    BY <1>1
  <2> QED BY <1>3, <2>1, <2>2
<1>6. target \in Dirs \cup {Root} /\ target # currentDirectory /\ target \notin Gone
  <2>1. target \in Targets
    BY DEF MoveFiles
  <2>2. CASE currentDirectory = Root
    <3>1. target \in Listed(Root) /\ isDir(target)
      BY <2>1, <2>2 DEF Targets
    <3>2. target \in Items
      BY <1>0, <3>1, ListedItems DEF Directories
    <3> QED BY <1>1, <2>2, <3>1, <3>2, ItemsAssumption DEF isDir, Dirs
  <2>3. CASE currentDirectory # Root
    BY <1>1, <2>1, <2>3, ItemsAssumption DEF Targets
  <2> QED BY <2>2, <2>3
<1> DEFINE left == deleteObjects(Gone, fileOrDirs)
<1>7. fileOrDirs' = [left EXCEPT ![target] = InFront(copies, @)]
  BY DEF MoveFiles, Gone
<1>8. /\ left \in [Directories -> Seq(Items)]
      /\ \A d \in Directories : IsInjective(left[d]) /\ Range(left[d]) = Listed(d) \ Gone
  <2>1. /\ left \in [Directories -> Seq(Items)]
        /\ \A d \in Directories :
             /\ IsInjective(left[d])
             /\ Range(left[d]) = IF d \in Gone THEN {} ELSE Listed(d) \ Gone
    BY <1>0, Deleted
  <2>2. \A d \in Gone : Listed(d) = {}
    BY <1>0, <1>1 DEF TwoLevels, isDir, Dirs
  <2> HIDE DEF left
  <2> QED BY <2>1, <2>2
<1> HIDE DEF left
<1>9. /\ InFront(copies, left[target]) \in Seq(Items)
      /\ IsInjective(InFront(copies, left[target]))
      /\ Range(InFront(copies, left[target])) = Range(copies) \cup (Listed(target) \ Gone)
  <2>1. left[target] \in Seq(Items) /\ IsInjective(left[target])
        /\ Range(left[target]) = Listed(target) \ Gone
    BY <1>8
  <2>2. Range(copies) \cap Range(left[target]) = {}
    BY <1>0, <1>4, <2>1 DEF TwoLevels, Directories
  <2> QED BY <1>3, <1>5, <2>1, <2>2, InFrontProperties
<1>10. \A d \in Directories :
         fileOrDirs'[d] = IF d = target THEN InFront(copies, left[target]) ELSE left[d]
  BY <1>7, <1>8
<1>11. fileOrDirs' \in [Directories -> Seq(Items)]
  BY <1>7, <1>8, <1>9
<1>12. ASSUME NEW d \in Directories
       PROVE  /\ IsInjective(fileOrDirs'[d])
              /\ Listed(d)' = IF d = target THEN Range(copies) \cup (Listed(d) \ Gone)
                              ELSE Listed(d) \ Gone
  <2>1. Listed(d)' = Range(fileOrDirs'[d])
    BY DEF Listed
  <2>2. CASE d = target
    BY <1>9, <1>10, <2>1, <2>2
  <2>3. CASE d # target
    BY <1>8, <1>10, <2>1, <2>3
  <2> QED BY <2>2, <2>3
<1>13. \A i \in Items : kind'[i] = IF i \in Gone THEN "unused"
                                   ELSE IF i \in Range(copies) THEN "file" ELSE kind[i]
  <2>1. kind' = [i \in Items |-> CASE i \in Gone -> "unused"
                                  [] i \in Range(copies) -> "file"
                                  [] OTHER -> kind[i]]
    BY DEF MoveFiles, Gone
  <2> QED BY <1>1, <1>4, <2>1
<1> DEFINE orig(c) == selectedFiles[CHOOSE k \in DOMAIN copies : copies[k] = c]
<1>14. content' = [i \in Items |-> CASE i \in Gone -> NoContent
                                     [] i \in Range(copies) -> content[orig(i)]
                                     [] OTHER -> content[i]]
  BY DEF MoveFiles, Gone, copiedContent
<1>15. \A i \in Items \ Range(copies) :
         content'[i] = IF i \in Gone THEN NoContent ELSE content[i]
  <2> HIDE DEF orig
  <2> QED BY <1>14
<1>16. ASSUME NEW k \in DOMAIN copies
       PROVE  content'[copies[k]] = content[selectedFiles[k]]
  <2>1. copies[k] \in Range(copies)
    BY DEF Range
  <2>2. copies[k] \in Items /\ copies[k] \notin Gone
    BY <1>0, <1>1, <1>4, <2>1
  <2>3. orig(copies[k]) = selectedFiles[k]
    <3> DEFINE l == CHOOSE l \in DOMAIN copies : copies[l] = copies[k]
    <3>1. l \in DOMAIN copies /\ copies[l] = copies[k]
      OBVIOUS
    <3>2. l = k
      BY <1>5, <3>1 DEF IsInjective
    <3> QED BY <3>2
  <2> HIDE DEF orig
  <2>4. content'[copies[k]] = content[orig(copies[k])]
    BY <1>14, <2>1, <2>2
  <2> QED BY <2>3, <2>4
<1>17. /\ isSelected' = (isSelected \ Gone) \ Listed(currentDirectory)'
       /\ isInSelection' = FALSE /\ drawer' = FALSE
       /\ stray' = stray \ {currentDirectory} /\ UNCHANGED currentDirectory
  BY DEF MoveFiles, EndSelection, clearSelection, Gone, Listed
<1> QED BY <1>4, <1>5, <1>6, <1>11, <1>12, <1>13, <1>15, <1>16, <1>17

\* Files are moved to another directory.
LEMMA MoveFilesIInv ==
  ASSUME IInv, NEW target \in Directories,
         NEW copies \in UNION {[1..n -> Unused] : n \in 1..Cardinality(Unused)},
         MoveFiles(target, copies)
  PROVE  IInv'
<1> DEFINE new == Range(copies)
<1>0. /\ TypeOK /\ Parted /\ TwoLevels /\ MarksOwned /\ ContentsDistinct
      /\ currentDirectory \in Dirs \cup {Root}
      /\ isSelected \cap Unused = {} /\ Unused \subseteq Items
      /\ Dirs \subseteq Items
  BY DEF IInv, TypeOK, TwoLevels, Unused, Dirs
<1>1. /\ selectedFiles \in Seq(Items) /\ IsInjective(selectedFiles)
      /\ Gone \subseteq Items /\ Gone \cap Unused = {} /\ Gone \cap Dirs = {}
      /\ \A i \in Gone : content[i] # NoContent
  BY SelectedFiles
<1>2. /\ target \in Dirs \cup {Root} /\ target # currentDirectory
      /\ new \subseteq Unused
      /\ fileOrDirs' \in [Directories -> Seq(Items)]
      /\ \A d \in Directories : IsInjective(fileOrDirs'[d])
      /\ \A d \in Directories :
           Listed(d)' = IF d = target THEN new \cup (Listed(d) \ Gone) ELSE Listed(d) \ Gone
      /\ \A i \in Items : kind'[i] = IF i \in Gone THEN "unused"
                                     ELSE IF i \in new THEN "file" ELSE kind[i]
      /\ \A i \in Items \ new : content'[i] = IF i \in Gone THEN NoContent ELSE content[i]
      /\ DOMAIN copies = DOMAIN selectedFiles
      /\ \A k \in DOMAIN copies : content'[copies[k]] = content[selectedFiles[k]]
      /\ isSelected' = (isSelected \ Gone) \ Listed(currentDirectory)'
      /\ isInSelection' = FALSE /\ drawer' = FALSE
      /\ stray' = stray \ {currentDirectory} /\ UNCHANGED currentDirectory
  BY MoveFilesFacts
<1>3. \A i \in new : \E k \in DOMAIN selectedFiles :
         copies[k] = i /\ selectedFiles[k] \in Gone /\ content'[i] = content[selectedFiles[k]]
  BY <1>2 DEF Range, Gone
<1> HIDE DEF new
<1>4. Dirs' = Dirs /\ Unused' = (Unused \cup Gone) \ new
  <2>1. Dirs' = Dirs
    BY <1>0, <1>1, <1>2 DEF Dirs, Unused
  <2>2. Unused' = (Unused \cup Gone) \ new
    BY <1>0, <1>1, <1>2 DEF Unused
  <2> QED BY <2>1, <2>2
<1>5. \A d \in Directories : Listed(d) \cap new = {}
  BY <1>0, <1>2 DEF TwoLevels, Directories
<1>6. TypeOK'
  <2>1. kind' \in [Items -> {"unused", "dir", "file"}]
    <3>1. kind' = [i \in Items |-> kind'[i]]
      BY DEF MoveFiles
    <3>2. \A i \in Items : kind'[i] \in {"unused", "dir", "file"}
      BY <1>0, <1>2 DEF TypeOK
    <3> QED BY <3>1, <3>2
  <2>2. \A i \in Items : content'[i] \in Contents \cup {NoContent}
    <3>1. \A i \in Gone : content[i] \in Contents \cup {NoContent}
      BY <1>0, <1>1 DEF TypeOK
    <3> QED BY <1>0, <1>2, <1>3, <3>1 DEF TypeOK
  <2>3. content' \in [Items -> Contents \cup {NoContent}]
    <3>1. content' = [i \in Items |-> content'[i]]
      BY DEF MoveFiles
    <3> QED BY <2>2, <3>1
  <2>4. \A i \in Items : kind'[i] = "file" <=> content'[i] # NoContent
    <3> SUFFICES ASSUME NEW i \in Items PROVE kind'[i] = "file" <=> content'[i] # NoContent
      OBVIOUS
    <3>1. CASE i \in new
      <4>1. i \notin Gone
        BY <1>1, <1>2, <3>1
      <4>2. content'[i] # NoContent
        BY <1>1, <1>3, <3>1
      <4> QED BY <1>2, <3>1, <4>1, <4>2
    <3>2. CASE i \notin new
      BY <1>0, <1>2, <3>2 DEF TypeOK
    <3> QED BY <3>1, <3>2
  <2>5. isSelected' \subseteq Items \ Unused'
    BY <1>0, <1>1, <1>2, <1>4 DEF TypeOK
  <2> QED BY <1>0, <1>2, <2>1, <2>3, <2>4, <2>5 DEF TypeOK, Directories
<1>7. Parted'
  BY <1>0, <1>2, <1>5 DEF Parted
<1>8. TwoLevels'
  <2>1. \A e \in Items : (isDir(e)' <=> e \in Dirs') /\ (isDir(e) <=> e \in Dirs)
    BY DEF isDir, Dirs
  <2>2. \A e \in Directories : Listed(e)' \cap Unused' = {}
    BY <1>0, <1>1, <1>2, <1>4 DEF TwoLevels, Directories
  <2>3. \A e \in Items : Listed(e)' # {} => isDir(e)'
    BY <1>0, <1>2, <1>4, <2>1, ItemsAssumption, ZenonT(60) DEF TwoLevels, Directories
  <2>4. Dirs' \subseteq Listed(Root)'
    BY <1>0, <1>1, <1>2, <1>4 DEF TwoLevels, Directories
  <2>5. \A e \in Items : Listed(e)' \cap Dirs' = {}
    <3>1. new \cap Dirs = {}
      BY <1>2 DEF Dirs, Unused
    <3> QED BY <1>0, <1>2, <1>4, <3>1 DEF TwoLevels, Directories
  <2>6. currentDirectory' \in Dirs' \cup {Root}
    BY <1>0, <1>2, <1>4
  <2> QED BY <2>2, <2>3, <2>4, <2>5, <2>6 DEF TwoLevels, Directories
<1>9. MarksOwned'
  <2> SUFFICES ASSUME NEW d \in Dirs' \cup {Root}, Listed(d)' \cap isSelected' # {}
               PROVE  d \in stray'
    BY DEF MarksOwned
  <2>1. d \in Dirs \cup {Root} /\ d \in Directories
    BY <1>0, <1>4 DEF Directories
  <2>2. d # currentDirectory
    BY <1>2
  <2>3. Listed(d) \cap isSelected # {}
    BY <1>0, <1>2, <2>1
  <2>4. ~ (isInSelection /\ d = currentDirectory)
    BY <2>2
  <2> QED BY <1>0, <1>2, <2>1, <2>2, <2>3, <2>4 DEF MarksOwned
<1>10. ContentsDistinct'
  <2> SUFFICES ASSUME NEW f \in Items, NEW g \in Items, f # g,
                      content'[f] = content'[g], content'[f] # NoContent
               PROVE  FALSE
    BY DEF ContentsDistinct
  <2>1. ASSUME NEW x \in Items \ new, NEW y \in new, content'[x] = content'[y],
               content'[x] # NoContent
        PROVE  FALSE
    <3>1. PICK k \in DOMAIN selectedFiles :
             selectedFiles[k] \in Gone /\ content'[y] = content[selectedFiles[k]]
      BY <1>3
    <3>2. x \notin Gone /\ content[x] = content[selectedFiles[k]]
      BY <1>2, <2>1, <3>1
    <3> QED BY <1>0, <1>1, <3>1, <3>2 DEF ContentsDistinct
  <2>2. CASE f \in new /\ g \in new
    <3>1. PICK k \in DOMAIN selectedFiles :
             copies[k] = f /\ selectedFiles[k] \in Gone /\ content'[f] = content[selectedFiles[k]]
      BY <1>3, <2>2
    <3>2. PICK l \in DOMAIN selectedFiles :
             copies[l] = g /\ selectedFiles[l] \in Gone /\ content'[g] = content[selectedFiles[l]]
      BY <1>3, <2>2
    <3>3. selectedFiles[k] = selectedFiles[l]
      BY <1>0, <1>1, <3>1, <3>2 DEF ContentsDistinct
    <3>4. k = l
      BY <1>1, <3>3 DEF IsInjective
    <3> QED BY <3>1, <3>2, <3>4
  <2>3. CASE f \notin new /\ g \notin new
    BY <1>0, <1>2, <2>3 DEF ContentsDistinct
  <2> QED BY <2>1, <2>2, <2>3
<1> QED BY <1>2, <1>6, <1>7, <1>8, <1>9, <1>10 DEF IInv, DrawerOverSelection

-----------------------------------------------------------------------------
(* The theorems.                                                             *)

\* Every step keeps the invariant.
LEMMA NextIInv == IInv /\ [Next]_vars => IInv'
<1> SUFFICES ASSUME IInv, [Next]_vars PROVE IInv'
  OBVIOUS
<1>1. ASSUME NEW f \in Items, NEW c \in Contents, NewFile(f, c) \/ FileEdited(f, c)
      PROVE  IInv'
  BY <1>1, NewFileIInv, FileEditedIInv
<1>2. ASSUME NEW f \in Items, FileEmptied(f) \/ createDirectory(f) PROVE IInv'
  BY <1>2, FileEmptiedIInv, createDirectoryIInv
<1>3. ASSUME NEW i, NEW j, moveItem(i, j) PROVE IInv'
  BY <1>3, moveItemIInv
<1>4. ASSUME NEW S \in SUBSET Items, deleteDirOrFiles(S) PROVE IInv'
  BY <1>4, deleteDirOrFilesIInv
<1>5. ASSUME NEW target \in Items \cup {Root},
             NEW copies \in UNION {[1..n -> Unused] : n \in 1..Cardinality(Unused)},
             MoveFiles(target, copies)
      PROVE  IInv'
  BY <1>5, MoveFilesIInv DEF Directories
<1>6. CASE UNCHANGED vars
  <2>1. UNCHANGED <<kind, fileOrDirs, content>> /\ UNCHANGED isSelected /\ UNCHANGED screen
    BY <1>6 DEF vars, stored
  <2>2. /\ TypeOK /\ TwoLevels /\ MarksOwned /\ DrawerOverSelection
    BY DEF IInv
  <2>3. /\ Parted' /\ ContentsDistinct'
        /\ Dirs' = Dirs /\ Unused' = Unused
        /\ \A d \in Directories : Listed(d)' = Listed(d)
        /\ (currentDirectory' \in Dirs \cup {Root}) => TwoLevels'
    BY <2>1, ObjectsUnchanged
  <2>4. TypeOK'
    BY <2>1, <2>2, <2>3 DEF TypeOK, screen
  <2>5. TwoLevels' /\ MarksOwned' /\ DrawerOverSelection'
    BY <2>1, <2>2, <2>3
       DEF TwoLevels, MarksOwned, DrawerOverSelection, screen, Dirs, Directories
  <2> QED BY <2>3, <2>4, <2>5 DEF IInv
<1>7. CASE Relaunch \/ goBack \/ selection \/ cancelSelection \/ OpenDrawer \/ CloseDrawer
  BY <1>7, ScreenIInv
<1>8. ASSUME NEW i \in Items, OpenDirectory(i) \/ clickRadioButton(i) PROVE IInv'
  BY <1>8, ScreenIInv
<1> QED BY <1>1, <1>2, <1>3, <1>4, <1>5, <1>6, <1>7, <1>8 DEF Next

\* The inductive invariant holds in every reachable state.
LEMMA Invariance == Spec => []IInv
BY InitIInv, NextIInv, PTL DEF Spec

\* Types, and that files have contents and nothing else has.
THEOREM TypeCorrect == Spec => []TypeOK
<1>1. IInv => TypeOK
  BY DEF IInv
<1> QED BY Invariance, <1>1, PTL

\* No object is ever in two lists or twice in one, whatever is created, moved,
\* reordered and deleted: belongedDir is unique.
THEOREM ParentUnique == Spec => []OneParent
<1>1. IInv => OneParent
  BY PartedIsOneParent DEF IInv
<1> QED BY Invariance, <1>1, PTL

\* The store stays a tree of two levels, and the screen on a directory of it.
THEOREM StoreTwoLevels == Spec => []TwoLevels
<1>1. IInv => TwoLevels
  BY DEF IInv
<1> QED BY Invariance, <1>1, PTL

\* Marks are only where a selection is on, or was left behind by a swipe or a
\* restart.
THEOREM MarksAccounted == Spec => []MarksOwned
<1>1. IInv => MarksOwned
  BY DEF IInv
<1> QED BY Invariance, <1>1, PTL

\* No two files share their pages: a move copies and deletes, and leaves one.
THEOREM ContentsNeverShared == Spec => []ContentsDistinct
<1>1. IInv => ContentsDistinct
  BY DEF IInv
<1> QED BY Invariance, <1>1, PTL

-----------------------------------------------------------------------------
(* No page is lost.                                                          *)

\* What PagesKept says of one step.
PagesKeptStep ==
    Visible \ Visible' # {} =>
       \/ Cardinality(Unused') > Cardinality(Unused)
       \/ kind' = kind /\ \E f \in Items : content'[f] \in Contents \ Range(content)

\* A listed page stays visible if it is listed, with the same pages, afterwards.
LEMMA StillVisible ==
  ASSUME \A d \in Directories : \A f \in Listed(d) :
            \E e \in Directories : \E g \in Listed(e)' : content'[g] = content[f]
  PROVE  Visible \subseteq Visible'
<1> SUFFICES ASSUME NEW v \in Visible PROVE v \in Visible'
  OBVIOUS
<1>1. v # NoContent
  BY DEF Visible
<1>2. PICK d \in Directories : \E f \in Listed(d) : v = content[f]
  BY DEF Visible, Directories
<1>3. PICK e \in Directories : \E g \in Listed(e)' : content'[g] = v
  BY <1>2
<1>4. PICK g \in Listed(e)' : content'[g] = v
  BY <1>3
<1>5. g \in UNION {Listed(x)' : x \in Directories}
  BY <1>4
<1> QED BY <1>1, <1>4, <1>5 DEF Visible, Directories

\* Deleting at least one object leaves fewer.
LEMMA DeletingCounts ==
  ASSUME NEW S, S # {}, S \cap Unused = {}, Unused' = Unused \cup S, Unused' \subseteq Items
  PROVE  Cardinality(Unused') > Cardinality(Unused)
<1>1. IsFiniteSet(Unused')
  BY ItemsAssumption, FS_Subset
<1>2. /\ Cardinality(Unused) <= Cardinality(Unused')
      /\ Cardinality(Unused') = Cardinality(Unused) => Unused' = Unused
      /\ IsFiniteSet(Unused)
  BY <1>1, FS_Subset
<1>3. Cardinality(Unused) \in Nat /\ Cardinality(Unused') \in Nat
  BY <1>1, <1>2, FS_CardinalityType
<1>4. Unused' # Unused
  OBVIOUS
<1> QED BY <1>2, <1>3, <1>4

\* Every step keeps the pages.
LEMMA NextPagesKept == IInv /\ [Next]_vars => [PagesKeptStep]_vars
<1> SUFFICES ASSUME IInv, Next PROVE PagesKeptStep
  OBVIOUS
<1>0. /\ TypeOK /\ TwoLevels /\ currentDirectory \in Directories
      /\ \A d \in Directories : Listed(d) \subseteq Items /\ Listed(d) \cap Unused = {}
      /\ Unused' \subseteq Items
  BY ListedItems DEF IInv, TypeOK, TwoLevels, Directories, Unused
<1>1. CASE UNCHANGED <<fileOrDirs, content>>
  <2>1. Visible' = Visible
    BY <1>1 DEF Visible, Listed
  <2> QED BY <2>1 DEF PagesKeptStep
<1>2. ASSUME NEW d \in Items, createDirectory(d) PROVE PagesKeptStep
  <2>1. d \in Unused /\ Root \in Directories /\ UNCHANGED content
    BY <1>2 DEF createDirectory, Directories
  <2>2. \A e \in Directories : Listed(e) \subseteq Listed(e)'
    BY <1>2, <2>1, Inserted DEF createDirectory
  <2>3. Visible \subseteq Visible'
    BY <2>1, <2>2, StillVisible
  <2> QED BY <2>3 DEF PagesKeptStep
<1>3. ASSUME NEW f \in Items, NEW c \in Contents, NewFile(f, c) PROVE PagesKeptStep
  <2>1. f \in Unused /\ content' = [content EXCEPT ![f] = c]
    BY <1>3 DEF NewFile
  <2>2. \A e \in Directories : Listed(e) \subseteq Listed(e)'
    <3>1. fileOrDirs' = [fileOrDirs EXCEPT ![currentDirectory] = InFront(<<f>>, @)]
      BY <1>3 DEF NewFile
    <3>2. \A e \in Directories :
             Listed(e)' = IF e = currentDirectory THEN Listed(e) \cup {f} ELSE Listed(e)
      BY <1>0, <2>1, <3>1, Inserted
    <3> QED BY <3>2
  <2>3. \A e \in Directories : \A g \in Listed(e) : content'[g] = content[g]
    BY <1>0, <2>1 DEF TypeOK
  <2>4. Visible \subseteq Visible'
    BY <2>2, <2>3, StillVisible
  <2> QED BY <2>4 DEF PagesKeptStep
<1>4. ASSUME NEW f \in Items, NEW c \in Contents, FileEdited(f, c) PROVE PagesKeptStep
  <2>1. kind' = kind /\ content'[f] = c /\ c \in Contents \ Range(content)
    BY <1>0, <1>4 DEF FileEdited, TypeOK
  <2> QED BY <2>1 DEF PagesKeptStep
<1>5. ASSUME NEW i, NEW j, moveItem(i, j) PROVE PagesKeptStep
  <2> DEFINE list == fileOrDirs[currentDirectory]
  <2>1. /\ i \in DOMAIN list /\ j \in DOMAIN list /\ list \in Seq(Items)
        /\ fileOrDirs' = [fileOrDirs EXCEPT ![currentDirectory] = MovedObject(list, i, j)]
        /\ fileOrDirs \in [Directories -> Seq(Items)] /\ UNCHANGED content
    BY <1>0, <1>5 DEF moveItem, TypeOK, Directories
  <2>2. Range(MovedObject(list, i, j)) = Range(list)
    BY <2>1, MovedProperties, Zenon
  <2>3. \A d \in Directories : Listed(d)' = Listed(d)
    BY <1>0, <2>1, <2>2 DEF Listed
  <2>4. Visible \subseteq Visible'
    BY <2>1, <2>3, StillVisible
  <2> QED BY <2>4 DEF PagesKeptStep
<1>6. ASSUME NEW f \in Items, FileEmptied(f) PROVE PagesKeptStep
  <2>1. f \notin Unused
    BY <1>0, <1>6 DEF FileEmptied
  <2>2. \A i \in Items : kind'[i] = IF i = f THEN "unused" ELSE kind[i]
    BY <1>0, <1>6 DEF FileEmptied, TypeOK
  <2>3. Unused' = Unused \cup {f}
    BY <2>2 DEF Unused
  <2>4. Cardinality(Unused') > Cardinality(Unused)
    BY <1>0, <2>1, <2>3, DeletingCounts
  <2> QED BY <2>4 DEF PagesKeptStep
<1>7. ASSUME NEW S \in SUBSET Items, deleteDirOrFiles(S) PROVE PagesKeptStep
  <2>1. S \subseteq Listed(currentDirectory)
    BY <1>7 DEF deleteDirOrFiles
  <2>2. S \cap Unused = {}
    BY <1>0, <2>1
  <2>3. \A i \in Items : /\ kind'[i] = IF i \in S THEN "unused" ELSE kind[i]
                         /\ content'[i] = IF i \in S THEN NoContent ELSE content[i]
    BY <1>7 DEF deleteDirOrFiles
  <2>4. Unused' = Unused \cup S
    BY <2>3 DEF Unused
  <2>5. CASE S # {}
    <3>1. Cardinality(Unused') > Cardinality(Unused)
      BY <1>0, <2>2, <2>4, <2>5, DeletingCounts
    <3> QED BY <3>1 DEF PagesKeptStep
  <2>6. CASE S = {}
    <3>1. \A d \in Directories : Range(deleteObjects(S, fileOrDirs)[d]) = Listed(d)
      <4>1. \A d \in Directories : Range(deleteObjects(S, fileOrDirs)[d]) =
                                      IF d \in S THEN {} ELSE Listed(d) \ S
        BY <1>0, Deleted DEF IInv
      <4> QED BY <2>6, <4>1
    <3>2. \A d \in Directories : Listed(d)' = Listed(d)
      BY <1>7, <3>1 DEF deleteDirOrFiles, Listed
    <3>3. Visible \subseteq Visible'
      BY <1>0, <2>3, <2>6, <3>2, StillVisible
    <3> QED BY <3>3 DEF PagesKeptStep
  <2> QED BY <2>5, <2>6
<1>8. ASSUME NEW target \in Items \cup {Root},
             NEW copies \in UNION {[1..n -> Unused] : n \in 1..Cardinality(Unused)},
             MoveFiles(target, copies)
      PROVE  PagesKeptStep
  <2>1. /\ target \in Directories
        /\ Range(copies) \subseteq Unused
        /\ \A d \in Directories :
              Listed(d)' = IF d = target THEN Range(copies) \cup (Listed(d) \ Gone)
                           ELSE Listed(d) \ Gone
        /\ \A i \in Items \ Range(copies) :
              content'[i] = IF i \in Gone THEN NoContent ELSE content[i]
        /\ DOMAIN copies = DOMAIN selectedFiles
        /\ \A k \in DOMAIN copies : content'[copies[k]] = content[selectedFiles[k]]
    BY <1>8, MoveFilesFacts DEF Directories
  <2>2. ASSUME NEW d \in Directories, NEW f \in Listed(d)
        PROVE  \E e \in Directories : \E g \in Listed(e)' : content'[g] = content[f]
    <3>1. CASE f \notin Gone
      <4>1. f \in Listed(d)' /\ f \in Items \ Range(copies)
        BY <1>0, <2>1, <3>1
      <4> QED BY <2>1, <3>1, <4>1
    <3>2. CASE f \in Gone
      <4>1. PICK k \in DOMAIN copies : selectedFiles[k] = f
        BY <2>1, <3>2 DEF Gone, Range
      <4>2. copies[k] \in Range(copies)
        BY DEF Range
      <4>3. copies[k] \in Listed(target)'
        BY <2>1, <4>2
      <4> QED BY <2>1, <4>1, <4>3
    <3> QED BY <3>1, <3>2
  <2>3. Visible \subseteq Visible'
    BY <2>2, StillVisible
  <2> QED BY <2>3 DEF PagesKeptStep
<1>9. CASE \/ Relaunch \/ goBack \/ selection \/ cancelSelection \/ OpenDrawer \/ CloseDrawer
           \/ \E i \in Items : OpenDirectory(i) \/ clickRadioButton(i)
  <2>1. UNCHANGED <<fileOrDirs, content>>
    BY <1>9 DEF Relaunch, goBack, selection, cancelSelection, OpenDrawer, CloseDrawer,
                OpenDirectory, clickRadioButton, stored
  <2> QED BY <1>1, <2>1
<1> QED BY <1>2, <1>3, <1>4, <1>5, <1>6, <1>7, <1>8, <1>9 DEF Next

\* Pages disappear from the screen only by a deletion or an edit: a move, which
\* copies the selected files and deletes the originals, gives each copy the
\* pages of its own original, and no other step takes a page off a list.
THEOREM PagesNeverLost == Spec => PagesKept
<1>1. [PagesKeptStep]_vars <=> [Visible \ Visible' # {} =>
         \/ Cardinality(Unused') > Cardinality(Unused)
         \/ kind' = kind /\ \E f \in Items : content'[f] \in Contents \ Range(content)]_vars
  BY DEF PagesKeptStep
<1> QED BY Invariance, NextPagesKept, <1>1, PTL DEF Spec, PagesKept

-----------------------------------------------------------------------------
(* The name of a file, for any set of names.                                 *)

\* A file that is on screen has a name; one being scanned is not stored yet.
Stored ==
    /\ place \in {"pages", "editing", "adding"} => name \in Titles
    /\ place = "scan" => name = Nil

\* The copies of the name that a later step writes back are what they should be:
\* the scanner's is the one wanted, that of the controller which adds a page is
\* the stored name, and that of the controller below it is too unless the file
\* was renamed above it.
CopiesFresh ==
    /\ place = "scan" => outer = wanted
    /\ place = "adding" => inner = name
    /\ place \in {"pages", "editing", "adding"} /\ ~renamedInside => outer = name

\* The inductive invariant of the name.
Fresh ==
    /\ TitleTypeOK /\ Stored /\ CopiesFresh
    /\ RenameKeptOutside /\ TitleStored

\* There is no file.
LEMMA InitFresh == TitleInit => Fresh
  BY DEF TitleInit, Fresh, TitleTypeOK, Stored, CopiesFresh, RenameKeptOutside,
         TitleStored

\* Every step keeps the copies of the name fresh.
LEMMA StepFresh == Fresh /\ [TitleNext]_titleVars => Fresh'
  <1> SUFFICES ASSUME Fresh, [TitleNext]_titleVars
               PROVE  Fresh'
    OBVIOUS
  <1> USE DEF Fresh, TitleTypeOK, Titles, Stored, CopiesFresh,
              RenameKeptOutside, TitleStored
  <1>1. CASE Scan
    BY <1>1 DEF Scan
  <1>2. CASE ScanDone
    BY <1>2 DEF ScanDone, ShowFile
  <1>3. CASE OpenFile
    BY <1>3 DEF OpenFile, ShowFile
  <1>4. CASE Close
    BY <1>4 DEF Close
  <1>5. CASE Delete
    BY <1>5 DEF Delete
  <1>6. ASSUME NEW n \in Names \cup {Blank}
        PROVE  /\ changeName(n) => Fresh'
               /\ alertUpdateFileName(n) => Fresh'
               /\ alertUpdateFileNameInside(n) => Fresh'
    <2>1. CASE changeName(n)
      BY <1>6, <2>1 DEF changeName
    <2>2. CASE alertUpdateFileName(n)
      BY <1>6, <2>2 DEF alertUpdateFileName
    <2>3. CASE alertUpdateFileNameInside(n)
      BY <1>6, <2>3 DEF alertUpdateFileNameInside
    <2>4. QED
      BY <2>1, <2>2, <2>3
  <1>7. CASE Edit
    BY <1>7 DEF Edit
  <1>8. CASE PopEdit
    BY <1>8 DEF PopEdit, configVCTitleStr
  <1>9. CASE EditDone
    BY <1>9 DEF EditDone, configVCTitleStr
  <1>10. CASE Add
    BY <1>10 DEF Add, selectedDirectory
  <1>11. CASE AddCancel
    BY <1>11 DEF AddCancel
  <1>12. CASE AddDone
    BY <1>12 DEF AddDone
  <1>13. CASE UNCHANGED titleVars
    BY <1>13 DEF titleVars
  <1>14. QED
    BY <1>1, <1>2, <1>3, <1>4, <1>5, <1>6, <1>7, <1>8, <1>9, <1>10, <1>11,
       <1>12, <1>13 DEF TitleNext

\* They are fresh throughout.
LEMMA SpecFresh == TitleSpec => []Fresh
  BY InitFresh, StepFresh, PTL DEF TitleSpec

-----------------------------------------------------------------------------
\* A name given on any screen but those that add a page is never lost.
THEOREM RenameAlwaysKeptOutside == TitleSpec => []RenameKeptOutside
  <1>1. Fresh => RenameKeptOutside
    BY DEF Fresh
  <1>2. QED
    BY <1>1, SpecFresh, PTL

\* The title on the page screen is the stored name, with the same exception.
THEOREM TitleAlwaysStored == TitleSpec => []TitleStored
  <1>1. Fresh => TitleStored
    BY DEF Fresh
  <1>2. QED
    BY <1>1, SpecFresh, PTL
=============================================================================

-------------------------- MODULE RunListingProofs --------------------------
(***************************************************************************)
(* What a reader of the listing is shown, for any runs, instants and       *)
(* writers: the order is total, so that each row has a place of its own,   *)
(* and rows only move to later places unless a writer touches them.        *)
(***************************************************************************)
EXTENDS RunListing, FiniteSetTheorems, FunctionTheorems, SequenceTheorems, TLAPS

-----------------------------------------------------------------------------
(* The order of the texts *)

LEMMA Ticks == TicksPerSecond \in Nat /\ TicksPerSecond > 0
BY LeaseTimeAssumption

LEMMA Division ==
  ASSUME NEW a \in Nat, NEW u \in Nat, u > 0
  PROVE  a = u * (a \div u) + (a % u) /\ a % u \in 0 .. u - 1 /\ a \div u \in Nat
<1>1. a = u * (a \div u) + (a % u) /\ a % u \in 0 .. u - 1 /\ a \div u \in Int
  OBVIOUS
<1>2. a \div u < 0 => u * (a \div u) + u <= 0
  BY <1>1
<1> QED
  BY <1>1, <1>2

LEMMA SecondsAreNat ==
  ASSUME NEW a \in Nat
  PROVE  WholeSeconds(a) \in Nat /\ Fraction(a) \in Nat
BY Ticks, Division DEF WholeSeconds, Fraction

(* Two instants of one second and one fraction are one. *)
LEMMA SecondAndFraction ==
  ASSUME NEW a \in Nat, NEW b \in Nat,
         WholeSeconds(a) = WholeSeconds(b), Fraction(a) = Fraction(b)
  PROVE  a = b
<1>1. /\ a = TicksPerSecond * WholeSeconds(a) + Fraction(a)
      /\ b = TicksPerSecond * WholeSeconds(b) + Fraction(b)
  BY Ticks, Division DEF WholeSeconds, Fraction
<1> QED
  BY <1>1

(* The digits of f begin those of g if g is within a unit of f. *)
LEMMA PrefixIsNear ==
  ASSUME NEW f \in Nat, NEW g \in Nat
  PROVE  WrittenPrefix(f, g) <=>
           \E u \in DigitUnits, n \in Nat : f = u * n /\ f <= g /\ g < f + u
<1>1. ASSUME NEW u \in DigitUnits
      PROVE  f % u = 0 /\ f \div u = g \div u <=>
               \E n \in Nat : f = u * n /\ f <= g /\ g < f + u
  <2>1. u \in Nat /\ u > 0
    BY LeaseTimeAssumption, Ticks
  <2>2. /\ f = u * (f \div u) + (f % u) /\ f % u \in 0 .. u - 1 /\ f \div u \in Nat
        /\ g = u * (g \div u) + (g % u) /\ g % u \in 0 .. u - 1 /\ g \div u \in Nat
    BY <2>1, Division
  <2>3. ASSUME f % u = 0, f \div u = g \div u
        PROVE  \E n \in Nat : f = u * n /\ f <= g /\ g < f + u
    <3>1. f = u * (f \div u) /\ f <= g /\ g < f + u
      BY <2>1, <2>2, <2>3
    <3> QED
      BY <2>2, <3>1
  <2>4. ASSUME NEW n \in Nat, f = u * n, f <= g, g < f + u
        PROVE  f % u = 0 /\ f \div u = g \div u
    <3>1. \A q \in Nat, r \in 0 .. u - 1, p \in Nat, s \in 0 .. u - 1 :
            u * q + r = u * p + s => q = p
      <4> SUFFICES ASSUME NEW q \in Nat, NEW r \in 0 .. u - 1, NEW p \in Nat, NEW s \in 0 .. u - 1,
                          u * q + r = u * p + s
                   PROVE  q = p
        OBVIOUS
      <4>1. q < p => u * q + u <= u * p
        BY <2>1
      <4>2. p < q => u * p + u <= u * q
        BY <2>1
      <4> QED
        BY <2>1, <4>1, <4>2
    <3>2. f \div u = n
      BY <2>1, <2>2, <2>4, <3>1
    <3>3. g - u * n \in 0 .. u - 1 /\ g = u * n + (g - u * n)
      BY <2>1, <2>4
    <3>4. g \div u = n
      BY <2>1, <2>2, <3>1, <3>3
    <3>5. f % u = 0
      BY <2>1, <2>2, <2>4, <3>2
    <3> QED
      BY <3>2, <3>4, <3>5
  <2> QED
    BY <2>3, <2>4
<1> QED
  BY <1>1 DEF WrittenPrefix

(* If the digits of f begin those of h, they begin those of what is between. *)
LEMMA PrefixOfBetween ==
  ASSUME NEW f \in Nat, NEW g \in Nat, NEW h \in Nat, f <= g, g <= h, WrittenPrefix(f, h)
  PROVE  WrittenPrefix(f, g)
<1>1. PICK u \in DigitUnits, n \in Nat : f = u * n /\ f <= h /\ h < f + u
  BY PrefixIsNear
<1>2. u \in Nat
  BY LeaseTimeAssumption, Ticks
<1>3. f <= g /\ g < f + u
  BY <1>1, <1>2
<1> QED
  BY <1>1, <1>3, PrefixIsNear

(* Digits that begin digits that begin digits: the units nest. *)
LEMMA PrefixOfPrefix ==
  ASSUME NEW f \in Nat, NEW g \in Nat, NEW h \in Nat, f < g, g < h,
         WrittenPrefix(f, g), WrittenPrefix(g, h)
  PROVE  WrittenPrefix(f, h)
<1>1. PICK u \in DigitUnits, n \in Nat : f = u * n /\ f <= g /\ g < f + u
  BY PrefixIsNear
<1>2. PICK v \in DigitUnits, m \in Nat : g = v * m /\ g <= h /\ h < g + v
  BY PrefixIsNear
<1>3. u \in Nat /\ v \in Nat /\ u > 0 /\ v > 0
  BY LeaseTimeAssumption, Ticks
<1>4. CASE u <= v
  <2>1. PICK k \in Nat : v = u * k
    <3>1. v % u = 0
      BY <1>4, DigitsNest
    <3> QED
      BY <1>3, <3>1, Division
  <2>2. g = u * (k * m) /\ k * m \in Nat
    BY <1>2, <1>3, <2>1
  <2>3. n < k * m => u * n + u <= u * (k * m)
    BY <1>3, <2>2
  <2>4. k * m <= n => u * (k * m) <= u * n
    BY <1>3, <2>2
  <2> QED
    BY <1>1, <1>3, <2>2, <2>3, <2>4
<1>5. CASE v < u
  <2>1. PICK k \in Nat : u = v * k
    <3>1. u % v = 0
      BY <1>3, <1>5, DigitsNest
    <3> QED
      BY <1>3, <3>1, Division
  <2>2. f + u = v * (k * n + k) /\ k * n + k \in Nat
    <3>1. f = v * (k * n)
      BY <1>1, <1>3, <2>1
    <3>2. v * (k * n + k) = v * (k * n) + v * k
      BY <1>3, <2>1
    <3> QED
      BY <1>3, <2>1, <3>1, <3>2
  <2>3. m < k * n + k
    <3>1. k * n + k <= m => v * (k * n + k) <= v * m
      BY <1>3, <2>2
    <3> QED
      BY <1>1, <1>2, <1>3, <2>2, <3>1
  <2>4. v * m + v <= v * (k * n + k)
    BY <1>3, <2>2, <2>3
  <2>5. f <= h /\ h < f + u
    BY <1>1, <1>2, <1>3, <2>2, <2>4
  <2> QED
    BY <1>1, <2>5, PrefixIsNear
<1> QED
  BY <1>3, <1>4, <1>5

(* The texts are in a total order. *)
LEMMA TextsAreComparable ==
  ASSUME NEW a \in Nat, NEW b \in Nat
  PROVE  /\ TextLeq(a, a)
         /\ TextLeq(a, b) \/ TextLeq(b, a)
         /\ TextLeq(a, b) /\ TextLeq(b, a) => a = b
BY SecondsAreNat, SecondAndFraction DEF TextLeq, FractionTextBefore

LEMMA FractionsAreOrdered ==
  ASSUME NEW f \in Nat, NEW g \in Nat, NEW h \in Nat,
         FractionTextBefore(f, g), FractionTextBefore(g, h)
  PROVE  FractionTextBefore(f, h)
<1>1. CASE f < g /\ g < h
  <2>1. ~WrittenPrefix(f, h)
    BY <1>1, PrefixOfBetween DEF FractionTextBefore
  <2> QED
    BY <1>1, <2>1 DEF FractionTextBefore
<1>2. CASE f < g /\ h < g
  <2>1. ~WrittenPrefix(f, g) /\ WrittenPrefix(h, g)
    BY <1>2 DEF FractionTextBefore
  <2>2. f # h
    BY <2>1
  <2>3. CASE f < h
    BY <1>2, <2>1, <2>3, PrefixOfPrefix DEF FractionTextBefore
  <2>4. CASE h < f
    BY <1>2, <2>1, <2>4, PrefixOfBetween DEF FractionTextBefore
  <2> QED
    BY <2>2, <2>3, <2>4
<1>3. CASE g < f /\ g < h
  <2>1. WrittenPrefix(g, f) /\ ~WrittenPrefix(g, h)
    BY <1>3 DEF FractionTextBefore
  <2>2. f # h
    BY <2>1
  <2>3. CASE f < h
    BY <1>3, <2>1, <2>3, PrefixOfPrefix DEF FractionTextBefore
  <2>4. CASE h < f
    BY <1>3, <2>1, <2>4, PrefixOfBetween DEF FractionTextBefore
  <2> QED
    BY <2>2, <2>3, <2>4
<1>4. CASE g < f /\ h < g
  <2>1. WrittenPrefix(h, f)
    BY <1>4, PrefixOfPrefix DEF FractionTextBefore
  <2> QED
    BY <1>4, <2>1 DEF FractionTextBefore
<1> QED
  BY <1>1, <1>2, <1>3, <1>4 DEF FractionTextBefore

LEMMA TextsAreOrdered ==
  ASSUME NEW a \in Nat, NEW b \in Nat, NEW c \in Nat, TextLeq(a, b), TextLeq(b, c)
  PROVE  TextLeq(a, c)
<1>1. /\ WholeSeconds(a) \in Nat /\ WholeSeconds(b) \in Nat /\ WholeSeconds(c) \in Nat
      /\ Fraction(a) \in Nat /\ Fraction(b) \in Nat /\ Fraction(c) \in Nat
  BY SecondsAreNat
<1>2. FractionTextBefore(Fraction(a), Fraction(b)) /\ FractionTextBefore(Fraction(b), Fraction(c))
        => FractionTextBefore(Fraction(a), Fraction(c))
  BY <1>1, FractionsAreOrdered
<1> QED
  BY <1>1, <1>2 DEF TextLeq

-----------------------------------------------------------------------------
(* The order of the rows, and the place of each *)

Views == [RunIds -> Row \cup {Nil}]

Place(view, r) == Cardinality(Ahead(view, r))

Total(view) == Cardinality(Listed(view))

LEMMA Bounds ==
  /\ RunIds \subseteq Nat /\ IsFiniteSet(RunIds)
  /\ Limit \in Nat /\ Limit > 0 /\ MaxOffset \in Nat
BY RunListingAssumption

LEMMA InstantsAreNat ==
  ASSUME NEW view \in Views, NEW r \in RunIds, view[r] # Nil
  PROVE  view[r] \in Row /\ view[r].updated \in Nat
BY RunListingAssumption DEF Views, Row, Times

LEMMA ListedIsFinite ==
  ASSUME NEW view
  PROVE  /\ Listed(view) \subseteq RunIds /\ IsFiniteSet(Listed(view)) /\ Total(view) \in Nat
         /\ \A r \in RunIds : /\ IsFiniteSet(Ahead(view, r)) /\ Ahead(view, r) \subseteq Listed(view)
                              /\ Place(view, r) \in Nat
<1>1. Listed(view) \subseteq RunIds
  BY DEF Listed
<1>2. IsFiniteSet(Listed(view))
  BY <1>1, Bounds, FS_Subset
<1>3. \A r \in RunIds : Ahead(view, r) \subseteq Listed(view) /\ IsFiniteSet(Ahead(view, r))
  BY <1>2, FS_Subset DEF Ahead
<1> QED
  BY <1>1, <1>2, <1>3, FS_CardinalityType DEF Total, Place

LEMMA BeforeIsTotal ==
  ASSUME NEW view \in Views, NEW q \in Listed(view), NEW r \in Listed(view)
  PROVE  /\ ~Before(view, r, r)
         /\ q = r \/ Before(view, q, r) \/ Before(view, r, q)
<1>1. /\ q \in Nat /\ r \in Nat
      /\ view[q].updated \in Nat /\ view[r].updated \in Nat
  BY Bounds, InstantsAreNat DEF Listed, Matches
<1> QED
  BY <1>1, TextsAreComparable DEF Before

LEMMA BeforeIsTransitive ==
  ASSUME NEW view \in Views, NEW p \in Listed(view), NEW q \in Listed(view), NEW r \in Listed(view),
         Before(view, p, q), Before(view, q, r)
  PROVE  Before(view, p, r)
<1> DEFINE a == view[p].updated
           b == view[q].updated
           c == view[r].updated
<1>1. /\ p \in Nat /\ q \in Nat /\ r \in Nat
      /\ a \in Nat /\ b \in Nat /\ c \in Nat
  BY Bounds, InstantsAreNat DEF Listed, Matches
<1>2. CASE store = "sqlite"
  <2>1. /\ ~TextLeq(a, b) \/ (a = b /\ p > q)
        /\ ~TextLeq(b, c) \/ (b = c /\ q > r)
    <3>1. Before(view, p, q) /\ Before(view, q, r)
      OBVIOUS
    <3> QED
      BY <1>2, <3>1 DEF Before
  <2>2. ~TextLeq(a, b) /\ ~TextLeq(b, c) => ~TextLeq(a, c)
    BY <1>1, TextsAreComparable, TextsAreOrdered
  <2> QED
    BY <1>1, <1>2, <2>1, <2>2 DEF Before
<1>3. CASE store # "sqlite"
  BY <1>1, <1>3 DEF Before
<1> QED
  BY <1>2, <1>3

(* A row before another has a smaller place. *)
LEMMA PlacesFollowTheOrder ==
  ASSUME NEW view \in Views, NEW q \in Listed(view), NEW r \in Listed(view), Before(view, q, r)
  PROVE  Place(view, q) < Place(view, r)
<1>1. q \in RunIds /\ r \in RunIds
  BY ListedIsFinite
<1>2. q \notin Ahead(view, q)
  BY BeforeIsTotal DEF Ahead
<1>3. Ahead(view, q) \cup {q} \subseteq Ahead(view, r)
  BY BeforeIsTransitive DEF Ahead
<1>4. IsFiniteSet(Ahead(view, q)) /\ IsFiniteSet(Ahead(view, r))
  BY <1>1, ListedIsFinite
<1>5. Cardinality(Ahead(view, q) \cup {q}) = Place(view, q) + 1
  BY <1>2, <1>4, FS_AddElement DEF Place
<1>6. Cardinality(Ahead(view, q) \cup {q}) <= Place(view, r)
  BY <1>3, <1>4, FS_Subset DEF Place
<1> QED
  BY <1>1, <1>5, <1>6, ListedIsFinite

(* The places of the rows are 0 to one less than their number, each of one row. *)
LEMMA PlacesAreTaken ==
  ASSUME NEW view \in Views
  PROVE  /\ \A r \in Listed(view) : Place(view, r) \in 0 .. Total(view) - 1
         /\ \A q, r \in Listed(view) : Place(view, q) = Place(view, r) => q = r
         /\ \A i \in 0 .. Total(view) - 1 : \E r \in Listed(view) : Place(view, r) = i
<1> DEFINE S == Listed(view)
           T == 0 .. Total(view) - 1
           place == [r \in S |-> Place(view, r)]
<1>1. S \subseteq RunIds /\ IsFiniteSet(S) /\ Total(view) \in Nat
  BY ListedIsFinite
<1>2. \A r \in S : Place(view, r) \in T
  <2> SUFFICES ASSUME NEW r \in S PROVE Place(view, r) \in T
    OBVIOUS
  <2>1. Ahead(view, r) \subseteq S \ {r}
    BY BeforeIsTotal DEF Ahead
  <2>2. IsFiniteSet(S \ {r}) /\ Cardinality(S \ {r}) = Total(view) - 1
    BY <1>1, FS_RemoveElement DEF Total
  <2>3. Place(view, r) <= Total(view) - 1
    BY <2>1, <2>2, FS_Subset DEF Place
  <2>4. Place(view, r) \in Nat
    BY <1>1, ListedIsFinite
  <2> QED
    BY <1>1, <2>3, <2>4
<1>3. \A q, r \in S : Place(view, q) = Place(view, r) => q = r
  <2> SUFFICES ASSUME NEW q \in S, NEW r \in S, q # r PROVE Place(view, q) # Place(view, r)
    OBVIOUS
  <2>1. Place(view, q) \in Nat /\ Place(view, r) \in Nat
    BY <1>1, ListedIsFinite
  <2>2. Before(view, q, r) \/ Before(view, r, q)
    BY BeforeIsTotal
  <2>3. Place(view, q) < Place(view, r) \/ Place(view, r) < Place(view, q)
    BY <2>2, PlacesFollowTheOrder
  <2> QED
    BY <2>1, <2>3
<1>4. place \in Injection(S, T)
  BY <1>2, <1>3 DEF Injection, IsInjective
<1>5. IsFiniteSet(T) /\ Cardinality(T) = Cardinality(S)
  <2>1. /\ IsFiniteSet(T)
        /\ Cardinality(T) = IF 0 > Total(view) - 1 THEN 0 ELSE Total(view) - 1 - 0 + 1
    BY <1>1, FS_Interval
  <2> QED
    BY <1>1, <2>1 DEF Total
<1>6. place \in Surjection(S, T)
  BY <1>4, <1>5, FS_Injection
<1> QED
  BY <1>2, <1>3, <1>6 DEF Surjection

(* So the list has every row at its place. *)
LEMMA ListIsSorted ==
  ASSUME NEW view \in Views
  PROVE  /\ Sorted(view) \in Seq(RunIds) /\ Len(Sorted(view)) = Total(view)
         /\ \A i \in 1 .. Total(view) :
              Sorted(view)[i] \in Listed(view) /\ Place(view, Sorted(view)[i]) = i - 1
<1> DEFINE n == Total(view)
           Pick(i) == CHOOSE r \in Listed(view) : Cardinality(Ahead(view, r)) = i - 1
<1>1. n \in Nat /\ Listed(view) \subseteq RunIds
  BY ListedIsFinite
<1>2. Sorted(view) = [i \in 1 .. n |-> Pick(i)]
  BY DEF Sorted, Total
<1>3. \A i \in 1 .. n : Pick(i) \in Listed(view) /\ Place(view, Pick(i)) = i - 1
  <2> SUFFICES ASSUME NEW i \in 1 .. n
               PROVE  Pick(i) \in Listed(view) /\ Place(view, Pick(i)) = i - 1
    OBVIOUS
  <2>1. i - 1 \in 0 .. n - 1
    BY <1>1
  <2>2. \E r \in Listed(view) : Cardinality(Ahead(view, r)) = i - 1
    BY <2>1, PlacesAreTaken DEF Place
  <2> QED
    BY <2>2 DEF Place
<1> HIDE DEF Pick
<1>4. Sorted(view) \in Seq(RunIds) /\ Len(Sorted(view)) = n
  BY <1>1, <1>2, <1>3
<1> QED
  BY <1>2, <1>3, <1>4

-----------------------------------------------------------------------------
(* A page *)

(* The page of a list from offset o: the rows that have a place on it, in order. *)
IsPage(page, view, o) ==
  /\ page.runs \in Seq(RunIds)
  /\ Len(page.runs) = Lesser(Limit, IF o < Total(view) THEN Total(view) - o ELSE 0)
  /\ \A i \in 1 .. Len(page.runs) :
       page.runs[i] \in Listed(view) /\ Place(view, page.runs[i]) = o + i - 1
  /\ page.more \in BOOLEAN /\ (page.more <=> o + Limit < Total(view))

LEMMA LesserIsNat ==
  ASSUME NEW a \in Nat, NEW b \in Nat
  PROVE  /\ Lesser(a, b) \in Nat /\ Lesser(a, b) <= a /\ Lesser(a, b) <= b
         /\ Lesser(a, b) = a \/ Lesser(a, b) = b
BY DEF Lesser

(* A window holds the elements after the first o. *)
LEMMA WindowHolds ==
  ASSUME NEW s \in Seq(RunIds), NEW o \in Nat, NEW n \in Nat
  PROVE  /\ Window(s, o, n) \in Seq(RunIds)
         /\ Len(Window(s, o, n)) = Lesser(n, IF o < Len(s) THEN Len(s) - o ELSE 0)
         /\ \A i \in 1 .. Len(Window(s, o, n)) :
              o + i \in 1 .. Len(s) /\ Window(s, o, n)[i] = s[o + i]
<1> DEFINE m == Lesser(o + n, Len(s))
<1>1. Len(s) \in Nat /\ m \in Nat /\ m <= Len(s) /\ m <= o + n /\ (m = Len(s) \/ m = o + n)
  BY LenProperties DEF Lesser
<1>2. \A i \in o + 1 .. m : s[i] \in RunIds
  <2> SUFFICES ASSUME NEW i \in o + 1 .. m PROVE s[i] \in RunIds
    OBVIOUS
  <2>1. i \in 1 .. Len(s)
    BY <1>1
  <2> QED
    BY <2>1, ElementOfSeq
<1> HIDE DEF m
<1>3. /\ SubSeq(s, o + 1, m) \in Seq(RunIds)
      /\ Len(SubSeq(s, o + 1, m)) = IF o < m THEN m - o ELSE 0
      /\ \A i \in 1 .. m - o : SubSeq(s, o + 1, m)[i] = s[o + i]
  <2> DEFINE b == o + 1
  <2>1. b \in Int /\ m \in Int /\ \A i \in b .. m : s[i] \in RunIds
    BY <1>1, <1>2
  <2>2. b = o + 1
    OBVIOUS
  <2> HIDE DEF b
  <2>3. /\ SubSeq(s, b, m) \in Seq(RunIds)
        /\ Len(SubSeq(s, b, m)) = IF b <= m THEN m - b + 1 ELSE 0
        /\ \A i \in 1 .. m - b + 1 : SubSeq(s, b, m)[i] = s[b + i - 1]
    BY <2>1, SubSeqProperties
  <2>4. m - b + 1 = m - o /\ (b <= m <=> o < m)
    BY <1>1, <2>1, <2>2
  <2>5. ASSUME NEW i \in 1 .. m - o
        PROVE  SubSeq(s, b, m)[i] = s[o + i]
    <3>1. b + i - 1 = o + i
      BY <1>1, <2>2
    <3>2. i \in 1 .. m - b + 1
      BY <2>4
    <3> QED
      BY <2>3, <3>1, <3>2
  <2>6. SubSeq(s, b, m) = SubSeq(s, o + 1, m)
    BY <2>2
  <2> QED
    BY <2>3, <2>4, <2>5, <2>6
<1>4. Window(s, o, n) = SubSeq(s, o + 1, m)
  BY DEF Window, m
<1>5. Len(Window(s, o, n)) = Lesser(n, IF o < Len(s) THEN Len(s) - o ELSE 0)
  BY <1>1, <1>3, <1>4 DEF Lesser
<1>6. ASSUME NEW i \in 1 .. Len(Window(s, o, n))
      PROVE  o + i \in 1 .. Len(s) /\ Window(s, o, n)[i] = s[o + i]
  <2>1. i \in 1 .. IF o < m THEN m - o ELSE 0
    BY <1>3, <1>4, <1>6
  <2>2. i \in 1 .. m - o
    BY <1>1, <2>1
  <2>3. o + i \in 1 .. Len(s)
    BY <1>1, <2>2
  <2>4. SubSeq(s, o + 1, m)[i] = s[o + i]
    BY <1>3, <2>2
  <2> QED
    BY <1>4, <2>3, <2>4
<1> QED
  BY <1>3, <1>4, <1>5, <1>6

(* Both stores cut the same page from the same list: one with the row too many,
   one with the bounds of a slice. *)
LEMMA PagesAgree ==
  ASSUME NEW view \in Views, reader.offset \in Nat,
         NEW page \in {QueryWindow(view), ScanWindow(view)}
  PROVE  IsPage(page, view, NormalizedOffset)
<1> DEFINE s == Sorted(view)
           o == NormalizedOffset
           n == Total(view)
<1>1. /\ s \in Seq(RunIds) /\ Len(s) = n /\ n \in Nat
      /\ \A i \in 1 .. n : s[i] \in Listed(view) /\ Place(view, s[i]) = i - 1
  BY ListIsSorted, ListedIsFinite
<1>2. o \in Nat
  BY LesserIsNat, Bounds DEF NormalizedOffset
<1>3. Limit \in Nat /\ Limit > 0
  BY Bounds
<1>4. ASSUME NEW runs \in Seq(RunIds), NEW more \in BOOLEAN,
             Len(runs) = Lesser(Limit, IF o < n THEN n - o ELSE 0),
             \A i \in 1 .. Len(runs) : o + i \in 1 .. n /\ runs[i] = s[o + i],
             more <=> o + Limit < n
      PROVE  IsPage([runs |-> runs, more |-> more], view, o)
  <2> HIDE DEF s, o
  <2>1. ASSUME NEW i \in 1 .. Len(runs)
        PROVE  runs[i] \in Listed(view) /\ Place(view, runs[i]) = o + i - 1
    <3>1. o + i \in 1 .. n /\ runs[i] = s[o + i]
      BY <1>4
    <3>2. s[o + i] \in Listed(view) /\ Place(view, s[o + i]) = o + i - 1
      BY <1>1, <1>2, <3>1
    <3> QED
      BY <3>1, <3>2
  <2> QED
    BY <1>4, <2>1 DEF IsPage
<1> SUFFICES IsPage(page, view, o)
  BY DEF o
<1> HIDE DEF s, o
<1>5. CASE page = QueryWindow(view)
  <2> DEFINE found == Window(s, o, Limit + 1)
             runs  == Window(found, 0, Limit)
  <2>1. /\ found \in Seq(RunIds) /\ Len(found) = Lesser(Limit + 1, IF o < n THEN n - o ELSE 0)
        /\ \A i \in 1 .. Len(found) : o + i \in 1 .. n /\ found[i] = s[o + i]
    <3>1. Limit + 1 \in Nat
      BY <1>3
    <3> QED
      BY <1>1, <1>2, <3>1, WindowHolds
  <2> HIDE DEF found
  <2>2. /\ runs \in Seq(RunIds)
        /\ Len(runs) = Lesser(Limit, IF 0 < Len(found) THEN Len(found) - 0 ELSE 0)
        /\ \A i \in 1 .. Len(runs) : 0 + i \in 1 .. Len(found) /\ runs[i] = found[0 + i]
    <3>1. 0 \in Nat
      OBVIOUS
    <3> QED
      BY <1>3, <2>1, <3>1, WindowHolds
  <2>3. page = [runs |-> runs, more |-> Len(found) > Limit]
    BY <1>5 DEF QueryWindow, runs, found, s, o
  <2> HIDE DEF runs
  <2>4. Len(runs) = Lesser(Limit, IF o < n THEN n - o ELSE 0)
    BY <1>1, <1>2, <1>3, <2>1, <2>2 DEF Lesser
  <2>5. Len(found) > Limit <=> o + Limit < n
    BY <1>1, <1>2, <1>3, <2>1 DEF Lesser
  <2>6. \A i \in 1 .. Len(runs) : o + i \in 1 .. n /\ runs[i] = s[o + i]
    BY <2>1, <2>2
  <2>7. (Len(found) > Limit) \in BOOLEAN
    OBVIOUS
  <2>8. IsPage([runs |-> runs, more |-> Len(found) > Limit], view, o)
    BY <1>4, <2>2, <2>4, <2>5, <2>6, <2>7
  <2> QED
    BY <2>3, <2>8
<1>6. CASE page = ScanWindow(view)
  <2> DEFINE start == Lesser(o, n)
             end   == Lesser(start + Limit, n)
             runs  == SubSeq(s, start + 1, end)
  <2>1. /\ start \in Nat /\ start <= n /\ (o < n => start = o) /\ (o >= n => start = n)
        /\ end \in Nat /\ end <= n /\ end = IF start + Limit < n THEN start + Limit ELSE n
    BY <1>1, <1>2, <1>3 DEF Lesser
  <2>2. page = [runs |-> runs, more |-> end < n]
    <3>1. page = [runs |-> SubSeq(s, Lesser(o, Len(s)) + 1,
                                  Lesser(Lesser(o, Len(s)) + Limit, Len(s))),
                  more |-> Lesser(Lesser(o, Len(s)) + Limit, Len(s)) < Len(s)]
      BY <1>6 DEF ScanWindow, s, o
    <3> QED
      BY <1>1, <3>1
  <2>3. runs = Window(s, start, Limit)
    BY <1>1 DEF Window
  <2> HIDE DEF start, end, runs
  <2>4. /\ runs \in Seq(RunIds) /\ Len(runs) = Lesser(Limit, IF start < n THEN n - start ELSE 0)
        /\ \A i \in 1 .. Len(runs) : start + i \in 1 .. n /\ runs[i] = s[start + i]
    <3>1. start \in Nat /\ Limit \in Nat /\ s \in Seq(RunIds) /\ Len(s) = n
      BY <1>1, <1>3, <2>1
    <3> QED
      BY <2>3, <3>1, WindowHolds
  <2>5. Len(runs) = Lesser(Limit, IF o < n THEN n - o ELSE 0)
    BY <1>1, <1>2, <2>1, <2>4
  <2>6. Len(runs) > 0 => start = o
    BY <1>1, <1>2, <1>3, <2>1, <2>5 DEF Lesser
  <2>7. \A i \in 1 .. Len(runs) : o + i \in 1 .. n /\ runs[i] = s[o + i]
    <3>1. Len(runs) \in Nat
      BY <2>4
    <3> QED
      BY <2>4, <2>6, <3>1
  <2>8. end < n <=> o + Limit < n
    BY <1>1, <1>2, <1>3, <2>1
  <2>9. (end < n) \in BOOLEAN
    OBVIOUS
  <2>10. IsPage([runs |-> runs, more |-> end < n], view, o)
    BY <1>4, <2>4, <2>5, <2>7, <2>8, <2>9
  <2> QED
    BY <2>2, <2>10
<1> QED
  BY <1>5, <1>6

-----------------------------------------------------------------------------
(* The states, and what each step does to the places *)

TypeOK ==
  /\ store \in {"sqlite", "dynamodb"}
  /\ rows \in Views
  /\ lagging \in [RunIds -> SUBSET (Row \cup {Nil})]
  /\ reader \in [state : {Nil, "QUEUED"}, offset : Nat, more : BOOLEAN,
                 shown : Seq(RunIds), begun : SUBSET RunIds]
  /\ writes \in [runs : SUBSET RunIds, later : BOOLEAN, count : Nat]

(* Create and change write a row of the type, and nothing but it. *)
LEMMA WritersWriteRows ==
  ASSUME TypeOK, NEW r \in RunIds, NEW now \in Times, CreateRun(r, now) \/ ChangeRun(r, now)
  PROVE  \E row \in Row : Written(r, row)
<1>1. [updated |-> now, state |-> "QUEUED"] \in Row /\ [updated |-> now, state |-> "CLAIMED"] \in Row
  BY DEF Row
<1> QED
  BY <1>1 DEF CreateRun, ChangeRun

(* The page that is shown is one of the rows, or of rows the scan found. *)
LEMMA PageShown ==
  ASSUME TypeOK, TurnPage
  PROVE  /\ reader.more /\ store' = store /\ rows' = rows /\ lagging' = lagging /\ writes' = writes
         /\ \E view \in Views, page \in [runs : Seq(RunIds), more : BOOLEAN] :
              /\ IsPage(page, view, NormalizedOffset)
              /\ \A r \in RunIds : view[r] \in {rows[r]} \cup lagging[r]
              /\ store = "sqlite" => view = rows
              /\ reader' = [reader EXCEPT !.offset = reader.offset + Limit, !.more = page.more,
                                          !.shown = reader.shown \o page.runs]
<1>1. PICK page \in ListRuns :
        reader' = [reader EXCEPT !.offset = reader.offset + Limit, !.more = page.more,
                                 !.shown = reader.shown \o page.runs]
  BY DEF TurnPage
<1>2. \E view \in Views : /\ page \in {QueryWindow(view), ScanWindow(view)}
                          /\ \A r \in RunIds : view[r] \in {rows[r]} \cup lagging[r]
                          /\ store = "sqlite" => view = rows
  <2>1. CASE store = "sqlite"
    BY <2>1 DEF ListRuns, TypeOK
  <2>2. CASE store # "sqlite"
    BY <2>2 DEF ListRuns, ScanViews, Views
  <2> QED
    BY <2>1, <2>2
<1>3. PICK view \in Views : /\ page \in {QueryWindow(view), ScanWindow(view)}
                            /\ \A r \in RunIds : view[r] \in {rows[r]} \cup lagging[r]
                            /\ store = "sqlite" => view = rows
  BY <1>2
<1>4. IsPage(page, view, NormalizedOffset)
  <2>1. reader.offset \in Nat
    BY DEF TypeOK
  <2> QED
    BY <1>3, <2>1, PagesAgree
<1>5. page \in [runs : Seq(RunIds), more : BOOLEAN]
  <2>1. page.runs \in Seq(RunIds) /\ page.more \in BOOLEAN
    BY <1>4 DEF IsPage
  <2>2. page = [runs |-> page.runs, more |-> page.more]
    BY <1>3 DEF QueryWindow, ScanWindow
  <2> QED
    BY <2>1, <2>2
<1> QED
  BY <1>1, <1>3, <1>4, <1>5 DEF TurnPage

LEMMA InitIsTyped == Init => TypeOK
<1> SUFFICES ASSUME Init PROVE TypeOK
  OBVIOUS
<1>1. <<>> \in Seq(RunIds) /\ Existing \subseteq RunIds
  BY DEF Existing
<1>2. reader \in [state : {Nil, "QUEUED"}, offset : Nat, more : BOOLEAN,
                  shown : Seq(RunIds), begun : SUBSET RunIds]
  <2>1. PICK s \in {Nil, "QUEUED"} :
          reader = [state |-> s, offset |-> 0, more |-> TRUE, shown |-> <<>>, begun |-> Existing]
    BY DEF Init
  <2> QED
    BY <1>1, <2>1
<1> QED
  BY <1>2 DEF Init, TypeOK, Views

LEMMA StepIsTyped == TypeOK /\ [Next]_vars => TypeOK'
<1> SUFFICES ASSUME TypeOK, [Next]_vars PROVE TypeOK'
  OBVIOUS
<1>1. CASE TurnPage
  <2>1. PICK view \in Views, page \in [runs : Seq(RunIds), more : BOOLEAN] :
          reader' = [reader EXCEPT !.offset = reader.offset + Limit, !.more = page.more,
                                   !.shown = reader.shown \o page.runs]
    BY <1>1, PageShown
  <2>2. reader.offset + Limit \in Nat /\ page.more \in BOOLEAN /\ reader.shown \o page.runs \in Seq(RunIds)
    BY Bounds, ConcatProperties DEF TypeOK
  <2> QED
    BY <1>1, <2>1, <2>2, PageShown DEF TypeOK
<1>2. ASSUME NEW r \in RunIds, NEW row \in Row, Written(r, row)
      PROVE  TypeOK'
  <2>1. rows' \in Views
    BY <1>2 DEF Written, TypeOK, Views
  <2>2. lagging' \in [RunIds -> SUBSET (Row \cup {Nil})]
    BY <1>2 DEF Written, TypeOK, Views
  <2>3. writes' \in [runs : SUBSET RunIds, later : BOOLEAN, count : Nat]
    <3>1. (writes.later /\ (rows[r] = Nil \/ TextLeq(rows[r].updated, row.updated))) \in BOOLEAN
      OBVIOUS
    <3> QED
      BY <1>2, <3>1 DEF Written, TypeOK
  <2> QED
    BY <1>2, <2>1, <2>2, <2>3 DEF Written, TypeOK
<1>3. ASSUME NEW r \in RunIds, Replicate(r)
      PROVE  TypeOK'
  BY <1>3 DEF Replicate, TypeOK
<1>4. CASE UNCHANGED vars
  BY <1>4 DEF vars, TypeOK
<1> QED
  BY <1>1, <1>2, <1>3, <1>4, WritersWriteRows DEF Next

(* The places are of the rows and of the state asked for, whatever else changes. *)
LEMMA PlacesStay ==
  ASSUME store' = store, rows' = rows, reader'.state = reader.state
  PROVE  /\ Listed(rows)' = Listed(rows) /\ Total(rows)' = Total(rows)
         /\ \A r \in RunIds : Place(rows, r)' = Place(rows, r)
<1>1. Listed(rows)' = Listed(rows)
  BY DEF Listed, Matches
<1>2. \A r \in RunIds : Ahead(rows, r)' = Ahead(rows, r)
  <2> SUFFICES ASSUME NEW r \in RunIds PROVE Ahead(rows, r)' = Ahead(rows, r)
    OBVIOUS
  <2>1. \A q : Before(rows, q, r)' <=> Before(rows, q, r)
    BY DEF Before
  <2> QED
    BY <1>1, <2>1 DEF Ahead
<1> QED
  BY <1>1, <1>2 DEF Place, Total

(* A later write, of another run, moves a row to a later place if at all. *)
LEMMA PlacesGrow ==
  ASSUME TypeOK, store = "sqlite", reader.state = Nil,
         NEW w \in RunIds, NEW row \in Row, Written(w, row),
         rows[w] = Nil \/ TextLeq(rows[w].updated, row.updated),
         NEW r \in RunIds, r # w, rows[r] # Nil
  PROVE  Place(rows, r) <= Place(rows, r)'
<1>1. /\ store' = store /\ reader' = reader /\ rows \in Views /\ rows' \in Views
      /\ rows'[w] = row /\ \A q \in RunIds : q # w => rows'[q] = rows[q]
  BY DEF Written, TypeOK, Views
<1>2. ASSUME NEW q \in Ahead(rows, r)
      PROVE  q \in Ahead(rows, r)'
  <2>1. q \in RunIds /\ rows[q] # Nil /\ Before(rows, q, r)
    BY DEF Ahead, Listed, Matches
  <2>2. rows'[q] # Nil
    BY <1>1, <2>1, NilIsNoListedRow
  <2>3. q \in Listed(rows)'
    BY <1>1, <2>1, <2>2 DEF Listed, Matches
  <2>4. Before(rows, q, r)'
    <3>1. CASE q # w
      BY <1>1, <2>1, <3>1 DEF Before
    <3>2. CASE q = w
      <4> DEFINE a == rows[w].updated
                 b == rows[r].updated
                 c == row.updated
      <4>1. a \in Nat /\ b \in Nat /\ c \in Nat /\ TextLeq(a, c)
        BY <1>1, <2>1, <2>2, <3>2, InstantsAreNat
      <4>2. ~TextLeq(a, b) \/ (a = b /\ w > r)
        BY <2>1, <3>2 DEF Before
      <4>3. TextLeq(c, b) => TextLeq(a, b)
        BY <4>1, TextsAreOrdered
      <4>4. a = b /\ TextLeq(c, b) => c = b
        BY <4>1, TextsAreComparable
      <4>5. ~TextLeq(c, b) \/ (c = b /\ w > r)
        BY <4>2, <4>3, <4>4
      <4>6. rows'[w].updated = c /\ rows'[r].updated = b
        BY <1>1
      <4> QED
        BY <1>1, <3>2, <4>5, <4>6 DEF Before
    <3> QED
      BY <3>1, <3>2
  <2> QED
    BY <2>3, <2>4 DEF Ahead
<1>3. IsFiniteSet(Ahead(rows, r)')
  <2>1. Ahead(rows, r)' \subseteq RunIds
    BY DEF Ahead, Listed
  <2> QED
    BY <2>1, Bounds, FS_Subset
<1> QED
  BY <1>2, <1>3, FS_Subset DEF Place

-----------------------------------------------------------------------------
(* Runs that nobody touches *)

(* A run of the beginning that nobody touched is on a page already, or at a place
   the reader has not come to. *)
UntouchedOK ==
  /\ \A r \in reader.begun : rows[r] # Nil
  /\ store = "sqlite" /\ reader.state = Nil /\ writes.later /\ Fits(Existing) =>
       \A r \in reader.begun \ writes.runs :
         r \in Shown \/ (reader.more /\ reader.offset <= Place(rows, r))

LEMMA InitIsUntouched == Init => UntouchedOK
<1> SUFFICES ASSUME Init PROVE UntouchedOK
  OBVIOUS
<1>1. reader.begun = Existing /\ reader.more /\ reader.offset = 0
  BY DEF Init
<1>2. \A r \in Existing : rows[r] # Nil /\ 0 <= Place(rows, r)
  BY ListedIsFinite DEF Existing
<1> QED
  BY <1>1, <1>2 DEF UntouchedOK

(* A page shows every row at a place between its offset and the next. *)
LEMMA PageReaches ==
  ASSUME NEW view \in Views, NEW page, NEW o \in Nat, IsPage(page, view, o),
         NEW r \in Listed(view), o <= Place(view, r), Place(view, r) < o + Limit
  PROVE  \E i \in 1 .. Len(page.runs) : page.runs[i] = r
<1> DEFINE p == Place(view, r)
           n == Total(view)
           i == p - o + 1
<1>1. p \in 0 .. n - 1 /\ n \in Nat /\ p \in Nat
  BY PlacesAreTaken, ListedIsFinite
<1> HIDE DEF p, n
<1>2. o <= p /\ p < o + Limit
  BY DEF p
<1>3. Len(page.runs) = Lesser(Limit, IF o < n THEN n - o ELSE 0)
  BY DEF IsPage, n
<1>4. i \in 1 .. Len(page.runs) /\ o + i - 1 = p
  BY <1>1, <1>2, <1>3, Bounds DEF Lesser
<1>5. page.runs[i] \in Listed(view) /\ Place(view, page.runs[i]) = o + i - 1
  BY <1>4 DEF IsPage
<1>6. page.runs[i] = r
  <2>1. Place(view, page.runs[i]) = Place(view, r)
    BY <1>4, <1>5 DEF p
  <2> QED
    BY <1>5, <2>1, PlacesAreTaken
<1> QED
  BY <1>4, <1>6

LEMMA PageKeepsUntouched ==
  ASSUME TypeOK, UntouchedOK, TurnPage
  PROVE  UntouchedOK'
<1>1. PICK view \in Views, page \in [runs : Seq(RunIds), more : BOOLEAN] :
        /\ IsPage(page, view, NormalizedOffset)
        /\ store = "sqlite" => view = rows
        /\ reader' = [reader EXCEPT !.offset = reader.offset + Limit, !.more = page.more,
                                    !.shown = reader.shown \o page.runs]
  BY PageShown
<1>2. /\ store' = store /\ rows' = rows /\ writes' = writes /\ reader.more
      /\ reader'.state = reader.state /\ reader'.begun = reader.begun
      /\ reader'.offset = reader.offset + Limit /\ reader'.more = page.more
      /\ reader'.shown = reader.shown \o page.runs
  BY <1>1, PageShown DEF TypeOK
<1>3. /\ reader.offset \in Nat /\ reader.shown \in Seq(RunIds) /\ page.runs \in Seq(RunIds)
      /\ rows \in Views /\ reader.begun \subseteq RunIds
  BY <1>1 DEF TypeOK
<1>4. /\ DOMAIN reader.shown = 1 .. Len(reader.shown) /\ Len(reader.shown) \in Nat
      /\ DOMAIN page.runs = 1 .. Len(page.runs) /\ Len(page.runs) \in Nat
      /\ DOMAIN reader'.shown = 1 .. Len(reader.shown) + Len(page.runs)
      /\ \A i \in 1 .. Len(reader.shown) : reader'.shown[i] = reader.shown[i]
      /\ \A i \in 1 .. Len(page.runs) : reader'.shown[Len(reader.shown) + i] = page.runs[i]
  BY <1>2, <1>3
<1>5. Shown \subseteq Shown' /\ \A i \in 1 .. Len(page.runs) : page.runs[i] \in Shown'
  <2>1. ASSUME NEW i \in 1 .. Len(reader.shown) PROVE reader.shown[i] \in Shown'
    <3>1. i \in DOMAIN reader'.shown /\ reader'.shown[i] = reader.shown[i]
      BY <1>4, <2>1
    <3> QED
      BY <3>1 DEF Shown
  <2>2. ASSUME NEW i \in 1 .. Len(page.runs) PROVE page.runs[i] \in Shown'
    <3>1. /\ Len(reader.shown) + i \in DOMAIN reader'.shown
          /\ reader'.shown[Len(reader.shown) + i] = page.runs[i]
      BY <1>4, <2>2
    <3> QED
      BY <3>1 DEF Shown
  <2> QED
    BY <1>4, <2>1, <2>2 DEF Shown
<1>6. ASSUME store = "sqlite", reader.state = Nil, writes.later, Fits(Existing),
             NEW r \in reader.begun \ writes.runs
      PROVE  r \in Shown' \/ (reader'.more /\ reader'.offset <= Place(rows, r))
  <2> DEFINE p == Place(rows, r)
             n == Total(rows)
             o == NormalizedOffset
  <2>1. r \in Shown \/ reader.offset <= p
    BY <1>6 DEF UntouchedOK
  <2>2. r \in Listed(rows) /\ Listed(rows) = Existing
    BY <1>3, <1>6 DEF UntouchedOK, Listed, Matches, Existing
  <2>3. p \in 0 .. n - 1 /\ p \in Nat /\ n \in Nat /\ n <= MaxOffset + Limit
    BY <1>3, <1>6, <2>2, PlacesAreTaken, ListedIsFinite DEF Fits, Total
  <2>4. o \in Nat /\ o <= reader.offset /\ (o = reader.offset \/ o = MaxOffset)
    BY <1>3, LesserIsNat, Bounds DEF NormalizedOffset
  <2>5. IsPage(page, rows, o)
    BY <1>1, <1>6
  <2> HIDE DEF p, n, o
  <2>6. CASE r \in Shown
    BY <1>5, <2>6
  <2>7. CASE reader.offset <= p /\ p < o + Limit
    <3>1. o <= p
      BY <1>3, <2>3, <2>4, <2>7
    <3>2. \E i \in 1 .. Len(page.runs) : page.runs[i] = r
      BY <1>3, <2>2, <2>4, <2>5, <2>7, <3>1, PageReaches DEF p
    <3> QED
      BY <1>5, <3>2
  <2>8. CASE reader.offset <= p /\ o + Limit <= p
    <3>1. o = reader.offset
      BY <2>3, <2>4, <2>8, Bounds
    <3>2. o + Limit < n
      BY <2>3, <2>4, <2>8, Bounds
    <3>3. page.more
      BY <2>5, <3>2 DEF IsPage, n
    <3> QED
      BY <1>2, <2>8, <3>1, <3>3 DEF p
  <2> QED
    <3>1. p < o + Limit \/ o + Limit <= p
      BY <2>3, <2>4, Bounds
    <3> QED
      BY <2>1, <2>6, <2>7, <2>8, <3>1
<1>7. \A r \in RunIds : Place(rows, r)' = Place(rows, r)
  BY <1>2, PlacesStay
<1>8. Fits(Existing)' <=> Fits(Existing)
  BY <1>2 DEF Fits, Existing
<1>9. \A r \in reader'.begun : rows'[r] # Nil
  BY <1>2 DEF UntouchedOK
<1>10. ASSUME store' = "sqlite", reader'.state = Nil, writes'.later, Fits(Existing)',
              NEW r \in reader'.begun \ writes'.runs
       PROVE  r \in Shown' \/ (reader'.more /\ reader'.offset <= Place(rows, r)')
  <2>1. r \in reader.begun \ writes.runs /\ r \in RunIds
    BY <1>2, <1>3, <1>10
  <2>2. r \in Shown' \/ (reader'.more /\ reader'.offset <= Place(rows, r))
    BY <1>2, <1>6, <1>8, <1>10, <2>1
  <2> QED
    BY <1>7, <2>1, <2>2
<1> QED
  BY <1>9, <1>10 DEF UntouchedOK

LEMMA WriteKeepsUntouched ==
  ASSUME TypeOK, UntouchedOK, NEW w \in RunIds, NEW row \in Row, Written(w, row)
  PROVE  UntouchedOK'
<1>1. /\ store' = store /\ reader' = reader /\ rows'[w] = row /\ row # Nil
      /\ \A q \in RunIds : q # w => rows'[q] = rows[q]
      /\ writes'.runs = writes.runs \cup {w}
      /\ writes'.later => writes.later /\ (rows[w] = Nil \/ TextLeq(rows[w].updated, row.updated))
      /\ reader.begun \subseteq RunIds /\ reader.offset \in Nat
  BY NilIsNoListedRow DEF Written, TypeOK, Views
<1>2. \A r \in reader'.begun : rows'[r] # Nil
  BY <1>1 DEF UntouchedOK
<1>3. Shown' = Shown
  BY <1>1 DEF Shown
<1>4. Fits(Existing)' => Fits(Existing)
  <2>1. Existing \subseteq Existing' /\ Existing' \subseteq RunIds
    BY <1>1 DEF Existing
  <2>2. IsFiniteSet(Existing') /\ IsFiniteSet(Existing)
    BY <2>1, Bounds, FS_Subset
  <2>3. /\ Cardinality(Existing) <= Cardinality(Existing')
        /\ Cardinality(Existing) \in Nat /\ Cardinality(Existing') \in Nat
    BY <2>1, <2>2, FS_Subset, FS_CardinalityType
  <2> QED
    BY <2>3, Bounds DEF Fits
<1>5. ASSUME store' = "sqlite", reader'.state = Nil, writes'.later, Fits(Existing)',
             NEW r \in reader'.begun \ writes'.runs
      PROVE  r \in Shown' \/ (reader'.more /\ reader'.offset <= Place(rows, r)')
  <2>1. /\ r \in reader.begun \ writes.runs /\ r \in RunIds /\ r # w /\ rows[r] # Nil
        /\ store = "sqlite" /\ reader.state = Nil /\ writes.later
        /\ rows[w] = Nil \/ TextLeq(rows[w].updated, row.updated)
    BY <1>1, <1>5 DEF UntouchedOK
  <2>2. r \in Shown \/ (reader.more /\ reader.offset <= Place(rows, r))
    BY <1>4, <1>5, <2>1 DEF UntouchedOK
  <2>3. Place(rows, r) <= Place(rows, r)'
    BY <2>1, PlacesGrow
  <2>4. Place(rows, r) \in Nat /\ Place(rows, r)' \in Nat
    <3>1. \A view : Place(view, r) \in Nat
      BY <2>1, ListedIsFinite
    <3>2. IsFiniteSet(Ahead(rows, r)')
      <4>1. Ahead(rows, r)' \subseteq RunIds
        BY DEF Ahead, Listed
      <4> QED
        BY <4>1, Bounds, FS_Subset
    <3> QED
      BY <3>1, <3>2, FS_CardinalityType DEF Place
  <2> QED
    BY <1>1, <1>3, <2>2, <2>3, <2>4
<1> QED
  BY <1>2, <1>5 DEF UntouchedOK

LEMMA StepKeepsUntouched == TypeOK /\ UntouchedOK /\ [Next]_vars => UntouchedOK'
<1> SUFFICES ASSUME TypeOK, UntouchedOK, [Next]_vars PROVE UntouchedOK'
  OBVIOUS
<1>1. CASE TurnPage
  BY <1>1, PageKeepsUntouched
<1>2. ASSUME NEW r \in RunIds, NEW now \in Times, CreateRun(r, now) \/ ChangeRun(r, now)
      PROVE  UntouchedOK'
  BY <1>2, WritersWriteRows, WriteKeepsUntouched
<1>3. CASE (\E r \in RunIds : Replicate(r)) \/ UNCHANGED vars
  <2>1. store' = store /\ rows' = rows /\ reader' = reader /\ writes' = writes
    BY <1>3 DEF Replicate, vars
  <2>2. \A r \in RunIds : Place(rows, r)' = Place(rows, r)
    BY <2>1, PlacesStay
  <2>3. Shown' = Shown /\ (Fits(Existing)' <=> Fits(Existing)) /\ reader.begun \subseteq RunIds
    BY <2>1 DEF Shown, Fits, Existing, TypeOK
  <2> QED
    BY <2>1, <2>2, <2>3 DEF UntouchedOK
<1> QED
  BY <1>1, <1>2, <1>3 DEF Next

(* A reader of the SQLite listing who turns every page sees each run that was
   there when it began and that nobody touched: for any runs, page size and
   number of writes, as long as each write gives its run a later updated_at and the
   listing fits into the offsets up to MaxOffset. *)
THEOREM UntouchedAreListed == Spec => []UntouchedRunsAreListed
<1>1. TypeOK /\ UntouchedOK => UntouchedRunsAreListed
  BY DEF UntouchedOK, UntouchedRunsAreListed
<1>2. Init => TypeOK /\ UntouchedOK
  BY InitIsTyped, InitIsUntouched
<1>3. TypeOK /\ UntouchedOK /\ [Next]_vars => (TypeOK /\ UntouchedOK)'
  BY StepIsTyped, StepKeepsUntouched
<1> QED
  BY <1>1, <1>2, <1>3, PTL DEF Spec

-----------------------------------------------------------------------------
(* While nothing changes *)

(* The pages so far are the beginning of the list, and the offset is on it as long
   as there is a next page. *)
QuietOK ==
  writes.count = 0 =>
    /\ \A r \in RunIds : lagging[r] = {}
    /\ \E k \in Nat : reader.offset = Limit * k
    /\ FitsUncut(Listed(rows)) =>
         /\ Len(reader.shown) = Lesser(reader.offset, Total(rows))
         /\ \A i \in 1 .. Len(reader.shown) :
              reader.shown[i] \in Listed(rows) /\ Place(rows, reader.shown[i]) = i - 1
         /\ IF reader.more THEN reader.offset = 0 \/ reader.offset < Total(rows)
            ELSE Total(rows) <= reader.offset

LEMMA InitIsQuiet == Init => QuietOK
<1> SUFFICES ASSUME Init PROVE QuietOK
  OBVIOUS
<1>1. reader.more /\ reader.offset = 0 /\ reader.shown = <<>>
  BY DEF Init
<1>2. \A r \in RunIds : lagging[r] = {}
  BY DEF Init
<1>3. 0 = Limit * 0
  BY Bounds
<1>4. Len(reader.shown) = 0 /\ Lesser(0, Total(rows)) = 0
  BY <1>1, ListedIsFinite DEF Lesser
<1>5. \A i \in 1 .. Len(reader.shown) :
        reader.shown[i] \in Listed(rows) /\ Place(rows, reader.shown[i]) = i - 1
  BY <1>4
<1> QED
  BY <1>1, <1>2, <1>3, <1>4, <1>5 DEF QuietOK

(* The next page of a list that fits goes on where the pages so far end. *)
LEMMA PageKeepsQuiet ==
  ASSUME TypeOK, QuietOK, TurnPage
  PROVE  QuietOK'
<1>1. PICK view \in Views, page \in [runs : Seq(RunIds), more : BOOLEAN] :
        /\ IsPage(page, view, NormalizedOffset)
        /\ \A r \in RunIds : view[r] \in {rows[r]} \cup lagging[r]
        /\ reader' = [reader EXCEPT !.offset = reader.offset + Limit, !.more = page.more,
                                    !.shown = reader.shown \o page.runs]
  BY PageShown
<1>2. /\ store' = store /\ rows' = rows /\ lagging' = lagging /\ writes' = writes /\ reader.more
      /\ reader'.state = reader.state
      /\ reader'.offset = reader.offset + Limit /\ reader'.more = page.more
      /\ reader'.shown = reader.shown \o page.runs
  BY <1>1, PageShown DEF TypeOK
<1>3. /\ reader.offset \in Nat /\ reader.shown \in Seq(RunIds) /\ page.runs \in Seq(RunIds)
      /\ rows \in Views
  BY <1>1 DEF TypeOK
<1>4. /\ Listed(rows)' = Listed(rows) /\ Total(rows)' = Total(rows)
      /\ \A r \in RunIds : Place(rows, r)' = Place(rows, r)
  BY <1>2, PlacesStay
<1> SUFFICES ASSUME writes.count = 0
             PROVE  /\ \A r \in RunIds : lagging'[r] = {}
                    /\ \E k \in Nat : reader'.offset = Limit * k
                    /\ FitsUncut(Listed(rows)) =>
                         /\ Len(reader'.shown) = Lesser(reader'.offset, Total(rows))
                         /\ \A i \in 1 .. Len(reader'.shown) :
                              /\ reader'.shown[i] \in Listed(rows)
                              /\ Place(rows, reader'.shown[i]) = i - 1
                         /\ IF reader'.more THEN reader'.offset = 0 \/ reader'.offset < Total(rows)
                            ELSE Total(rows) <= reader'.offset
  <2>1. FitsUncut(Listed(rows))' <=> FitsUncut(Listed(rows))
    BY <1>4 DEF FitsUncut
  <2>2. Listed(rows) \subseteq RunIds
    BY DEF Listed
  <2> QED
    BY <1>2, <1>4, <2>1, <2>2 DEF QuietOK
<1>5. PICK k \in Nat : reader.offset = Limit * k
  BY DEF QuietOK
<1>6. \E j \in Nat : reader'.offset = Limit * j
  <2>1. Limit * (k + 1) = Limit * k + Limit /\ k + 1 \in Nat
    BY Bounds
  <2> QED
    BY <1>2, <1>5, <2>1
<1>7. ASSUME FitsUncut(Listed(rows))
      PROVE  /\ Len(reader'.shown) = Lesser(reader'.offset, Total(rows))
             /\ \A i \in 1 .. Len(reader'.shown) :
                  reader'.shown[i] \in Listed(rows) /\ Place(rows, reader'.shown[i]) = i - 1
             /\ IF reader'.more THEN reader'.offset = 0 \/ reader'.offset < Total(rows)
                ELSE Total(rows) <= reader'.offset
  <2> DEFINE n == Total(rows)
             o == reader.offset
             c == Len(page.runs)
             m == MaxOffset \div Limit
  <2>1. view = rows
    <3>1. \A r \in RunIds : view[r] = rows[r]
      BY <1>1 DEF QuietOK
    <3> QED
      BY <1>3, <3>1 DEF Views
  <2>2. n \in Nat /\ n <= Limit * (m + 1)
    BY <1>7, ListedIsFinite DEF FitsUncut, Total
  <2>3. o = 0 \/ o < n
    BY <1>2, <1>7 DEF QuietOK
  <2>4. o <= MaxOffset
    <3>1. m \in Nat /\ Limit * m <= MaxOffset
      BY Bounds, Division
    <3> HIDE DEF m
    <3>2. m < k => Limit * (m + 1) <= Limit * k
      BY <3>1, Bounds
    <3>3. k <= m => Limit * k <= Limit * m
      BY <3>1, Bounds
    <3>4. k <= m
      <4>1. Limit * (m + 1) \in Nat /\ Limit * k \in Nat /\ n \in Nat
        BY <2>2, <3>1, Bounds
      <4>2. o = Limit * k
        BY <1>5
      <4>3. CASE o = 0
        <5>1. 0 < k => Limit <= Limit * k
          BY Bounds
        <5> QED
          BY <3>1, <4>2, <4>3, <5>1, Bounds
      <4>4. CASE o < n
        BY <2>2, <3>1, <3>2, <4>1, <4>2, <4>4
      <4> QED
        BY <2>3, <4>3, <4>4
    <3>5. Limit * k \in Nat /\ Limit * m \in Nat
      BY <3>1, Bounds
    <3> QED
      BY <1>5, <3>1, <3>3, <3>4, <3>5, Bounds
  <2>5. NormalizedOffset = o
    BY <1>3, <2>4, Bounds DEF NormalizedOffset, Lesser
  <2>6. /\ c = Lesser(Limit, IF o < n THEN n - o ELSE 0)
        /\ \A i \in 1 .. c : page.runs[i] \in Listed(rows) /\ Place(rows, page.runs[i]) = o + i - 1
        /\ page.more <=> o + Limit < n
    BY <1>1, <2>1, <2>5 DEF IsPage
  <2>7. /\ Len(reader.shown) = o
        /\ \A i \in 1 .. o : reader.shown[i] \in Listed(rows) /\ Place(rows, reader.shown[i]) = i - 1
    <3>1. Lesser(o, n) = o
      BY <1>3, <2>2, <2>3 DEF Lesser
    <3> QED
      BY <1>7, <3>1 DEF QuietOK
  <2> HIDE DEF n, o, c
  <2>8. /\ o \in Nat /\ c \in Nat /\ Len(reader'.shown) = o + c
        /\ \A i \in 1 .. o : reader'.shown[i] = reader.shown[i]
        /\ \A i \in 1 .. c : reader'.shown[o + i] = page.runs[i]
    <3>1. o \in Nat /\ c \in Nat
      BY <1>3 DEF o, c
    <3>2. Len(reader.shown) = o /\ Len(page.runs) = c
      BY <2>7 DEF c
    <3>3. /\ Len(reader.shown \o page.runs) = Len(reader.shown) + Len(page.runs)
          /\ \A i \in 1 .. Len(reader.shown) : (reader.shown \o page.runs)[i] = reader.shown[i]
          /\ \A i \in 1 .. Len(page.runs) :
               (reader.shown \o page.runs)[Len(reader.shown) + i] = page.runs[i]
      BY <1>3
    <3> QED
      BY <1>2, <3>1, <3>2, <3>3
  <2>9. o + c = Lesser(o + Limit, n)
    <3>1. c = Lesser(Limit, IF o < n THEN n - o ELSE 0)
      BY <2>6
    <3>2. o \in Nat /\ n \in Nat /\ Limit \in Nat /\ (o = 0 \/ o < n)
      BY <2>2, <2>3, <2>8, Bounds
    <3> QED
      BY <3>1, <3>2 DEF Lesser
  <2>10. ASSUME NEW i \in 1 .. o + c
         PROVE  reader'.shown[i] \in Listed(rows) /\ Place(rows, reader'.shown[i]) = i - 1
    <3>1. CASE i <= o
      <4>1. i \in 1 .. o
        BY <2>8, <3>1
      <4> QED
        BY <2>7, <2>8, <4>1
    <3>2. CASE o < i
      <4> DEFINE j == i - o
      <4>1. j \in 1 .. c /\ o + j = i /\ o + j - 1 = i - 1
        BY <2>8, <3>2
      <4> HIDE DEF j
      <4> QED
        BY <2>6, <2>8, <4>1
    <3> QED
      BY <2>8, <3>1, <3>2
  <2>11. IF reader'.more THEN reader'.offset = 0 \/ reader'.offset < n ELSE n <= reader'.offset
    BY <1>2, <2>2, <2>6, <2>8, Bounds DEF o
  <2> QED
    BY <1>2, <2>8, <2>9, <2>10, <2>11 DEF n, o
<1>8. \A r \in RunIds : lagging'[r] = {}
  BY <1>2 DEF QuietOK
<1> QED
  BY <1>6, <1>7, <1>8

LEMMA StepKeepsQuiet == TypeOK /\ QuietOK /\ [Next]_vars => QuietOK'
<1> SUFFICES ASSUME TypeOK, QuietOK, [Next]_vars PROVE QuietOK'
  OBVIOUS
<1>1. CASE TurnPage
  BY <1>1, PageKeepsQuiet
<1>2. ASSUME NEW r \in RunIds, NEW now \in Times, CreateRun(r, now) \/ ChangeRun(r, now)
      PROVE  QuietOK'
  <2>1. writes'.count = writes.count + 1 /\ writes.count \in Nat
    BY <1>2 DEF CreateRun, ChangeRun, Written, TypeOK
  <2>2. writes'.count # 0
    BY <2>1
  <2> QED
    BY <2>2 DEF QuietOK
<1>3. CASE (\E r \in RunIds : Replicate(r)) \/ UNCHANGED vars
  <2>1. /\ store' = store /\ rows' = rows /\ reader' = reader /\ writes' = writes
        /\ \A r \in RunIds : lagging[r] = {} => lagging'[r] = {}
    BY <1>3 DEF Replicate, vars, TypeOK
  <2>2. /\ Listed(rows)' = Listed(rows) /\ Total(rows)' = Total(rows)
        /\ \A r \in RunIds : Place(rows, r)' = Place(rows, r)
    BY <2>1, PlacesStay
  <2>3. (FitsUncut(Listed(rows))' <=> FitsUncut(Listed(rows))) /\ Listed(rows) \subseteq RunIds
    BY <2>2 DEF FitsUncut, Listed
  <2> QED
    BY <2>1, <2>2, <2>3 DEF QuietOK
<1> QED
  BY <1>1, <1>2, <1>3 DEF Next

(* A row of a later second is before the rows of earlier ones, in both orders. *)
LEMMA LaterSecondsFirst ==
  ASSUME NEW view \in Views, NEW q \in Listed(view), NEW r \in Listed(view),
         Place(view, q) < Place(view, r)
  PROVE  WholeSeconds(view[q].updated) >= WholeSeconds(view[r].updated)
<1> DEFINE a == view[q].updated
           b == view[r].updated
<1>1. a \in Nat /\ b \in Nat /\ q \in RunIds /\ r \in RunIds
  BY InstantsAreNat DEF Listed, Matches
<1>2. WholeSeconds(a) \in Nat /\ WholeSeconds(b) \in Nat
  BY <1>1, SecondsAreNat
<1>3. ASSUME WholeSeconds(a) < WholeSeconds(b) PROVE FALSE
  <2>1. a < b
    <3> HIDE DEF a, b
    <3>1. \A t \in Nat : /\ t = TicksPerSecond * WholeSeconds(t) + Fraction(t)
                         /\ Fraction(t) \in Nat /\ Fraction(t) < TicksPerSecond
      BY Ticks, Division DEF WholeSeconds, Fraction
    <3>2. TicksPerSecond * WholeSeconds(a) + TicksPerSecond <= TicksPerSecond * WholeSeconds(b)
      BY <1>2, <1>3, Ticks
    <3> QED
      BY <1>1, <1>2, <3>1, <3>2, Ticks
  <2>2. ~TextLeq(b, a)
    BY <1>2, <1>3 DEF TextLeq
  <2>3. Before(view, r, q)
    BY <1>1, <2>1, <2>2 DEF Before
  <2>4. Place(view, r) < Place(view, q)
    BY <2>3, PlacesFollowTheOrder
  <2>5. Place(view, q) \in Nat /\ Place(view, r) \in Nat
    BY <1>1, ListedIsFinite
  <2> QED
    BY <2>4, <2>5
<1> QED
  BY <1>2, <1>3

LEMMA QuietPagesArePartition ==
  ASSUME TypeOK, QuietOK
  PROVE  QuietPagesPartition
<1> DEFINE s == reader.shown
           n == Total(rows)
<1> SUFFICES ASSUME ~reader.more, writes.count = 0, FitsUncut(Listed(rows))
             PROVE  /\ Shown = Listed(rows) /\ Len(s) = n
                    /\ \A i, j \in DOMAIN s :
                         i < j => WholeSeconds(rows[s[i]].updated) >= WholeSeconds(rows[s[j]].updated)
  BY DEF QuietPagesPartition, Total
<1>1. rows \in Views /\ s \in Seq(RunIds) /\ reader.offset \in Nat /\ n \in Nat
  BY ListedIsFinite DEF TypeOK
<1>2. DOMAIN s = 1 .. Len(s)
  BY <1>1
<1>3. Len(s) = n /\ \A i \in 1 .. n : s[i] \in Listed(rows) /\ Place(rows, s[i]) = i - 1
  BY <1>1 DEF QuietOK, Lesser
<1>4. Shown \subseteq Listed(rows)
  BY <1>2, <1>3 DEF Shown
<1>5. ASSUME NEW r \in Listed(rows) PROVE r \in Shown
  <2> DEFINE i == Place(rows, r) + 1
  <2>1. Place(rows, r) \in 0 .. n - 1
    BY <1>1, PlacesAreTaken
  <2>2. i \in 1 .. n /\ i - 1 = Place(rows, r)
    BY <1>1, <2>1
  <2>3. s[i] \in Listed(rows) /\ Place(rows, s[i]) = Place(rows, r)
    BY <1>3, <2>2
  <2>4. s[i] = r
    BY <1>1, <2>3, PlacesAreTaken
  <2> QED
    BY <1>2, <1>3, <2>2, <2>4 DEF Shown
<1>6. ASSUME NEW i \in 1 .. n, NEW j \in 1 .. n, i < j
      PROVE  WholeSeconds(rows[s[i]].updated) >= WholeSeconds(rows[s[j]].updated)
  <2>1. /\ s[i] \in Listed(rows) /\ s[j] \in Listed(rows)
        /\ Place(rows, s[i]) = i - 1 /\ Place(rows, s[j]) = j - 1
    BY <1>3
  <2>2. Place(rows, s[i]) < Place(rows, s[j])
    BY <1>6, <2>1
  <2> QED
    BY <1>1, <2>1, <2>2, LaterSecondsFirst
<1> QED
  BY <1>2, <1>3, <1>4, <1>5, <1>6

(* While nothing changes the pages of both stores are a partition, in the order of
   the seconds, for any rows and any page size: QuietPagesPartition is about
   listings of which no page begins beyond MaxOffset. *)
THEOREM QuietPagesArePartitioned == Spec => []QuietPagesPartition
<1>1. TypeOK /\ QuietOK => QuietPagesPartition
  BY QuietPagesArePartition
<1>2. Init => TypeOK /\ QuietOK
  BY InitIsTyped, InitIsQuiet
<1>3. TypeOK /\ QuietOK /\ [Next]_vars => (TypeOK /\ QuietOK)'
  BY StepIsTyped, StepKeepsQuiet
<1> QED
  BY <1>1, <1>2, <1>3, PTL DEF Spec

=============================================================================

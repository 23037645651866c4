-------------------------- MODULE Placement_proofs --------------------------
(***************************************************************************)
(* Proofs about the place of a trampoline and of what is moved into it.    *)
(*                                                                         *)
(* mmap_near and the mapping: for every address space, every reach and     *)
(* every function, the place chosen is free and in reach, and if none is   *)
(* chosen there is none between two mappings in range.                     *)
(*                                                                         *)
(* The two passes of plan_displaced agree: whatever is moved, and wherever *)
(* the trampoline is, each copy is emitted where the first pass put it.    *)
(* The reason is that a copy is as long as it was measured to be at its    *)
(* place, so that the places agree one after the other.                    *)
(***************************************************************************)
EXTENDS Placement, WellFoundedInduction, SequenceTheorems, TLAPS

(***************************************************************************)
(* Pages.                                                                  *)
(***************************************************************************)
LEMMA PageSize == PageWords \in Nat /\ PageWords > 0
BY PlacementAssumption DEF PlacementAssumption

\* An address lies on its page.
LEMMA OnPage ==
  ASSUME NEW a \in Int
  PROVE  Page(a) \in Int /\ Page(a) * PageWords <= a /\ a < (Page(a) + 1) * PageWords
BY PageSize DEF Page

\* Pages keep the order of addresses.
LEMMA PageMonotone ==
  ASSUME NEW a \in Int, NEW b \in Int, a <= b
  PROVE  Page(a) <= Page(b)
BY PageSize DEF Page

\* Whole pages further on.
LEMMA PageShift ==
  ASSUME NEW a \in Int, NEW n \in Int
  PROVE  Page(a + n * PageWords) = Page(a) + n
BY PageSize DEF Page

\* Multiples keep the order of numbers.
LEMMA Multiples ==
  ASSUME NEW m \in Int, NEW n \in Int
  PROVE  /\ m * PageWords <= n * PageWords <=> m <= n
         /\ m * PageWords < n * PageWords <=> m < n
         /\ m * PageWords \in Int
         /\ (m + n) * PageWords = m * PageWords + n * PageWords
<1> DEFINE x == m * PageWords
           y == n * PageWords
<1>1. x \in Int /\ y \in Int /\ (m + n) * PageWords = x + y
  BY PageSize
<1>2. m < n => x < y
  BY PageSize
<1>3. n < m => y < x
  BY PageSize
<1>4. m = n => x = y
  OBVIOUS
<1> HIDE DEF x, y
<1>5. (x <= y <=> m <= n) /\ (x < y <=> m < n)
  BY <1>1, <1>2, <1>3, <1>4
<1> QED BY <1>1, <1>5 DEF x, y

LEMMA MultipleMod ==
  ASSUME NEW n \in Int
  PROVE  (n * PageWords) % PageWords = 0
BY PageSize

\* AlignUp answers the first beginning of a page at or behind an address.
LEMMA Aligned ==
  ASSUME NEW a \in Int
  PROVE  /\ AlignUp(a) = Page(AlignUp(a)) * PageWords /\ AlignUp(a) \in Int
         /\ a <= AlignUp(a) /\ AlignUp(a) < a + PageWords
         /\ \A n \in Int : a <= n * PageWords => AlignUp(a) <= n * PageWords
<1> DEFINE n0 == Page(a + PageWords - 1)
<1>1. n0 \in Int /\ AlignUp(a) = n0 * PageWords
  BY OnPage, PageSize DEF AlignUp
<1>2. n0 * PageWords <= a + PageWords - 1 /\ a + PageWords - 1 < (n0 + 1) * PageWords
  BY OnPage, PageSize
<1>3. (n0 + 1) * PageWords = n0 * PageWords + PageWords
  BY <1>1, PageSize
<1> HIDE DEF n0
<1>4. Page(n0 * PageWords) = n0
  BY <1>1, PageSize DEF Page
<1>5. n0 * PageWords \in Int
  BY <1>1, PageSize
<1>6. ASSUME NEW n \in Int, a <= n * PageWords PROVE n0 <= n
  <2>1. (n + 1) * PageWords = n * PageWords + PageWords /\ n * PageWords \in Int
    BY PageSize
  <2>2. n0 * PageWords < (n + 1) * PageWords
    BY <1>2, <1>5, <1>6, <2>1, PageSize
  <2>3. n0 < n + 1
    BY <2>2, <1>1, Multiples
  <2> QED BY <2>3, <1>1
<1>7. \A n \in Int : a <= n * PageWords => n0 * PageWords <= n * PageWords
  BY <1>1, <1>6, Multiples
<1> QED BY <1>1, <1>2, <1>3, <1>4, <1>5, <1>7, PageSize

(***************************************************************************)
(* A set of numbers has a least one, and one that is closest to a place.   *)
(***************************************************************************)
Less == {ss \in Nat \X Nat : ss[1] < ss[2]}

LEMMA LessWellFounded == IsWellFoundedOn(Less, Nat)
BY NatLessThanWellFounded DEF OpToRel, Less

LEMMA Least ==
  ASSUME NEW T, T \subseteq Nat, T # {}
  PROVE  \E x \in T : \A y \in T : x <= y
<1>1. PICK x \in T : \A y \in T : ~(<<y, x>> \in Less)
  BY LessWellFounded, WFMin
<1>2. ASSUME NEW y \in T PROVE x <= y
  <2>1. x \in Nat /\ y \in Nat /\ <<y, x>> \in Nat \X Nat
    OBVIOUS
  <2>2. ~(<<y, x>>[1] < <<y, x>>[2])
    BY <1>1, <2>1 DEF Less
  <2> QED BY <2>1, <2>2
<1> QED BY <1>2

LEMMA ClosestExists ==
  ASSUME NEW S, S \subseteq Nat, S # {}, NEW near \in Nat
  PROVE  \E a \in S : \A b \in S : Closer(a, b, near)
<1> DEFINE D == {Distance(a, near) : a \in S}
<1>1. D \subseteq Nat /\ D # {}
  <2>1. \A a \in S : Distance(a, near) \in Nat
    BY DEF Distance
  <2> QED BY <2>1
<1>2. PICK d \in D : \A e \in D : d <= e
  BY <1>1, Least
<1> DEFINE C == {a \in S : Distance(a, near) = d}
<1>3. C \subseteq Nat /\ C # {}
  OBVIOUS
<1>4. PICK a \in C : \A b \in C : a <= b
  BY <1>3, Least
<1>5. ASSUME NEW b \in S PROVE Closer(a, b, near)
  <2>1. d \in Nat /\ Distance(b, near) \in Nat /\ Distance(a, near) = d /\ d <= Distance(b, near)
    BY <1>1, <1>2
  <2>2. CASE Distance(b, near) = d
    BY <2>1, <2>2, <1>4 DEF Closer
  <2>3. CASE Distance(b, near) # d
    BY <2>1, <2>3 DEF Closer
  <2> QED BY <2>2, <2>3
<1> QED BY <1>4, <1>5

(***************************************************************************)
(* The gaps that mmap_near considers are free and in range.                *)
(***************************************************************************)
\* The pages of the process are those from the second on.
Contiguous == \A p \in Pages : 1..p \subseteq Pages

\* n pages begin at a.
OnPages(a, n) == a % PageWords = 0 /\ (Contiguous => Span(a, n) \subseteq Pages)

Fits(a, n, near, range) ==
  /\ a \in Nat /\ a > 0
  /\ near - range <= a /\ a + n * PageWords <= near + range
  /\ Span(a, n) \cap mapped = {}
  /\ OnPages(a, n)

LEMMA GapFits ==
  ASSUME mapped \subseteq Pages, NEW near \in Nat, NEW range \in Nat, NEW n \in Nat,
         NEW a \in Gaps(near, n * PageWords, range)
  PROVE  Fits(a, n, near, range)
<1>1. PICK q \in mapped \cup {FirstLine}, p \in mapped :
        Usable(q, p, near, n * PageWords, range) /\ a = AlignUp(From(q, near, range))
  BY DEF Gaps
<1>2. q \in Int /\ q + 1 >= 0 /\ p \in Nat
  BY PlacementAssumption DEF PlacementAssumption, FirstLine
<1> DEFINE from == From(q, near, range)
           low == Low(near, range)
<1>3. low \in Int /\ low > 0 /\ near - range <= low
  BY PageSize DEF Low
<1>4. End(q) \in Int
  BY <1>2, PageSize DEF End
<1>5. from \in Int /\ End(q) <= from /\ low <= from
  BY <1>3, <1>4 DEF From, Larger
<1>6. a \in Int /\ a = Page(a) * PageWords /\ from <= a
  BY <1>1, <1>5, Aligned
<1>7. a + n * PageWords <= To(p, near, range)
  BY <1>1 DEF Usable, Holds
<1>8. p * PageWords \in Int /\ n * PageWords \in Int
  BY <1>2, Multiples
<1>9. a + n * PageWords <= p * PageWords /\ a + n * PageWords <= near + range
  BY <1>6, <1>7, <1>8 DEF To, Smaller, High
<1>10. Page(a) \in Int
  BY <1>6, OnPage
<1>11. q + 1 <= Page(a)
  <2>1. (q + 1) * PageWords <= Page(a) * PageWords
    BY <1>4, <1>5, <1>6 DEF End
  <2> QED BY <2>1, <1>2, <1>10, Multiples
<1>12. Page(a) + n <= p
  <2>1. (Page(a) + n) * PageWords = Page(a) * PageWords + n * PageWords
    BY <1>10, Multiples
  <2>2. (Page(a) + n) * PageWords <= p * PageWords
    BY <2>1, <1>6, <1>9
  <2>3. Page(a) + n \in Int /\ p \in Int
    BY <1>2, <1>10
  <2> HIDE DEF from, low
  <2> QED BY <2>2, <2>3, Multiples
<1>13. ASSUME NEW k \in 0..(n - 1) PROVE Page(a) + k \notin mapped
  <2>1. \A r \in mapped : r <= q \/ p <= r
    BY <1>1 DEF Usable, NextTo
  <2>2. q < Page(a) + k /\ Page(a) + k < p
    BY <1>2, <1>10, <1>11, <1>12
  <2>3. Page(a) + k \in Int
    BY <1>10
  <2> QED BY <2>1, <2>2, <2>3, <1>2
<1>14. Span(a, n) \cap mapped = {}
  BY <1>13 DEF Span
<1>15. a > 0 /\ near - range <= a
  BY <1>3, <1>5, <1>6
<1>16. a % PageWords = 0
  BY <1>6, <1>10, MultipleMod
<1>17. 1 <= Page(a)
  <2>1. 0 * PageWords < Page(a) * PageWords
    BY <1>6, <1>15, PageSize
  <2>2. 0 < Page(a)
    BY <2>1, <1>10, Multiples
  <2> QED BY <2>2, <1>10
<1>18. ASSUME Contiguous, NEW k \in 0..(n - 1) PROVE Page(a) + k \in Pages
  <2>1. Page(a) + k \in 1..p
    BY <1>2, <1>10, <1>12, <1>17
  <2> QED BY <2>1, <1>18 DEF Contiguous
<1>19. OnPages(a, n)
  BY <1>16, <1>18 DEF OnPages, Span
<1> QED BY <1>6, <1>9, <1>14, <1>15, <1>19 DEF Fits

\* If there is a gap, the one chosen is one of them, and its address is not 0.
LEMMA GapChosen ==
  ASSUME mapped \subseteq Pages, NEW near \in Nat, NEW range \in Nat, NEW n \in Nat,
         Gaps(near, n * PageWords, range) # {}
  PROVE  /\ NearGap(near, n * PageWords, range) # 0
         /\ Fits(NearGap(near, n * PageWords, range), n, near, range)
<1> DEFINE G == Gaps(near, n * PageWords, range)
<1>1. \A a \in G : Fits(a, n, near, range)
  BY GapFits
<1>2. G \subseteq Nat /\ 0 \notin G
  BY <1>1 DEF Fits
<1>3. \E a \in G : \A b \in G : Closer(a, b, near)
  BY <1>2, ClosestExists
<1>4. NearGap(near, n * PageWords, range) = CHOOSE a \in G : \A b \in G : Closer(a, b, near)
  BY DEF NearGap
<1>5. NearGap(near, n * PageWords, range) \in G
  BY <1>3, <1>4
<1> QED BY <1>1, <1>2, <1>5

\* With no gap the answer is 0.
LEMMA NoGap ==
  ASSUME NEW near, NEW size, NEW range, Gaps(near, size, range) = {}
  PROVE  NearGap(near, size, range) = 0
BY DEF NearGap

\* Room between two mappings in range is a gap.
LEMMA RoomIsGap ==
  ASSUME mapped \subseteq Pages, NEW near \in Nat, NEW range \in Nat, NEW n \in Nat, n > 0,
         Room(near, n, range)
  PROVE  Gaps(near, n * PageWords, range) # {}
<1>1. PICK p \in Pages, s \in mapped :
        /\ p * PageWords >= Low(near, range) /\ Span(p * PageWords, n) \subseteq Pages \ mapped
        /\ s * PageWords < High(near, range) /\ p < s
  BY DEF Room
<1>2. p \in Nat /\ s \in Nat /\ mapped \subseteq Nat
  BY PlacementAssumption DEF PlacementAssumption
<1>3. \A k \in 0..(n - 1) : p + k \notin mapped
  <2>1. Page(p * PageWords) = p
    BY <1>2, PageSize DEF Page
  <2> QED BY <1>1, <2>1 DEF Span
<1>4. PICK above \in {r \in mapped : p < r} : \A r \in {t \in mapped : p < t} : above <= r
  <2>1. {r \in mapped : p < r} \subseteq Nat /\ {r \in mapped : p < r} # {}
    BY <1>1, <1>2
  <2> QED BY <2>1, Least
<1>5. above \in Nat /\ above \in mapped /\ above <= s /\ p < above
  BY <1>1, <1>2, <1>4
<1>6. p + n <= above
  <2>1. SUFFICES ASSUME above < p + n PROVE FALSE
    BY <1>2, <1>5
  <2>2. above - p \in 0..(n - 1) /\ p + (above - p) = above
    BY <1>2, <1>5, <2>1
  <2> QED BY <2>2, <1>3, <1>5
<1> DEFINE Lower == {r \in mapped \cup {FirstLine} : r < p}
<1>7. PICK q \in Lower : \A r \in Lower : r <= q
  <2> DEFINE T == {p - r : r \in Lower}
  <2>1. \A r \in Lower : r \in Int /\ p - r \in Nat
    BY <1>2 DEF FirstLine
  <2>2. T \subseteq Nat
    BY <2>1
  <2>3. T # {}
    <3>1. FirstLine \in Lower
      BY <1>2 DEF FirstLine
    <3> QED BY <3>1
  <2> HIDE DEF T
  <2>4. PICK x \in T : \A y \in T : x <= y
    BY <2>2, <2>3, Least
  <2>5. PICK q \in Lower : x = p - q
    BY <2>4 DEF T
  <2>6. ASSUME NEW r \in Lower PROVE r <= q
    <3>1. x <= p - r
      BY <2>4 DEF T
    <3>2. r \in Int /\ q \in Int
      BY <2>1, <2>5
    <3> QED BY <3>1, <3>2, <2>5, <1>2
  <2> QED BY <2>6
<1>8. q \in Int /\ q < p /\ q \in mapped \cup {FirstLine}
  BY <1>2 DEF FirstLine
<1>9. NextTo(q, above)
  <2>1. q < above
    BY <1>2, <1>5, <1>8
  <2>2. ASSUME NEW r \in mapped PROVE r <= q \/ above <= r
    <3>1. CASE r < p
      BY <3>1, <1>7
    <3>2. CASE r = p
      BY <3>2, <1>2, <1>3
    <3>3. CASE p < r
      BY <3>3, <1>4
    <3> QED BY <3>1, <3>2, <3>3, <1>2
  <2> QED BY <2>1, <2>2 DEF NextTo
<1> DEFINE low == Low(near, range)
           high == High(near, range)
           from == From(q, near, range)
           to == To(above, near, range)
<1>10. low \in Int /\ high \in Int
  BY PageSize DEF Low, High
<1>11. /\ p * PageWords \in Int /\ above * PageWords \in Int /\ n * PageWords \in Int
       /\ s * PageWords \in Int /\ End(q) \in Int /\ End(above) \in Int
  BY <1>2, <1>5, <1>8, PageSize DEF End
<1>12. above * PageWords <= s * PageWords /\ End(q) <= p * PageWords /\ p * PageWords <= End(above)
  <2>1. above * PageWords <= s * PageWords
    BY <1>2, <1>5, Multiples
  <2>2. q + 1 \in Int /\ q + 1 <= p /\ above + 1 \in Int /\ p <= above + 1
    BY <1>2, <1>5, <1>8
  <2>3. (q + 1) * PageWords <= p * PageWords
    BY <1>2, <2>2, Multiples
  <2>4. p * PageWords <= (above + 1) * PageWords
    BY <1>2, <2>2, Multiples
  <2> QED BY <2>1, <2>3, <2>4 DEF End
<1>13. p * PageWords + n * PageWords <= above * PageWords /\ 0 < n * PageWords
  <2>1. p + n \in Int
    BY <1>2
  <2>2. (p + n) * PageWords <= above * PageWords
    BY <2>1, <1>5, <1>6, Multiples
  <2>3. (p + n) * PageWords = p * PageWords + n * PageWords
    BY <1>2, Multiples
  <2>4. 0 < n * PageWords
    BY PageSize
  <2> QED BY <2>2, <2>3, <2>4
<1>14. to = above * PageWords
  BY <1>1, <1>10, <1>11, <1>12 DEF To, Smaller
<1>15. from \in Int /\ from <= p * PageWords
  BY <1>1, <1>10, <1>11, <1>12 DEF From, Larger
<1>16. AlignUp(from) \in Int /\ AlignUp(from) <= p * PageWords
  BY <1>2, <1>15, Aligned
<1>17. Usable(q, above, near, n * PageWords, range)
  <2>1. above * PageWords < High(near, range) /\ Low(near, range) <= End(above)
    BY <1>1, <1>10, <1>11, <1>12
  <2>2. from < to
    BY <1>11, <1>13, <1>14, <1>15
  <2>3. Holds(AlignUp(from), n * PageWords, to)
    BY <1>11, <1>13, <1>14, <1>16 DEF Holds
  <2> QED BY <1>9, <2>1, <2>2, <2>3 DEF Usable
<1> QED BY <1>5, <1>8, <1>17 DEF Gaps

(***************************************************************************)
(* The invariant.  A place found is in reach; if nobody else maps it, it   *)
(* stays free until it is taken.                                           *)
(***************************************************************************)
InRange(a, range) ==
  /\ range \in {NearRange, WideRange} /\ a \in Nat
  /\ fn - range <= a /\ a + 2 * PageWords <= fn + range

NearInv ==
  /\ fn \in Nat /\ hook \in {0, 1, 3, 4}
  /\ step \in {"scan", "place"} => mapped \subseteq Pages /\ tramp.range = 0
  /\ step = "place" /\ found # None => InRange(found.at, found.range) /\ hook # 0
  /\ tramp.range # 0 => InRange(tramp.at, tramp.range) /\ hook # 0

FreeInv ==
  /\ step \in {"scan", "place"} => lost = {}
  /\ step = "place" /\ found # None => Span(found.at, 2) \cap mapped = {}
  /\ lost = {}

LEMMA Ranges ==
  /\ NearRange \in Nat /\ WideRange \in Nat /\ NearRange <= WideRange /\ NearRange > 0
BY PlacementAssumption DEF PlacementAssumption, NearRange, WideRange

\* What a search finds is in range and free.
LEMMA SearchFits ==
  ASSUME mapped \subseteq Pages, fn \in Nat, hook # 0, NEW range \in {NearRange, WideRange},
         NearGap(fn, TrampPages * PageWords, range) # 0
  PROVE  LET a == NearGap(fn, TrampPages * PageWords, range)
         IN  InRange(a, range) /\ Span(a, 2) \cap mapped = {} /\ OnPages(a, 2)
<1>1. TrampPages = 2 /\ range \in Nat /\ 2 \in Nat
  BY Ranges DEF TrampPages
<1>2. Gaps(fn, 2 * PageWords, range) # {}
  BY <1>1, NoGap
<1>3. Fits(NearGap(fn, 2 * PageWords, range), 2, fn, range)
  BY <1>1, <1>2, GapChosen
<1> QED BY <1>1, <1>3 DEF Fits, InRange

\* The search and the second search change what is found only.
LEMMA ScanFinds ==
  ASSUME mapped \subseteq Pages, fn \in Nat, Scan \/ NearRefused, found' # None,
         step = "place" /\ found # None => hook # 0
  PROVE  /\ InRange(found'.at, found'.range) /\ Span(found'.at, 2) \cap mapped = {} /\ hook # 0
         /\ OnPages(found'.at, 2)
<1> DEFINE a(range) == NearGap(fn, TrampPages * PageWords, range)
<1>1. PICK range \in {NearRange, WideRange} :
        hook # 0 /\ a(range) # 0 /\ found' = [at |-> a(range), range |-> range]
  <2>1. CASE Scan
    BY <2>1 DEF Scan
  <2>2. CASE NearRefused
    BY <2>2 DEF NearRefused
  <2> QED BY <2>1, <2>2
<1>2. found'.at = a(range) /\ found'.range = range
  BY <1>1
<1> QED BY <1>1, <1>2, SearchFits

LEMMA NearStep ==
  ASSUME NearInv, [Next]_vars PROVE NearInv'
<1> USE DEF NearInv
<1>1. CASE Scan \/ NearRefused
  <2>1. UNCHANGED <<mapped, fn, hook, tramp>> /\ step \in {"scan", "place"}
    BY <1>1 DEF Scan, NearRefused
  <2>2. found' # None => InRange(found'.at, found'.range) /\ hook # 0
    BY <1>1, <2>1, ScanFinds
  <2>3. found' # None => InRange(found.at, found.range)' /\ hook' # 0
    BY <2>1, <2>2 DEF InRange, NearRange, WideRange
  <2>4. tramp.range' = 0
    BY <2>1
  <2> QED BY <2>1, <2>3, <2>4
<1>2. CASE OtherMaps
  BY <1>2, PlacementAssumption
     DEF PlacementAssumption, OtherMaps, InRange, NearRange, WideRange, None
<1>3. CASE PlaceNear
  BY <1>3 DEF PlaceNear, Taken, InRange, NearRange, WideRange, None
<1>4. CASE PlaceAnywhere \/ PlaceFails
  BY <1>4 DEF PlaceAnywhere, PlaceFails, place, Taken, InRange, NearRange, WideRange, None
<1>5. CASE Plan
  BY <1>5 DEF Plan, InRange, NearRange, WideRange, None
<1>6. CASE \/ Measure \/ Measured \/ Emit \/ EmitTail \/ (\E b \in Branches : Redirect(b))
           \/ Enter \/ Run
  <2>1. UNCHANGED place /\ step' \notin {"scan", "place"}
    BY <1>6 DEF Measure, Measured, Emit, EmitTail, Redirect, Enter, Run
  <2> QED BY <2>1 DEF place, InRange, NearRange, WideRange
<1>7. CASE UNCHANGED vars
  BY <1>7 DEF vars, place, InRange, NearRange, WideRange
<1> QED BY <1>1, <1>2, <1>3, <1>4, <1>5, <1>6, <1>7 DEF Next

LEMMA NearStart == Init => NearInv
BY PlacementAssumption DEF PlacementAssumption, Init, NearInv, None

LEMMA FreeStep ==
  ASSUME ~Race, NearInv, FreeInv, [Next]_vars PROVE FreeInv'
<1> USE DEF FreeInv
<1>1. CASE Scan \/ NearRefused
  <2>1. UNCHANGED <<mapped, lost>> /\ step \in {"scan", "place"}
    BY <1>1 DEF Scan, NearRefused
  <2>2. found' # None => Span(found'.at, 2) \cap mapped = {}
    BY <1>1, <2>1, ScanFinds DEF NearInv
  <2>3. found' # None => Span(found.at, 2)' \cap mapped' = {}
    BY <2>1, <2>2 DEF Span, Page
  <2> QED BY <2>1, <2>3
<1>2. CASE PlaceNear
  <2>1. step = "place" /\ found # None /\ lost' = Span(found.at, TrampPages) \cap mapped
        /\ step' = "plan"
    BY <1>2 DEF PlaceNear, Taken
  <2>2. TrampPages = 2
    BY <2>1 DEF NearInv, TrampPages
  <2> QED BY <2>1, <2>2
<1>3. CASE PlaceAnywhere
  <2>1. PICK p \in Pages : Span(p * PageWords, TrampPages) \subseteq Pages \ mapped
                           /\ Taken(p * PageWords, 0)
    BY <1>3 DEF PlaceAnywhere
  <2>2. lost' = {}
    BY <2>1 DEF Taken
  <2> QED BY <2>2, <1>3 DEF PlaceAnywhere
<1>4. CASE Plan \/ PlaceFails
  BY <1>4 DEF Plan, PlaceFails, place
<1>5. CASE OtherMaps
  <2>1. PICK p \in Others \ mapped :
          /\ found = None \/ p \notin Span(found.at, TrampPages)
          /\ mapped' = mapped \cup {p} /\ step = "place" /\ UNCHANGED <<step, found, lost>>
    BY <1>5 DEF OtherMaps
  <2>2. found # None => TrampPages = 2
    BY <2>1 DEF NearInv, TrampPages
  <2>3. Span(found.at, 2)' = Span(found.at, 2) /\ None' = None
    BY <2>1 DEF Span, Page, None
  <2> QED BY <2>1, <2>2, <2>3
<1>6. CASE \/ Measure \/ Measured \/ Emit \/ EmitTail \/ (\E b \in Branches : Redirect(b))
           \/ Enter \/ Run
  <2>1. UNCHANGED place /\ step' \notin {"scan", "place"}
    BY <1>6 DEF Measure, Measured, Emit, EmitTail, Redirect, Enter, Run
  <2> QED BY <2>1 DEF place
<1>7. CASE UNCHANGED vars
  <2>1. UNCHANGED <<step, mapped, found, lost>>
    BY <1>7 DEF vars, place
  <2> QED BY <2>1 DEF Span, Page, None
<1> QED BY <1>1, <1>2, <1>3, <1>4, <1>5, <1>6, <1>7 DEF Next

(***************************************************************************)
(* The theorems.                                                           *)
(***************************************************************************)

\* If no other thread maps the pages found meanwhile, the trampoline replaces
\* nothing that was mapped, although it is mapped with MAP_FIXED (instr.c 102).
THEOREM MapsFreePages ==
  ASSUME ~Race
  PROVE  Spec => []OverlapsNothing
<1>1. Init => NearInv /\ FreeInv
  BY NearStart DEF Init, FreeInv, None
<1>2. NearInv /\ FreeInv /\ [Next]_vars => (NearInv /\ FreeInv)'
  BY NearStep, FreeStep
<1>3. FreeInv => OverlapsNothing
  BY DEF FreeInv, OverlapsNothing
<1> QED BY <1>1, <1>2, <1>3, PTL DEF Spec

\* The distance in pages is less than that in words allows.
LEMMA WithinPages ==
  ASSUME NEW a \in Int, NEW b \in Int, NEW n \in Nat,
         b - n * PageWords <= a, a + PageWords <= b + n * PageWords
  PROVE  Within(Page(a) - Page(b), n)
<1>1. Page(a) \in Int /\ Page(b) \in Int /\ n * PageWords \in Int /\ -n \in Int /\ n - 1 \in Int
  BY OnPage, Multiples
<1>2. Page(b + (-n) * PageWords) = Page(b) + (-n) /\ Page(b + (n - 1) * PageWords) = Page(b) + (n - 1)
  BY <1>1, PageShift
<1>3. (-n) * PageWords = -(n * PageWords) /\ (n - 1) * PageWords = n * PageWords - PageWords
  BY PageSize
<1>4. Page(b) + (-n) <= Page(a)
  <2>1. b + (-n) * PageWords \in Int /\ b + (-n) * PageWords <= a
    BY <1>1, <1>3
  <2> QED BY <2>1, <1>2, PageMonotone
<1>5. Page(a) <= Page(b) + (n - 1)
  <2>1. b + (n - 1) * PageWords \in Int /\ a <= b + (n - 1) * PageWords
    BY <1>1, <1>3, PageSize
  <2> QED BY <2>1, <1>2, PageMonotone
<1> QED BY <1>1, <1>4, <1>5 DEF Within

\* A near mapping is reached by the entry's patch it is made for, and that
\* patch is no longer than the hook (instr.c 104, 245-248).
THEOREM NearMappingsReach == Spec => []NearReaches
<1>1. NearInv => NearReaches
  <2> SUFFICES ASSUME NearInv PROVE NearReaches
    OBVIOUS
  <2> USE DEF NearInv
  <2>1. EntryForm <= hook
    BY DEF EntryForm
  <2>2. ASSUME tramp.range = NearRange PROVE InReach("b", EntryBase, fn) /\ EntryForm # 0
    <3>1. InRange(tramp.at, NearRange) /\ hook \in {1, 3, 4}
      BY <2>2, Ranges
    <3>2. Within(EntryBase - fn, ReachB)
      BY <3>1, PageSize, Ranges DEF InRange, EntryBase, Within, NearRange
    <3> QED BY <3>1, <3>2 DEF InReach, EntryForm
  <2>3. ASSUME tramp.range = WideRange, hook >= 3 PROVE EntryForm # 0
    <3>1. InRange(tramp.at, WideRange) /\ hook \in {3, 4}
      BY <2>3, Ranges
    <3>2. /\ EntryBase \in Int /\ fn - ReachPages * PageWords <= EntryBase
          /\ EntryBase + PageWords <= fn + ReachPages * PageWords
      BY <3>1, PageSize, Ranges DEF InRange, EntryBase, WideRange
    <3>3. Within(Page(EntryBase) - Page(fn), ReachPages)
      BY <3>2, WithinPages, PlacementAssumption DEF PlacementAssumption
    <3> QED BY <3>1, <3>3 DEF InReach, EntryForm
  <2> QED BY <2>1, <2>2, <2>3 DEF NearReaches
<1> QED BY <1>1, NearStart, NearStep, PTL DEF Spec

\* If the search comes back empty, no two mappings in range leave room between
\* them (instr.c 103).
THEOREM SearchFindsRoom == Spec => NearFindsRoom
<1>1. NearInv /\ [Next]_vars =>
        [step = "scan" /\ hook # 0 /\ found' = None => ~Room(fn, TrampPages, NearRange)]_vars
  <2> SUFFICES ASSUME NearInv, Next, step = "scan", hook # 0, found' = None
               PROVE  ~Room(fn, TrampPages, NearRange)
    OBVIOUS
  <2>1. Scan
    BY DEF Next, Scan, OtherMaps, PlaceNear, NearRefused, PlaceAnywhere, PlaceFails, Plan,
           Measure, Measured, Emit, EmitTail, Redirect, Enter, Run
  <2>2. NearGap(fn, TrampPages * PageWords, NearRange) = 0
    BY <2>1, Ranges DEF Scan, None
  <2>3. mapped \subseteq Pages /\ fn \in Nat /\ NearRange \in Nat /\ TrampPages \in Nat /\ TrampPages > 0
    BY Ranges DEF NearInv, TrampPages
  <2>4. Gaps(fn, TrampPages * PageWords, NearRange) = {}
    BY <2>2, <2>3, GapChosen
  <2> QED BY <2>3, <2>4, RoomIsGap
<1> QED BY <1>1, NearStart, NearStep, PTL DEF Spec, NearFindsRoom


(***************************************************************************)
(* The lengths of what is emitted.                                         *)
(***************************************************************************)
IsSeq(s) == \E S : s \in Seq(S)

\* Joining two sequences adds their lengths.
LEMMA Joined ==
  ASSUME NEW s, NEW t, IsSeq(s), IsSeq(t)
  PROVE  IsSeq(s \o t) /\ Len(s \o t) = Len(s) + Len(t)
<1>1. PICK A : s \in Seq(A)  BY DEF IsSeq
<1>2. PICK B : t \in Seq(B)  BY DEF IsSeq
<1>3. s \in Seq(A \cup B) /\ t \in Seq(A \cup B)
  BY <1>1, <1>2
<1>4. s \o t \in Seq(A \cup B) /\ Len(s \o t) = Len(s) + Len(t)
  BY <1>3
<1> QED BY <1>4 DEF IsSeq

\* em_put_lit emits four words.
LEMMA LitLength ==
  ASSUME NEW value, NEW pc
  PROVE  IsSeq(PutLit(value, pc)) /\ Len(PutLit(value, pc)) = 4
<1> DEFINE a == Insn("ldrx16", pc + 2, FALSE)
           b == Insn("b", pc + 4, FALSE)
           c == Insn("data", value, FALSE)
           d == Op("data")
<1>1. <<a, b, c, d>> \in Seq({a, b, c, d}) /\ Len(<<a, b, c, d>>) = 4
  OBVIOUS
<1>2. PutLit(value, pc) = <<a, b, c, d>>
  BY DEF PutLit
<1> QED BY <1>1, <1>2 DEF IsSeq

\* One word is a sequence of length one.
LEMMA OneWord ==
  ASSUME NEW a
  PROVE  IsSeq(<<a>>) /\ Len(<<a>>) = 1
<1>1. <<a>> \in Seq({a})  OBVIOUS
<1> QED BY <1>1 DEF IsSeq

\* A copy is as long as displaced_word_count says (instr_plan.c 132-133).
LEMMA CopyLength ==
  ASSUME NEW w, NEW pc
  PROVE  IsSeq(Copy(w, pc)) /\ Len(Copy(w, pc)) = Size(w, pc)
<1>1. CASE Internal(w)
  BY <1>1, OneWord DEF Copy, Size
<1>2. CASE ~Internal(w) /\ Encodable(w, Target(w), pc)
  <2>1. Copy(w, pc) = <<Encoded(w, Target(w), pc)>>
    BY <1>2 DEF Copy, PutDisplaced
  <2>2. Size(w, pc) = 1
    BY <1>2 DEF Size, WordCount
  <2> QED BY <2>1, <2>2, OneWord
<1>3. CASE ~Internal(w) /\ ~Encodable(w, Target(w), pc) /\ w.kind \in Conditional
  <2> DEFINE o == <<Opposite(w, pc)>>
             l == PutLit(Value(w), pc + 1)
             u == <<Op(Use(w.kind))>>
  <2>1. Copy(w, pc) = o \o l \o u
    BY <1>3 DEF Copy, PutDisplaced
  <2>2. Size(w, pc) = 6
    BY <1>3 DEF Size, WordCount
  <2>3. IsSeq(o) /\ Len(o) = 1 /\ IsSeq(u) /\ Len(u) = 1
    BY OneWord
  <2>4. IsSeq(l) /\ Len(l) = 4
    BY LitLength
  <2> HIDE DEF o, l, u
  <2>5. IsSeq(o \o l) /\ Len(o \o l) = Len(o) + Len(l)
    BY <2>3, <2>4, Joined, Zenon
  <2>6. IsSeq((o \o l) \o u) /\ Len((o \o l) \o u) = Len(o \o l) + Len(u)
    BY <2>3, <2>5, Joined, Zenon
  <2> QED BY <2>1, <2>2, <2>3, <2>4, <2>5, <2>6
<1>4. CASE ~Internal(w) /\ ~Encodable(w, Target(w), pc) /\ w.kind \notin Conditional
  <2> DEFINE l == PutLit(Value(w), pc)
             u == <<Op(Use(w.kind))>>
  <2>1. Copy(w, pc) = l \o u
    BY <1>4 DEF Copy, PutDisplaced
  <2>2. Size(w, pc) = 5
    BY <1>4 DEF Size, WordCount
  <2>3. IsSeq(u) /\ Len(u) = 1 /\ IsSeq(l) /\ Len(l) = 4
    BY OneWord, LitLength
  <2> HIDE DEF l, u
  <2>4. IsSeq(l \o u) /\ Len(l \o u) = Len(l) + Len(u)
    BY <2>3, Joined, Zenon
  <2> QED BY <2>1, <2>2, <2>3, <2>4
<1> QED BY <1>1, <1>2, <1>3, <1>4

\* The length measured is a number, and it depends on the places of the
\* function and of the trampoline only.
LEMMA SizeNat == ASSUME NEW w, NEW pc PROVE Size(w, pc) \in Nat
BY DEF Size, WordCount

LEMMA SizeKept ==
  ASSUME UNCHANGED place, NEW w, NEW pc
  PROVE  Size(w, pc)' = Size(w, pc)
BY DEF place, Size, WordCount, Internal, Covered, PatchLen, Guard, Target, Encodable, InReach,
   Garbled, Within, Page

(***************************************************************************)
(* The invariant: the places measured so far follow each other, and while  *)
(* copies are emitted the next one is due where the emission has come to.  *)
(***************************************************************************)
Chain(n) ==
  /\ start \in Seq(Int) /\ Len(start) = n + 1 /\ start[1] = Lead
  /\ \A k \in 1..n : start[k + 1] = start[k] + Size(code[k - 1], At(start[k]))

Measuring == step = "size" => i \in 0..PatchLen /\ Chain(i) /\ words = <<>>
Emitting ==
  step = "emit" =>
    /\ i \in 0..PatchLen /\ Chain(PatchLen)
    /\ IsSeq(words) /\ Emitted = start[i + 1]
Before == step \in {"scan", "place", "plan"} => i = 0 /\ words = <<>>

SizesInv == Before /\ Measuring /\ Emitting

LEMMA PatchLenNat == PatchLen \in {3, 4}
BY DEF PatchLen

\* The patch's length, too, depends on the two places only.
LEMMA PatchLenKept == ASSUME UNCHANGED place PROVE PatchLen' = PatchLen
BY DEF place, PatchLen, Guard, InReach, Within, Page

\* What has been measured stays measured while places and code stay.
LEMMA ChainKept ==
  ASSUME NEW n \in Nat, Chain(n), UNCHANGED <<place, code, start>>
  PROVE  Chain(n)'
<1>1. \A k \in 1..n : Size(code[k - 1], At(start[k]))' = Size(code[k - 1], At(start[k]))
  <2> TAKE k \in 1..n
  <2>1. At(start[k])' = At(start[k]) /\ code[k - 1]' = code[k - 1]
    BY DEF place, At
  <2> QED BY <2>1, SizeKept
<1> QED BY <1>1 DEF Chain

\* Until there is something to measure nothing happens to the two lists.
LEMMA PlanStep ==
  ASSUME SizesInv, PlacementAssumption,
         Scan \/ OtherMaps \/ PlaceNear \/ NearRefused \/ PlaceAnywhere \/ PlaceFails \/ Plan
  PROVE  SizesInv'
<1>1. step \in {"scan", "place", "plan"} /\ i = 0 /\ words = <<>> /\ i' = i /\ words' = words
  BY DEF SizesInv, Before, Scan, OtherMaps, PlaceNear, NearRefused, PlaceAnywhere, PlaceFails,
         Plan, Planning
<1>2. step' # "emit"
  BY DEF Scan, OtherMaps, PlaceNear, NearRefused, PlaceAnywhere, PlaceFails, Plan,
         SizesInv, Before
<1>3. step' = "size" => start' = <<Lead>>
  BY <1>1 DEF Scan, OtherMaps, PlaceNear, NearRefused, PlaceAnywhere, PlaceFails, Plan
<1>4. ASSUME start' = <<Lead>> PROVE Chain(0)'
  BY <1>4, PlacementAssumption DEF Chain
<1>5. 0 \in 0..PatchLen'
  <2>1. PatchLen' \in {3, 4}  BY DEF PatchLen
  <2> QED BY <2>1
<1>6. Measuring'
  BY <1>1, <1>3, <1>4, <1>5 DEF Measuring
<1> QED BY <1>1, <1>2, <1>6 DEF SizesInv, Before, Emitting

\* One more copy is measured.
LEMMA MeasureStep ==
  ASSUME SizesInv, Measure PROVE SizesInv'
<1>1. step = "size" /\ step' = "size" /\ i \in 0..PatchLen /\ i < PatchLen /\ words = <<>>
      /\ i' = i + 1 /\ words' = words /\ code' = code /\ Chain(i) /\ UNCHANGED place
  BY DEF SizesInv, Measuring, Measure
<1>2. i \in Nat /\ PatchLen \in Nat
  BY <1>1, PatchLenNat
<1> DEFINE here == start[i + 1]
           size == Size(code[i], At(here))
<1>3. start \in Seq(Int) /\ Len(start) = i + 1 /\ here \in Int /\ start[1] = Lead
  BY <1>1, <1>2 DEF Chain
<1>5. start' = Append(start, here + size)
  BY DEF Measure
<1>6. size \in Nat
  BY SizeNat
<1> HIDE DEF size
<1>7. /\ start' \in Seq(Int) /\ Len(start') = i + 2 /\ start'[i + 2] = here + size
      /\ \A k \in 1..(i + 1) : start'[k] = start[k]
  BY <1>2, <1>3, <1>5, <1>6
<1>8. ASSUME NEW k \in 1..(i + 1)
      PROVE  start'[k + 1] = start'[k] + Size(code[k - 1], At(start[k]))
  <2>1. CASE k \in 1..i
    BY <2>1, <1>1, <1>2, <1>7 DEF Chain
  <2>2. CASE k = i + 1
    BY <2>2, <1>2, <1>7 DEF size
  <2> QED BY <2>1, <2>2, <1>2
<1>9. ASSUME NEW k \in 1..(i + 1)
      PROVE  Size(code[k - 1], At(start[k]))' = Size(code[k - 1], At(start[k]))
  <2>1. At(start[k])' = At(start[k]) /\ code[k - 1]' = code[k - 1]
    BY <1>1, <1>7 DEF place, At
  <2> QED BY <2>1, <1>1, SizeKept
<1>10. Chain(i)'
  <2>1. \A k \in 1..i' : start'[k + 1] = start'[k] + Size(code[k - 1], At(start[k]))'
    BY <1>1, <1>2, <1>8, <1>9
  <2> QED BY <2>1, <1>1, <1>2, <1>3, <1>7 DEF Chain
<1>11. Measuring'
  <2>1. PatchLen' = PatchLen
    BY <1>1, PatchLenKept
  <2> QED BY <2>1, <1>1, <1>2, <1>10 DEF Measuring
<1> QED BY <1>1, <1>11 DEF SizesInv, Before, Emitting

\* When all are measured the first is due at the beginning.
LEMMA MeasuredStep ==
  ASSUME SizesInv, PlacementAssumption, Measured PROVE SizesInv'
<1>1. /\ step' = "emit" /\ i' = 0 /\ words' = words /\ words = <<>> /\ Chain(PatchLen)
      /\ UNCHANGED <<place, code, start>>
  BY DEF SizesInv, Measuring, Measured
<1>2. PatchLen' = PatchLen /\ PatchLen \in Nat
  BY <1>1, PatchLenKept, PatchLenNat
<1>3. Chain(PatchLen)'
  BY <1>1, <1>2, ChainKept
<1>4. IsSeq(words)' /\ Emitted' = Lead
  <2>1. words' \in Seq({}) /\ Len(words') = 0
    BY <1>1
  <2> QED BY <2>1, PlacementAssumption DEF IsSeq, Emitted, PlacementAssumption
<1>5. start'[1] = Lead
  BY <1>1 DEF Chain
<1>6. Emitting'
  BY <1>1, <1>2, <1>3, <1>4, <1>5 DEF Emitting
<1> QED BY <1>1, <1>6 DEF SizesInv, Before, Measuring

\* One more copy is emitted, and as many words as it was measured to have.
LEMMA EmitStep ==
  ASSUME SizesInv, PlacementAssumption, Emit PROVE SizesInv'
<1>1. /\ step = "emit" /\ step' = "emit" /\ i \in 0..PatchLen /\ i < PatchLen /\ i' = i + 1
      /\ words' = words \o Copy(code[i], Here) /\ UNCHANGED <<place, code, start>>
      /\ Chain(PatchLen) /\ IsSeq(words) /\ Emitted = start[i + 1]
  BY DEF SizesInv, Emitting, Emit
<1>2. PatchLen' = PatchLen /\ PatchLen \in Nat /\ i \in Nat
  BY <1>1, PatchLenKept, PatchLenNat
<1>3. Chain(PatchLen)'
  BY <1>1, <1>2, ChainKept
<1> DEFINE c == Copy(code[i], Here)
<1>4. IsSeq(c) /\ Len(c) = Size(code[i], Here)
  BY CopyLength
<1>5. words' = words \o c /\ IsSeq(words) /\ IsSeq(c)
  BY <1>1, <1>4
<1> HIDE DEF c
<1>6. IsSeq(words') /\ Len(words') = Len(words) + Len(c)
  <2>1. IsSeq(words \o c) /\ Len(words \o c) = Len(words) + Len(c)
    BY <1>5, Joined, Zenon
  <2> QED BY <2>1, <1>5, Zenon
<1>7. Here = At(start[i + 1])
  BY <1>1 DEF Here
<1>8. start[i + 2] = start[i + 1] + Size(code[i], Here)
  <2>1. (i + 1) \in 1..PatchLen
    BY <1>1, <1>2
  <2>2. start[(i + 1) + 1] = start[i + 1] + Size(code[(i + 1) - 1], At(start[i + 1]))
    BY <2>1, <1>1 DEF Chain
  <2> QED BY <2>2, <1>2, <1>7
<1>9. Len(words) \in Nat /\ Len(c) \in Nat /\ Lead \in Nat
  <2>1. PICK A : words \in Seq(A)  BY <1>1 DEF IsSeq
  <2>2. PICK B : c \in Seq(B)  BY <1>4 DEF IsSeq
  <2> QED BY <2>1, <2>2, PlacementAssumption DEF PlacementAssumption
<1>10. Emitted' = start'[i' + 1]
  <2>1. Emitted' = Emitted + Len(c)
    BY <1>6, <1>9 DEF Emitted
  <2>2. start'[i' + 1] = start[i + 2]
    BY <1>1, <1>2
  <2> QED BY <2>1, <2>2, <1>1, <1>4, <1>8
<1>11. Emitting'
  <2>1. IsSeq(words)'
    BY <1>6 DEF IsSeq
  <2> QED BY <2>1, <1>1, <1>2, <1>3, <1>10 DEF Emitting
<1> QED BY <1>1, <1>11 DEF SizesInv, Before, Measuring

\* After that neither list grows any more, but for the tail.
LEMMA LaterStep ==
  ASSUME SizesInv,
         EmitTail \/ (\E b \in Branches : Redirect(b)) \/ Enter \/ Run
  PROVE  SizesInv'
<1>1. step' \notin {"scan", "place", "plan", "size", "emit"}
  BY DEF EmitTail, Redirect, Enter, Run
<1> QED BY <1>1 DEF SizesInv, Before, Measuring, Emitting

\* A step that changes nothing.
LEMMA StutterStep ==
  ASSUME SizesInv, UNCHANGED vars PROVE SizesInv'
<1>1. UNCHANGED <<step, place, code, i, start, words>>
  BY DEF vars
<1>2. PatchLen' = PatchLen /\ PatchLen \in Nat
  BY <1>1, PatchLenKept, PatchLenNat
<1>3. Measuring'
  BY <1>1, <1>2, ChainKept DEF SizesInv, Measuring
<1>4. Emitting'
  <2>1. Emitted' = Emitted /\ IsSeq(words)' = IsSeq(words)
    BY <1>1 DEF Emitted, IsSeq
  <2> QED BY <2>1, <1>1, <1>2, ChainKept DEF SizesInv, Emitting
<1> QED BY <1>1, <1>3, <1>4 DEF SizesInv, Before

\* Each copy is emitted where the first pass put it (instr_plan.c 129-133,
\* 225), for every trampoline, patch and instruction moved.
THEOREM CopiesWhereMeasured == Spec => []SizesAgree
<1> USE PlacementAssumption
<1>1. Init => SizesInv
  BY DEF Init, SizesInv, Before, Measuring, Emitting
<1>2. SizesInv /\ [Next]_vars => SizesInv'
  BY PlanStep, MeasureStep, MeasuredStep, EmitStep, LaterStep, StutterStep DEF Next
<1>3. SizesInv => SizesAgree
  BY DEF SizesInv, Emitting, SizesAgree
<1> QED BY <1>1, <1>2, <1>3, PTL DEF Spec
=============================================================================

-------------------------- MODULE SelectionProofs --------------------------
(***************************************************************************)
(* Proofs about Intervals, IntervalScan and SourceSelect: for any sources  *)
(* with any intervals, the scan finds the deepest intervals, some source   *)
(* survives it, and the table, the statuses and the reference agree on the *)
(* source that is selected.                                                *)
(***************************************************************************)
EXTENDS SourceSelect, IntervalScan, FiniteSetTheorems, SequenceTheorems, TLAPS

-----------------------------------------------------------------------------
(* Least and greatest elements of finite sets. *)

LEMMA MinInSet ==
  ASSUME NEW S \in SUBSET Nat, S # {}
  PROVE  Min(S) \in S /\ \A y \in S : Min(S) <= y
<1>1. PICK m \in S : \A y \in S : ~(<<y, m>> \in OpToRel(<, Nat))
  BY NatLessThanWellFounded, WFMin, Zenon
<1>2. \A y \in S : <<y, m>> \notin {p \in Nat \X Nat : p[1] < p[2]}
  BY <1>1 DEF OpToRel
<1>3. ASSUME NEW y \in S PROVE m <= y
  <2>1. <<y, m>> \in Nat \X Nat /\ m \in Nat /\ y \in Nat
    OBVIOUS
  <2>2. ~(<<y, m>>[1] < <<y, m>>[2])
    BY <1>2, <2>1
  <2> QED BY <2>1, <2>2
<1> QED BY <1>3 DEF Min

\* A finite set of integers has a lower bound.
LEMMA FiniteBound ==
  ASSUME NEW S, IsFiniteSet(S), S \subseteq Int
  PROVE  \E m \in Int : \A y \in S : m <= y
<1>1. PICK n \in Nat : ExistsSurjection(1 .. n, S)
  BY FS_NatSurjection
<1>2. PICK f : f \in Surjection(1 .. n, S)
  BY <1>1 DEF ExistsSurjection
<1>3. f \in [1 .. n -> S] /\ \A y \in S : \E i \in 1 .. n : f[i] = y
  BY <1>2 DEF Surjection
<1> DEFINE Bound(k) == \E m \in Int : \A i \in 1 .. k : m <= f[i]
           Bad == {k \in 0 .. n : ~Bound(k)}
<1>4. Bad = {}
  <2> SUFFICES ASSUME Bad # {} PROVE FALSE
    OBVIOUS
  <2>0. Bad \in SUBSET Nat
    OBVIOUS
  <2>1. PICK k \in Bad : \A y \in Bad : k <= y
    <3> HIDE DEF Bad
    <3> QED BY <2>0, MinInSet
  <2>4. k \in 0 .. n /\ ~Bound(k)
    BY <2>1
  <2>2. CASE k = 0
    BY <2>4, <2>2
  <2>3. CASE k # 0
    <3>1. k - 1 \in 0 .. n /\ k \in 1 .. n /\ f[k] \in Int
      <4>1. k - 1 \in 0 .. n /\ k \in 1 .. n
        BY <2>4, <2>3
      <4>2. f[k] \in S
        BY <4>1, <1>3
      <4> QED BY <4>1, <4>2
    <3>2. Bound(k - 1)
      <4>1. k - 1 \notin Bad
        <5> HIDE DEF Bad
        <5> QED BY <2>0, <2>1, <2>4
      <4> QED BY <4>1, <3>1
    <3>3. PICK m \in Int : \A i \in 1 .. k - 1 : m <= f[i]
      BY <3>2
    <3> DEFINE b == IF m <= f[k] THEN m ELSE f[k]
    <3>4. b \in Int /\ b <= m /\ b <= f[k]
      BY <3>1
    <3>5. ASSUME NEW i \in 1 .. k PROVE b <= f[i]
      <4>1. CASE i = k
        BY <4>1, <3>4
      <4>2. CASE i # k
        <5>1. i \in 1 .. k - 1 /\ i \in 1 .. n
          BY <4>2, <2>4
        <5>2. f[i] \in Int
          BY <5>1, <1>3
        <5> QED BY <5>1, <5>2, <3>1, <3>3, <3>4
      <4> QED BY <4>1, <4>2
    <3>6. Bound(k)
      BY <3>4, <3>5
    <3> QED BY <3>6, <2>4
  <2> QED BY <2>2, <2>3
<1>5. Bound(n)
  <2>1. n \in 0 .. n
    OBVIOUS
  <2>2. n \notin Bad
    BY <1>4
  <2> QED BY <2>1, <2>2
<1>6. PICK m \in Int : \A i \in 1 .. n : m <= f[i]
  BY <1>5
<1> QED BY <1>3, <1>6

LEMMA FiniteMin ==
  ASSUME NEW S, IsFiniteSet(S), S \subseteq Int, S # {}
  PROVE  Min(S) \in S /\ \A y \in S : Min(S) <= y
<1>1. PICK m \in Int : \A y \in S : m <= y
  BY FiniteBound
<1> DEFINE T == {y - m : y \in S}
<1>2. T \in SUBSET Nat /\ T # {}
  <2>1. \A y \in S : y - m \in Nat
    BY <1>1
  <2> QED BY <2>1
<1>3. PICK t \in T : \A y \in T : t <= y
  <2> HIDE DEF T
  <2> QED BY <1>2, MinInSet
<1>4. PICK k \in S : t = k - m
  OBVIOUS
<1>5. ASSUME NEW y \in S PROVE k <= y
  <2>1. y - m \in T /\ y \in Int /\ k \in Int
    OBVIOUS
  <2>2. t <= y - m
    BY <1>3, <2>1
  <2> QED BY <1>4, <2>1, <2>2
<1> QED BY <1>5 DEF Min

LEMMA FiniteMax ==
  ASSUME NEW S, IsFiniteSet(S), S \subseteq Int, S # {}
  PROVE  Max(S) \in S /\ \A y \in S : y <= Max(S)
<1> DEFINE T == {-y : y \in S}
           f == [y \in S |-> -y]
<1>1. f \in Surjection(S, T)
  BY DEF Surjection
<1>2. IsFiniteSet(T)
  BY <1>1, FS_Surjection
<1>3. T \subseteq Int /\ T # {}
  OBVIOUS
<1>4. PICK t \in T : \A y \in T : t <= y
  BY <1>2, <1>3, FiniteMin
<1>5. PICK k \in S : t = -k
  OBVIOUS
<1>6. ASSUME NEW y \in S PROVE y <= k /\ k >= y
  <2>1. -y \in T /\ y \in Int /\ k \in Int
    OBVIOUS
  <2> QED BY <1>4, <1>5, <2>1
<1> QED BY <1>6 DEF Max

LEMMA ImageFinite ==
  ASSUME NEW S, IsFiniteSet(S), NEW f
  PROVE  IsFiniteSet({f[s] : s \in S}) /\ Cardinality({f[s] : s \in S}) <= Cardinality(S)
<1> DEFINE T == {f[s] : s \in S}
           g == [s \in S |-> f[s]]
<1>1. g \in Surjection(S, T)
  BY DEF Surjection
<1> QED BY <1>1, FS_Surjection

-----------------------------------------------------------------------------
(* The deepest points of some intervals. *)

Intervals(J) ==
  /\ IsFiniteSet(DOMAIN J) /\ DOMAIN J # {}
  /\ \A s \in DOMAIN J : J[s].lo \in Int /\ J[s].hi \in Int /\ J[s].lo <= J[s].hi

LEMMA EndpointsFinite ==
  ASSUME NEW J, Intervals(J)
  PROVE  IsFiniteSet(Endpoints(J)) /\ Endpoints(J) \subseteq Int /\ Endpoints(J) # {}
<1> DEFINE f == [s \in DOMAIN J |-> J[s].lo]
           g == [s \in DOMAIN J |-> J[s].hi]
           L == {f[s] : s \in DOMAIN J}
           H == {g[s] : s \in DOMAIN J}
<1>1. IsFiniteSet(L) /\ IsFiniteSet(H)
  <2> HIDE DEF f, g
  <2> QED BY ImageFinite DEF Intervals
<1>2. Endpoints(J) = L \cup H
  BY DEF Endpoints
<1>3. IsFiniteSet(L \cup H)
  <2> HIDE DEF L, H
  <2> QED BY <1>1, FS_Union
<1> QED BY <1>2, <1>3 DEF Intervals

LEMMA DepthBound ==
  ASSUME NEW J, Intervals(J), NEW p
  PROVE  /\ IsFiniteSet({s \in DOMAIN J : Around(J[s], p)})
         /\ DepthAt(J, p) \in Nat
         /\ DepthAt(J, p) \in 0 .. Cardinality(DOMAIN J)
         /\ Cardinality(DOMAIN J) \in Nat
<1>1. IsFiniteSet(DOMAIN J)
  BY DEF Intervals
<1> DEFINE T == {s \in DOMAIN J : Around(J[s], p)}
<1>2. IsFiniteSet(T) /\ Cardinality(T) <= Cardinality(DOMAIN J)
  BY <1>1, FS_Subset
<1>3. Cardinality(T) \in Nat /\ Cardinality(DOMAIN J) \in Nat
  BY <1>1, <1>2, FS_CardinalityType
<1> QED BY <1>2, <1>3 DEF DepthAt

\* Where more intervals reach, the depth is no less.
LEMMA DeeperWhere ==
  ASSUME NEW J, Intervals(J), NEW p, NEW q,
         \A s \in DOMAIN J : Around(J[s], p) => Around(J[s], q)
  PROVE  DepthAt(J, p) <= DepthAt(J, q)
<1> DEFINE T(z) == {s \in DOMAIN J : Around(J[s], z)}
<1>1. IsFiniteSet(T(q)) /\ T(p) \subseteq T(q)
  BY DepthBound
<1>2. Cardinality(T(p)) <= Cardinality(T(q))
  BY <1>1, FS_Subset
<1> QED BY <1>2 DEF DepthAt

LEMMA BestDepthIs ==
  ASSUME NEW J, Intervals(J)
  PROVE  /\ BestDepth(J) \in Nat \ {0}
         /\ \E p \in Endpoints(J) : DepthAt(J, p) = BestDepth(J)
         /\ \A p \in Endpoints(J) : DepthAt(J, p) <= BestDepth(J)
<1> DEFINE D == {DepthAt(J, p) : p \in Endpoints(J)}
           S == {0} \cup D
           n == Cardinality(DOMAIN J)
<1>1. n \in Nat /\ S \subseteq 0 .. n
  <2>1. n \in Nat
    BY DepthBound
  <2>2. \A p \in Endpoints(J) : DepthAt(J, p) \in 0 .. n
    BY DepthBound
  <2> QED BY <2>1, <2>2
<1>2. IsFiniteSet(0 .. n)
  BY <1>1, FS_Interval
<1>3. IsFiniteSet(S) /\ S \subseteq Int /\ S # {}
  <2>1. IsFiniteSet(S)
    BY <1>1, <1>2, FS_Subset
  <2> QED BY <1>1, <2>1
<1>4. Max(S) \in S /\ \A y \in S : y <= Max(S)
  <2> HIDE DEF S
  <2> QED BY <1>3, FiniteMax
<1>5. PICK s \in DOMAIN J : TRUE
  BY DEF Intervals
<1> DEFINE p == J[s].lo
<1>6. p \in Endpoints(J)
  BY DEF Endpoints
<1>7. DepthAt(J, p) >= 1
  <2> DEFINE T == {t \in DOMAIN J : Around(J[t], p)}
  <2>1. s \in T
    BY DEF Around, Intervals
  <2>2. IsFiniteSet(T)
    BY DepthBound
  <2>3. Cardinality(T) # 0
    BY <2>1, <2>2, FS_EmptySet
  <2>4. DepthAt(J, p) = Cardinality(T) /\ DepthAt(J, p) \in Nat
    BY DepthBound DEF DepthAt
  <2> QED BY <2>3, <2>4
<1>8. DepthAt(J, p) \in S
  BY <1>6
<1>9. Max(S) = BestDepth(J)
  BY DEF BestDepth
<1>10. BestDepth(J) \in S /\ \A y \in S : y <= BestDepth(J)
  BY <1>4, <1>9
<1>11. BestDepth(J) >= 1
  <2>1. DepthAt(J, p) \in Nat /\ BestDepth(J) \in Nat /\ DepthAt(J, p) <= BestDepth(J)
    <3> HIDE DEF p, D
    <3> QED BY <1>8, <1>10, <1>1, DepthBound
  <2> QED BY <2>1, <1>7
<1>12. BestDepth(J) \in D
  BY <1>10, <1>11
<1>13. BestDepth(J) \in Nat
  BY <1>10, <1>1
<1>14. ASSUME NEW q \in Endpoints(J) PROVE DepthAt(J, q) <= BestDepth(J)
  <2>1. DepthAt(J, q) \in S
    OBVIOUS
  <2> HIDE DEF S
  <2> QED BY <2>1, <1>10
<1>15. BestDepth(J) \in Nat \ {0}
  BY <1>11, <1>13
<1>16. \E q \in Endpoints(J) : DepthAt(J, q) = BestDepth(J)
  BY <1>12
<1> QED BY <1>14, <1>15, <1>16

LEMMA DeepestIs ==
  ASSUME NEW J, Intervals(J)
  PROVE  /\ Deepest(J) \subseteq Endpoints(J)
         /\ \A p : p \in Deepest(J) <=> p \in Endpoints(J) /\ DepthAt(J, p) = BestDepth(J)
         /\ BestLo(J) \in Deepest(J) /\ BestHi(J) \in Deepest(J)
         /\ \A p \in Deepest(J) : BestLo(J) <= p /\ p <= BestHi(J)
<1>1. /\ Deepest(J) \subseteq Endpoints(J)
      /\ \A p : p \in Deepest(J) <=> p \in Endpoints(J) /\ DepthAt(J, p) = BestDepth(J)
  BY DEF Deepest
<1>2. Deepest(J) # {}
  BY <1>1, BestDepthIs
<1>3. IsFiniteSet(Deepest(J)) /\ Deepest(J) \subseteq Int
  BY <1>1, EndpointsFinite, FS_Subset
<1> QED BY <1>1, <1>2, <1>3, FiniteMin, FiniteMax DEF BestLo, BestHi

\* The first of the deepest points is where an interval begins, and the last
\* where one ends: the intervals around a point all reach the beginning of the
\* one that begins last.
LEMMA BestLoBegins ==
  ASSUME NEW J, Intervals(J)
  PROVE  \E s \in DOMAIN J : J[s].lo = BestLo(J)
<1> DEFINE b == BestLo(J)
           T == {s \in DOMAIN J : Around(J[s], b)}
           f == [s \in T |-> J[s].lo]
           L == {f[s] : s \in T}
<1>1. b \in Endpoints(J) /\ DepthAt(J, b) = BestDepth(J) /\ b \in Int
  BY DeepestIs, EndpointsFinite
<1>2. IsFiniteSet(T) /\ T # {}
  <2>1. IsFiniteSet(T)
    BY DepthBound
  <2>2. Cardinality(T) # 0
    BY <1>1, BestDepthIs DEF DepthAt
  <2> QED BY <2>1, <2>2, FS_EmptySet
<1>3. IsFiniteSet(L)
  <2> HIDE DEF T, f
  <2> QED BY <1>2, ImageFinite
<1>4. L \subseteq Int /\ L # {}
  BY <1>2 DEF Intervals
<1>5. Max(L) \in L /\ \A y \in L : y <= Max(L)
  <2> HIDE DEF L
  <2> QED BY <1>3, <1>4, FiniteMax
<1>6. PICK s \in T : J[s].lo = Max(L)
  BY <1>5
<1> DEFINE q == J[s].lo
<1>7. q \in Endpoints(J) /\ q <= b /\ q \in Int
  BY DEF Endpoints, Around, Intervals
<1>8. ASSUME NEW t \in DOMAIN J, Around(J[t], b) PROVE Around(J[t], q)
  <2>1. t \in T
    BY <1>8
  <2>2. f[t] \in L
    BY <2>1
  <2>3. J[t].lo <= q
    BY <2>1, <2>2, <1>5, <1>6
  <2>4. q <= J[t].hi
    BY <1>1, <1>7, <1>8 DEF Around, Intervals
  <2> QED BY <2>3, <2>4 DEF Around
<1>9. DepthAt(J, b) <= DepthAt(J, q)
  BY <1>8, DeeperWhere
<1>10. DepthAt(J, q) = BestDepth(J)
  <2>1. DepthAt(J, q) <= BestDepth(J)
    BY <1>7, BestDepthIs
  <2>2. DepthAt(J, q) \in Nat /\ BestDepth(J) \in Nat
    BY DepthBound, BestDepthIs
  <2> QED BY <1>1, <1>9, <2>1, <2>2
<1>11. b <= q
  BY <1>7, <1>10, DeepestIs
<1>12. q = b
  BY <1>1, <1>7, <1>11
<1> QED BY <1>12

LEMMA DeepestInEnd ==
  ASSUME NEW J, Intervals(J), NEW b \in Int, DepthAt(J, b) # 0
  PROVE  \E s \in DOMAIN J : b <= J[s].hi /\ DepthAt(J, b) <= DepthAt(J, J[s].hi)
<1> DEFINE T == {s \in DOMAIN J : Around(J[s], b)}
           f == [s \in T |-> J[s].hi]
           L == {f[s] : s \in T}
<1>2. IsFiniteSet(T) /\ T # {}
  <2>1. IsFiniteSet(T)
    BY DepthBound
  <2>2. Cardinality(T) # 0
    BY DEF DepthAt
  <2> QED BY <2>1, <2>2, FS_EmptySet
<1>3. IsFiniteSet(L)
  <2> HIDE DEF T, f
  <2> QED BY <1>2, ImageFinite
<1>4. L \subseteq Int /\ L # {}
  BY <1>2 DEF Intervals
<1>5. Min(L) \in L /\ \A y \in L : Min(L) <= y
  <2> HIDE DEF L
  <2> QED BY <1>3, <1>4, FiniteMin
<1>6. PICK s \in T : J[s].hi = Min(L)
  BY <1>5
<1> DEFINE q == J[s].hi
<1>7. b <= q /\ q \in Int
  BY DEF Around, Intervals
<1>8. ASSUME NEW t \in DOMAIN J, Around(J[t], b) PROVE Around(J[t], q)
  <2>1. t \in T
    BY <1>8
  <2>2. f[t] \in L
    BY <2>1
  <2>3. q <= J[t].hi
    BY <2>1, <2>2, <1>5, <1>6
  <2>4. J[t].lo <= q
    BY <1>7, <1>8 DEF Around, Intervals
  <2> QED BY <2>3, <2>4 DEF Around
<1>9. DepthAt(J, b) <= DepthAt(J, q)
  BY <1>8, DeeperWhere
<1> QED BY <1>7, <1>9

\* The one that begins at the first of the deepest points passes the test.
LEMMA SomeAdmissible ==
  ASSUME NEW J, Intervals(J)
  PROVE  Admissible(J, BestLo(J), BestHi(J)) # {}
<1>1. PICK s \in DOMAIN J : J[s].lo = BestLo(J)
  BY BestLoBegins
<1>2. BestLo(J) \in Int /\ BestHi(J) \in Int
  BY DeepestIs, EndpointsFinite
<1>3. s \in Admissible(J, BestLo(J), BestHi(J))
  BY <1>1, <1>2 DEF Admissible, Intervals
<1> QED BY <1>3

-----------------------------------------------------------------------------
(* The scan. *)

LowOf(s) == [index |-> s, offset |-> I[s].lo, tag |-> "LOW"]
HighOf(s) == [index |-> s, offset |-> I[s].hi, tag |-> "HIGH"]

\* The intervals whose ends were scanned, and those that the scan is in.
Entered == {s \in DOMAIN I : LowOf(s) \notin sort_list}
Left == {s \in DOMAIN I : HighOf(s) \notin sort_list}
Open == Entered \ Left

ScanTypeOK ==
  /\ Intervals(I)
  /\ sort_list \subseteq SortList(I)
  /\ depth \in Nat /\ best_depth \in Nat /\ best_lo \in Int /\ best_hi \in Int

\* What was scanned comes before what was not.
ScannedFirst ==
  /\ \A s \in Entered, t \in DOMAIN I \ Entered : I[s].lo <= I[t].lo
  /\ \A s \in Entered, t \in DOMAIN I \ Left : I[s].lo <= I[t].hi
  /\ \A s \in Left, t \in DOMAIN I \ Entered : I[s].hi < I[t].lo
  /\ \A s \in Left, t \in DOMAIN I \ Left : I[s].hi <= I[t].hi

DepthIsOpen == depth = Cardinality(Open) /\ depth <= best_depth

\* No point that the scan has passed is deeper than the best depth.
PassedNoDeeper ==
  \A p \in Int : (\A t \in DOMAIN I \ Entered : p < I[t].lo) => DepthAt(I, p) <= best_depth

\* The best depth was reached at best_lo and not before.
LoIsFirst ==
  best_depth > 0 =>
    /\ best_lo \in Endpoints(I) /\ best_depth <= DepthAt(I, best_lo)
    /\ \A p \in Int : p < best_lo => DepthAt(I, p) < best_depth

\* Once an interval of the best depth was left, best_hi is the last such end.
HiIsLast ==
  /\ depth < best_depth => best_hi \in Endpoints(I) /\ best_depth <= DepthAt(I, best_hi)
  /\ \A s \in Left : best_depth <= DepthAt(I, I[s].hi) => I[s].hi <= best_hi

ScanInv ==
  ScanTypeOK /\ ScannedFirst /\ DepthIsOpen /\ PassedNoDeeper /\ LoIsFirst /\ HiIsLast

LEMMA IntervalType ==
  ASSUME OffsetAssumption, NEW S \in (SUBSET Scanned) \ {{}}, NEW J \in [S -> Interval]
  PROVE  Intervals(J)
<1>1. IsFiniteSet(S) /\ S # {} /\ DOMAIN J = S
  <2>1. S \in SUBSET Scanned /\ S # {} /\ IsFiniteSet(Scanned)
    BY DEF OffsetAssumption
  <2> QED BY <2>1, FS_Subset
<1>2. ASSUME NEW s \in S PROVE J[s].lo \in Int /\ J[s].hi \in Int /\ J[s].lo <= J[s].hi
  <2>1. J[s] \in Interval
    OBVIOUS
  <2> QED BY <2>1 DEF Interval, OffsetAssumption
<1> QED BY <1>1, <1>2 DEF Intervals

LEMMA ListFacts ==
  ASSUME sort_list \subseteq SortList(I)
  PROVE  /\ \A e \in sort_list : \E s \in DOMAIN I : e = LowOf(s) \/ e = HighOf(s)
         /\ \A s : LowOf(s).tag = "LOW" /\ LowOf(s).offset = I[s].lo /\ LowOf(s).index = s
         /\ \A s : HighOf(s).tag = "HIGH" /\ HighOf(s).offset = I[s].hi /\ HighOf(s).index = s
BY DEF SortList, LowOf, HighOf

LEMMA NextLow ==
  ASSUME ScanTypeOK, NEW e \in sort_list, e.tag = "LOW", IsNext(e)
  PROVE  \E s \in DOMAIN I \ Entered :
           /\ e = LowOf(s) /\ e.offset = I[s].lo
           /\ \A t \in DOMAIN I \ Entered : I[s].lo <= I[t].lo
           /\ \A t \in DOMAIN I \ Left : I[s].lo <= I[t].hi
<1>1. PICK s \in DOMAIN I : e = LowOf(s)
  BY ListFacts DEF ScanTypeOK
<1>2. s \notin Entered
  BY <1>1 DEF Entered
<1>3. ASSUME NEW t \in DOMAIN I \ Entered PROVE I[s].lo <= I[t].lo
  <2>1. LowOf(t) \in sort_list
    BY DEF Entered
  <2>2. ~Before(LowOf(t), LowOf(s))
    BY <1>1, <2>1 DEF IsNext
  <2>3. ~(I[t].lo < I[s].lo)
    BY <2>2 DEF Before, LowOf
  <2> QED BY <2>3 DEF ScanTypeOK, Intervals
<1>4. ASSUME NEW t \in DOMAIN I \ Left PROVE I[s].lo <= I[t].hi
  <2>1. HighOf(t) \in sort_list
    BY DEF Left
  <2>2. ~Before(HighOf(t), LowOf(s))
    BY <1>1, <2>1 DEF IsNext
  <2>3. ~(I[t].hi < I[s].lo)
    BY <2>2 DEF Before, LowOf, HighOf
  <2> QED BY <2>3 DEF ScanTypeOK, Intervals
<1>5. e.offset = I[s].lo
  BY <1>1 DEF LowOf
<1> QED BY <1>1, <1>2, <1>3, <1>4, <1>5

LEMMA NextHigh ==
  ASSUME ScanTypeOK, NEW e \in sort_list, e.tag = "HIGH", IsNext(e)
  PROVE  \E s \in DOMAIN I \ Left :
           /\ e = HighOf(s) /\ e.offset = I[s].hi
           /\ \A t \in DOMAIN I \ Entered : I[s].hi < I[t].lo
           /\ \A t \in DOMAIN I \ Left : I[s].hi <= I[t].hi
<1>1. PICK s \in DOMAIN I : e = HighOf(s)
  BY ListFacts DEF ScanTypeOK
<1>2. s \notin Left
  BY <1>1 DEF Left
<1>3. ASSUME NEW t \in DOMAIN I \ Entered PROVE I[s].hi < I[t].lo
  <2>1. LowOf(t) \in sort_list
    BY DEF Entered
  <2>2. ~Before(LowOf(t), HighOf(s))
    BY <1>1, <2>1 DEF IsNext
  <2>3. ~(I[t].lo < I[s].hi) /\ ~(I[t].lo = I[s].hi)
    BY <2>2 DEF Before, LowOf, HighOf
  <2> QED BY <2>3 DEF ScanTypeOK, Intervals
<1>4. ASSUME NEW t \in DOMAIN I \ Left PROVE I[s].hi <= I[t].hi
  <2>1. HighOf(t) \in sort_list
    BY DEF Left
  <2>2. ~Before(HighOf(t), HighOf(s))
    BY <1>1, <2>1 DEF IsNext
  <2>3. ~(I[t].hi < I[s].hi)
    BY <2>2 DEF Before, HighOf
  <2> QED BY <2>3 DEF ScanTypeOK, Intervals
<1>5. e.offset = I[s].hi
  BY <1>1 DEF HighOf
<1> QED BY <1>1, <1>2, <1>3, <1>4, <1>5

LEMMA ScanInitInv == OffsetAssumption /\ ScanInit => ScanInv
<1> SUFFICES ASSUME OffsetAssumption, ScanInit PROVE ScanInv
  OBVIOUS
<1>1. Intervals(I)
  BY IntervalType DEF ScanInit
<1>2. sort_list = SortList(I) /\ depth = 0 /\ best_depth = 0 /\ best_lo = 0 /\ best_hi = 0
  BY DEF ScanInit
<1>3. Entered = {} /\ Left = {} /\ Open = {}
  BY <1>2 DEF Entered, Left, Open, SortList, LowOf, HighOf
<1>4. DepthIsOpen
  BY <1>2, <1>3, FS_EmptySet DEF DepthIsOpen
<1>5. ASSUME NEW p \in Int, \A t \in DOMAIN I : p < I[t].lo PROVE DepthAt(I, p) = 0
  <2>1. {s \in DOMAIN I : Around(I[s], p)} = {}
    BY <1>1, <1>5 DEF Around, Intervals
  <2> QED BY <2>1, FS_EmptySet DEF DepthAt
<1>6. PassedNoDeeper
  BY <1>2, <1>3, <1>5 DEF PassedNoDeeper
<1> QED BY <1>1, <1>2, <1>3, <1>4, <1>6 DEF ScanInv, ScanTypeOK, ScannedFirst, LoIsFirst, HiIsLast

LEMMA OpenFinite ==
  ASSUME Intervals(I)
  PROVE  IsFiniteSet(Open)
<1>1. IsFiniteSet(DOMAIN I) /\ Open \subseteq DOMAIN I
  BY DEF Intervals, Open, Entered
<1> QED BY <1>1, FS_Subset

LEMMA ScanLowStep ==
  ASSUME ScanInv, NEW e \in sort_list, ScanLow(e)
  PROVE  ScanInv'
<1> USE DEF ScanInv
<1>0. e.tag = "LOW" /\ IsNext(e) /\ sort_list' = sort_list \ {e} /\ depth' = depth + 1 /\ I' = I
      /\ best_hi' = best_hi
  BY DEF ScanLow
<1>1. PICK s \in DOMAIN I \ Entered :
           /\ e = LowOf(s) /\ e.offset = I[s].lo
           /\ \A t \in DOMAIN I \ Entered : I[s].lo <= I[t].lo
           /\ \A t \in DOMAIN I \ Left : I[s].lo <= I[t].hi
  BY <1>0, NextLow
<1>2. Intervals(I) /\ Intervals(I)' /\ sort_list \subseteq SortList(I)
  BY <1>0 DEF ScanTypeOK, Intervals
<1>3. Entered' = Entered \cup {s} /\ Left' = Left
  BY <1>0, <1>1 DEF Entered, Left, LowOf, HighOf
<1>4. s \notin Left
  BY <1>1, <1>2 DEF ScannedFirst, Intervals
<1>5. Open' = Open \cup {s} /\ s \notin Open /\ s \in Open'
  BY <1>1, <1>3, <1>4 DEF Open
<1>6. ScannedFirst'
  BY <1>0, <1>1, <1>3 DEF ScannedFirst
<1>7. depth' = Cardinality(Open')
  <2>1. Cardinality(Open \cup {s}) = Cardinality(Open) + 1
    BY <1>2, <1>5, OpenFinite, FS_AddElement
  <2> QED BY <1>0, <1>5, <2>1 DEF DepthIsOpen
<1> DEFINE x == I[s].lo
<1>8. x \in Int /\ x \in Endpoints(I)
  BY <1>2 DEF Intervals, Endpoints
<1>9. depth' <= DepthAt(I, x)
  <2> DEFINE T == {t \in DOMAIN I : Around(I[t], x)}
  <2>1. ASSUME NEW t \in Open' PROVE t \in T
    <3>1. t \in DOMAIN I /\ t \notin Left /\ (t \in Entered \/ t = s)
      BY <1>1, <1>3, <1>4, <1>5 DEF Open, Entered
    <3>2. I[t].lo <= x
      BY <1>1, <1>2, <3>1 DEF ScannedFirst, Intervals
    <3>3. x <= I[t].hi
      BY <1>1, <3>1
    <3> QED BY <3>1, <3>2, <3>3 DEF Around
  <2>2. IsFiniteSet(T) /\ Open' \in SUBSET T
    BY <2>1, <1>2, DepthBound
  <2>3. Cardinality(Open') <= Cardinality(T)
    BY <2>2, FS_Subset
  <2> QED BY <1>7, <2>3 DEF DepthAt
<1>10. /\ depth' \in Nat /\ best_depth' \in Nat /\ best_lo' \in Int /\ depth' <= best_depth' /\ best_depth <= best_depth'
       /\ \/ best_depth' = best_depth /\ best_lo' = best_lo
          \/ best_depth' = depth' /\ best_lo' = x /\ best_depth < depth'
  <2>1. depth' = depth + 1 /\ depth \in Nat /\ best_depth \in Nat /\ best_lo \in Int
    BY <1>0 DEF ScanTypeOK
  <2>2. IF depth' > best_depth THEN best_depth' = depth' /\ best_lo' = e.offset ELSE UNCHANGED <<best_depth, best_lo>>
    BY DEF ScanLow
  <2>3. CASE depth' > best_depth
    BY <1>1, <1>8, <2>1, <2>2, <2>3
  <2>4. CASE ~(depth' > best_depth)
    BY <2>1, <2>2, <2>4
  <2> QED BY <2>3, <2>4
<1>11. PassedNoDeeper'
  <2> SUFFICES ASSUME NEW p \in Int, \A t \in DOMAIN I \ Entered' : p < I[t].lo
               PROVE  DepthAt(I, p) <= best_depth'
    BY <1>0 DEF PassedNoDeeper
  <2>0. DepthAt(I, p) \in Nat
    BY <1>2, DepthBound
  <2>1. CASE p < x
    <3>1. \A t \in DOMAIN I \ Entered : p < I[t].lo
      BY <2>1, <1>3
    <3>2. DepthAt(I, p) <= best_depth
      BY <3>1 DEF PassedNoDeeper
    <3> QED BY <2>0, <3>2, <1>10 DEF ScanTypeOK
  <2>2. CASE ~(p < x)
    <3> DEFINE T == {t \in DOMAIN I : Around(I[t], p)}
    <3>1. ASSUME NEW t \in T PROVE t \in Open'
      <4>1. t \in Entered'
        BY <1>2, <1>3 DEF Around, Intervals
      <4>2. t \notin Left
        BY <1>1, <1>2, <1>8, <2>2 DEF Around, ScannedFirst, Intervals
      <4> QED BY <4>1, <4>2, <1>3 DEF Open
    <3>2. IsFiniteSet(Open')
      BY <1>2, <1>5, OpenFinite, FS_AddElement
    <3>3. T \in SUBSET Open'
      BY <3>1
    <3>4. Cardinality(T) <= Cardinality(Open')
      BY <3>2, <3>3, FS_Subset
    <3> QED BY <2>0, <3>4, <1>7, <1>10 DEF DepthAt
  <2> QED BY <2>1, <2>2
<1>12. LoIsFirst'
  <2>1. CASE best_depth' = best_depth /\ best_lo' = best_lo
    BY <1>0, <2>1 DEF LoIsFirst
  <2>2. CASE best_depth' = depth' /\ best_lo' = x /\ best_depth < depth'
    <3>1. ASSUME NEW p \in Int, p < x PROVE DepthAt(I, p) < depth'
      <4>1. \A t \in DOMAIN I \ Entered : p < I[t].lo
        BY <1>1, <1>2, <3>1 DEF Intervals
      <4>2. DepthAt(I, p) <= best_depth /\ DepthAt(I, p) \in Nat
        BY <1>2, <4>1, DepthBound DEF PassedNoDeeper
      <4> QED BY <4>2, <2>2, <1>10 DEF ScanTypeOK
    <3> QED BY <1>0, <1>8, <1>9, <2>2, <3>1 DEF LoIsFirst
  <2> QED BY <1>10, <2>1, <2>2
<1>13. HiIsLast'
  <2>1. depth' < best_depth' => depth < best_depth /\ best_depth' = best_depth
    BY <1>0, <1>10 DEF ScanTypeOK
  <2>2. ASSUME NEW t \in Left', best_depth' <= DepthAt(I, I[t].hi) PROVE I[t].hi <= best_hi'
    <3>1. DepthAt(I, I[t].hi) \in Nat
      BY <1>2, DepthBound
    <3>2. best_depth <= DepthAt(I, I[t].hi)
      BY <3>1, <2>2, <1>10 DEF ScanTypeOK
    <3> QED BY <3>2, <1>0, <1>3, <2>2 DEF HiIsLast
  <2>3. HiIsLast
    OBVIOUS
  <2> QED BY <2>1, <2>2, <2>3, <1>0 DEF HiIsLast
<1>14. ScanTypeOK'
  BY <1>0, <1>2, <1>10 DEF ScanTypeOK
<1>15. DepthIsOpen'
  BY <1>7, <1>10 DEF DepthIsOpen
<1> QED BY <1>6, <1>11, <1>12, <1>13, <1>14, <1>15

LEMMA ScanHighStep ==
  ASSUME ScanInv, NEW e \in sort_list, ScanHigh(e)
  PROVE  ScanInv'
<1> USE DEF ScanInv
<1>0. /\ e.tag = "HIGH" /\ IsNext(e) /\ sort_list' = sort_list \ {e} /\ depth' = depth - 1 /\ I' = I
      /\ best_lo' = best_lo /\ best_depth' = best_depth
      /\ best_hi' = IF depth = best_depth THEN e.offset ELSE best_hi
  BY DEF ScanHigh
<1>1. PICK s \in DOMAIN I \ Left :
           /\ e = HighOf(s) /\ e.offset = I[s].hi
           /\ \A t \in DOMAIN I \ Entered : I[s].hi < I[t].lo
           /\ \A t \in DOMAIN I \ Left : I[s].hi <= I[t].hi
  BY <1>0, NextHigh
<1>2. Intervals(I) /\ Intervals(I)' /\ sort_list \subseteq SortList(I)
  BY <1>0 DEF ScanTypeOK, Intervals
<1>3. Entered' = Entered /\ Left' = Left \cup {s}
  BY <1>0, <1>1 DEF Entered, Left, LowOf, HighOf
<1>4. s \in Entered
  BY <1>1, <1>2 DEF Intervals
<1>5. Open' = Open \ {s} /\ s \in Open
  BY <1>1, <1>3, <1>4 DEF Open
<1>6. ScannedFirst'
  BY <1>0, <1>1, <1>3 DEF ScannedFirst
<1>7. depth' = Cardinality(Open') /\ depth' \in Nat
  <2>1. Cardinality(Open \ {s}) = Cardinality(Open) - 1
    BY <1>2, <1>5, OpenFinite, FS_RemoveElement
  <2>2. Cardinality(Open \ {s}) \in Nat
    BY <1>2, OpenFinite, FS_RemoveElement, FS_CardinalityType
  <2> QED BY <1>0, <1>5, <2>1, <2>2 DEF DepthIsOpen
<1> DEFINE x == I[s].hi
           T == {t \in DOMAIN I : Around(I[t], x)}
<1>8. x \in Int /\ x \in Endpoints(I)
  BY <1>2 DEF Intervals, Endpoints
<1>9. IsFiniteSet(T) /\ IsFiniteSet(Open) /\ Cardinality(T) = DepthAt(I, x) /\ DepthAt(I, x) \in Nat
  BY <1>2, DepthBound, OpenFinite DEF DepthAt
<1>10. depth <= DepthAt(I, x)
  <2>1. ASSUME NEW t \in Open PROVE t \in T
    <3>1. t \in DOMAIN I /\ t \in Entered /\ t \notin Left
      BY DEF Open, Entered
    <3>2. I[t].lo <= x /\ x <= I[t].hi
      BY <1>1, <3>1 DEF ScannedFirst
    <3> QED BY <3>1, <3>2 DEF Around
  <2>2. Open \in SUBSET T
    BY <2>1
  <2>3. Cardinality(Open) <= Cardinality(T)
    BY <1>9, <2>2, FS_Subset
  <2> QED BY <1>9, <2>3 DEF DepthIsOpen
<1>11. ASSUME \A t \in Left : I[t].hi # x PROVE depth = DepthAt(I, x)
  <2>1. ASSUME NEW t \in T PROVE t \in Open
    <3>1. t \in Entered
      BY <1>1, <1>2, <1>8 DEF Around, Intervals
    <3>2. t \notin Left
      BY <1>1, <1>2, <1>8, <1>11 DEF Around, ScannedFirst, Intervals
    <3> QED BY <3>1, <3>2 DEF Open
  <2>2. T \in SUBSET Open
    BY <2>1
  <2>3. Cardinality(T) <= Cardinality(Open)
    BY <1>9, <2>2, FS_Subset
  <2> QED BY <1>9, <1>10, <2>3 DEF DepthIsOpen, ScanTypeOK
<1>12. best_hi' \in Int /\ (depth = best_depth => best_hi' = x) /\ (depth # best_depth => best_hi' = best_hi)
  BY <1>0, <1>1, <1>8 DEF ScanTypeOK
<1>13. HiIsLast'
  <2>1. depth' < best_depth' => best_hi' \in Endpoints(I) /\ best_depth' <= DepthAt(I, best_hi')
    BY <1>0, <1>8, <1>10, <1>12 DEF HiIsLast, DepthIsOpen, ScanTypeOK
  <2>2. ASSUME NEW t \in Left', best_depth' <= DepthAt(I, I[t].hi) PROVE I[t].hi <= best_hi'
    <3>0. HiIsLast
      OBVIOUS
    <3>1. CASE t \in Left
      <4>1. I[t].hi <= best_hi /\ I[t].hi <= x
        BY <3>0, <3>1, <2>2, <1>0, <1>1 DEF HiIsLast, ScannedFirst
      <4> QED BY <4>1, <1>12
    <3>2. CASE t = s /\ \E u \in Left : I[u].hi = x
      <4>1. PICK u \in Left : I[u].hi = x
        BY <3>2
      <4>2. x <= best_hi
        BY <3>0, <3>2, <4>1, <2>2, <1>0 DEF HiIsLast
      <4> QED BY <4>2, <1>8, <1>12, <3>2
    <3>3. CASE t = s /\ \A u \in Left : I[u].hi # x
      <4>1. depth = DepthAt(I, x)
        BY <3>3, <1>11
      <4>2. depth = best_depth
        BY <4>1, <3>3, <2>2, <1>0 DEF DepthIsOpen, ScanTypeOK
      <4> QED BY <4>2, <1>8, <1>12, <3>3
    <3> QED BY <3>1, <3>2, <3>3, <1>3
  <2> QED BY <2>1, <2>2, <1>0 DEF HiIsLast
<1>14. ScanTypeOK'
  BY <1>0, <1>2, <1>7, <1>12 DEF ScanTypeOK
<1>15. DepthIsOpen'
  BY <1>0, <1>7 DEF DepthIsOpen, ScanTypeOK
<1>16. PassedNoDeeper' /\ LoIsFirst'
  <2>1. PassedNoDeeper /\ LoIsFirst
    OBVIOUS
  <2> QED BY <2>1, <1>0, <1>3 DEF PassedNoDeeper, LoIsFirst
<1> QED BY <1>6, <1>13, <1>14, <1>15, <1>16

LEMMA ScanStep == ScanInv /\ [ScanNext]_scanVars => ScanInv'
<1> SUFFICES ASSUME ScanInv, [ScanNext]_scanVars PROVE ScanInv'
  OBVIOUS
<1>1. CASE ScanNext
  BY <1>1, ScanLowStep, ScanHighStep DEF ScanNext
<1>2. CASE UNCHANGED scanVars
  BY <1>2 DEF scanVars, ScanInv, ScanTypeOK, ScannedFirst, DepthIsOpen, PassedNoDeeper, LoIsFirst,
              HiIsLast, Entered, Left, Open, LowOf, HighOf
<1> QED BY <1>1, <1>2

\* Counting what is left of the list by its marks counts the open intervals.
LEMMA TagsLeft ==
  ASSUME ScanInv
  PROVE  depth = Cardinality({e \in sort_list : e.tag = "HIGH"}) - Cardinality({e \in sort_list : e.tag = "LOW"})
<1> DEFINE NotLeft == DOMAIN I \ Left
           NotEntered == DOMAIN I \ Entered
           H == {e \in sort_list : e.tag = "HIGH"}
           L == {e \in sort_list : e.tag = "LOW"}
           h == [s \in NotLeft |-> HighOf(s)]
           g == [s \in NotEntered |-> LowOf(s)]
<1>0. Intervals(I) /\ sort_list \subseteq SortList(I) /\ ScannedFirst /\ DepthIsOpen /\ depth \in Nat
  BY DEF ScanInv, ScanTypeOK
<1>1. IsFiniteSet(NotLeft) /\ IsFiniteSet(NotEntered) /\ IsFiniteSet(DOMAIN I) /\ IsFiniteSet(Open)
  <2>1. IsFiniteSet(DOMAIN I)
    BY <1>0 DEF Intervals
  <2>2. NotLeft \in SUBSET DOMAIN I /\ NotEntered \in SUBSET DOMAIN I
    OBVIOUS
  <2> HIDE DEF NotLeft, NotEntered
  <2> QED BY <2>1, <2>2, <1>0, FS_Subset, OpenFinite
<1>2. h \in Bijection(NotLeft, H)
  <2>1. \A s \in NotLeft : HighOf(s) \in H /\ HighOf(s).index = s
    BY DEF Left, HighOf
  <2>2. \A e \in H : \E s \in NotLeft : e = HighOf(s)
    <3> TAKE e \in H
    <3>1. PICK s \in DOMAIN I : e = LowOf(s) \/ e = HighOf(s)
      BY <1>0, ListFacts
    <3>2. e = HighOf(s)
      BY <3>1 DEF LowOf
    <3> QED BY <3>2 DEF Left
  <2>3. \A s, t \in NotLeft : h[s] = h[t] => s = t
    <3> TAKE s, t \in NotLeft
    <3>1. h[s] = HighOf(s) /\ h[t] = HighOf(t)
      OBVIOUS
    <3> QED BY <3>1, <2>1
  <2>4. h \in [NotLeft -> H] /\ \A e \in H : \E s \in NotLeft : h[s] = e
    BY <2>1, <2>2
  <2> HIDE DEF h, H, NotLeft
  <2> QED BY <2>3, <2>4 DEF Bijection, Injection, Surjection, IsInjective
<1>3. g \in Bijection(NotEntered, L)
  <2>1. \A s \in NotEntered : LowOf(s) \in L /\ LowOf(s).index = s
    BY DEF Entered, LowOf
  <2>2. \A e \in L : \E s \in NotEntered : e = LowOf(s)
    <3> TAKE e \in L
    <3>1. PICK s \in DOMAIN I : e = LowOf(s) \/ e = HighOf(s)
      BY <1>0, ListFacts
    <3>2. e = LowOf(s)
      BY <3>1 DEF HighOf
    <3> QED BY <3>2 DEF Entered
  <2>3. \A s, t \in NotEntered : g[s] = g[t] => s = t
    <3> TAKE s, t \in NotEntered
    <3>1. g[s] = LowOf(s) /\ g[t] = LowOf(t)
      OBVIOUS
    <3> QED BY <3>1, <2>1
  <2>4. g \in [NotEntered -> L] /\ \A e \in L : \E s \in NotEntered : g[s] = e
    BY <2>1, <2>2
  <2> HIDE DEF g, L, NotEntered
  <2> QED BY <2>3, <2>4 DEF Bijection, Injection, Surjection, IsInjective
<1>4. Cardinality(H) = Cardinality(NotLeft) /\ Cardinality(L) = Cardinality(NotEntered)
  <2>1. ExistsBijection(NotLeft, H) /\ ExistsBijection(NotEntered, L)
    BY <1>2, <1>3 DEF ExistsBijection
  <2> HIDE DEF NotLeft, NotEntered, H, L
  <2> QED BY <2>1, <1>1, FS_Bijection
<1>5. NotLeft = NotEntered \cup Open /\ NotEntered \cap Open = {}
  <2>1. \A s \in DOMAIN I : s \in Left => s \in Entered
    BY <1>0 DEF ScannedFirst, Intervals
  <2> QED BY <2>1 DEF Open, Left, Entered
<1>6. Cardinality(NotLeft) = Cardinality(NotEntered) + Cardinality(Open)
  <2> HIDE DEF NotLeft, NotEntered
  <2>1. Cardinality(NotEntered \cup Open) =
          Cardinality(NotEntered) + Cardinality(Open) - Cardinality(NotEntered \cap Open)
    BY <1>1, FS_Union
  <2>2. Cardinality(NotEntered) \in Nat /\ Cardinality(Open) \in Nat
    BY <1>1, FS_CardinalityType
  <2> QED BY <2>1, <2>2, <1>5, FS_EmptySet
<1>7. Cardinality(NotEntered) \in Nat /\ Cardinality(Open) \in Nat
  <2> HIDE DEF NotEntered
  <2> QED BY <1>1, FS_CardinalityType
<1> HIDE DEF NotLeft, NotEntered, H, L
<1>8. depth = Cardinality(H) - Cardinality(L)
  BY <1>0, <1>4, <1>6, <1>7 DEF DepthIsOpen
<1> QED BY <1>8 DEF H, L

\* At the end of the scan.
LEMMA ScanFound ==
  ASSUME ScanInv, Done
  PROVE  best_depth = BestDepth(I) /\ best_lo = BestLo(I) /\ best_hi = BestHi(I)
<1>0. /\ Intervals(I) /\ depth \in Nat /\ best_depth \in Nat /\ best_lo \in Int /\ best_hi \in Int
      /\ DepthIsOpen /\ PassedNoDeeper /\ LoIsFirst /\ HiIsLast
  BY DEF ScanInv, ScanTypeOK
<1>1. Entered = DOMAIN I /\ Left = DOMAIN I /\ Open = {}
  BY DEF Done, Entered, Left, Open
<1>2. depth = 0
  BY <1>0, <1>1, FS_EmptySet DEF DepthIsOpen
<1>3. ASSUME NEW p \in Int PROVE DepthAt(I, p) <= best_depth /\ DepthAt(I, p) \in Nat
  BY <1>0, <1>1, DepthBound DEF PassedNoDeeper
<1>4. /\ BestLo(I) \in Int /\ BestHi(I) \in Int /\ BestDepth(I) \in Nat \ {0}
      /\ DepthAt(I, BestLo(I)) = BestDepth(I) /\ DepthAt(I, BestHi(I)) = BestDepth(I)
  BY <1>0, DeepestIs, EndpointsFinite, BestDepthIs
<1>5. BestDepth(I) <= best_depth /\ best_depth > 0
  BY <1>0, <1>3, <1>4
<1>6. /\ best_lo \in Endpoints(I) /\ best_depth <= DepthAt(I, best_lo)
      /\ \A p \in Int : p < best_lo => DepthAt(I, p) < best_depth
  BY <1>0, <1>5 DEF LoIsFirst
<1>7. best_depth = BestDepth(I) /\ DepthAt(I, best_lo) = BestDepth(I)
  <2>1. DepthAt(I, best_lo) <= BestDepth(I) /\ DepthAt(I, best_lo) \in Nat
    BY <1>0, <1>6, BestDepthIs, DepthBound
  <2> QED BY <2>1, <1>0, <1>4, <1>5, <1>6
<1>8. best_lo = BestLo(I)
  <2>1. BestLo(I) <= best_lo
    BY <1>0, <1>6, <1>7, DeepestIs
  <2>2. ~(BestLo(I) < best_lo)
    BY <1>4, <1>6, <1>7
  <2> QED BY <2>1, <2>2, <1>0, <1>4
<1>9. best_hi \in Endpoints(I) /\ DepthAt(I, best_hi) = BestDepth(I)
  <2>1. best_hi \in Endpoints(I) /\ best_depth <= DepthAt(I, best_hi)
    BY <1>0, <1>2, <1>5 DEF HiIsLast
  <2>2. DepthAt(I, best_hi) <= BestDepth(I) /\ DepthAt(I, best_hi) \in Nat
    BY <1>0, <2>1, BestDepthIs, DepthBound
  <2> QED BY <2>1, <2>2, <1>4, <1>7
<1>10. best_hi = BestHi(I)
  <2>1. best_hi <= BestHi(I)
    BY <1>0, <1>9, DeepestIs
  <2>2. PICK s \in DOMAIN I : BestHi(I) <= I[s].hi /\ BestDepth(I) <= DepthAt(I, I[s].hi)
    BY <1>0, <1>4, DeepestInEnd
  <2>3. I[s].hi <= best_hi
    BY <1>0, <1>1, <1>7, <2>2 DEF HiIsLast
  <2>4. I[s].hi \in Int
    BY <1>0 DEF Intervals
  <2> QED BY <2>1, <2>2, <2>3, <2>4, <1>0, <1>4
<1> QED BY <1>7, <1>8, <1>10

LEMMA ScanProperties == ScanInv => ScanFindsDeepest /\ DeepestSurvive
<1> SUFFICES ASSUME ScanInv PROVE ScanFindsDeepest /\ DeepestSurvive
  OBVIOUS
<1>1. ScanFindsDeepest
  BY TagsLeft, ScanFound DEF ScanFindsDeepest
<1> DEFINE around(p) == {s \in DOMAIN I : Around(I[s], p)}
<1>2. ASSUME Done
      PROVE  /\ Selectable # {}
             /\ around(best_lo) = around(best_hi) =>
                  around(best_lo) \subseteq Selectable /\ Cardinality(Selectable) >= best_depth
  <2>0. Intervals(I) /\ best_lo \in Int /\ best_hi \in Int
    BY DEF ScanInv, ScanTypeOK
  <2>1. best_depth = BestDepth(I) /\ best_lo = BestLo(I) /\ best_hi = BestHi(I)
    BY <1>2, ScanFound
  <2>2. Selectable # {}
    BY <2>0, <2>1, SomeAdmissible DEF Selectable
  <2>3. ASSUME around(best_lo) = around(best_hi)
        PROVE  around(best_lo) \subseteq Selectable /\ Cardinality(Selectable) >= best_depth
    <3>1. around(best_lo) \subseteq Selectable
      <4> SUFFICES ASSUME NEW s \in around(best_lo) PROVE s \in Selectable
        OBVIOUS
      <4>1. s \in around(best_hi)
        BY <2>3
      <4> QED BY <4>1 DEF Around, Selectable, Admissible
    <3>2. IsFiniteSet(Selectable)
      <4>1. Selectable \in SUBSET DOMAIN I /\ IsFiniteSet(DOMAIN I)
        BY <2>0 DEF Selectable, Admissible, Intervals
      <4> QED BY <4>1, FS_Subset
    <3>3. Cardinality(around(best_lo)) <= Cardinality(Selectable)
      BY <3>1, <3>2, FS_Subset
    <3>4. Cardinality(around(best_lo)) = best_depth
      <4>1. DepthAt(I, best_lo) = BestDepth(I)
        BY <2>0, <2>1, DeepestIs
      <4> QED BY <4>1, <2>1 DEF DepthAt
    <3>5. Cardinality(Selectable) \in Nat /\ best_depth \in Nat
      BY <3>2, FS_CardinalityType DEF ScanInv, ScanTypeOK
    <3> QED BY <3>1, <3>3, <3>4, <3>5
  <2> QED BY <2>2, <2>3
<1>3. DeepestSurvive
  BY <1>2 DEF DeepestSurvive
<1> QED BY <1>1, <1>3

-----------------------------------------------------------------------------
(* The table and the selection. *)

SelectTypeOK ==
  /\ sources \in Seq(Source)
  /\ \A i, j \in 1 .. Len(sources) : sources[i] = sources[j] => i = j
  /\ selected_source_index \in 0 .. Len(sources)
  /\ sel_option \in [Source -> Option] /\ selectable \in [Source -> BOOLEAN]
  /\ reachability \in [Source -> Nat] /\ regression_ok \in [Source -> BOOLEAN]
  /\ status \in [Source -> Status] /\ sel_score \in [Source -> Level]

\* The score of the selected source is above the limit if any is.
SelectedIsMax ==
  selected_source_index # 0 =>
    \A s \in Source : sel_score[s] = 2 => sel_score[sources[selected_source_index]] = 2

SelectInv == SelectTypeOK /\ SyncIsSelected /\ ReferenceFollowsSelection /\ SelectedIsMax

\* The fields a caller of SRC_SelectSource leaves.
FieldsLeft == selectable' \in [Source -> BOOLEAN] /\ reachability' \in [Source -> Nat]

\* An outcome that keeps the invariant.
Scores(o) == o.sel # 0 => \A s \in Source : o.score[s] = 2 => o.score[sources[o.sel]] = 2
Fit(s) == selectable'[s] /\ reachability'[s] # 0 /\ sel_option[s] # "noselect"
Sound(o) ==
  /\ o.sel \in 0 .. Len(sources) /\ o.status \in [Source -> Status] /\ o.score \in [Source -> Level]
  /\ \A s \in Source : o.status[s] = "SRC_SYNC" <=> (o.sel # 0 /\ sources[o.sel] = s)
  /\ o.sel # 0 => Fit(sources[o.sel]) /\ o.ref = sources[o.sel]
  /\ Scores(o)

LEMMA OutcomeFields ==
  ASSUME NEW sel, NEW st, NEW sc, NEW ref
  PROVE  /\ Outcome(sel, st, sc, ref).sel = sel /\ Outcome(sel, st, sc, ref).status = st
         /\ Outcome(sel, st, sc, ref).score = sc /\ Outcome(sel, st, sc, ref).ref = ref
BY DEF Outcome

LEMMA KnownFacts ==
  ASSUME sources \in Seq(Source)
  PROVE  /\ Known \subseteq Source /\ IsFiniteSet(Known)
         /\ \A s : s \in Known <=> \E i \in 1 .. Len(sources) : sources[i] = s
         /\ Len(sources) \in Nat
         /\ sources = <<>> => Known = {}
<1>1. Len(sources) \in Nat /\ DOMAIN sources = 1 .. Len(sources)
      /\ \A i \in 1 .. Len(sources) : sources[i] \in Source
  OBVIOUS
<1>2. Known = {sources[i] : i \in 1 .. Len(sources)}
  BY <1>1 DEF Known, Range
<1>3. IsFiniteSet(1 .. Len(sources))
  BY <1>1, FS_Interval
<1>4. IsFiniteSet({sources[i] : i \in 1 .. Len(sources)})
  BY <1>3, ImageFinite
<1> QED BY <1>1, <1>2, <1>4

LEMMA SyncKnown ==
  ASSUME SelectTypeOK, SyncIsSelected, NEW s \in Source, status[s] = "SRC_SYNC"
  PROVE  s \in Known /\ selected_source_index # 0 /\ sources[selected_source_index] = s
BY KnownFacts DEF SelectTypeOK, SyncIsSelected, IsSelected, INVALID_SOURCE

LEMMA StatusesFacts ==
  ASSUME SelectTypeOK, SyncIsSelected, NEW looked, NEW ok, NEW good, NEW bad
  PROVE  /\ Statuses(looked, ok, good, bad) \in [Source -> Status]
         /\ \A s \in Source : Statuses(looked, ok, good, bad)[s] # "SRC_SYNC"
         /\ \A s \in Source : s \in Known /\ Statuses(looked, ok, good, bad)[s] = "SRC_SELECTABLE" => s \in good
<1> DEFINE st == Statuses(looked, ok, good, bad)
<1>1. st \in [Source -> Status]
  BY DEF Statuses, Status, SelectTypeOK
<1>2. ASSUME NEW s \in Source PROVE st[s] # "SRC_SYNC"
  BY SyncKnown DEF Statuses
<1>3. ASSUME NEW s \in Source, s \in Known, st[s] = "SRC_SELECTABLE" PROVE s \in good
  BY <1>3 DEF Statuses
<1> QED BY <1>1, <1>2, <1>3

LEMMA LostSound ==
  ASSUME SelectTypeOK, NEW cur, NEW st \in [Source -> Status], \A s \in Source : st[s] # "SRC_SYNC"
  PROVE  Sound(Lost(cur, st)) /\ Lost(cur, st).status = st
BY OutcomeFields DEF Sound, Lost, SelectTypeOK, Scores, INVALID_SOURCE

-----------------------------------------------------------------------------
(* The election. *)

\* Data of the sources that are candidates.
Candidates(info, good) ==
  /\ good # {} /\ good \subseteq Known
  /\ \A s \in good : info[s] \in Data

LEMMA DataFacts ==
  ASSUME DataAssumption, NEW d \in Data
  PROVE  d.lo \in Int /\ d.hi \in Int /\ d.lo <= d.hi /\ d.stratum \in Nat
BY DEF DataAssumption

LEMMA MinStratumIs ==
  ASSUME DataAssumption, sources \in Seq(Source), NEW info, NEW good, Candidates(info, good)
  PROVE  \E s \in good : info[s].stratum = MinStratum(info, good) /\ MinStratum(info, good) \in Int
<1> DEFINE preferred == {s \in good : sel_option[s] = "prefer"}
           P == IF preferred # {} THEN preferred ELSE good
           f == [s \in P |-> info[s].stratum]
           S == {f[s] : s \in P}
<1>1. P \subseteq good /\ P # {}
  BY DEF Candidates
<1>2. IsFiniteSet(P)
  <2>1. P \in SUBSET Known
    BY <1>1 DEF Candidates
  <2> QED BY <2>1, KnownFacts, FS_Subset
<1>3. IsFiniteSet(S)
  <2> HIDE DEF P, f
  <2> QED BY <1>2, ImageFinite
<1>4. S \subseteq Int /\ S # {}
  <2>1. \A s \in P : info[s].stratum \in Nat
    BY <1>1, DataFacts DEF Candidates
  <2> HIDE DEF P
  <2> QED BY <2>1, <1>1
<1>5. Min(S) \in S
  <2> HIDE DEF S
  <2> QED BY <1>3, <1>4, FiniteMin
<1>6. MinStratum(info, good) = Min(S)
  BY DEF MinStratum
<1>7. PICK s \in P : f[s] = Min(S)
  BY <1>5
<1>8. s \in good /\ info[s].stratum = Min(S) /\ Min(S) \in Int
  BY <1>1, <1>4, <1>5, <1>7
<1> QED BY <1>6, <1>8

LEMMA DistanceIs ==
  ASSUME DataAssumption, SelectAssumption, NEW info, NEW s, info[s] \in Data, NEW min \in Int
  PROVE  /\ Distance(info, min, s) \in Int
         /\ info[s].stratum = min => Distance(info, min, s) > 0
<1> DEFINE half == (info[s].hi - info[s].lo) \div 2
           more == (info[s].stratum - min) * stratum_weight
<1>1. half \in Nat
  <2>1. info[s].hi - info[s].lo \in Nat
    BY DataFacts
  <2> QED BY <2>1
<1>2. more \in Int /\ (info[s].stratum = min => more = 0)
  BY DataFacts DEF SelectAssumption
<1>3. Distance(info, min, s) = half + more + reselect_distance
  BY DEF Distance, SelDistance
<1> HIDE DEF half, more
<1> QED BY <1>1, <1>2, <1>3 DEF SelectAssumption

LEMMA NearestFound ==
  ASSUME DataAssumption, SelectAssumption, sources \in Seq(Source),
         NEW info, NEW good, Candidates(info, good), NEW i \in NearestIndices(info, good)
  PROVE  i \in 1 .. Len(sources) /\ sources[i] \in good
<1> DEFINE min == MinStratum(info, good)
           at(j) == Distance(info, min, sources[j])
           idx == {j \in 1 .. Len(sources) : sources[j] \in good /\ at(j) > 0}
           f == [j \in idx |-> at(j)]
           D == {f[j] : j \in idx}
           best == {j \in idx : \A k \in idx : at(j) <= at(k)}
<1>1. PICK s \in good : info[s].stratum = min /\ min \in Int
  BY MinStratumIs
<1> HIDE DEF min
<1>2. \A j \in 1 .. Len(sources) : sources[j] \in good => at(j) \in Int
  BY <1>1, DistanceIs DEF Candidates
<1>3. idx # {}
  <2>1. PICK j \in 1 .. Len(sources) : sources[j] = s
    BY KnownFacts DEF Candidates
  <2>2. at(j) > 0
    BY <1>1, <2>1, DistanceIs DEF Candidates
  <2> QED BY <2>1, <2>2
<1>4. IsFiniteSet(idx)
  <2>1. idx \in SUBSET (1 .. Len(sources)) /\ IsFiniteSet(1 .. Len(sources))
    BY KnownFacts, FS_Interval
  <2> QED BY <2>1, FS_Subset
<1>5. IsFiniteSet(D)
  <2> HIDE DEF idx, f
  <2> QED BY <1>4, ImageFinite
<1>6. D \subseteq Int /\ D # {}
  BY <1>2, <1>3
<1>7. Min(D) \in D /\ \A y \in D : Min(D) <= y
  <2> HIDE DEF D
  <2> QED BY <1>5, <1>6, FiniteMin
<1>8. PICK j \in idx : f[j] = Min(D)
  BY <1>7
<1>9. j \in best
  <2> SUFFICES ASSUME NEW k \in idx PROVE at(j) <= at(k)
    OBVIOUS
  <2>1. f[k] \in D /\ f[k] = at(k) /\ f[j] = at(j)
    OBVIOUS
  <2> HIDE DEF D, f, at, idx
  <2> QED BY <2>1, <1>7, <1>8
<1>10. IsFiniteSet(best) /\ best \subseteq Int /\ best # {}
  <2>1. best \in SUBSET idx
    OBVIOUS
  <2>2. best \subseteq Int
    BY KnownFacts
  <2> HIDE DEF best, idx
  <2> QED BY <2>1, <2>2, <1>4, <1>9, FS_Subset
<1>11. Min(best) \in best
  <2> HIDE DEF best
  <2> QED BY <1>10, FiniteMin
<1>12. i = Min(best)
  BY DEF NearestIndices, min
<1> QED BY <1>11, <1>12

\* A source that is elected or kept, with its scores.
Taken(cur, match, st, i, f) ==
  Outcome(i, [st EXCEPT ![sources[i]] = "SRC_SYNC"], f, Followed(cur, i, match))
Elected(cur, match, st, i) == Taken(cur, match, st, i, [s \in Source |-> 1])

Replaced(cur, good, i, f) == sources[cur] \notin good \/ (i # cur /\ f[sources[i]] = 2)

LEMMA ElectCases ==
  ASSUME NEW cur, NEW match, NEW info, NEW good, NEW st, NEW o \in Elect(cur, match, info, good, st)
  PROVE  \/ cur = 0 /\ \E i \in NearestIndices(info, good) : o = Elected(cur, match, st, i)
         \/ cur # 0 /\ \E f \in NewScores(cur, match, info, good) :
              \E i \in MaxScoreIndices(cur, match, f, good) :
                \/ Replaced(cur, good, i, f) /\ o = Elected(cur, match, st, i)
                \/ ~Replaced(cur, good, i, f) /\ o = Taken(cur, match, st, cur, f)
<1>1. CASE cur = 0
  BY <1>1 DEF Elect, Elected, Taken, INVALID_SOURCE
<1>2. CASE cur # 0
  <2>1. PICK f \in NewScores(cur, match, info, good) :
          \E i \in MaxScoreIndices(cur, match, f, good) :
            o = IF Replaced(cur, good, i, f) THEN Elected(cur, match, st, i) ELSE Taken(cur, match, st, cur, f)
    BY <1>2 DEF Elect, Elected, Taken, Replaced, INVALID_SOURCE
  <2> QED BY <2>1, <1>2
<1> QED BY <1>1, <1>2

\* What the scores become: those that do not move stay.
LEMMA NewScoresFacts ==
  ASSUME NEW cur, NEW match, NEW info, NEW good, good \subseteq Source,
         NEW f \in NewScores(cur, match, info, good)
  PROVE  /\ f \in [Source -> Level]
         /\ \A s \in Source \ good : f[s] = 1
         /\ \A s \in good : ~ScoreMoves(match, s, sources[cur]) => f[s] = sel_score[s]
<1> DEFINE min == MinStratum(info, good)
           num == SelDistance(info, min, sources[cur])
           levels == [s \in good |-> IF ~ScoreMoves(match, s, sources[cur]) THEN {sel_score[s]}
                                     ELSE Scaled(sel_score[s], num, Distance(info, min, s))]
           G == {g \in [good -> Level] : \A s \in good : g[s] \in levels[s]}
<1>1. NewScores(cur, match, info, good) = {[s \in Source |-> IF s \in good THEN g[s] ELSE 1] : g \in G}
  BY DEF NewScores
<1>2. PICK g \in G : f = [s \in Source |-> IF s \in good THEN g[s] ELSE 1]
  BY <1>1
<1>3. g \in [good -> Level] /\ \A s \in good : g[s] \in levels[s]
  BY <1>2
<1>4. \A s \in good : ~ScoreMoves(match, s, sources[cur]) => levels[s] = {sel_score[s]}
  OBVIOUS
<1> HIDE DEF levels, G
<1> QED BY <1>2, <1>3, <1>4 DEF Level

LEMMA MaxScoreFacts ==
  ASSUME sources \in Seq(Source), NEW cur, NEW match, NEW f \in [Source -> Level], NEW good, good \subseteq Known,
         NEW i \in MaxScoreIndices(cur, match, f, good)
  PROVE  /\ i \in 1 .. Len(sources) /\ sources[i] \in good
         /\ \A s \in good : f[s] <= f[sources[i]]
         /\ sources[cur] \in good /\ i # cur /\ f[sources[cur]] = f[sources[i]] =>
              ScoreMoves(match, sources[i], sources[cur])
<1> DEFINE S == {f[s] : s \in good}
<1>1. i \in 1 .. Len(sources) /\ sources[i] \in good /\ f[sources[i]] = Max(S)
  BY DEF MaxScoreIndices
<1>2. sources[cur] \in good /\ f[sources[cur]] = Max(S) /\ i # cur => ScoreMoves(match, sources[i], sources[cur])
  BY DEF MaxScoreIndices
<1>3. good \subseteq Source /\ good \in SUBSET Known /\ IsFiniteSet(Known)
  BY KnownFacts
<1>4. IsFiniteSet(good)
  BY <1>3, FS_Subset
<1>5. IsFiniteSet(S)
  BY <1>4, ImageFinite
<1>6. S \subseteq Int /\ S # {}
  BY <1>1, <1>3 DEF Level
<1>7. \A y \in S : y <= Max(S)
  <2> HIDE DEF S
  <2> QED BY <1>5, <1>6, FiniteMax
<1>8. \A s \in good : f[s] <= Max(S)
  BY <1>7
<1> HIDE DEF S
<1> QED BY <1>1, <1>2, <1>8

LEMMA TakenSound ==
  ASSUME SelectTypeOK, NEW cur, NEW match, NEW i \in 1 .. Len(sources), Fit(sources[i]),
         NEW f \in [Source -> Level], NEW st \in [Source -> Status], \A s \in Source : st[s] # "SRC_SYNC",
         \A s \in Source : f[s] = 2 => f[sources[i]] = 2,
         i = cur => reference = sources[i]
  PROVE  Sound(Taken(cur, match, st, i, f))
<1> DEFINE o == Taken(cur, match, st, i, f)
           t == [st EXCEPT ![sources[i]] = "SRC_SYNC"]
<1>1. sources[i] \in Source /\ i # 0 /\ i \in 0 .. Len(sources)
  BY DEF SelectTypeOK
<1>2. t \in [Source -> Status] /\ \A s \in Source : t[s] = "SRC_SYNC" <=> sources[i] = s
  BY <1>1 DEF Status
<1>3. o.sel = i /\ o.status = t /\ o.score = f /\ o.ref = Followed(cur, i, match)
  BY OutcomeFields DEF Taken
<1>4. Followed(cur, i, match) = sources[i]
  BY DEF Followed
<1> HIDE DEF o, t
<1>5. \A s \in Source : o.status[s] = "SRC_SYNC" <=> (o.sel # 0 /\ sources[o.sel] = s)
  BY <1>1, <1>2, <1>3
<1>6. Fit(sources[o.sel]) /\ o.ref = sources[o.sel]
  BY <1>3, <1>4
<1>7. Scores(o)
  BY <1>3 DEF Scores
<1>8. o.sel \in 0 .. Len(sources) /\ o.status \in [Source -> Status] /\ o.score \in [Source -> Level]
  BY <1>1, <1>2, <1>3
<1>9. Sound(o)
  BY <1>5, <1>6, <1>7, <1>8 DEF Sound
<1> QED BY <1>9 DEF o

LEMMA ElectSound ==
  ASSUME DataAssumption, SelectAssumption, SelectTypeOK, ReferenceFollowsSelection,
         NEW cur \in {0, selected_source_index}, NEW match, NEW info, NEW good, Candidates(info, good),
         \A s \in good : Fit(s),
         NEW st \in [Source -> Status], \A s \in Source : st[s] # "SRC_SYNC",
         NEW o \in Elect(cur, match, info, good, st)
  PROVE  Sound(o)
<1>0. sources \in Seq(Source) /\ good \subseteq Source /\ good \subseteq Known
  BY KnownFacts DEF SelectTypeOK, Candidates
<1> DEFINE ones == [s \in Source |-> 1]
<1>1. ones \in [Source -> Level] /\ \A s \in Source : ones[s] # 2
  BY DEF Level
<1>2. ASSUME NEW i \in 1 .. Len(sources), sources[i] \in good, i = cur => reference = sources[i],
             o = Elected(cur, match, st, i)
      PROVE  Sound(o)
  <2> HIDE DEF ones
  <2>1. o = Taken(cur, match, st, i, ones)
    BY <1>2 DEF Elected, ones
  <2> QED BY <2>1, <1>1, <1>2, TakenSound
<1>3. CASE cur = 0
  <2>1. PICK i \in NearestIndices(info, good) : o = Elected(cur, match, st, i)
    BY <1>3, ElectCases
  <2>2. i \in 1 .. Len(sources) /\ sources[i] \in good
    BY <1>0, NearestFound
  <2> QED BY <2>1, <2>2, <1>2, <1>3
<1>4. CASE cur # 0
  <2>0. cur \in 1 .. Len(sources) /\ reference = sources[cur]
    BY <1>4, KnownFacts DEF SelectTypeOK, ReferenceFollowsSelection, INVALID_SOURCE
  <2>1. PICK f \in NewScores(cur, match, info, good) :
          \E i \in MaxScoreIndices(cur, match, f, good) :
                \/ Replaced(cur, good, i, f) /\ o = Elected(cur, match, st, i)
                \/ ~Replaced(cur, good, i, f) /\ o = Taken(cur, match, st, cur, f)
    BY <1>4, ElectCases
  <2>2. PICK i \in MaxScoreIndices(cur, match, f, good) :
                \/ Replaced(cur, good, i, f) /\ o = Elected(cur, match, st, i)
                \/ ~Replaced(cur, good, i, f) /\ o = Taken(cur, match, st, cur, f)
    BY <2>1
  <2>3. f \in [Source -> Level] /\ \A s \in Source \ good : f[s] = 1
    BY <1>0, NewScoresFacts
  <2>4. i \in 1 .. Len(sources) /\ sources[i] \in good /\ \A s \in good : f[s] <= f[sources[i]]
    BY <1>0, <2>3, MaxScoreFacts
  <2>5. CASE Replaced(cur, good, i, f) /\ o = Elected(cur, match, st, i)
    BY <2>0, <2>4, <2>5, <1>2
  <2>6. CASE ~Replaced(cur, good, i, f) /\ o = Taken(cur, match, st, cur, f)
    <3>1. sources[cur] \in good /\ (i = cur \/ f[sources[i]] # 2)
      BY <2>6 DEF Replaced
    <3>2. \A s \in Source : f[s] = 2 => f[sources[cur]] = 2
      BY <3>1, <2>3, <2>4, <1>0 DEF Level
    <3> QED BY <3>1, <3>2, <2>0, <2>3, <2>6, TakenSound
  <2> QED BY <2>2, <2>5, <2>6
<1> QED BY <1>3, <1>4

\* Without a new sample, the selected source stays while it is a candidate.
LEMMA ElectKeeps ==
  ASSUME SelectAssumption, SelectTypeOK, SelectedIsMax, NEW info, selected_source_index # 0,
         NEW good, good \subseteq Known, sources[selected_source_index] \in good,
         NEW st \in [Source -> Status],
         NEW o \in Elect(selected_source_index, NoMatch, info, good, st)
  PROVE  o.status[sources[selected_source_index]] = "SRC_SYNC"
<1> DEFINE cur == selected_source_index
<1>0. /\ sources \in Seq(Source) /\ good \subseteq Source /\ cur \in 1 .. Len(sources)
      /\ sources[cur] \in Source /\ NoMatch \notin Source
  BY KnownFacts DEF SelectTypeOK, SelectAssumption
<1>1. PICK f \in NewScores(cur, NoMatch, info, good) :
          \E i \in MaxScoreIndices(cur, NoMatch, f, good) :
                \/ Replaced(cur, good, i, f) /\ o = Elected(cur, NoMatch, st, i)
                \/ ~Replaced(cur, good, i, f) /\ o = Taken(cur, NoMatch, st, cur, f)
  BY ElectCases
<1>2. PICK i \in MaxScoreIndices(cur, NoMatch, f, good) :
                \/ Replaced(cur, good, i, f) /\ o = Elected(cur, NoMatch, st, i)
                \/ ~Replaced(cur, good, i, f) /\ o = Taken(cur, NoMatch, st, cur, f)
  BY <1>1
<1>3. f \in [Source -> Level] /\ \A s \in good : f[s] = sel_score[s]
  <2>1. \A s \in good : ~ScoreMoves(NoMatch, s, sources[cur])
    BY <1>0 DEF ScoreMoves
  <2> QED BY <1>0, <2>1, NewScoresFacts
<1>4. /\ i \in 1 .. Len(sources) /\ sources[i] \in good /\ \A s \in good : f[s] <= f[sources[i]]
      /\ i # cur /\ f[sources[cur]] = f[sources[i]] => ScoreMoves(NoMatch, sources[i], sources[cur])
  BY <1>0, <1>3, MaxScoreFacts
<1>5. ~Replaced(cur, good, i, f)
  <2> SUFFICES ASSUME i # cur, f[sources[i]] = 2 PROVE FALSE
    BY DEF Replaced
  <2>1. f[sources[cur]] = 2
    BY <1>0, <1>3, <1>4 DEF SelectedIsMax
  <2>2. ScoreMoves(NoMatch, sources[i], sources[cur])
    BY <1>4, <2>1
  <2> QED BY <2>2, <1>0, <1>4 DEF ScoreMoves
<1>6. o = Taken(cur, NoMatch, st, cur, f)
  BY <1>2, <1>5
<1>7. o.status = [st EXCEPT ![sources[cur]] = "SRC_SYNC"]
  BY <1>6, OutcomeFields DEF Taken
<1> QED BY <1>0, <1>7

-----------------------------------------------------------------------------
(* SRC_SelectSource. *)

Provided == {s \in Looked : regression_ok'[s]}
Survivors(info) ==
  LET J == [s \in Provided |-> info[s]] IN Admissible(J, BestLo(J), BestHi(J))

LEMMA SelectCases ==
  ASSUME NEW cur, NEW match, NEW o \in SelectSource(cur, match)
  PROVE  \/ sources = <<>> /\ o = Lost(cur, status)
         \/ sources # <<>> /\ cur = 0 /\ o = Outcome(cur, Statuses(Looked, Provided, {}, {}), sel_score, reference)
         \/ sources # <<>> /\ o = Lost(cur, Statuses(Looked, Provided, {}, {}))
         \/ sources # <<>> /\ o = Lost(cur, Statuses(Looked, Provided, {}, Known))
         \/ /\ sources # <<>> /\ Provided # {}
            /\ \E info : /\ \A s \in Provided : info[s] \in Data
                         /\ o \in Elect(cur, match, info, Survivors(info),
                                        Statuses(Looked, Provided, Survivors(info), Provided \ Survivors(info)))
<1> DEFINE read == Provided \cup (IF cur = INVALID_SOURCE THEN {} ELSE {sources[cur]})
<1>1. CASE sources = <<>>
  BY <1>1 DEF SelectSource
<1>2. CASE sources # <<>> /\ MustWait(cur, Looked, Provided)
  <2>1. cur = 0
    BY <1>2 DEF MustWait, INVALID_SOURCE
  <2> QED BY <1>2, <2>1 DEF SelectSource, Provided
<1>3. CASE sources # <<>> /\ (~MustWait(cur, Looked, Provided)) /\ Provided = {}
  BY <1>3 DEF SelectSource, Provided
<1>4. CASE sources # <<>> /\ (~MustWait(cur, Looked, Provided)) /\ Provided # {}
  <2>1. o \in UNION {SelectAmong(cur, match, info, Looked, Provided) : info \in [read -> Data]}
    BY <1>4 DEF SelectSource, Provided
  <2>2. PICK info \in [read -> Data] : o \in SelectAmong(cur, match, info, Looked, Provided)
    BY <2>1
  <2>3. \A s \in Provided : info[s] \in Data
    BY <2>2
  <2>4. \/ o = Lost(cur, Statuses(Looked, Provided, {}, Known))
        \/ o \in Elect(cur, match, info, Survivors(info),
                       Statuses(Looked, Provided, Survivors(info), Provided \ Survivors(info)))
    BY <2>2 DEF SelectAmong, Survivors
  <2> QED BY <1>4, <2>3, <2>4
<1> QED BY <1>1, <1>2, <1>3, <1>4

LEMMA SurvivorsAre ==
  ASSUME DataAssumption, sources \in Seq(Source), NEW info, \A s \in Provided : info[s] \in Data, Provided # {}
  PROVE  Candidates(info, Survivors(info)) /\ \A s \in Survivors(info) : Fit(s)
<1> DEFINE J == [s \in Provided |-> info[s]]
<1>1. Provided \in SUBSET Known
  BY DEF Provided, Looked
<1>2. IsFiniteSet(Provided)
  BY <1>1, KnownFacts, FS_Subset
<1>3. Intervals(J)
  <2>1. \A s \in Provided : J[s].lo \in Int /\ J[s].hi \in Int /\ J[s].lo <= J[s].hi
    BY DataFacts
  <2> QED BY <1>2, <2>1 DEF Intervals
<1>4. Survivors(info) # {}
  <2> HIDE DEF J
  <2>1. Admissible(J, BestLo(J), BestHi(J)) # {}
    BY <1>3, SomeAdmissible
  <2> QED BY <2>1 DEF Survivors, J
<1>5. Survivors(info) \subseteq Provided
  BY DEF Survivors, Admissible
<1> QED BY <1>1, <1>4, <1>5 DEF Candidates, Fit, Provided, Looked

LEMMA SelectSourceSound ==
  ASSUME DataAssumption, SelectAssumption, SelectInv,
         NEW cur \in {0, selected_source_index}, NEW match, NEW o \in SelectSource(cur, match)
  PROVE  Sound(o)
<1>0. SelectTypeOK /\ SyncIsSelected /\ ReferenceFollowsSelection /\ sources \in Seq(Source)
  BY DEF SelectInv, SelectTypeOK
<1>1. CASE sources = <<>> /\ o = Lost(cur, status)
  <2>1. \A s \in Source : status[s] # "SRC_SYNC"
    BY <1>0, <1>1, SyncKnown, KnownFacts
  <2> QED BY <1>0, <1>1, <2>1, LostSound DEF SelectTypeOK
<1>2. ASSUME NEW good, NEW bad, o = Lost(cur, Statuses(Looked, Provided, good, bad)) PROVE Sound(o)
  <2>1. /\ Statuses(Looked, Provided, good, bad) \in [Source -> Status]
        /\ \A s \in Source : Statuses(Looked, Provided, good, bad)[s] # "SRC_SYNC"
    BY <1>0, StatusesFacts
  <2> QED BY <1>0, <1>2, <2>1, LostSound
<1>3. CASE cur = 0 /\ o = Outcome(cur, Statuses(Looked, Provided, {}, {}), sel_score, reference)
  <2> DEFINE st == Statuses(Looked, Provided, {}, {})
  <2>1. st \in [Source -> Status] /\ \A s \in Source : st[s] # "SRC_SYNC"
    BY <1>0, StatusesFacts
  <2>2. o.sel = 0 /\ o.status = st /\ o.score = sel_score
    BY <1>3, OutcomeFields
  <2> HIDE DEF st
  <2> QED BY <1>0, <2>1, <2>2, KnownFacts DEF Sound, Scores, SelectTypeOK
<1>4. ASSUME NEW info, \A s \in Provided : info[s] \in Data, Provided # {},
             o \in Elect(cur, match, info, Survivors(info),
                         Statuses(Looked, Provided, Survivors(info), Provided \ Survivors(info)))
      PROVE  Sound(o)
  <2> DEFINE st == Statuses(Looked, Provided, Survivors(info), Provided \ Survivors(info))
  <2>1. st \in [Source -> Status] /\ \A s \in Source : st[s] # "SRC_SYNC"
    BY <1>0, StatusesFacts
  <2>2. Candidates(info, Survivors(info)) /\ \A s \in Survivors(info) : Fit(s)
    BY <1>0, <1>4, SurvivorsAre
  <2> HIDE DEF st
  <2>3. o \in Elect(cur, match, info, Survivors(info), st)
    BY <1>4 DEF st
  <2> QED BY <1>0, <2>1, <2>2, <2>3, ElectSound
<1> QED BY <1>1, <1>2, <1>3, <1>4, SelectCases

LEMMA SelectSourceKeeps ==
  ASSUME DataAssumption, SelectAssumption, SelectInv, selected_source_index # 0,
         NEW o \in SelectSource(selected_source_index, NoMatch)
  PROVE  o.status[sources[selected_source_index]] # "SRC_SELECTABLE"
<1> DEFINE cur == selected_source_index
           s == sources[cur]
<1>0. /\ SelectTypeOK /\ SyncIsSelected /\ SelectedIsMax /\ sources \in Seq(Source)
      /\ cur \in 1 .. Len(sources) /\ s \in Source /\ s \in Known /\ sources # <<>>
  BY KnownFacts DEF SelectInv, SelectTypeOK
<1>2. ASSUME NEW good, NEW bad, s \notin good PROVE Statuses(Looked, Provided, good, bad)[s] # "SRC_SELECTABLE"
  BY <1>0, <1>2, StatusesFacts
<1>3. ASSUME NEW good, NEW bad, s \notin good, o = Lost(cur, Statuses(Looked, Provided, good, bad))
      PROVE  o.status[s] # "SRC_SELECTABLE"
  <2>1. o.status = Statuses(Looked, Provided, good, bad)
    BY <1>3, OutcomeFields DEF Lost
  <2> QED BY <1>2, <1>3, <2>1
<1>4. ASSUME NEW info, \A u \in Provided : info[u] \in Data, Provided # {},
             o \in Elect(cur, NoMatch, info, Survivors(info),
                         Statuses(Looked, Provided, Survivors(info), Provided \ Survivors(info)))
      PROVE  o.status[s] # "SRC_SELECTABLE"
  <2> DEFINE st == Statuses(Looked, Provided, Survivors(info), Provided \ Survivors(info))
             good == Survivors(info)
  <2>1. st \in [Source -> Status] /\ (s \notin good => st[s] # "SRC_SELECTABLE")
    BY <1>0, <1>2, StatusesFacts
  <2>2. good \subseteq Known
    BY <1>0, <1>4, SurvivorsAre DEF Candidates
  <2> HIDE DEF st, good
  <2>3. o \in Elect(cur, NoMatch, info, good, st)
    BY <1>4 DEF st, good
  <2>4. CASE s \in good
    BY <1>0, <2>1, <2>2, <2>3, <2>4, ElectKeeps
  <2>5. CASE s \notin good
    <3>1. \E f : \E i : \/ o = Elected(cur, NoMatch, st, i)
                        \/ sources[cur] \in good /\ o = Taken(cur, NoMatch, st, cur, f)
      BY <1>0, <2>3, ElectCases DEF Replaced
    <3>2. PICK f, i : o = Elected(cur, NoMatch, st, i)
      BY <2>5, <3>1
    <3>3. o.status = [st EXCEPT ![sources[i]] = "SRC_SYNC"]
      BY <3>2, OutcomeFields DEF Elected, Taken
    <3> QED BY <1>0, <2>1, <2>5, <3>3
  <2> QED BY <2>4, <2>5
<1>5. s \notin {} /\ cur # 0
  OBVIOUS
<1> QED BY <1>0, <1>3, <1>4, <1>5, SelectCases

-----------------------------------------------------------------------------
(* The operations. *)

LEMMA RemovedAt ==
  ASSUME NEW S, NEW q \in Seq(S), NEW p \in 1 .. Len(q)
  PROVE  /\ RemoveAt(q, p) \in Seq(S)
         /\ Len(RemoveAt(q, p)) = Len(q) - 1
         /\ \A i \in 1 .. Len(q) - 1 : RemoveAt(q, p)[i] = IF i < p THEN q[i] ELSE q[i + 1]
<1> DEFINE a == SubSeq(q, 1, p - 1)  b == SubSeq(q, p + 1, Len(q))
<1>1. a \in Seq(S) /\ Len(a) = p - 1 /\ \A i \in 1 .. p - 1 : a[i] = q[i]
  OBVIOUS
<1>2. b \in Seq(S) /\ Len(b) = Len(q) - p /\ \A i \in 1 .. Len(q) - p : b[i] = q[i + p]
  OBVIOUS
<1>3. RemoveAt(q, p) = a \o b
  BY DEF RemoveAt
<1> HIDE DEF a, b
<1>4. /\ a \o b \in Seq(S) /\ Len(a \o b) = Len(a) + Len(b)
      /\ \A i \in 1 .. Len(a) + Len(b) : (a \o b)[i] = IF i <= Len(a) THEN a[i] ELSE b[i - Len(a)]
  BY <1>1, <1>2, ConcatProperties
<1>5. Len(a) + Len(b) = Len(q) - 1
  BY <1>1, <1>2
<1>6. ASSUME NEW i \in 1 .. Len(q) - 1 PROVE (a \o b)[i] = IF i < p THEN q[i] ELSE q[i + 1]
  <2>1. CASE i < p
    BY <2>1, <1>1, <1>4, <1>5
  <2>2. CASE ~(i < p)
    <3>1. (a \o b)[i] = b[i - p + 1]
      <4>1. (a \o b)[i] = b[i - Len(a)] /\ i - Len(a) = i - p + 1
        BY <2>2, <1>1, <1>4, <1>5
      <4> QED BY <4>1
    <3>2. i - p + 1 \in 1 .. Len(q) - p /\ i - p + 1 + p = i + 1
      BY <2>2
    <3>3. b[i - p + 1] = q[i + 1]
      BY <3>2, <1>2
    <3> QED BY <2>2, <3>1, <3>3
  <2> QED BY <2>1, <2>2
<1> QED BY <1>3, <1>4, <1>5, <1>6

FieldTypes ==
  /\ sel_option \in [Source -> Option] /\ selectable \in [Source -> BOOLEAN]
  /\ reachability \in [Source -> Nat] /\ regression_ok \in [Source -> BOOLEAN]

\* A selection was made, and the table stays.
LEMMA SelectedInv ==
  ASSUME SelectInv, FieldTypes', sources' = sources, sel_option' = sel_option,
         NEW o, Sound(o), Becomes(o)
  PROVE  SelectInv'
<1>1. /\ selected_source_index' = o.sel /\ status' = o.status /\ sel_score' = o.score /\ reference' = o.ref
  BY DEF Becomes
<1>2. SelectTypeOK'
  BY <1>1 DEF SelectInv, SelectTypeOK, FieldTypes, Sound
<1>3. ASSUME NEW s \in Source PROVE IsSelected(s)' <=> (o.sel # 0 /\ sources[o.sel] = s)
  BY <1>1 DEF IsSelected, INVALID_SOURCE
<1>4. SyncIsSelected'
  <2>1. ASSUME NEW s \in Source PROVE status'[s] = "SRC_SYNC" <=> IsSelected(s)'
    BY <1>1, <1>3 DEF Sound
  <2>2. ASSUME NEW s \in Source, IsSelected(s)'
        PROVE  selectable'[s] /\ reachability'[s] # 0 /\ sel_option'[s] # "noselect"
    BY <1>3, <2>2 DEF Sound, Fit
  <2> QED BY <2>1, <2>2 DEF SyncIsSelected
<1>5. ReferenceFollowsSelection'
  BY <1>1 DEF ReferenceFollowsSelection, Sound, INVALID_SOURCE
<1>6. SelectedIsMax'
  BY <1>1 DEF SelectedIsMax, Sound, Scores
<1> QED BY <1>2, <1>4, <1>5, <1>6 DEF SelectInv

\* No selection was made, and the selected source is still fit.
LEMMA KeptInv ==
  ASSUME SelectInv, FieldTypes', UNCHANGED <<sources, sel_option, elected>>,
         \A s \in Source : IsSelected(s) => selectable'[s] /\ reachability'[s] # 0
  PROVE  SelectInv'
<1>1. /\ sources' = sources /\ sel_option' = sel_option /\ selected_source_index' = selected_source_index
      /\ status' = status /\ sel_score' = sel_score /\ reference' = reference
  BY DEF elected
<1>2. SelectTypeOK'
  BY <1>1 DEF SelectInv, SelectTypeOK, FieldTypes
<1>3. SyncIsSelected'
  BY <1>1 DEF SelectInv, SyncIsSelected, IsSelected, INVALID_SOURCE
<1>4. ReferenceFollowsSelection' /\ SelectedIsMax'
  BY <1>1 DEF SelectInv, ReferenceFollowsSelection, SelectedIsMax, INVALID_SOURCE
<1> QED BY <1>2, <1>3, <1>4 DEF SelectInv

\* What a step must not do to the selected source.
NoHop ==
  <<sources, selectable, reachability>>' # <<sources, selectable, reachability>> =>
    \A s : IsSelected(s) => status'[s] # "SRC_SELECTABLE"

LEMMA SelectedStatus ==
  ASSUME SelectInv, NEW s, IsSelected(s)
  PROVE  /\ s \in Source /\ s \in Known /\ selected_source_index \in 1 .. Len(sources)
         /\ sources[selected_source_index] = s /\ status[s] = "SRC_SYNC"
BY KnownFacts DEF SelectInv, SelectTypeOK, SyncIsSelected, IsSelected, INVALID_SOURCE

LEMMA ReselectStep ==
  ASSUME DataAssumption, SelectAssumption, SelectInv, FieldTypes', sources' = sources,
         sel_option' = sel_option, NEW s, ReselectIfSelected(s),
         \A u \in Source \ {s} : selectable'[u] = selectable[u] /\ reachability'[u] = reachability[u]
  PROVE  SelectInv' /\ NoHop
<1>1. CASE IsSelected(s)
  <2>1. PICK o \in SelectSource(selected_source_index, NoMatch) : Becomes(o)
    BY <1>1 DEF ReselectIfSelected
  <2>2. Sound(o)
    BY SelectSourceSound
  <2>3. SelectInv'
    BY <2>1, <2>2, SelectedInv
  <2>4. o.status[sources[selected_source_index]] # "SRC_SELECTABLE"
    BY <1>1, SelectSourceKeeps DEF IsSelected, INVALID_SOURCE
  <2>5. NoHop
    BY <2>1, <2>4, SelectedStatus DEF NoHop, Becomes
  <2> QED BY <2>3, <2>5
<1>2. CASE ~IsSelected(s)
  <2>1. UNCHANGED elected
    BY <1>2 DEF ReselectIfSelected
  <2>2. \A u \in Source : IsSelected(u) => selectable'[u] /\ reachability'[u] # 0
    BY <1>2 DEF SelectInv, SyncIsSelected
  <2>3. SelectInv'
    BY <2>1, <2>2, KeptInv
  <2>4. NoHop
    BY <2>1, SelectedStatus DEF NoHop, elected
  <2> QED BY <2>3, <2>4
<1> QED BY <1>1, <1>2

LEMMA NoHopWhenKept == SelectInv /\ status' = status => NoHop
BY SelectedStatus DEF NoHop

LEMMA CreateStep ==
  ASSUME SelectInv, OptionAssumption, NEW s \in Source, NEW option \in Option, SRC_CreateNewInstance(s, option)
  PROVE  SelectInv' /\ NoHop
<1> USE DEF SRC_CreateNewInstance
<1>0. /\ SelectTypeOK /\ SyncIsSelected /\ ReferenceFollowsSelection /\ SelectedIsMax
      /\ s \notin Known /\ sources \in Seq(Source) /\ Len(sources) \in Nat
  BY KnownFacts DEF SelectInv, SelectTypeOK
<1>1. /\ sources' \in Seq(Source) /\ Len(sources') = Len(sources) + 1
      /\ sources'[Len(sources) + 1] = s
      /\ \A i \in 1 .. Len(sources) : sources'[i] = sources[i]
  BY <1>0
<1>2. \A i, j \in 1 .. Len(sources') : sources'[i] = sources'[j] => i = j
  <2> SUFFICES ASSUME NEW i \in 1 .. Len(sources'), NEW j \in 1 .. Len(sources'), sources'[i] = sources'[j]
               PROVE  i = j
    OBVIOUS
  <2>1. \A k \in 1 .. Len(sources) : sources[k] # s
    BY <1>0, KnownFacts
  <2>2. (i = Len(sources) + 1 \/ i \in 1 .. Len(sources)) /\ (j = Len(sources) + 1 \/ j \in 1 .. Len(sources))
    BY <1>0, <1>1
  <2> QED BY <2>1, <2>2, <1>0, <1>1 DEF SelectTypeOK
<1>3. selected_source_index' = selected_source_index /\ selected_source_index \in 0 .. Len(sources)
      /\ selected_source_index' \in 0 .. Len(sources')
  BY <1>0, <1>1 DEF SelectTypeOK
<1>4. SelectTypeOK'
  BY <1>0, <1>1, <1>2, <1>3 DEF SelectTypeOK, Status, Level
<1>5. ASSUME NEW u PROVE /\ IsSelected(u)' <=> IsSelected(u)
                         /\ IsSelected(u) => u # s
  <2>1. IsSelected(u)' <=> IsSelected(u)
    BY <1>1, <1>3 DEF IsSelected, INVALID_SOURCE
  <2>2. IsSelected(u) => u # s
    BY <1>0, SelectedStatus DEF SelectInv
  <2> QED BY <2>1, <2>2
<1>6. SyncIsSelected'
  <2>1. ASSUME NEW u \in Source PROVE status'[u] = "SRC_SYNC" <=> IsSelected(u)'
    BY <1>0, <1>5 DEF SelectTypeOK, SyncIsSelected
  <2>2. ASSUME NEW u \in Source, IsSelected(u)'
        PROVE  selectable'[u] /\ reachability'[u] # 0 /\ sel_option'[u] # "noselect"
    BY <1>0, <1>5, <2>2 DEF SelectTypeOK, SyncIsSelected
  <2> QED BY <2>1, <2>2 DEF SyncIsSelected
<1>7. ReferenceFollowsSelection'
  BY <1>0, <1>1, <1>3 DEF ReferenceFollowsSelection, INVALID_SOURCE
<1>8. SelectedIsMax'
  <2>1. \A u \in Source : sel_score'[u] = 2 => u # s /\ sel_score[u] = 2
    BY <1>0 DEF SelectTypeOK
  <2>2. selected_source_index # 0 => /\ sources'[selected_source_index'] = sources[selected_source_index]
                                     /\ sources[selected_source_index] \in Source \ {s}
    BY <1>0, <1>1, <1>3, KnownFacts
  <2> QED BY <2>1, <2>2, <1>0, <1>3 DEF SelectedIsMax, SelectTypeOK
<1>9. NoHop
  BY <1>0, <1>5, SelectedStatus DEF NoHop, SelectTypeOK, SelectInv
<1> QED BY <1>4, <1>6, <1>7, <1>8, <1>9 DEF SelectInv

LEMMA SetSelectableStep ==
  ASSUME SelectInv, NEW s \in Source, SRC_SetSelectable(s)
  PROVE  SelectInv' /\ NoHop
<1> USE DEF SRC_SetSelectable
<1>1. FieldTypes'
  BY DEF SelectInv, SelectTypeOK, FieldTypes
<1>2. \A u \in Source : IsSelected(u) => selectable'[u] /\ reachability'[u] # 0
  BY DEF SelectInv, SelectTypeOK, SyncIsSelected
<1>3. SelectInv'
  BY <1>1, <1>2, KeptInv
<1> QED BY <1>3, NoHopWhenKept DEF elected

LEMMA UnsetSelectableStep ==
  ASSUME DataAssumption, SelectAssumption, SelectInv, NEW s \in Source, SRC_UnsetSelectable(s)
  PROVE  SelectInv' /\ NoHop
<1> USE DEF SRC_UnsetSelectable
<1>1. FieldTypes'
  BY DEF SelectInv, SelectTypeOK, FieldTypes
<1>2. \A u \in Source \ {s} : selectable'[u] = selectable[u] /\ reachability'[u] = reachability[u]
  BY DEF SelectInv, SelectTypeOK
<1>3. sources' = sources /\ sel_option' = sel_option /\ ReselectIfSelected(s)
  OBVIOUS
<1> QED BY <1>1, <1>2, <1>3, ReselectStep

\* A register that ends in one is not zero.
LEMMA OddRegister ==
  ASSUME SelectAssumption, NEW r \in Nat
  PROVE  (2 * r + 1) % REACH_SIZE \in Nat /\ (2 * r + 1) % REACH_SIZE # 0 /\ (2 * r + 0) % REACH_SIZE \in Nat
<1> DEFINE q == (2 * r + 1) \div REACH_SIZE
           e == (2 * r + 1) % REACH_SIZE
           h == REACH_SIZE \div 2
<1>0. REACH_SIZE \in Nat \ {0} /\ REACH_SIZE % 2 = 0
  BY DEF SelectAssumption
<1>1. 2 * r + 1 = REACH_SIZE * q + e /\ e \in Nat /\ q \in Int
  BY <1>0
<1>2. REACH_SIZE = 2 * h /\ h \in Int
  BY <1>0
<1>3. (2 * r + 0) % REACH_SIZE \in Nat
  BY <1>0
<1> HIDE DEF q, e, h
<1>4. e # 0
  <2> SUFFICES ASSUME e = 0 PROVE FALSE
    OBVIOUS
  <2>1. 2 * r + 1 = (2 * h) * q
    BY <1>1, <1>2
  <2>2. (2 * h) * q = 2 * (h * q) /\ h * q \in Int
    BY <1>1, <1>2
  <2> QED BY <2>1, <2>2
<1> QED BY <1>1, <1>3, <1>4 DEF e

LEMMA ReachabilityStep ==
  ASSUME DataAssumption, SelectAssumption, SelectInv, NEW s \in Source, NEW reachable \in {0, 1},
         SRC_UpdateReachability(s, reachable)
  PROVE  SelectInv' /\ NoHop
<1> USE DEF SRC_UpdateReachability
<1>0. reachability \in [Source -> Nat] /\ reachability[s] \in Nat
  BY DEF SelectInv, SelectTypeOK
<1>1. /\ reachability'[s] = (2 * reachability[s] + reachable) % REACH_SIZE
      /\ \A u \in Source \ {s} : reachability'[u] = reachability[u]
      /\ reachability' = [reachability EXCEPT ![s] = (2 * reachability[s] + reachable) % REACH_SIZE]
  BY <1>0
<1>2. reachability'[s] \in Nat /\ (reachable = 1 => reachability'[s] # 0)
  BY <1>0, <1>1, OddRegister
<1>3. FieldTypes'
  BY <1>0, <1>1, <1>2 DEF SelectInv, SelectTypeOK, FieldTypes
<1>4. sources' = sources /\ sel_option' = sel_option /\ selectable' = selectable
  OBVIOUS
<1>5. CASE reachable = 0
  <2>1. ReselectIfSelected(s)
    BY <1>5
  <2> QED BY <2>1, <1>1, <1>3, <1>4, ReselectStep
<1>6. CASE reachable = 1
  <2>1. UNCHANGED elected
    BY <1>6
  <2>2. \A u \in Source : IsSelected(u) => selectable'[u] /\ reachability'[u] # 0
    BY <1>1, <1>2, <1>4, <1>6 DEF SelectInv, SyncIsSelected
  <2>3. SelectInv'
    BY <2>1, <2>2, <1>3, <1>4, KeptInv
  <2> QED BY <2>1, <2>3, NoHopWhenKept DEF elected
<1> QED BY <1>5, <1>6

\* The removal of a source that is not the selected one, after the selection
\* that its loss caused.
LEMMA RemovalInv ==
  ASSUME SelectInv, FieldTypes', NEW dead \in 1 .. Len(sources), NEW o, Sound(o),
         o.sel # 0 => sources[o.sel] # sources[dead],
         sel_option' = [sel_option EXCEPT ![sources[dead]] = "normal"],
         sources' = RemoveAt(sources, dead),
         Becomes(Outcome(IndexWithout(o.sel, dead), [o.status EXCEPT ![sources[dead]] = "SRC_BAD_STATS"],
                         [o.score EXCEPT ![sources[dead]] = 1], o.ref))
  PROVE  SelectInv'
<1> DEFINE s == sources[dead]
           sel == IndexWithout(o.sel, dead)
<1>0. /\ SelectTypeOK /\ sources \in Seq(Source) /\ s \in Source /\ Len(sources) \in Nat
      /\ o.sel \in 0 .. Len(sources) /\ o.status \in [Source -> Status] /\ o.score \in [Source -> Level]
      /\ \A u \in Source : o.status[u] = "SRC_SYNC" <=> (o.sel # 0 /\ sources[o.sel] = u)
      /\ o.sel # 0 => Fit(sources[o.sel]) /\ o.ref = sources[o.sel]
      /\ sel_option \in [Source -> Option]
  BY DEF SelectInv, SelectTypeOK, Sound
<1>1. /\ selected_source_index' = sel /\ reference' = o.ref
      /\ status' = [o.status EXCEPT ![s] = "SRC_BAD_STATS"]
      /\ sel_score' = [o.score EXCEPT ![s] = 1]
  BY OutcomeFields DEF Becomes
<1>2. /\ sources' \in Seq(Source) /\ Len(sources') = Len(sources) - 1
      /\ \A i \in 1 .. Len(sources) - 1 : sources'[i] = IF i < dead THEN sources[i] ELSE sources[i + 1]
  BY <1>0, RemovedAt
<1>3. /\ sel \in 0 .. Len(sources') /\ (sel = 0 <=> o.sel = 0)
      /\ o.sel # 0 => sources'[sel] = sources[o.sel]
  <2>1. CASE o.sel = 0
    BY <1>0, <1>2, <2>1 DEF IndexWithout
  <2>2. CASE o.sel # 0 /\ o.sel > dead
    <3>1. sel = o.sel - 1 /\ sel \in 1 .. Len(sources) - 1 /\ ~(sel < dead)
      BY <1>0, <2>2 DEF IndexWithout
    <3> HIDE DEF sel
    <3>2. sources'[sel] = sources[sel + 1]
      BY <3>1, <1>2
    <3>3. sel + 1 = o.sel
      BY <3>1, <1>0
    <3> QED BY <3>1, <3>2, <3>3, <2>2, <1>2
  <2>3. CASE o.sel # 0 /\ ~(o.sel > dead)
    <3>0. o.sel # dead
      BY <2>3
    <3>1. sel = o.sel /\ sel \in 1 .. Len(sources) - 1 /\ sel < dead
      BY <1>0, <2>3, <3>0 DEF IndexWithout
    <3> HIDE DEF sel
    <3> QED BY <3>1, <1>2, <2>3
  <2> QED BY <2>1, <2>2, <2>3
<1> HIDE DEF sel
<1>4. \A i, j \in 1 .. Len(sources') : sources'[i] = sources'[j] => i = j
  <2> SUFFICES ASSUME NEW i \in 1 .. Len(sources'), NEW j \in 1 .. Len(sources'), sources'[i] = sources'[j]
               PROVE  i = j
    OBVIOUS
  <2> DEFINE a == IF i < dead THEN i ELSE i + 1
             b == IF j < dead THEN j ELSE j + 1
  <2>1. a \in 1 .. Len(sources) /\ b \in 1 .. Len(sources) /\ (a = b => i = j)
    BY <1>0, <1>2
  <2>2. sources[a] = sources[b]
    BY <1>0, <1>2
  <2> HIDE DEF a, b
  <2>3. a = b
    BY <2>1, <2>2, <1>0 DEF SelectTypeOK
  <2> QED BY <2>1, <2>3
<1>5. status' \in [Source -> Status] /\ sel_score' \in [Source -> Level]
  BY <1>0, <1>1 DEF Status, Level
<1>6. SelectTypeOK'
  BY <1>1, <1>2, <1>3, <1>4, <1>5 DEF SelectTypeOK, FieldTypes
<1>7. ASSUME NEW u \in Source PROVE IsSelected(u)' <=> (o.sel # 0 /\ sources[o.sel] = u)
  BY <1>1, <1>3 DEF IsSelected, INVALID_SOURCE
<1>8. SyncIsSelected'
  <2>1. ASSUME NEW u \in Source PROVE status'[u] = "SRC_SYNC" <=> IsSelected(u)'
    <3>1. CASE u = s
      <4>1. status'[u] = "SRC_BAD_STATS"
        BY <1>0, <1>1, <3>1
      <4> QED BY <4>1, <3>1, <1>7
    <3>2. CASE u # s
      <4>1. status'[u] = o.status[u]
        BY <1>0, <1>1, <3>2
      <4> QED BY <4>1, <1>0, <1>7
    <3> QED BY <3>1, <3>2
  <2>2. ASSUME NEW u \in Source, IsSelected(u)'
        PROVE  selectable'[u] /\ reachability'[u] # 0 /\ sel_option'[u] # "noselect"
    <3>1. o.sel # 0 /\ sources[o.sel] = u /\ u # s
      BY <1>7, <2>2
    <3> QED BY <3>1, <1>0 DEF Fit
  <2> QED BY <2>1, <2>2 DEF SyncIsSelected
<1>9. ReferenceFollowsSelection'
  BY <1>0, <1>1, <1>3 DEF ReferenceFollowsSelection, INVALID_SOURCE
<1>10. SelectedIsMax'
  <2> SUFFICES ASSUME sel # 0, NEW u \in Source, sel_score'[u] = 2 PROVE sel_score'[sources'[sel]] = 2
    BY <1>1 DEF SelectedIsMax
  <2>1. u # s /\ o.score[u] = 2
    BY <1>0, <1>1
  <2>2. o.sel # 0 /\ sources[o.sel] \in Source \ {s}
    BY <1>0, <1>3
  <2>3. o.score[sources[o.sel]] = 2
    BY <2>1, <2>2 DEF Sound, Scores
  <2> QED BY <2>2, <2>3, <1>0, <1>1, <1>3
<1> QED BY <1>6, <1>8, <1>9, <1>10 DEF SelectInv

LEMMA DestroyStep ==
  ASSUME DataAssumption, SelectAssumption, OptionAssumption, SelectInv, NEW s \in Source, SRC_DestroyInstance(s)
  PROVE  SelectInv' /\ NoHop
<1> USE DEF SRC_DestroyInstance
<1>0. /\ SelectTypeOK /\ SyncIsSelected /\ ReferenceFollowsSelection /\ SelectedIsMax
      /\ sources \in Seq(Source)
  BY DEF SelectInv, SelectTypeOK
<1>1. PICK dead \in 1 .. Len(sources),
           o \in IF IsSelected(s) THEN SelectSource(selected_source_index, NoMatch)
                 ELSE {Outcome(selected_source_index, status, sel_score, reference)} :
        /\ sources[dead] = s /\ sources' = RemoveAt(sources, dead)
        /\ Becomes(Outcome(IndexWithout(o.sel, dead), [o.status EXCEPT ![s] = "SRC_BAD_STATS"],
                           [o.score EXCEPT ![s] = 1], o.ref))
  OBVIOUS
<1>2. /\ FieldTypes' /\ selectable'[s] = FALSE /\ sel_option' = [sel_option EXCEPT ![s] = "normal"]
      /\ \A u \in Source \ {s} : selectable'[u] = selectable[u] /\ reachability'[u] = reachability[u]
  BY <1>0 DEF FieldTypes, SelectTypeOK, OptionAssumption
<1>3. status' = [o.status EXCEPT ![s] = "SRC_BAD_STATS"]
  BY <1>1, OutcomeFields DEF Becomes
<1>4. CASE IsSelected(s)
  <2>1. o \in SelectSource(selected_source_index, NoMatch)
    BY <1>1, <1>4
  <2>2. Sound(o)
    BY <2>1, SelectSourceSound
  <2>3. o.sel # 0 => sources[o.sel] # s
    BY <2>2, <1>2 DEF Sound, Fit
  <2>4. SelectInv'
    BY <1>1, <1>2, <2>2, <2>3, RemovalInv
  <2>5. ASSUME NEW u, IsSelected(u) PROVE status'[u] # "SRC_SELECTABLE"
    BY <1>3, <1>4, <2>2, <2>5 DEF IsSelected, Sound
  <2> QED BY <2>4, <2>5 DEF NoHop
<1>5. CASE ~IsSelected(s)
  <2>1. o = Outcome(selected_source_index, status, sel_score, reference)
    BY <1>1, <1>5
  <2>2. o.sel = selected_source_index /\ o.status = status /\ o.score = sel_score /\ o.ref = reference
    BY <2>1, OutcomeFields
  <2>3. o.sel # 0 => sources[o.sel] # s /\ sources[o.sel] \in Source
    BY <1>0, <1>5, <2>2, KnownFacts DEF IsSelected, SelectTypeOK, INVALID_SOURCE
  <2>4. Sound(o)
    <3>1. \A u \in Source : o.status[u] = "SRC_SYNC" <=> (o.sel # 0 /\ sources[o.sel] = u)
      BY <1>0, <2>2 DEF SyncIsSelected, IsSelected, INVALID_SOURCE
    <3>2. o.sel # 0 => IsSelected(sources[o.sel])
      BY <2>2 DEF IsSelected, INVALID_SOURCE
    <3>3. o.sel # 0 => Fit(sources[o.sel]) /\ o.ref = sources[o.sel]
      BY <1>0, <1>2, <2>2, <2>3, <3>2 DEF Fit, SyncIsSelected, ReferenceFollowsSelection, INVALID_SOURCE
    <3>4. Scores(o)
      BY <1>0, <2>2 DEF Scores, SelectedIsMax
    <3> QED BY <1>0, <2>2, <3>1, <3>3, <3>4 DEF Sound, SelectTypeOK
  <2>5. SelectInv'
    BY <1>1, <1>2, <2>3, <2>4, RemovalInv
  <2>6. ASSUME NEW u, IsSelected(u) PROVE status'[u] # "SRC_SELECTABLE"
    <3>1. u \in Source /\ status[u] = "SRC_SYNC" /\ u # s
      BY <1>5, <2>6, SelectedStatus
    <3> QED BY <3>1, <1>0, <1>3, <2>2 DEF SelectTypeOK
  <2> QED BY <2>5, <2>6 DEF NoHop
<1> QED BY <1>4, <1>5

LEMMA AccumulateStep ==
  ASSUME DataAssumption, SelectAssumption, SelectInv, NEW s \in Source, SRC_AccumulateSample(s)
  PROVE  SelectInv' /\ NoHop
<1> USE DEF SRC_AccumulateSample
<1>1. FieldTypes'
  BY DEF SelectInv, SelectTypeOK, FieldTypes
<1>2. PICK o \in SelectSource(selected_source_index, s) : Becomes(o)
  OBVIOUS
<1>3. Sound(o)
  BY SelectSourceSound
<1>4. SelectInv'
  BY <1>1, <1>2, <1>3, SelectedInv
<1> QED BY <1>4 DEF NoHop

LEMMA ReselectSourceStep ==
  ASSUME DataAssumption, SelectAssumption, SelectInv, SRC_ReselectSource
  PROVE  SelectInv' /\ NoHop
<1> USE DEF SRC_ReselectSource
<1>1. FieldTypes' /\ sources' = sources /\ sel_option' = sel_option
      /\ selectable' = selectable /\ reachability' = reachability
  BY DEF SelectInv, SelectTypeOK, FieldTypes, fields
<1>2. PICK o \in SelectSource(0, NoMatch) : Becomes(o)
  BY DEF INVALID_SOURCE
<1>3. Sound(o)
  BY SelectSourceSound
<1>4. SelectInv'
  BY <1>1, <1>2, <1>3, SelectedInv
<1> QED BY <1>1, <1>4 DEF NoHop

LEMMA ReloadStep ==
  ASSUME SelectInv, SRC_ReloadSources
  PROVE  SelectInv' /\ NoHop
<1> USE DEF SRC_ReloadSources
<1>1. regression_ok' \in [Source -> BOOLEAN]
  <2>1. PICK S \in SUBSET Known : regression_ok' = [s \in Source |-> s \in S]
    OBVIOUS
  <2> QED BY <2>1
<1>2. FieldTypes'
  BY <1>1 DEF SelectInv, SelectTypeOK, FieldTypes
<1>3. SelectInv'
  BY <1>2, KeptInv DEF SelectInv, SyncIsSelected
<1> QED BY <1>3, NoHopWhenKept DEF elected

LEMMA SelectInitInv == OptionAssumption /\ Init => SelectInv
<1> SUFFICES ASSUME OptionAssumption, Init PROVE SelectInv
  OBVIOUS
<1>1. SelectTypeOK
  BY DEF Init, SelectTypeOK, OptionAssumption, Status, Level, INVALID_SOURCE
<1>2. SyncIsSelected /\ ReferenceFollowsSelection /\ SelectedIsMax
  BY DEF Init, SyncIsSelected, ReferenceFollowsSelection, SelectedIsMax, IsSelected, INVALID_SOURCE
<1> QED BY <1>1, <1>2 DEF SelectInv

LEMMA SelectStep ==
  DataAssumption /\ SelectAssumption /\ OptionAssumption /\ SelectInv /\ Next => SelectInv' /\ NoHop
<1> SUFFICES ASSUME DataAssumption, SelectAssumption, OptionAssumption, SelectInv, Next
             PROVE  SelectInv' /\ NoHop
  OBVIOUS
<1>1. CASE \E s \in Source : \E option \in Option : SRC_CreateNewInstance(s, option)
  BY <1>1, CreateStep
<1>2. CASE \E s \in Source : SRC_DestroyInstance(s)
  BY <1>2, DestroyStep
<1>3. CASE \E s \in Source : SRC_SetSelectable(s)
  BY <1>3, SetSelectableStep
<1>4. CASE \E s \in Source : SRC_UnsetSelectable(s)
  BY <1>4, UnsetSelectableStep
<1>5. CASE \E s \in Source : \E reachable \in {0, 1} : SRC_UpdateReachability(s, reachable)
  BY <1>5, ReachabilityStep
<1>6. CASE \E s \in Source : SRC_AccumulateSample(s)
  BY <1>6, AccumulateStep
<1>7. CASE SRC_ReselectSource
  BY <1>7, ReselectSourceStep
<1>8. CASE SRC_ReloadSources
  BY <1>8, ReloadStep
<1> QED BY <1>1, <1>2, <1>3, <1>4, <1>5, <1>6, <1>7, <1>8 DEF Next

LEMMA SelectStutter == SelectInv /\ UNCHANGED vars => SelectInv' /\ NoHop
<1> SUFFICES ASSUME SelectInv, UNCHANGED vars PROVE SelectInv' /\ NoHop
  OBVIOUS
<1>1. FieldTypes' /\ UNCHANGED <<sources, sel_option, elected, selectable, reachability>>
  BY DEF SelectInv, SelectTypeOK, FieldTypes, vars, fields, elected
<1>2. SelectInv'
  BY <1>1, KeptInv DEF SelectInv, SyncIsSelected
<1> QED BY <1>1, <1>2 DEF NoHop
=============================================================================

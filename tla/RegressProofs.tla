--------------------------- MODULE RegressProofs ----------------------------
(***************************************************************************)
(* Proofs about the part of Measurements that is a regression: for arrays  *)
(* of any length the quicksort finds what it looks for, the regression     *)
(* stays within its tables, and the search for the slope keeps the root.   *)
(***************************************************************************)
EXTENDS Measurements, FiniteSetTheorems, SequenceTheorems, WellFoundedInduction, TLAPS

-----------------------------------------------------------------------------
(* Least elements. *)

LEMMA LeastExists ==
  ASSUME NEW S \in SUBSET Nat, S # {}
  PROVE  Min(S) \in S /\ \A y \in S : Min(S) <= y
<1>1. PICK w \in S : \A y \in S : ~(<<y, w>> \in OpToRel(<, Nat))
  BY NatLessThanWellFounded, WFMin, Zenon
<1>2. \A y \in S : <<y, w>> \notin {p \in Nat \X Nat : p[1] < p[2]}
  BY <1>1 DEF OpToRel
<1>3. ASSUME NEW y \in S PROVE w <= y
  <2>1. <<y, w>> \in Nat \X Nat /\ w \in Nat /\ y \in Nat
    OBVIOUS
  <2>2. ~(<<y, w>>[1] < <<y, w>>[2])
    BY <1>2, <2>1
  <2> QED BY <2>1, <2>2
<1> QED BY <1>3 DEF Min

LEMMA SlotsFinite ==
  ASSUME NEW u \in Nat
  PROVE  IsFiniteSet(0 .. u - 1) /\ Cardinality(0 .. u - 1) = u
<1> DEFINE b == u - 1
<1>1. b \in Int /\ (0 > b => u = 0) /\ b - 0 + 1 = u
  OBVIOUS
<1> HIDE DEF b
<1>2. IsFiniteSet(0 .. b) /\ Cardinality(0 .. b) = IF 0 > b THEN 0 ELSE b - 0 + 1
  BY <1>1, FS_Interval
<1>3. IsFiniteSet(0 .. b) /\ Cardinality(0 .. b) = u
  BY <1>1, <1>2
<1> QED BY <1>3 DEF b

-----------------------------------------------------------------------------
(* The quicksort.  Arrays have n entries. *)

Array(n) == [0 .. n - 1 -> Int]
Arranging(n) == Bijection(0 .. n - 1, 0 .. n - 1)
Permuted(a, b, n) == \E g \in Arranging(n) : \A k \in 0 .. n - 1 : a[k] = b[g[k]]

\* No entry before i is greater, none after it less.
Placed(a, n, i) == \A k \in 0 .. n - 1 : (k < i => a[k] <= a[i]) /\ (k > i => a[k] >= a[i])

\* The entries before u .. v are not greater than those in it, those after not less.
Bounded(a, n, u, v) ==
  \A j \in u .. v : \A k \in 0 .. n - 1 : (k < u => a[k] <= a[j]) /\ (k > v => a[k] >= a[j])

\* c is a with the entries at i and k exchanged.
Exchanged(c, a, i, k, n, T) ==
  /\ c \in [0 .. n - 1 -> T]
  /\ c[i] = a[k] /\ c[k] = a[i]
  /\ \A j \in 0 .. n - 1 : j # i /\ j # k => c[j] = a[j]

LEMMA SwapIs ==
  ASSUME NEW n \in Nat, NEW T, NEW a \in [0 .. n - 1 -> T], NEW i \in 0 .. n - 1, NEW k \in 0 .. n - 1
  PROVE  Exchanged(Reg!Swap(a, i, k), a, i, k, n, T)
BY DEF Reg!Swap, Exchanged

LEMMA SwapPermutes ==
  ASSUME NEW n \in Nat, NEW a \in Array(n), NEW b \in Array(n), Permuted(a, b, n),
         NEW i \in 0 .. n - 1, NEW k \in 0 .. n - 1
  PROVE  Permuted(Reg!Swap(a, i, k), b, n)
<1> DEFINE D == 0 .. n - 1
<1>1. PICK g \in Arranging(n) : \A j \in D : a[j] = b[g[j]]
  BY DEF Permuted
<1>2. g \in [D -> D] /\ (\A p, q \in D : g[p] = g[q] => p = q) /\ \A t \in D : \E p \in D : g[p] = t
  BY DEF Arranging, Bijection, Injection, Surjection, IsInjective
<1> DEFINE h == Reg!Swap(g, i, k)  c == Reg!Swap(a, i, k)
<1>3. h \in [D -> D] /\ h[i] = g[k] /\ h[k] = g[i] /\ \A j \in D : j # i /\ j # k => h[j] = g[j]
  <2>1. Exchanged(h, g, i, k, n, D)
    BY <1>2, SwapIs
  <2> QED BY <2>1 DEF Exchanged
<1>4. c[i] = a[k] /\ c[k] = a[i] /\ \A j \in D : j # i /\ j # k => c[j] = a[j]
  <2>1. a \in [D -> Int]
    BY DEF Array
  <2>2. Exchanged(c, a, i, k, n, Int)
    BY <2>1, SwapIs
  <2> QED BY <2>2 DEF Exchanged
<1> HIDE DEF h, c, D
<1>5. i \in D /\ k \in D
  BY DEF D
<1>6. \A p, q \in D : h[p] = h[q] => p = q
  BY <1>2, <1>3, <1>5
<1>7. ASSUME NEW t \in D PROVE \E p \in D : h[p] = t
  <2>1. PICK p \in D : g[p] = t
    BY <1>2
  <2>2. CASE p = i
    BY <1>3, <1>5, <2>1, <2>2
  <2>3. CASE p = k
    BY <1>3, <1>5, <2>1, <2>3
  <2>4. CASE p # i /\ p # k
    BY <1>3, <2>1, <2>4
  <2> QED BY <2>2, <2>3, <2>4
<1>8. h \in Arranging(n)
  BY <1>3, <1>6, <1>7 DEF Arranging, Bijection, Injection, Surjection, IsInjective, D
<1>9. \A j \in D : c[j] = b[h[j]]
  BY <1>1, <1>3, <1>4, <1>5
<1>10. Permuted(c, b, n)
  BY <1>8, <1>9 DEF Permuted, D
<1> QED BY <1>10 DEF c

\* As many entries of both are in a set.
EntriesIn(a, n, T) == Cardinality({k \in 0 .. n - 1 : a[k] \in T})

LEMMA PermutedCounts ==
  ASSUME NEW n \in Nat, NEW a, NEW b, Permuted(a, b, n), NEW T
  PROVE  EntriesIn(a, n, T) = EntriesIn(b, n, T)
<1> DEFINE D == 0 .. n - 1  A == {k \in D : a[k] \in T}  B == {k \in D : b[k] \in T}
<1>1. PICK g \in Arranging(n) : \A j \in D : a[j] = b[g[j]]
  BY DEF Permuted
<1>2. g \in [D -> D] /\ (\A p, q \in D : g[p] = g[q] => p = q) /\ \A t \in D : \E p \in D : g[p] = t
  BY DEF Arranging, Bijection, Injection, Surjection, IsInjective
<1>3. IsFiniteSet(A)
  <2>1. IsFiniteSet(D)
    BY SlotsFinite
  <2>2. A \in SUBSET D
    OBVIOUS
  <2> HIDE DEF A, D
  <2> QED BY <2>1, <2>2, FS_Subset
<1> HIDE DEF D
<1> DEFINE h == [k \in A |-> g[k]]
<1>4. h \in [A -> B] /\ \A k \in A : h[k] = g[k]
  BY <1>1, <1>2
<1>5. \A p, q \in A : h[p] = h[q] => p = q
  BY <1>2, <1>4
<1>6. ASSUME NEW t \in B PROVE \E p \in A : h[p] = t
  <2>1. PICK p \in D : g[p] = t
    BY <1>2
  <2>2. p \in A
    BY <1>1, <2>1
  <2> QED BY <1>4, <2>1, <2>2
<1> HIDE DEF h, A, B
<1>7. h \in Bijection(A, B)
  BY <1>4, <1>5, <1>6 DEF Bijection, Injection, Surjection, IsInjective
<1>8. ExistsBijection(A, B)
  BY <1>7 DEF ExistsBijection
<1>9. Cardinality(A) = Cardinality(B)
  BY <1>3, <1>8, FS_Bijection
<1> QED BY <1>9 DEF A, B, D, EntriesIn

LEMMA SameCardinalityReg == \A S : Reg!Cardinality(S) = Cardinality(S)
BY DEF Reg!Cardinality, Cardinality

\* What is placed is where a sorted array has it.
LEMMA PlacedIsInPlace ==
  ASSUME NEW n \in Nat, x \in Array(n), x0 \in Array(n), Permuted(x, x0, n), NEW i \in 0 .. n - 1, Placed(x, n, i)
  PROVE  Reg!InPlace(i)
<1> DEFINE D == 0 .. n - 1
           Less == {w \in Int : w < x[i]}
           AtMost == {w \in Int : w <= x[i]}
<1>1. DOMAIN x0 = D /\ (\A k \in D : x0[k] \in Int /\ x[k] \in Int) /\ i \in Int /\ i >= 0 /\ i < n
  BY DEF Array
<1>2. \A S \in SUBSET D : IsFiniteSet(S) /\ Cardinality(S) \in Nat
  <2>1. IsFiniteSet(D)
    BY SlotsFinite
  <2> HIDE DEF D
  <2> QED BY <2>1, FS_Subset, FS_CardinalityType
<1>3. Cardinality({k \in D : x0[k] \in Less}) <= i
  <2> DEFINE S == {k \in D : x[k] \in Less}
  <2>1. Cardinality({k \in D : x0[k] \in Less}) = Cardinality(S)
    <3>1. EntriesIn(x, n, Less) = EntriesIn(x0, n, Less)
      BY PermutedCounts
    <3> QED BY <3>1 DEF EntriesIn
  <2>2. S \in SUBSET (0 .. i - 1)
    <3> SUFFICES ASSUME NEW k \in S PROVE k \in 0 .. i - 1
      OBVIOUS
    <3>1. k \in D /\ x[k] < x[i] /\ x[k] \in Int /\ x[i] \in Int
      BY <1>1
    <3>2. ~(k > i) /\ k # i
      BY <3>1 DEF Placed
    <3> QED BY <1>1, <3>1, <3>2
  <2>3. IsFiniteSet(0 .. i - 1) /\ Cardinality(0 .. i - 1) = i
    BY SlotsFinite
  <2>4. Cardinality(S) <= i
    <3> HIDE DEF S
    <3> QED BY <2>2, <2>3, FS_Subset
  <2> QED BY <2>1, <2>4
<1>4. Cardinality({k \in D : x0[k] \in AtMost}) > i
  <2> DEFINE S == {k \in D : x[k] \in AtMost}  m == i + 1
  <2>1. Cardinality({k \in D : x0[k] \in AtMost}) = Cardinality(S)
    <3>1. EntriesIn(x, n, AtMost) = EntriesIn(x0, n, AtMost)
      BY PermutedCounts
    <3> QED BY <3>1 DEF EntriesIn
  <2>2. 0 .. m - 1 \in SUBSET S
    <3> SUFFICES ASSUME NEW k \in 0 .. m - 1 PROVE k \in S
      OBVIOUS
    <3>1. k \in D /\ k <= i /\ k \in Int /\ x[k] \in Int /\ x[i] \in Int
      BY <1>1
    <3>2. x[k] <= x[i]
      <4>1. CASE k = i
        BY <3>1, <4>1
      <4>2. CASE k < i
        BY <3>1, <4>2 DEF Placed
      <4> QED BY <1>1, <3>1, <4>1, <4>2
    <3> QED BY <3>1, <3>2
  <2>3. m \in Nat /\ m = i + 1
    BY <1>1
  <2>4. S \in SUBSET D
    OBVIOUS
  <2>5. IsFiniteSet(S) /\ Cardinality(S) \in Nat
    BY <1>2, <2>4
  <2> HIDE DEF S, m
  <2>6. Cardinality(0 .. m - 1) = m
    BY <2>3, SlotsFinite
  <2>7. Cardinality(0 .. m - 1) <= Cardinality(S)
    BY <2>2, <2>5, FS_Subset
  <2> QED BY <1>1, <2>1, <2>3, <2>5, <2>6, <2>7 DEF S
<1>5. {k \in DOMAIN x0 : x0[k] < x[i]} = {k \in D : x0[k] \in Less}
  BY <1>1
<1>6. {k \in DOMAIN x0 : x0[k] <= x[i]} = {k \in D : x0[k] \in AtMost}
  BY <1>1
<1> QED BY <1>3, <1>4, <1>5, <1>6, SameCardinalityReg DEF Reg!InPlace

-----------------------------------------------------------------------------
(* The regression and the slope. *)

RegInv ==
  /\ reg \in [n : Nat, m : Nat, start : Nat, nruns : Int, done : BOOLEAN]
  /\ reg.n = 0 => reg.done
  /\ reg.n > 0 =>
       /\ reg.n - reg.start >= 3
       /\ reg.n <= MAX_POINTS /\ reg.n * REGRESS_RUNS_RATIO < Reg!CriticalSize
       /\ reg.done => reg.nruns <= reg.n - reg.start

SlopeInv ==
  /\ slope \in [phase : {"idle", "expand", "bisect", "done"}, lo : Int, hi : Int,
                rlo : {-1, 0, 1}, rhi : {-1, 0, 1}, mid : Int, rmid : {-1, 0, 1}]
  /\ slope.phase = "bisect" => slope.rlo * slope.rhi < 0
  /\ slope.phase = "done" /\ slope.rmid # 0 => slope.rlo * slope.rhi < 0

LEMMA Multiples ==
  ASSUME NEW k \in Nat, NEW j \in Nat, k <= j, NEW b \in Nat \ {0}
  PROVE  k <= k * b /\ k * b <= j * b /\ k * b \in Nat /\ j * b \in Nat
<1>1. j * b = k * b + (j - k) * b
  OBVIOUS
<1>2. (j - k) * b >= 0
  OBVIOUS
<1>3. k * b = k + k * (b - 1)
  OBVIOUS
<1>4. k * (b - 1) >= 0
  OBVIOUS
<1>5. k * b \in Nat /\ j * b \in Nat /\ (j - k) * b \in Int /\ k * (b - 1) \in Int
  OBVIOUS
<1> QED BY <1>1, <1>2, <1>3, <1>4, <1>5

\* The residuals of the regression in progress.
LEMMA ResidualsAre ==
  ASSUME RegInv, reg.n > 0
  PROVE  /\ Reg!ResidStart(reg) \in Int
         /\ Reg!ResidStart(reg) >= -reg.m /\ Reg!ResidStart(reg) <= reg.start
         /\ reg.n - Reg!ResidStart(reg) \in 1 .. MAX_POINTS * REGRESS_RUNS_RATIO
         /\ reg.n - Reg!ResidStart(reg) < Reg!CriticalSize
<1> DEFINE k == reg.n - reg.start
           kb == k * REGRESS_RUNS_RATIO
           nb == reg.n * REGRESS_RUNS_RATIO
           mb == MAX_POINTS * REGRESS_RUNS_RATIO
           s == Reg!ResidStart(reg)
<1>1. reg.n \in Nat /\ reg.m \in Nat /\ reg.start \in Nat /\ k \in Nat /\ k >= 3 /\ k <= reg.n
  BY DEF RegInv
<1>2. REGRESS_RUNS_RATIO \in Nat \ {0} /\ MAX_POINTS \in Nat /\ Reg!CriticalSize \in Nat
  BY MeasurementAssumption DEF Reg!RegressAssumption, Reg!CriticalSize
<1>3. reg.n <= MAX_POINTS /\ nb < Reg!CriticalSize
  BY DEF RegInv
<1>4. s = IF reg.n - kb < -reg.m THEN -reg.m ELSE reg.n - kb
  BY DEF Reg!ResidStart
<1>5. k = reg.n - reg.start
  OBVIOUS
<1> HIDE DEF k
<1>6. k <= kb /\ kb <= nb /\ kb \in Nat /\ nb \in Nat
  BY <1>1, <1>2, Multiples
<1>7. nb <= mb /\ mb \in Nat
  BY <1>1, <1>2, <1>3, Multiples
<1> HIDE DEF kb, nb, mb, s
<1>8. s \in Int /\ s >= -reg.m /\ s <= reg.start
  BY <1>1, <1>4, <1>5, <1>6
<1>9. reg.n - s >= 1 /\ reg.n - s <= kb
  BY <1>1, <1>4, <1>5, <1>6
<1>10. reg.n - s \in 1 .. mb /\ reg.n - s < Reg!CriticalSize
  BY <1>1, <1>2, <1>3, <1>6, <1>7, <1>8, <1>9
<1> QED BY <1>8, <1>10 DEF s, mb

LEMMA StartRegressionStep ==
  ASSUME RegInv, NEW p \in Points, Reg!StartRegression(p)
  PROVE  RegInv'
<1>1. p.n \in Nat /\ p.m \in Nat /\ p.n <= MAX_POINTS /\ p.n * REGRESS_RUNS_RATIO < Reg!CriticalSize /\ p.n >= 3
  BY MeasurementAssumption DEF Reg!RegressAssumption, Reg!StartRegression, Reg!MIN_SAMPLES_FOR_REGRESS
<1>2. reg' = [n |-> p.n, m |-> p.m, start |-> 0, nruns |-> 0, done |-> FALSE]
  BY DEF Reg!StartRegression, Reg!NoReg
<1>3. Reg!CriticalSize' = Reg!CriticalSize
  BY DEF Reg!CriticalSize
<1> QED BY <1>1, <1>2, <1>3 DEF RegInv

LEMMA RunsTestStep ==
  ASSUME RegInv, Reg!RunsTest
  PROVE  RegInv'
<1> DEFINE count == reg.n - Reg!ResidStart(reg)
<1>1. reg \in [n : Nat, m : Nat, start : Nat, nruns : Int, done : BOOLEAN] /\ reg.n > 0 /\ ~reg.done
  BY DEF RegInv, Reg!RunsTest
<1>2. reg.n - reg.start >= 3 /\ reg.n <= MAX_POINTS /\ reg.n * REGRESS_RUNS_RATIO < Reg!CriticalSize
  BY <1>1 DEF RegInv
<1>3. Reg!ResidStart(reg) \in Int /\ Reg!ResidStart(reg) <= reg.start
  BY <1>1, ResidualsAre
<1>4. Reg!CriticalSize' = Reg!CriticalSize
  BY DEF Reg!CriticalSize
<1>5. PICK nruns \in {1, count}, critical \in Reg!Critical(count) :
        IF nruns > critical \/ reg.n - reg.start <= Reg!MIN_SAMPLES_FOR_REGRESS
        THEN \E own \in {1, reg.n - reg.start} :
               reg' = [reg EXCEPT !.done = TRUE, !.nruns = IF reg.start # Reg!ResidStart(reg) THEN own ELSE nruns]
        ELSE reg' = [reg EXCEPT !.start = @ + 1]
  BY DEF Reg!RunsTest
<1>6. nruns \in Int /\ (nruns = 1 \/ nruns = reg.n - Reg!ResidStart(reg))
  BY <1>1, <1>3, <1>5
<1>7. CASE nruns > critical \/ reg.n - reg.start <= Reg!MIN_SAMPLES_FOR_REGRESS
  <2>1. PICK own \in {1, reg.n - reg.start} :
          reg' = [reg EXCEPT !.done = TRUE, !.nruns = IF reg.start # Reg!ResidStart(reg) THEN own ELSE nruns]
    BY <1>5, <1>7
  <2> DEFINE w == IF reg.start # Reg!ResidStart(reg) THEN own ELSE nruns
  <2>2. w \in Int /\ w <= reg.n - reg.start
    BY <1>1, <1>2, <1>3, <1>6
  <2>3. reg' = [reg EXCEPT !.done = TRUE, !.nruns = w]
    BY <2>1
  <2> HIDE DEF w
  <2>4. /\ reg' \in [n : Nat, m : Nat, start : Nat, nruns : Int, done : BOOLEAN]
        /\ reg'.n = reg.n /\ reg'.start = reg.start /\ reg'.nruns = w /\ reg'.done = TRUE
    BY <1>1, <2>2, <2>3
  <2> QED BY <1>1, <1>2, <1>4, <2>2, <2>4 DEF RegInv
<1>8. CASE ~(nruns > critical \/ reg.n - reg.start <= Reg!MIN_SAMPLES_FOR_REGRESS)
  <2>1. reg' = [reg EXCEPT !.start = @ + 1]
    BY <1>5, <1>8
  <2>2. ~(reg.n - reg.start <= 3)
    BY <1>8 DEF Reg!MIN_SAMPLES_FOR_REGRESS
  <2>3. /\ reg' \in [n : Nat, m : Nat, start : Nat, nruns : Int, done : BOOLEAN]
        /\ reg'.n = reg.n /\ reg'.start = reg.start + 1 /\ reg'.done = reg.done
    BY <1>1, <2>1
  <2> QED BY <1>1, <1>2, <1>4, <2>2, <2>3 DEF RegInv
<1> QED BY <1>7, <1>8

LEMMA ExpandStep ==
  ASSUME SlopeInv, Reg!Expand
  PROVE  SlopeInv'
<1>1. PICK p \in {-1, 0, 1}, q \in {-1, 0, 1} :
        slope' = [slope EXCEPT !.lo = @ - Incr, !.hi = @ + Incr, !.rlo = p, !.rhi = q,
                               !.phase = IF p * q >= 0 THEN "expand" ELSE "bisect"]
  BY DEF Reg!Expand, Reg!Residual
<1>2. Incr \in Nat
  BY MeasurementAssumption DEF Reg!RegressAssumption
<1> DEFINE f == IF p * q >= 0 THEN "expand" ELSE "bisect"
<1>3. f \in {"expand", "bisect"} /\ (f = "bisect" => p * q < 0)
  OBVIOUS
<1>4. slope' = [slope EXCEPT !.lo = @ - Incr, !.hi = @ + Incr, !.rlo = p, !.rhi = q, !.phase = f]
  BY <1>1
<1> HIDE DEF f
<1>0. slope \in [phase : {"idle", "expand", "bisect", "done"}, lo : Int, hi : Int,
                 rlo : {-1, 0, 1}, rhi : {-1, 0, 1}, mid : Int, rmid : {-1, 0, 1}]
  BY DEF SlopeInv
<1>5. /\ slope' \in [phase : {"idle", "expand", "bisect", "done"}, lo : Int, hi : Int,
                     rlo : {-1, 0, 1}, rhi : {-1, 0, 1}, mid : Int, rmid : {-1, 0, 1}]
      /\ slope'.phase = f /\ slope'.rlo = p /\ slope'.rhi = q
  <2>1. slope.lo - Incr \in Int /\ slope.hi + Incr \in Int
    BY <1>0, <1>2
  <2> DEFINE lo == slope.lo - Incr  hi == slope.hi + Incr
  <2>2. slope' = [slope EXCEPT !.lo = lo, !.hi = hi, !.rlo = p, !.rhi = q, !.phase = f]
    BY <1>4
  <2>3. lo \in Int /\ hi \in Int
    BY <2>1
  <2> HIDE DEF lo, hi
  <2>4. p \in {-1, 0, 1} /\ q \in {-1, 0, 1} /\ f \in {"idle", "expand", "bisect", "done"}
    BY <1>3
  <2>5. slope' \in [phase : {"idle", "expand", "bisect", "done"}, lo : Int, hi : Int,
                    rlo : {-1, 0, 1}, rhi : {-1, 0, 1}, mid : Int, rmid : {-1, 0, 1}]
    BY <1>0, <2>2, <2>3, <2>4
  <2>6. slope'.phase = f /\ slope'.rlo = p /\ slope'.rhi = q
    BY <1>0, <2>2
  <2> QED BY <2>5, <2>6
<1> QED BY <1>3, <1>5 DEF SlopeInv

\* The half that is kept has the root, or it is found.
LEMMA HalfIs ==
  ASSUME SlopeInv, slope.phase = "bisect", NEW m \in Int, NEW q \in {-1, 0, 1}
  PROVE  /\ Reg!HalfWithRoot(slope, m, q) \in
              [phase : {"idle", "expand", "bisect", "done"}, lo : Int, hi : Int,
               rlo : {-1, 0, 1}, rhi : {-1, 0, 1}, mid : Int, rmid : {-1, 0, 1}]
         /\ Reg!HalfWithRoot(slope, m, q).phase = "bisect"
         /\ Reg!HalfWithRoot(slope, m, q).rlo * Reg!HalfWithRoot(slope, m, q).rhi < 0
<1> DEFINE h == Reg!HalfWithRoot(slope, m, q)
<1>1. /\ slope \in [phase : {"idle", "expand", "bisect", "done"}, lo : Int, hi : Int,
                    rlo : {-1, 0, 1}, rhi : {-1, 0, 1}, mid : Int, rmid : {-1, 0, 1}]
      /\ slope.rlo \in {-1, 0, 1} /\ slope.rhi \in {-1, 0, 1} /\ slope.rlo * slope.rhi < 0
  BY DEF SlopeInv
<1>2. CASE q = 0
  BY <1>1, <1>2 DEF Reg!HalfWithRoot
<1>3. CASE q # 0 /\ q * slope.rlo > 0
  <2>1. h = [slope EXCEPT !.lo = m, !.rlo = q]
    BY <1>3 DEF Reg!HalfWithRoot
  <2>2. q * slope.rhi < 0
    BY <1>1, <1>3
  <2> QED BY <1>1, <2>1, <2>2
<1>4. CASE q # 0 /\ ~(q * slope.rlo > 0)
  <2>1. q * slope.rhi > 0 /\ slope.rlo * q < 0
    BY <1>1, <1>4
  <2>2. h = [slope EXCEPT !.hi = m, !.rhi = q]
    BY <1>4, <2>1 DEF Reg!HalfWithRoot
  <2> QED BY <1>1, <2>1, <2>2
<1> QED BY <1>2, <1>3, <1>4

LEMMA BisectStep ==
  ASSUME SlopeInv, Reg!Bisect
  PROVE  SlopeInv'
<1> DEFINE m == (slope.lo + slope.hi) \div 2
<1>1. m \in Int /\ slope.phase = "bisect"
  BY DEF SlopeInv, Reg!Bisect
<1> HIDE DEF m
<1>2. PICK q \in {-1, 0, 1} :
        LET s == Reg!HalfWithRoot(slope, m, q)
            more == s.hi - s.lo > 1 /\ (m - s.lo) * (s.hi - m) > 0
        IN slope' = [s EXCEPT !.mid = m, !.rmid = q,
                              !.phase = IF @ # "failed" /\ (q = 0 \/ ~more) THEN "done" ELSE @]
  BY DEF Reg!Bisect, Reg!Residual, m
<1> DEFINE s == Reg!HalfWithRoot(slope, m, q)
           f == IF s.phase # "failed" /\ (q = 0 \/ ~(s.hi - s.lo > 1 /\ (m - s.lo) * (s.hi - m) > 0))
                THEN "done" ELSE s.phase
<1>3. /\ s \in [phase : {"idle", "expand", "bisect", "done"}, lo : Int, hi : Int,
                rlo : {-1, 0, 1}, rhi : {-1, 0, 1}, mid : Int, rmid : {-1, 0, 1}]
      /\ s.phase = "bisect" /\ s.rlo * s.rhi < 0
  BY <1>1, HalfIs
<1>4. slope' = [s EXCEPT !.mid = m, !.rmid = q, !.phase = f]
  BY <1>2
<1>5. f \in {"bisect", "done"}
  BY <1>3
<1> HIDE DEF s, f
<1>6. /\ slope' \in [phase : {"idle", "expand", "bisect", "done"}, lo : Int, hi : Int,
                     rlo : {-1, 0, 1}, rhi : {-1, 0, 1}, mid : Int, rmid : {-1, 0, 1}]
      /\ slope'.phase = f /\ slope'.rlo = s.rlo /\ slope'.rhi = s.rhi
  BY <1>1, <1>3, <1>4, <1>5
<1> QED BY <1>3, <1>6 DEF SlopeInv

\* What the invariants say is the property.
LEMMA RegressionIsHeld ==
  ASSUME RegInv, SlopeInv
  PROVE  Reg!RegressionHolds
<1>1. slope.phase # "failed"
  BY DEF SlopeInv
<1>2. reg.n > 0 => reg.n - reg.start >= 3 /\ (reg.done => reg.nruns <= reg.n - reg.start)
  BY DEF RegInv
<1> QED BY <1>1, <1>2, ResidualsAre DEF SlopeInv, Reg!RegressionHolds, Reg!MIN_SAMPLES_FOR_REGRESS

-----------------------------------------------------------------------------
(* The steps of the quicksort, on an array a with n entries. *)

\* Exchanges within u .. v keep what is bounded by it, and the entries outside.
LEMMA BoundedKept ==
  ASSUME NEW n \in Nat, NEW a \in Array(n), NEW u \in 0 .. n - 1, NEW v \in 0 .. n - 1,
         NEW i \in u .. v, NEW k \in u .. v, Bounded(a, n, u, v)
  PROVE  Bounded(Reg!Swap(a, i, k), n, u, v)
<1> DEFINE c == Reg!Swap(a, i, k)
<1>1. i \in 0 .. n - 1 /\ k \in 0 .. n - 1 /\ a \in [0 .. n - 1 -> Int]
  BY DEF Array
<1>2. Exchanged(c, a, i, k, n, Int)
  BY <1>1, SwapIs
<1> HIDE DEF c
<1>3. \A j \in u .. v : \E h \in u .. v : c[j] = a[h]
  <2> TAKE j \in u .. v
  <2>1. j = i \/ j = k \/ (j # i /\ j # k)
    OBVIOUS
  <2>2. j \in 0 .. n - 1
    OBVIOUS
  <2> QED BY <1>2, <2>1, <2>2 DEF Exchanged
<1>4. \A w \in 0 .. n - 1 : w < u \/ w > v => c[w] = a[w]
  BY <1>2 DEF Exchanged
<1>5. ASSUME NEW j \in u .. v, NEW w \in 0 .. n - 1
      PROVE  (w < u => c[w] <= c[j]) /\ (w > v => c[w] >= c[j])
  <2>1. PICK h \in u .. v : c[j] = a[h]
    BY <1>3
  <2>2. (w < u => a[w] <= a[h]) /\ (w > v => a[w] >= a[h])
    BY DEF Bounded
  <2> QED BY <1>4, <2>1, <2>2
<1>6. Bounded(c, n, u, v)
  BY <1>5 DEF Bounded
<1> QED BY <1>6 DEF c

LEMMA PlacedKept ==
  ASSUME NEW n \in Nat, NEW a \in Array(n), NEW u \in 0 .. n - 1, NEW v \in 0 .. n - 1,
         NEW i \in u .. v, NEW k \in u .. v, NEW w \in 0 .. n - 1, w < u \/ w > v, Placed(a, n, w)
  PROVE  Placed(Reg!Swap(a, i, k), n, w)
<1> DEFINE c == Reg!Swap(a, i, k)
<1>1. i \in 0 .. n - 1 /\ k \in 0 .. n - 1 /\ a \in [0 .. n - 1 -> Int]
  BY DEF Array
<1>2. Exchanged(c, a, i, k, n, Int)
  BY <1>1, SwapIs
<1> HIDE DEF c
<1>3. c[w] = a[w]
  BY <1>2 DEF Exchanged
<1>4. ASSUME NEW j \in 0 .. n - 1
      PROVE  (j < w => c[j] <= c[w]) /\ (j > w => c[j] >= c[w])
  <2>1. CASE j = i
    <3>1. c[j] = a[k] /\ (k < w <=> j < w) /\ (k > w <=> j > w)
      BY <1>2, <2>1 DEF Exchanged
    <3>2. (k < w => a[k] <= a[w]) /\ (k > w => a[k] >= a[w])
      BY <1>1 DEF Placed
    <3> QED BY <1>3, <3>1, <3>2
  <2>2. CASE j = k
    <3>1. c[j] = a[i] /\ (i < w <=> j < w) /\ (i > w <=> j > w)
      BY <1>2, <2>2 DEF Exchanged
    <3>2. (i < w => a[i] <= a[w]) /\ (i > w => a[i] >= a[w])
      BY <1>1 DEF Placed
    <3> QED BY <1>3, <3>1, <3>2
  <2>3. CASE j # i /\ j # k
    <3>1. c[j] = a[j]
      BY <1>2, <2>3 DEF Exchanged
    <3> QED BY <1>3, <3>1 DEF Placed
  <2> QED BY <2>1, <2>2, <2>3
<1>5. Placed(c, n, w)
  BY <1>4 DEF Placed
<1> QED BY <1>5 DEF c

\* What lies within its bounds and is in place in them is in place.
LEMMA PlacedWithin ==
  ASSUME NEW n \in Nat, NEW a, NEW u \in 0 .. n - 1, NEW v \in 0 .. n - 1, Bounded(a, n, u, v),
         NEW i \in u .. v, \A k \in u .. v : (k < i => a[k] <= a[i]) /\ (k > i => a[k] >= a[i])
  PROVE  Placed(a, n, i)
<1>1. ASSUME NEW k \in 0 .. n - 1 PROVE (k < i => a[k] <= a[i]) /\ (k > i => a[k] >= a[i])
  <2>1. CASE k \in u .. v
    BY <2>1
  <2>2. CASE k < u
    BY <2>2 DEF Bounded
  <2>3. CASE k > v
    BY <2>3 DEF Bounded
  <2> QED BY <2>1, <2>2, <2>3
<1> QED BY <1>1 DEF Placed

\* The entries between two that are in place, or the ends, are bounded.
LEMMA BoundedBetween ==
  ASSUME NEW n \in Nat, NEW a \in Array(n), NEW u \in 0 .. n - 1, NEW v \in 0 .. n - 1,
         u = 0 \/ Placed(a, n, u - 1), v = n - 1 \/ Placed(a, n, v + 1)
  PROVE  Bounded(a, n, u, v)
<1>1. \A k \in 0 .. n - 1 : a[k] \in Int
  BY DEF Array
<1>2. ASSUME NEW j \in u .. v, NEW k \in 0 .. n - 1
      PROVE  (k < u => a[k] <= a[j]) /\ (k > v => a[k] >= a[j])
  <2>0. j \in 0 .. n - 1
    OBVIOUS
  <2>1. ASSUME k < u PROVE a[k] <= a[j]
    <3>1. Placed(a, n, u - 1) /\ u - 1 \in 0 .. n - 1
      BY <2>1
    <3>2. a[u - 1] <= a[j]
      BY <2>0, <3>1 DEF Placed
    <3>3. k = u - 1 \/ a[k] <= a[u - 1]
      BY <2>1, <3>1 DEF Placed
    <3> QED BY <1>1, <2>0, <3>1, <3>2, <3>3
  <2>2. ASSUME k > v PROVE a[k] >= a[j]
    <3>1. Placed(a, n, v + 1) /\ v + 1 \in 0 .. n - 1
      BY <2>2
    <3>2. a[v + 1] >= a[j]
      BY <2>0, <3>1 DEF Placed
    <3>3. k = v + 1 \/ a[k] >= a[v + 1]
      BY <2>2, <3>1 DEF Placed
    <3> QED BY <1>1, <2>0, <3>1, <3>2, <3>3
  <2> QED BY <2>1, <2>2
<1> QED BY <1>2 DEF Bounded

\* The scans: what they have passed is on its side of the pivot at u.
Scanning(a, f) ==
  /\ f.v - f.u >= 2
  /\ f.l >= f.u + 1 /\ f.l <= f.v /\ f.r >= f.u /\ f.r <= f.v /\ f.l <= f.r + 1
  /\ \A k \in f.u + 1 .. f.l - 1 : a[k] <= a[f.u]
  /\ \A k \in f.r + 1 .. f.v : a[k] >= a[f.u]

SearchType(n) ==
  [phase : {"divide", "scan"}, index : 0 .. n - 1, u : 0 .. n - 1, v : 0 .. n - 1, l : Int, r : Int]

\* Where the scans of the search in progress stop.
Stopped ==
  /\ Reg!Left \in find.l .. find.v /\ (Reg!Left = find.v \/ x[Reg!Left] >= x[find.u])
  /\ \A k \in find.l .. Reg!Left - 1 : x[k] < x[find.u]
  /\ Reg!Right \in find.u .. find.r /\ x[Reg!Right] <= x[find.u]
  /\ \A k \in Reg!Right + 1 .. find.r : x[k] > x[find.u]

LEMMA ScansStop ==
  ASSUME NEW n \in Nat, x \in Array(n), find \in SearchType(n), Scanning(x, find)
  PROVE  Stopped
<1>1. /\ find.u \in 0 .. n - 1 /\ find.v \in 0 .. n - 1 /\ find.l \in Int /\ find.r \in Int
      /\ \A k \in 0 .. n - 1 : x[k] \in Int
  BY DEF SearchType, Array
<1>2. find.l >= find.u + 1 /\ find.l <= find.v /\ find.r >= find.u /\ find.r <= find.v
  BY DEF Scanning
<1>3. \E i \in find.l .. find.v :
        (i = find.v \/ x[i] >= x[find.u]) /\ \A k \in find.l .. i - 1 : x[k] < x[find.u]
  <2> DEFINE S == {i \in find.l .. find.v : i = find.v \/ x[i] >= x[find.u]}  m == Min(S)
  <2>1. find.v \in S /\ S \in SUBSET Nat
    BY <1>1, <1>2
  <2>2. m \in S /\ \A y \in S : m <= y
    <3> HIDE DEF S
    <3> QED BY <2>1, LeastExists
  <2> HIDE DEF m
  <2>3. ASSUME NEW k \in find.l .. m - 1 PROVE x[k] < x[find.u]
    <3>1. k \in find.l .. find.v /\ k \in 0 .. n - 1 /\ k < m /\ k # find.v
      BY <1>1, <1>2, <2>2
    <3>2. k \notin S
      <4> HIDE DEF S
      <4>1. m \in Int
        BY <2>1, <2>2
      <4> QED BY <2>2, <3>1, <4>1
    <3> QED BY <1>1, <3>1, <3>2
  <2> QED BY <2>2, <2>3
<1>4. \E i \in find.u .. find.r : x[i] <= x[find.u] /\ \A k \in i + 1 .. find.r : x[k] > x[find.u]
  <2> DEFINE S == {d \in 0 .. find.r - find.u : x[find.r - d] <= x[find.u]}  m == Min(S)
  <2>1. find.r - find.u \in S /\ S \in SUBSET Nat
    <3>1. find.r - find.u \in 0 .. find.r - find.u /\ find.r - (find.r - find.u) = find.u
      BY <1>1, <1>2
    <3>2. x[find.u] <= x[find.u]
      BY <1>1
    <3> QED BY <1>1, <3>1, <3>2
  <2>2. m \in S /\ \A y \in S : m <= y
    <3> HIDE DEF S
    <3> QED BY <2>1, LeastExists
  <2> HIDE DEF m
  <2>3. find.r - m \in find.u .. find.r /\ x[find.r - m] <= x[find.u]
    BY <1>1, <1>2, <2>2
  <2>4. ASSUME NEW k \in find.r - m + 1 .. find.r PROVE x[k] > x[find.u]
    <3>1. k \in find.u .. find.r /\ k \in 0 .. n - 1 /\ find.r - k \in 0 .. find.r - find.u /\ find.r - k < m
      BY <1>1, <1>2, <2>2
    <3>2. find.r - k \notin S
      <4> HIDE DEF S
      <4>1. m \in Int
        BY <2>1, <2>2
      <4> QED BY <2>2, <3>1, <4>1
    <3>3. find.r - (find.r - k) = k
      BY <1>1, <3>1
    <3> QED BY <1>1, <3>1, <3>2, <3>3
  <2> QED BY <2>3, <2>4
<1>5. /\ Reg!Left \in find.l .. find.v /\ (Reg!Left = find.v \/ x[Reg!Left] >= x[find.u])
      /\ \A k \in find.l .. Reg!Left - 1 : x[k] < x[find.u]
  BY <1>3 DEF Reg!Left
<1>6. /\ Reg!Right \in find.u .. find.r /\ x[Reg!Right] <= x[find.u]
      /\ \A k \in Reg!Right + 1 .. find.r : x[k] > x[find.u]
  BY <1>4 DEF Reg!Right
<1> QED BY <1>5, <1>6 DEF Stopped

LEMMA ExchangeScans ==
  ASSUME NEW n \in Nat, x \in Array(n), find \in SearchType(n), Scanning(x, find), Stopped, Reg!Left < Reg!Right,
         NEW f \in SearchType(n), f.u = find.u, f.v = find.v, f.l = Reg!Left + 1, f.r = Reg!Right - 1
  PROVE  /\ Reg!Left \in find.u .. find.v /\ Reg!Right \in find.u .. find.v
         /\ Scanning(Reg!Swap(x, Reg!Left, Reg!Right), f)
<1> DEFINE a == Reg!Left  b == Reg!Right  u == find.u  v == find.v  c == Reg!Swap(x, a, b)
<1>1. /\ u \in 0 .. n - 1 /\ v \in 0 .. n - 1 /\ find.l \in Int /\ find.r \in Int
      /\ x \in [0 .. n - 1 -> Int]
  BY DEF SearchType, Array
<1>2. /\ v - u >= 2 /\ find.l >= u + 1 /\ find.l <= v /\ find.r >= u /\ find.r <= v
      /\ \A k \in u + 1 .. find.l - 1 : x[k] <= x[u]
      /\ \A k \in find.r + 1 .. v : x[k] >= x[u]
  BY DEF Scanning
<1>3. /\ a \in find.l .. v /\ (a = v \/ x[a] >= x[u]) /\ \A k \in find.l .. a - 1 : x[k] < x[u]
      /\ b \in u .. find.r /\ x[b] <= x[u] /\ \A k \in b + 1 .. find.r : x[k] > x[u]
  BY DEF Stopped
<1>0. a < b
  OBVIOUS
<1> HIDE DEF a, b, u, v
<1>4.  a \in 0 .. n - 1 /\ b \in 0 .. n - 1 /\ a \in u + 1 .. v /\ b \in u + 1 .. v /\ a < b
  <2>1. u \in Int /\ u >= 0 /\ v \in Int /\ v <= n - 1 /\ find.l \in Int /\ find.r \in Int
    BY <1>1
  <2>2. find.l >= u + 1 /\ find.l <= v /\ find.r >= u /\ find.r <= v
    BY <1>2
  <2>3. a \in find.l .. v /\ b \in u .. find.r
    BY <1>3
  <2> QED BY <1>0, <2>1, <2>2, <2>3
<1>5. Exchanged(c, x, a, b, n, Int)
  BY <1>1, <1>4, SwapIs
<1> HIDE DEF c
<1>6. c[a] = x[b] /\ c[b] = x[a] /\ \A k \in 0 .. n - 1 : k # a /\ k # b => c[k] = x[k]
  BY <1>5 DEF Exchanged
<1>7. c[u] = x[u] /\ x[u] \in Int /\ x[a] >= x[u]
  BY <1>1, <1>3, <1>4, <1>6
<1>8. ASSUME NEW k \in u + 1 .. a PROVE c[k] <= c[u]
  <2>1. CASE k = a
    BY <1>3, <1>6, <1>7, <2>1
  <2>2. CASE k # a
    <3>1. k \in 0 .. n - 1 /\ k # b /\ k < a /\ k \in Int
      BY <1>1, <1>4, <2>2
    <3>2. c[k] = x[k] /\ x[k] \in Int
      BY <1>1, <1>6, <2>2, <3>1
    <3>3. CASE k < find.l
      BY <1>1, <1>2, <1>7, <3>1, <3>2, <3>3
    <3>4. CASE ~(k < find.l)
      <4>1. k \in find.l .. a - 1
        BY <1>1, <1>4, <3>1, <3>4
      <4> QED BY <1>3, <1>7, <3>2, <4>1
    <3> QED BY <3>3, <3>4
  <2> QED BY <2>1, <2>2
<1>9. ASSUME NEW k \in b .. v PROVE c[k] >= c[u]
  <2>1. CASE k = b
    BY <1>6, <1>7, <2>1
  <2>2. CASE k # b
    <3>1. k \in 0 .. n - 1 /\ k # a /\ k > b /\ k \in Int
      BY <1>1, <1>4, <2>2
    <3>2. c[k] = x[k] /\ x[k] \in Int
      BY <1>1, <1>6, <2>2, <3>1
    <3>3. CASE k > find.r
      <4>1. k \in find.r + 1 .. v
        BY <1>1, <3>1, <3>3
      <4> QED BY <1>2, <1>7, <3>2, <4>1
    <3>4. CASE ~(k > find.r)
      <4>1. k \in b + 1 .. find.r
        BY <1>1, <1>4, <3>1, <3>4
      <4> QED BY <1>3, <1>7, <3>2, <4>1
    <3> QED BY <3>3, <3>4
  <2> QED BY <2>1, <2>2
<1>10. f.u = u /\ f.v = v /\ f.l = a + 1 /\ f.r = b - 1
  BY DEF u, v, a, b
<1>11. (\A k \in f.u + 1 .. f.l - 1 : c[k] <= c[f.u]) /\ \A k \in f.r + 1 .. f.v : c[k] >= c[f.u]
  <2>1. (\A k \in u + 1 .. a : c[k] <= c[u]) /\ \A k \in b .. v : c[k] >= c[u]
    BY <1>8, <1>9
  <2>2. f.l - 1 = a /\ f.r + 1 = b
    BY <1>4, <1>10
  <2> QED BY <1>10, <2>1, <2>2
<1>12. f.v - f.u >= 2 /\ f.l >= f.u + 1 /\ f.l <= f.v /\ f.r >= f.u /\ f.r <= f.v /\ f.l <= f.r + 1
  BY <1>1, <1>2, <1>4, <1>10
<1>13. Scanning(c, f)
  BY <1>11, <1>12 DEF Scanning
<1>14. a \in u .. v /\ b \in u .. v
  BY <1>1, <1>4
<1> QED BY <1>13, <1>14 DEF a, b, u, v, c

\* The pivot at b: not less than what is before a, not greater than what is after b.
Divided(c, u, v, a, b) ==
  /\ a \in u .. v /\ b \in u .. v /\ b <= a /\ a <= b + 1
  /\ \A k \in u .. v : (k < b => c[k] <= c[b]) /\ (k > b => c[k] >= c[b]) /\ (k < a => c[k] <= c[b])

LEMMA PivotDivides ==
  ASSUME NEW n \in Nat, x \in Array(n), find \in SearchType(n), Scanning(x, find), Stopped, Reg!Right <= Reg!Left
  PROVE  /\ Divided(Reg!Swap(x, find.u, Reg!Right), find.u, find.v, Reg!Left, Reg!Right)
         /\ Reg!Left = Reg!Right /\ Reg!Left # find.v => x[Reg!Left] = x[find.u] /\ Reg!Left # find.u
<1> DEFINE a == Reg!Left  b == Reg!Right  u == find.u  v == find.v  c == Reg!Swap(x, u, b)
<1>1. /\ u \in 0 .. n - 1 /\ v \in 0 .. n - 1 /\ find.l \in Int /\ find.r \in Int
      /\ x \in [0 .. n - 1 -> Int]
  BY DEF SearchType, Array
<1>2. /\ v - u >= 2 /\ find.l >= u + 1 /\ find.l <= v /\ find.r >= u /\ find.r <= v /\ find.l <= find.r + 1
      /\ \A k \in u + 1 .. find.l - 1 : x[k] <= x[u]
      /\ \A k \in find.r + 1 .. v : x[k] >= x[u]
  BY DEF Scanning
<1>3. /\ a \in find.l .. v /\ (a = v \/ x[a] >= x[u]) /\ \A k \in find.l .. a - 1 : x[k] < x[u]
      /\ b \in u .. find.r /\ x[b] <= x[u] /\ \A k \in b + 1 .. find.r : x[k] > x[u]
  BY DEF Stopped
<1>0. b <= a
  OBVIOUS
<1> HIDE DEF a, b, u, v
<1>4.  a \in 0 .. n - 1 /\ b \in 0 .. n - 1 /\ a \in u + 1 .. v /\ b \in u .. v /\ b <= a
  <2>1. u \in Int /\ u >= 0 /\ v \in Int /\ v <= n - 1 /\ find.l \in Int /\ find.r \in Int
    BY <1>1
  <2>2. find.l >= u + 1 /\ find.l <= v /\ find.r >= u /\ find.r <= v
    BY <1>2
  <2>3. a \in find.l .. v /\ b \in u .. find.r
    BY <1>3
  <2> QED BY <1>0, <2>1, <2>2, <2>3
<1>5. Exchanged(c, x, u, b, n, Int)
  BY <1>1, <1>4, SwapIs
<1> HIDE DEF c
<1>6. c[u] = x[b] /\ c[b] = x[u] /\ \A k \in 0 .. n - 1 : k # u /\ k # b => c[k] = x[k]
  BY <1>5 DEF Exchanged
<1>7. x[u] \in Int /\ x[b] \in Int /\ \A k \in 0 .. n - 1 : x[k] \in Int
  BY <1>1, <1>4
<1>8. ASSUME NEW k \in u + 1 .. a - 1 PROVE x[k] <= x[u]
  <2>1. k \in 0 .. n - 1 /\ k \in Int
    BY <1>1, <1>4
  <2>2. CASE k < find.l
    BY <1>1, <1>2, <2>1, <2>2
  <2>3. CASE ~(k < find.l)
    <3>1. k \in find.l .. a - 1
      BY <1>1, <1>4, <2>1, <2>3
    <3> QED BY <1>3, <1>7, <2>1, <3>1
  <2> QED BY <2>2, <2>3
<1>9. ASSUME NEW k \in b + 1 .. v PROVE x[k] >= x[u]
  <2>1. k \in 0 .. n - 1 /\ k \in Int
    BY <1>1, <1>4
  <2>2. CASE k > find.r
    <3>1. k \in find.r + 1 .. v
      BY <1>1, <2>1, <2>2
    <3> QED BY <1>2, <3>1
  <2>3. CASE ~(k > find.r)
    <3>1. k \in b + 1 .. find.r
      BY <1>1, <1>4, <2>1, <2>3
    <3> QED BY <1>3, <1>7, <2>1, <3>1
  <2> QED BY <2>2, <2>3
<1>10. a <= b + 1
  <2> SUFFICES ASSUME ~(a <= b + 1) PROVE FALSE
    OBVIOUS
  <2>1. CASE b + 1 <= find.r
    <3> DEFINE k == b + 1
    <3>1. k \in b + 1 .. find.r /\ k \in u + 1 .. a - 1 /\ k \in 0 .. n - 1
      BY <1>1, <1>4, <2>1
    <3> HIDE DEF k
    <3>2. x[k] > x[u] /\ x[k] <= x[u] /\ x[k] \in Int
      BY <1>3, <1>7, <1>8, <3>1
    <3> QED BY <1>7, <3>2
  <2>2. CASE ~(b + 1 <= find.r)
    <3> DEFINE k == a - 1
    <3>1. b = find.r /\ k \in find.r + 1 .. v /\ k \in find.l .. a - 1 /\ k \in 0 .. n - 1
      <4>1. find.l <= find.r + 1 /\ find.l \in Int /\ find.r \in Int /\ find.r <= v
        BY <1>1, <1>2
      <4>2. b <= find.r
        BY <1>3
      <4>3. k = a - 1
        OBVIOUS
      <4> HIDE DEF k
      <4> QED BY <1>1, <1>4, <2>2, <4>1, <4>2, <4>3
    <3> HIDE DEF k
    <3>2. x[k] >= x[u] /\ x[k] < x[u] /\ x[k] \in Int
      BY <1>2, <1>3, <1>7, <3>1
    <3> QED BY <1>7, <3>2
  <2> QED BY <2>1, <2>2
<1>11. ASSUME NEW k \in u .. v
       PROVE  (k < b => c[k] <= c[b]) /\ (k > b => c[k] >= c[b]) /\ (k < a => c[k] <= c[b])
  <2>1. k \in 0 .. n - 1 /\ k \in Int /\ a \in Int /\ b \in Int /\ u \in Int
    BY <1>1, <1>4
  <2>2. CASE k = b
    BY <1>6, <1>7, <2>1, <2>2
  <2>3. CASE k = u /\ k # b
    <3>1. k < b
      BY <1>4, <2>1, <2>3
    <3> QED BY <1>3, <1>6, <2>1, <2>3, <3>1
  <2>4. CASE k # u /\ k # b
    <3>1. c[k] = x[k] /\ c[b] = x[u]
      BY <1>6, <2>1, <2>4
    <3>2. k < a => x[k] <= x[u]
      BY <1>4, <1>8, <2>1, <2>4
    <3>3. k > b => x[k] >= x[u]
      BY <1>4, <1>9, <2>1
    <3> QED BY <1>4, <2>1, <3>1, <3>2, <3>3
  <2> QED BY <2>2, <2>3, <2>4
<1>12. a \in u .. v
  BY <1>1, <1>4
<1>13. Divided(c, u, v, a, b)
  BY <1>4, <1>10, <1>11, <1>12 DEF Divided
<1>14. a = b /\ a # v => x[a] = x[u] /\ a # u
  BY <1>1, <1>3, <1>4, <1>7
<1> QED BY <1>13, <1>14 DEF a, b, u, v, c

\* So the pivot is in place, and the part on either side is bounded.
LEMMA DividedIsPlaced ==
  ASSUME NEW n \in Nat, NEW c \in Array(n), NEW u \in 0 .. n - 1, NEW v \in 0 .. n - 1,
         Bounded(c, n, u, v), NEW a, NEW b, Divided(c, u, v, a, b)
  PROVE  Placed(c, n, b) /\ Bounded(c, n, u, b - 1) /\ Bounded(c, n, a, v)
<1>1. a \in u .. v /\ b \in u .. v /\ b <= a /\ a <= b + 1 /\ \A k \in 0 .. n - 1 : c[k] \in Int
  BY DEF Divided, Array
<1>2. \A k \in u .. v : (k < b => c[k] <= c[b]) /\ (k > b => c[k] >= c[b]) /\ (k < a => c[k] <= c[b])
  BY DEF Divided
<1>3. Placed(c, n, b)
  BY <1>1, <1>2, PlacedWithin
<1>4. b \in 0 .. n - 1 /\ a \in 0 .. n - 1 /\ c[b] \in Int
  BY <1>1
<1>5. ASSUME NEW j \in u .. b - 1, NEW k \in 0 .. n - 1
      PROVE  (k < u => c[k] <= c[j]) /\ (k > b - 1 => c[k] >= c[j])
  <2>1. j \in u .. v /\ j < b /\ j \in 0 .. n - 1
    BY <1>1
  <2>2. k < u => c[k] <= c[j]
    BY <2>1 DEF Bounded
  <2>3. k > b - 1 => c[k] >= c[j]
    <3>1. c[j] <= c[b] /\ c[j] \in Int /\ c[k] \in Int
      BY <1>1, <1>2, <2>1
    <3>2. k > b => c[k] >= c[b]
      BY <1>3 DEF Placed
    <3>3. k > b - 1 => k = b \/ k > b
      BY <1>4
    <3> QED BY <1>4, <3>1, <3>2, <3>3
  <2> QED BY <2>2, <2>3
<1>6. ASSUME NEW j \in a .. v, NEW k \in 0 .. n - 1
      PROVE  (k < a => c[k] <= c[j]) /\ (k > v => c[k] >= c[j])
  <2>1. j \in u .. v /\ j >= b /\ j \in 0 .. n - 1 /\ j \in Int /\ k \in Int
    BY <1>1
  <2>2. k > v => c[k] >= c[j]
    BY <2>1 DEF Bounded
  <2>3. k < a => c[k] <= c[j]
    <3>1. c[j] >= c[b] /\ c[j] \in Int /\ c[k] \in Int
      BY <1>1, <1>2, <1>4, <2>1
    <3>2. k < b => c[k] <= c[b]
      BY <1>3 DEF Placed
    <3>3. k < a => k = b \/ k < b
      BY <1>1, <1>4, <2>1
    <3> QED BY <1>4, <3>1, <3>2, <3>3
  <2> QED BY <2>2, <2>3
<1>7. Bounded(c, n, u, b - 1) /\ Bounded(c, n, a, v)
  BY <1>5, <1>6 DEF Bounded
<1> QED BY <1>3, <1>7

\* The part around an entry that is not flagged.
PartIsFound(n, f, i, u, v) ==
  /\ u \in 0 .. n - 1 /\ v \in 0 .. n - 1 /\ u <= i /\ i <= v
  /\ u = 0 \/ f[u - 1]
  /\ v = n - 1 \/ f[v + 1]
  /\ \A k \in u .. v : ~f[k]

LEMMA PartExists ==
  ASSUME NEW n \in Nat, NEW f \in [0 .. n - 1 -> BOOLEAN], NEW i \in 0 .. n - 1, ~f[i]
  PROVE  PartIsFound(n, f, i, Reg!Part(f, i).u, Reg!Part(f, i).v)
<1> DEFINE D == 0 .. n - 1
           Before(u) == u <= i /\ (u = 0 \/ f[u - 1]) /\ \A k \in u .. i : ~f[k]
           After(v) == v >= i /\ (v + 1 \notin D \/ f[v + 1]) /\ \A k \in i .. v : ~f[k]
<1>1. DOMAIN f = D
  OBVIOUS
<1>2. \E u \in D : Before(u)
  <2> DEFINE S == {w \in 0 .. i : \A k \in w .. i : ~f[k]}  m == Min(S)
  <2>1. i \in S /\ S \in SUBSET Nat
    OBVIOUS
  <2>2. m \in S /\ \A y \in S : m <= y
    <3> HIDE DEF S
    <3> QED BY <2>1, LeastExists
  <2> HIDE DEF m
  <2>3. m \in D /\ m <= i /\ (\A k \in m .. i : ~f[k]) /\ m \in Nat
    BY <2>2
  <2>4. m = 0 \/ f[m - 1]
    <3> SUFFICES ASSUME m # 0, ~f[m - 1] PROVE FALSE
      OBVIOUS
    <3>1. m - 1 \in 0 .. i /\ ~(m <= m - 1)
      BY <2>3
    <3>2. \A k \in m - 1 .. i : ~f[k]
      <4> TAKE k \in m - 1 .. i
      <4>1. k = m - 1 \/ k \in m .. i
        BY <2>3
      <4> QED BY <2>3, <4>1
    <3> QED BY <2>2, <3>1, <3>2
  <2> QED BY <2>3, <2>4
<1>3. \E v \in D : After(v)
  <2> DEFINE S == {w \in i .. n - 1 : w + 1 \notin D \/ f[w + 1]}  m == Min(S)
  <2>1. n - 1 \in S /\ S \in SUBSET Nat
    OBVIOUS
  <2>2. m \in S /\ \A y \in S : m <= y
    <3> HIDE DEF S
    <3> QED BY <2>1, LeastExists
  <2> HIDE DEF m
  <2>3. m \in D /\ m >= i /\ (m + 1 \notin D \/ f[m + 1]) /\ m \in Nat
    BY <2>2
  <2>4. ASSUME NEW k \in i .. m PROVE ~f[k]
    <3>1. CASE k = i
      BY <3>1
    <3>2. CASE k # i
      <4> DEFINE w == k - 1
      <4>1. w \in i .. n - 1 /\ w + 1 = k /\ w < m
        BY <2>3, <3>2
      <4>2. w \notin S
        <5> HIDE DEF S, w
        <5> QED BY <2>2, <2>3, <4>1
      <4> QED BY <4>1, <4>2
    <3> QED BY <3>1, <3>2
  <2> QED BY <2>3, <2>4
<1> DEFINE u == CHOOSE u \in D : Before(u)  v == CHOOSE v \in D : After(v)
<1>4. u \in D /\ Before(u)
  BY <1>2
<1>5. v \in D /\ After(v)
  BY <1>3
<1>6. Reg!Part(f, i).u = u /\ Reg!Part(f, i).v = v
  BY <1>1 DEF Reg!Part
<1> HIDE DEF u, v
<1>7. ASSUME NEW k \in u .. v PROVE ~f[k]
  <2>1. k \in u .. i \/ k \in i .. v
    BY <1>4, <1>5
  <2> QED BY <1>4, <1>5, <2>1
<1>8. v + 1 \notin D => v = n - 1
  BY <1>5
<1> QED BY <1>4, <1>5, <1>6, <1>7, <1>8 DEF PartIsFound

-----------------------------------------------------------------------------
(* The invariant of the quicksort. *)

ArrayInv(n) ==
  /\ x \in Array(n) /\ x0 \in Array(n) /\ Permuted(x, x0, n)
  /\ flags \in [0 .. n - 1 -> BOOLEAN]
  /\ asked \in Seq(0 .. n - 1) /\ Len(asked) \in 0 .. 2

\* Without equal entries what is flagged is in place.
FlagsInv(n) == Reg!Distinct => \A i \in 0 .. n - 1 : flags[i] => Placed(x, n, i)

\* What was asked for is in place when it is found.
FoundInv(n) ==
  /\ Len(asked) = 0 => find = Reg!NoFind /\ \A i \in 0 .. n - 1 : ~flags[i]
  /\ Len(asked) = 2 \/ (Len(asked) = 1 /\ find = Reg!NoFind) => flags[asked[1]] /\ Placed(x, n, asked[1])
  /\ Len(asked) = 2 /\ find = Reg!NoFind /\ Reg!Distinct => Placed(x, n, asked[2])

\* The part that a search has left: around its index, without what was found
\* before, bounded in the first search, and in the second if no entries are equal.
Searching(n) ==
  /\ find \in SearchType(n) /\ Len(asked) \in 1 .. 2 /\ find.index = asked[Len(asked)]
  /\ find.u <= find.index /\ find.index <= find.v
  /\ find.phase = "scan" => Scanning(x, find)
  /\ Len(asked) = 1 \/ Reg!Distinct => Bounded(x, n, find.u, find.v)
  /\ Len(asked) = 2 => asked[1] \notin find.u .. find.v
  /\ Reg!Distinct => \A i \in find.u .. find.v : ~flags[i]

SortInv(n) == ArrayInv(n) /\ FlagsInv(n) /\ FoundInv(n) /\ (find = Reg!NoFind \/ Searching(n))

\* What an exchange within the part keeps of it.
Kept(c, n) ==
  /\ c \in Array(n) /\ Permuted(c, x0, n)
  /\ Len(asked) = 1 \/ Reg!Distinct => Bounded(c, n, find.u, find.v)
  /\ Len(asked) = 2 => Placed(c, n, asked[1])
  /\ Reg!Distinct => \A i \in 0 .. n - 1 : flags[i] => Placed(c, n, i)

\* Numbers of indices asked for.
LEMMA AskedOnceOrTwice ==
  ASSUME NEW k \in 1 .. 2
  PROVE  k # 0 /\ (k = 1 \/ k = 2)
OBVIOUS

LEMMA AskedOnceMore ==
  ASSUME NEW k \in 0 .. 1, NEW j, j = k + 1
  PROVE  j \in 1 .. 2 /\ j \in 0 .. 2 /\ j # 0 /\ (k = 0 \/ k = 1) /\ (j = 2 <=> k = 1) /\ (j = 1 <=> k = 0)
OBVIOUS

LEMMA FirstAsked ==
  ASSUME NEW n, asked \in Seq(0 .. n - 1), Len(asked) = 2
  PROVE  asked[1] \in 0 .. n - 1 /\ asked[2] \in 0 .. n - 1
<1>1. 1 \in 1 .. Len(asked) /\ 2 \in 1 .. Len(asked)
  OBVIOUS
<1> DEFINE T == 0 .. n - 1
<1> HIDE DEF T
<1>2. asked \in Seq(T)
  BY DEF T
<1>3. asked[1] \in T /\ asked[2] \in T
  BY <1>1, <1>2, ElementOfSeq
<1> QED BY <1>3 DEF T

LEMMA SwapKeeps ==
  ASSUME NEW n \in Nat, SortInv(n), Searching(n), NEW i \in find.u .. find.v, NEW k \in find.u .. find.v
  PROVE  Kept(Reg!Swap(x, i, k), n)
<1> DEFINE c == Reg!Swap(x, i, k)
<1>1. /\ x \in Array(n) /\ x0 \in Array(n) /\ Permuted(x, x0, n) /\ x \in [0 .. n - 1 -> Int]
      /\ asked \in Seq(0 .. n - 1) /\ Len(asked) \in 0 .. 2
  BY DEF SortInv, ArrayInv, Array
<1>2. find.u \in 0 .. n - 1 /\ find.v \in 0 .. n - 1 /\ i \in 0 .. n - 1 /\ k \in 0 .. n - 1
  BY DEF Searching, SearchType
<1>3. c \in Array(n)
  <2>1. Exchanged(c, x, i, k, n, Int)
    BY <1>1, <1>2, SwapIs
  <2> QED BY <2>1 DEF Exchanged, Array
<1>4. Permuted(c, x0, n)
  BY <1>1, <1>2, SwapPermutes
<1>5. ASSUME Len(asked) = 1 \/ Reg!Distinct PROVE Bounded(c, n, find.u, find.v)
  <2>1. Bounded(x, n, find.u, find.v)
    BY <1>5 DEF Searching
  <2> QED BY <1>1, <1>2, <2>1, BoundedKept
<1>6. ASSUME Len(asked) = 2 PROVE Placed(c, n, asked[1])
  <2>1. asked[1] \in 0 .. n - 1
    BY <1>1, <1>6, FirstAsked
  <2>4. asked[1] \notin find.u .. find.v
    BY <1>6 DEF Searching
  <2>2. asked[1] < find.u \/ asked[1] > find.v
    BY <1>2, <2>1, <2>4
  <2>3. Placed(x, n, asked[1])
    BY <1>6 DEF SortInv, FoundInv
  <2> QED BY <1>1, <1>2, <2>1, <2>2, <2>3, PlacedKept
<1>7. ASSUME Reg!Distinct, NEW w \in 0 .. n - 1, flags[w] PROVE Placed(c, n, w)
  <2>1. Placed(x, n, w)
    BY <1>7 DEF SortInv, FlagsInv
  <2>2. w \notin find.u .. find.v
    BY <1>7 DEF Searching
  <2>3. w < find.u \/ w > find.v
    BY <1>2, <2>2
  <2> QED BY <1>1, <1>2, <2>1, <2>3, PlacedKept
<1> HIDE DEF c
<1>8. Kept(c, n)
  BY <1>3, <1>4, <1>5, <1>6, <1>7 DEF Kept
<1> QED BY <1>8 DEF c

\* g has the flags of f and those of S.
Marked(g, f, S, n) ==
  /\ g \in [0 .. n - 1 -> BOOLEAN]
  /\ \A i \in 0 .. n - 1 : g[i] <=> (f[i] \/ i \in S)

LEMMA MarkOne ==
  ASSUME NEW n \in Nat, NEW f \in [0 .. n - 1 -> BOOLEAN], NEW i \in 0 .. n - 1
  PROVE  Marked([f EXCEPT ![i] = TRUE], f, {i}, n)
<1> DEFINE g == [f EXCEPT ![i] = TRUE]
<1>1. g \in [0 .. n - 1 -> BOOLEAN]
  OBVIOUS
<1>2. \A j \in 0 .. n - 1 : g[j] = IF j = i THEN TRUE ELSE f[j]
  OBVIOUS
<1> HIDE DEF g
<1>3. \A j \in 0 .. n - 1 : g[j] <=> (f[j] \/ j \in {i})
  BY <1>2, Zenon
<1> QED BY <1>1, <1>3 DEF Marked, g

LEMMA MarkTwo ==
  ASSUME NEW n \in Nat, NEW f \in [0 .. n - 1 -> BOOLEAN], NEW i \in 0 .. n - 1, NEW k \in 0 .. n - 1
  PROVE  Marked([f EXCEPT ![i] = TRUE, ![k] = TRUE], f, {i, k}, n)
<1> DEFINE g == [f EXCEPT ![i] = TRUE, ![k] = TRUE]
<1>1. g \in [0 .. n - 1 -> BOOLEAN]
  OBVIOUS
<1>2. \A j \in 0 .. n - 1 : g[j] = IF j = i \/ j = k THEN TRUE ELSE f[j]
  OBVIOUS
<1> HIDE DEF g
<1>3. \A j \in 0 .. n - 1 : g[j] <=> (f[j] \/ j \in {i, k})
  BY <1>2, Zenon
<1> QED BY <1>1, <1>3 DEF Marked, g

LEMMA MarkNone ==
  ASSUME NEW n \in Nat, NEW f \in [0 .. n - 1 -> BOOLEAN]
  PROVE  Marked(f, f, {}, n)
BY Zenon DEF Marked

\* What is newly flagged is in place.
NewlyPlaced(S, n) ==
  /\ S \subseteq 0 .. n - 1
  /\ Len(asked) = 1 \/ Reg!Distinct => \A i \in S : Placed(x', n, i)

LEMMA ArraysKept ==
  ASSUME NEW n \in Nat, SortInv(n), Searching(n), Kept(x', n), NEW S, Marked(flags', flags, S, n),
         NewlyPlaced(S, n), UNCHANGED <<x0, asked>>
  PROVE  /\ ArrayInv(n)' /\ FlagsInv(n)'
         /\ Len(asked) = 2 => flags'[asked[1]] /\ Placed(x', n, asked[1])
<1>1. Reg!Distinct' <=> Reg!Distinct
  BY Zenon DEF Reg!Distinct
<1>2. x' \in Array(n) /\ Permuted(x', x0, n)
  BY DEF Kept
<1>3. flags' \in [0 .. n - 1 -> BOOLEAN] /\ \A i \in 0 .. n - 1 : flags'[i] <=> (flags[i] \/ i \in S)
  BY DEF Marked
<1>4. x0 \in Array(n) /\ asked \in Seq(0 .. n - 1) /\ Len(asked) \in 0 .. 2
  BY DEF SortInv, ArrayInv
<1>5. ArrayInv(n)'
  <2>1. x0' = x0 /\ asked' = asked
    OBVIOUS
  <2>2. Array(n)' = Array(n)
    BY DEF Array
  <2>3. Permuted(x, x0, n)' <=> Permuted(x', x0, n)
    BY <2>1, Zenon DEF Permuted, Arranging
  <2> QED BY <1>2, <1>3, <1>4, <2>1, <2>2, <2>3 DEF ArrayInv
<1>6. ASSUME Reg!Distinct, NEW i \in 0 .. n - 1, flags'[i] PROVE Placed(x', n, i)
  <2>1. flags[i] \/ i \in S
    BY <1>3, <1>6, Zenon
  <2> QED BY <1>6, <2>1, Zenon DEF Kept, NewlyPlaced
<1>7. FlagsInv(n)'
  <2>1. Reg!Distinct' => \A i \in 0 .. n - 1 : flags'[i] => Placed(x', n, i)
    BY <1>1, <1>6, Zenon
  <2> QED BY <2>1 DEF FlagsInv, Placed
<1>8. ASSUME Len(asked) = 2 PROVE flags'[asked[1]] /\ Placed(x', n, asked[1])
  <2>1. asked[1] \in 0 .. n - 1
    BY <1>4, <1>8, FirstAsked
  <2>2. flags[asked[1]]
    BY <1>8 DEF SortInv, FoundInv
  <2>3. flags'[asked[1]]
    BY <1>3, <2>1, <2>2, Zenon
  <2> QED BY <1>8, <2>3 DEF Kept
<1> QED BY <1>5, <1>7, <1>8

\* The search ends: its index is flagged.
LEMMA SearchEnds ==
  ASSUME NEW n \in Nat, SortInv(n), Searching(n), Kept(x', n), NEW S, Marked(flags', flags, S, n),
         NewlyPlaced(S, n), UNCHANGED <<x0, asked>>, find.index \in S, find' = Reg!NoFind
  PROVE  SortInv(n)'
<1>1. ArrayInv(n)' /\ FlagsInv(n)' /\ (Len(asked) = 2 => flags'[asked[1]] /\ Placed(x', n, asked[1]))
  BY ArraysKept
<1>2. Len(asked) \in 1 .. 2 /\ find.index = asked[Len(asked)] /\ asked' = asked
  BY DEF Searching
<1>3. flags'[find.index]
  <2>1. find.index \in 0 .. n - 1
    BY DEF NewlyPlaced
  <2> QED BY <2>1, Zenon DEF Marked
<1>4. Reg!Distinct' <=> Reg!Distinct
  BY Zenon DEF Reg!Distinct
<1>5. Len(asked) = 1 \/ Reg!Distinct => Placed(x', n, find.index)
  BY DEF NewlyPlaced
<1>6. Len(asked) = 1 => flags'[asked[1]] /\ Placed(x', n, asked[1])
  BY <1>2, <1>3, <1>5
<1>7. Len(asked) = 2 /\ Reg!Distinct => Placed(x', n, asked[2])
  BY <1>2, <1>5
<1>8. FoundInv(n)'
  <2>1. Len(asked) # 0
    BY <1>2
  <2>2. Len(asked) = 2 \/ Len(asked) = 1 => flags'[asked[1]] /\ Placed(x', n, asked[1])
    BY <1>1, <1>6
  <2> QED BY <1>2, <1>4, <1>7, <2>1, <2>2 DEF FoundInv, Placed
<1>9. find' = Reg!NoFind'
  BY DEF Reg!NoFind
<1> QED BY <1>1, <1>8, <1>9 DEF SortInv

\* The search goes on in a smaller part.
LEMMA SearchGoesOn ==
  ASSUME NEW n \in Nat, SortInv(n), Searching(n), Kept(x', n), NEW S, Marked(flags', flags, S, n),
         NewlyPlaced(S, n), UNCHANGED <<x0, asked>>,
         find' \in SearchType(n), find'.index = find.index, find'.u <= find.index, find.index <= find'.v,
         find.u <= find'.u, find'.v <= find.v,
         find'.phase = "scan" => Scanning(x', find'),
         Len(asked) = 1 \/ Reg!Distinct => Bounded(x', n, find'.u, find'.v),
         Reg!Distinct => \A i \in find'.u .. find'.v : i \notin S
  PROVE  SortInv(n)'
<1>1. ArrayInv(n)' /\ FlagsInv(n)' /\ (Len(asked) = 2 => flags'[asked[1]] /\ Placed(x', n, asked[1]))
  BY ArraysKept
<1>2. Len(asked) \in 1 .. 2 /\ find.index = asked[Len(asked)] /\ asked' = asked
  BY DEF Searching
<1>3. Reg!Distinct' <=> Reg!Distinct
  BY Zenon DEF Reg!Distinct
<1>4. find' # Reg!NoFind'
  <2>1. find'.phase \in {"divide", "scan"}
    BY DEF SearchType
  <2> QED BY <2>1 DEF Reg!NoFind
<1>5. FoundInv(n)'
  <2>1. Len(asked) = 1 \/ Len(asked) = 2
    BY <1>2
  <2>2. Placed(x, n, asked[1])' <=> Placed(x', n, asked[1])
    BY <1>2, Zenon DEF Placed
  <2>3. Len(asked') # 0
    <3>1. Len(asked) # 0
      BY <1>2, AskedOnceOrTwice
    <3>2. asked' = asked
      BY <1>2
    <3> QED BY <3>1, <3>2, Zenon
  <2>4. (Len(asked) = 2 \/ (Len(asked) = 1 /\ find = Reg!NoFind) => flags[asked[1]] /\ Placed(x, n, asked[1]))'
    BY <1>1, <1>2, <1>4, <2>1, <2>2, Zenon
  <2>5. (Len(asked) = 2 /\ find = Reg!NoFind /\ Reg!Distinct => Placed(x, n, asked[2]))'
    BY <1>4, Zenon
  <2> QED BY <2>3, <2>4, <2>5, Zenon DEF FoundInv
<1>6. /\ find.u \in 0 .. n - 1 /\ find.v \in 0 .. n - 1 /\ find'.u \in 0 .. n - 1 /\ find'.v \in 0 .. n - 1
      /\ \A i \in find'.u .. find'.v : i \in find.u .. find.v /\ i \in 0 .. n - 1
  BY DEF Searching, SearchType
<1>7. Len(asked) = 2 => asked[1] \notin find'.u .. find'.v
  BY <1>6 DEF Searching
<1>8. ASSUME Reg!Distinct, NEW i \in find'.u .. find'.v PROVE ~flags'[i]
  <2>1. i \in find.u .. find.v /\ i \in 0 .. n - 1
    BY <1>6
  <2>2. ~flags[i]
    BY <1>8, <2>1 DEF Searching
  <2>3. i \notin S
    BY <1>8
  <2> QED BY <2>1, <2>2, <2>3, Zenon DEF Marked
<1>9. Searching(n)'
  <2>1. Scanning(x', find') <=> Scanning(x, find)'
    BY DEF Scanning
  <2>2. find' \in SearchType(n)'
    BY DEF SearchType
  <2>3. Bounded(x', n, find'.u, find'.v) <=> Bounded(x, n, find.u, find.v)'
    BY DEF Bounded
  <2> HIDE DEF Scanning, SearchType, Bounded
  <2>4. (Reg!Distinct => \A i \in find.u .. find.v : ~flags[i])'
    BY <1>3, <1>8, Zenon
  <2>5. Len(asked') \in 1 .. 2 /\ find'.index = asked'[Len(asked')]
    BY <1>2
  <2>6. (Len(asked) = 1 \/ Reg!Distinct => Bounded(x, n, find.u, find.v))'
    BY <1>2, <1>3, <2>3
  <2> QED BY <1>2, <1>7, <2>1, <2>2, <2>4, <2>5, <2>6 DEF Searching
<1> QED BY <1>1, <1>5, <1>9 DEF SortInv

-----------------------------------------------------------------------------
(* The steps of the quicksort keep its invariant. *)

LEMMA FindStep ==
  ASSUME NEW n \in Nat, SortInv(n), NEW i \in DOMAIN x, Reg!Find(i)
  PROVE  SortInv(n)'
<1>1. /\ x \in Array(n) /\ x0 \in Array(n) /\ Permuted(x, x0, n) /\ flags \in [0 .. n - 1 -> BOOLEAN]
      /\ asked \in Seq(0 .. n - 1) /\ i \in 0 .. n - 1
  BY DEF SortInv, ArrayInv, Array
<1>2. x' = x /\ flags' = flags /\ x0' = x0 /\ find = Reg!NoFind /\ Len(asked) \in 0 .. 1 /\ asked' = Append(asked, i)
  <2>1. Len(asked) < 2 /\ Len(asked) \in 0 .. 2
    BY DEF SortInv, ArrayInv, Reg!Find
  <2>2. x' = x /\ flags' = flags /\ x0' = x0 /\ find = Reg!NoFind /\ asked' = Append(asked, i)
    BY Zenon DEF Reg!Find
  <2> QED BY <2>1, <2>2
<1>3. /\ asked' \in Seq(0 .. n - 1) /\ Len(asked') = Len(asked) + 1 /\ asked'[Len(asked) + 1] = i
      /\ Len(asked) = 1 => asked'[1] = asked[1]
  <2> DEFINE T == 0 .. n - 1
  <2>1. i \in T /\ asked \in Seq(T)
    BY <1>1
  <2> HIDE DEF T
  <2>2. /\ asked' \in Seq(T) /\ Len(asked') = Len(asked) + 1 /\ asked'[Len(asked) + 1] = i
        /\ \A j \in 1 .. Len(asked) : asked'[j] = asked[j]
    BY <1>2, <2>1, AppendProperties
  <2>3. Len(asked) = 1 => 1 \in 1 .. Len(asked)
    OBVIOUS
  <2> QED BY <2>2, <2>3 DEF T
<1>4. Reg!Distinct' <=> Reg!Distinct
  BY <1>2, Zenon DEF Reg!Distinct
<1>5. ArrayInv(n)'
  <2>1. Permuted(x, x0, n)'
    BY <1>1, <1>2, Zenon DEF Permuted, Arranging
  <2>2. Len(asked') \in 0 .. 2
    <3>1. Len(asked) \in 0 .. 1
      BY <1>2
    <3>2. Len(asked') = Len(asked) + 1
      BY <1>3
    <3> QED BY <3>1, <3>2, AskedOnceMore
  <2> QED BY <1>1, <1>2, <1>3, <2>1, <2>2 DEF ArrayInv, Array
<1>6. FlagsInv(n)'
  <2>1. FlagsInv(n)
    BY DEF SortInv
  <2> QED BY <1>2, <1>4, <2>1, Zenon DEF FlagsInv, Placed
<1>7. /\ Len(asked) = 0 => \A j \in 0 .. n - 1 : ~flags[j]
      /\ Len(asked) = 1 => flags[asked[1]] /\ Placed(x, n, asked[1])
  BY <1>2, Zenon DEF SortInv, FoundInv
<1>8. Len(asked) = 1 => flags'[asked'[1]] /\ Placed(x', n, asked'[1])
  BY <1>2, <1>3, <1>7, Zenon
<1>9. Len(asked) \in 0 .. 1 /\ (Len(asked) = 0 \/ Len(asked) = 1)
  BY <1>2
<1>10. Len(asked') # 0 /\ (Len(asked') = 2 <=> Len(asked) = 1) /\ (Len(asked') = 1 <=> Len(asked) = 0)
  <2>1. Len(asked') = Len(asked) + 1
    BY <1>3
  <2> QED BY <1>9, <2>1, AskedOnceMore
<1>11. CASE flags[i]
  <2>1. Len(asked) = 1 /\ find' = Reg!NoFind
    BY <1>1, <1>7, <1>9, <1>11, Zenon DEF Reg!Find
  <2>2. asked'[2] = i
    BY <1>3, <2>1
  <2>3. Reg!Distinct => Placed(x, n, i)
    BY <1>1, <1>11, Zenon DEF SortInv, FlagsInv
  <2>4. Placed(x, n, asked[2])' <=> Placed(x, n, i)
    BY <1>2, <2>2, Zenon DEF Placed
  <2>5. Placed(x, n, asked[1])' <=> Placed(x', n, asked'[1])
    BY Zenon DEF Placed
  <2>6. FoundInv(n)'
    BY <1>4, <1>8, <1>10, <2>1, <2>3, <2>4, <2>5, Zenon DEF FoundInv
  <2>7. find' = Reg!NoFind'
    BY <2>1 DEF Reg!NoFind
  <2> QED BY <1>5, <1>6, <2>6, <2>7 DEF SortInv
<1>12. CASE ~flags[i]
  <2> DEFINE u == Reg!Part(flags, i).u  v == Reg!Part(flags, i).v
  <2>1. PartIsFound(n, flags, i, u, v)
    BY <1>1, <1>12, PartExists
  <2>2. find' = Reg!Undivided(i, u, v)
    BY <1>12, Zenon DEF Reg!Find
  <2> HIDE DEF u, v
  <2>3. u \in 0 .. n - 1 /\ v \in 0 .. n - 1 /\ u <= i /\ i <= v
    BY <2>1 DEF PartIsFound
  <2>4. (u = 0 \/ flags[u - 1]) /\ (v = n - 1 \/ flags[v + 1]) /\ \A k \in u .. v : ~flags[k]
    BY <2>1, Zenon DEF PartIsFound
  <2>5. find' = [phase |-> "divide", index |-> i, u |-> u, v |-> v, l |-> u, r |-> v]
    BY <2>2 DEF Reg!Undivided
  <2>6. find' \in SearchType(n) /\ find'.index = i /\ find'.u = u /\ find'.v = v /\ find'.phase = "divide"
    BY <1>1, <2>3, <2>5 DEF SearchType
  <2>7. (u - 1 \in 0 .. n - 1 \/ u = 0) /\ (v + 1 \in 0 .. n - 1 \/ v = n - 1)
    BY <2>3
  <2>8. ASSUME Len(asked) = 0 \/ Reg!Distinct PROVE Bounded(x, n, u, v)
    <3>1. u = 0 \/ Placed(x, n, u - 1)
      BY <1>7, <2>4, <2>7, <2>8, Zenon DEF SortInv, FlagsInv
    <3>2. v = n - 1 \/ Placed(x, n, v + 1)
      BY <1>7, <2>4, <2>7, <2>8, Zenon DEF SortInv, FlagsInv
    <3> QED BY <1>1, <2>3, <3>1, <3>2, BoundedBetween
  <2>9. find' # Reg!NoFind'
    BY <2>6 DEF Reg!NoFind
  <2>10. FoundInv(n)'
    <3>1. Placed(x, n, asked[1])' <=> Placed(x', n, asked'[1])
      BY Zenon DEF Placed
    <3> QED BY <1>8, <1>10, <2>9, <3>1, Zenon DEF FoundInv
  <2>11. Searching(n)'
    <3>1. find' \in SearchType(n)' /\ Len(asked') \in 1 .. 2 /\ find'.index = asked'[Len(asked')]
      <4>1. SearchType(n)' = SearchType(n)
        BY DEF SearchType
      <4> QED BY <1>2, <1>3, <2>6, <4>1
    <3>2. find'.u <= find'.index /\ find'.index <= find'.v /\ find'.phase # "scan"
      BY <2>3, <2>6
    <3>3. (Len(asked) = 1 \/ Reg!Distinct => Bounded(x, n, find.u, find.v))'
      <4>1. Bounded(x, n, find.u, find.v)' <=> Bounded(x, n, u, v)
        BY <1>2, <2>6, Zenon DEF Bounded
      <4> QED BY <1>4, <1>10, <2>8, <4>1, Zenon
    <3>4. Len(asked') = 2 => asked'[1] \notin find'.u .. find'.v
      BY <1>3, <1>7, <1>10, <2>4, <2>6, Zenon
    <3>5. \A j \in find'.u .. find'.v : ~flags'[j]
      BY <1>2, <2>4, <2>6, Zenon
    <3> QED BY <3>1, <3>2, <3>3, <3>4, <3>5, Zenon DEF Searching
  <2> QED BY <1>5, <1>6, <2>10, <2>11 DEF SortInv
<1> QED BY <1>11, <1>12

\* An exchange of an entry with itself.
LEMMA SwapSame ==
  ASSUME NEW n, NEW a \in Array(n), NEW i \in 0 .. n - 1
  PROVE  Reg!Swap(a, i, i) = a
BY DEF Reg!Swap, Array

LEMMA DivideStep ==
  ASSUME NEW n \in Nat, SortInv(n), Searching(n), Reg!Divide
  PROVE  SortInv(n)'
<1> DEFINE u == find.u  v == find.v
<1>1. /\ u \in 0 .. n - 1 /\ v \in 0 .. n - 1 /\ u <= find.index /\ find.index <= v /\ find.index \in 0 .. n - 1
      /\ find \in SearchType(n) /\ x \in Array(n) /\ flags \in [0 .. n - 1 -> BOOLEAN]
  BY DEF Searching, SearchType, SortInv, ArrayInv
<1>2. UNCHANGED <<x0, asked>> /\ find.phase = "divide"
  BY Zenon DEF Reg!Divide
<1>3. u \in u .. v /\ v \in u .. v
  BY <1>1
<1>4. \A k \in 0 .. n - 1 : x[k] \in Int
  BY <1>1 DEF Array
<1>5. CASE v - u < 2
  <2>1. /\ x' = IF x[v] < x[u] THEN Reg!Swap(x, u, v) ELSE x
        /\ flags' = [flags EXCEPT ![u] = TRUE, ![v] = TRUE] /\ find' = Reg!NoFind
    BY <1>5, Zenon DEF Reg!Divide
  <2>2. Kept(x', n)
    <3>1. CASE x[v] < x[u]
      <4>1. Kept(Reg!Swap(x, u, v), n)
        BY <1>3, SwapKeeps
      <4> QED BY <2>1, <3>1, <4>1, Zenon
    <3>2. CASE ~(x[v] < x[u])
      <4>1. Kept(Reg!Swap(x, u, u), n)
        BY <1>3, SwapKeeps
      <4> QED BY <1>1, <2>1, <3>2, <4>1, SwapSame, Zenon
    <3> QED BY <3>1, <3>2
  <2>3. Marked(flags', flags, {u, v}, n)
    BY <1>1, <2>1, MarkTwo
  <2>4. find.index \in {u, v}
    BY <1>1, <1>5
  <2>5. \A k \in u .. v : k = u \/ k = v
    BY <1>1, <1>5
  <2>6. x'[u] <= x'[v]
    <3>1. CASE x[v] < x[u]
      <4>1. x \in [0 .. n - 1 -> Int]
        BY <1>1 DEF Array
      <4>2. Exchanged(Reg!Swap(x, u, v), x, u, v, n, Int)
        BY <1>1, <4>1, SwapIs
      <4>3. x'[u] = x[v] /\ x'[v] = x[u]
        BY <2>1, <3>1, <4>2 DEF Exchanged
      <4> QED BY <1>1, <1>4, <3>1, <4>3
    <3>2. CASE ~(x[v] < x[u])
      BY <1>1, <1>4, <2>1, <3>2
    <3> QED BY <3>1, <3>2
  <2>7. NewlyPlaced({u, v}, n)
    <3>1. ASSUME Bounded(x', n, u, v), NEW i \in {u, v} PROVE Placed(x', n, i)
      <4>1. i \in u .. v
        BY <1>3
      <4>2. \A k \in u .. v : (k < i => x'[k] <= x'[i]) /\ (k > i => x'[k] >= x'[i])
        <5>1. u <= v
          BY <1>1
        <5>2. \A k \in {u, v} : (k < i => x'[k] <= x'[i]) /\ (k > i => x'[k] >= x'[i])
          BY <1>1, <2>6, <5>1
        <5> QED BY <2>5, <5>2
      <4> HIDE DEF u, v
      <4> QED BY <1>1, <3>1, <4>1, <4>2, PlacedWithin
    <3>2. Len(asked) = 1 \/ Reg!Distinct => Bounded(x', n, u, v)
      BY <2>2, Zenon DEF Kept
    <3>3. {u, v} \subseteq 0 .. n - 1
      BY <1>1
    <3> HIDE DEF u, v
    <3> QED BY <3>1, <3>2, <3>3, Zenon DEF NewlyPlaced
  <2> HIDE DEF u, v
  <2> QED BY <1>2, <2>1, <2>2, <2>3, <2>4, <2>7, SearchEnds
<1>6. CASE ~(v - u < 2)
  <2> DEFINE m == (u + v) \div 2
  <2>1. /\ x' = Reg!Swap(x, u, m) /\ flags' = flags
        /\ find' = [find EXCEPT !.phase = "scan", !.l = u + 1, !.r = v]
    BY <1>6, Zenon DEF Reg!Divide
  <2>2. m \in u .. v
    BY <1>1
  <2>3. Kept(x', n)
    <3> HIDE DEF m
    <3>1. Kept(Reg!Swap(x, u, m), n)
      BY <1>3, <2>2, SwapKeeps
    <3> QED BY <2>1, <3>1, Zenon
  <2>4. Marked(flags', flags, {}, n)
    BY <1>1, <2>1, MarkNone
  <2>5. NewlyPlaced({}, n)
    BY DEF NewlyPlaced
  <2>6. /\ find' \in SearchType(n) /\ find'.index = find.index /\ find'.u = u /\ find'.v = v
        /\ find'.l = u + 1 /\ find'.r = v
    <3>1. u + 1 \in Int /\ v \in Int
      BY <1>1
    <3> QED BY <1>1, <2>1, <3>1 DEF SearchType
  <2>7. Scanning(x', find')
    <3>1. (\A k \in find'.u + 1 .. find'.l - 1 : FALSE) /\ \A k \in find'.r + 1 .. find'.v : FALSE
      BY <1>1, <2>6
    <3>2. /\ find'.v - find'.u >= 2 /\ find'.l >= find'.u + 1 /\ find'.l <= find'.v
          /\ find'.r >= find'.u /\ find'.r <= find'.v /\ find'.l <= find'.r + 1
      BY <1>1, <1>6, <2>6
    <3> QED BY <3>1, <3>2 DEF Scanning
  <2>8. Len(asked) = 1 \/ Reg!Distinct => Bounded(x', n, find'.u, find'.v)
    BY <2>3, <2>6 DEF Kept
  <2>9. find'.u <= find.index /\ find.index <= find'.v /\ find.u <= find'.u /\ find'.v <= find.v
    BY <1>1, <2>6
  <2>10. \A i \in find'.u .. find'.v : i \notin {}
    OBVIOUS
  <2> HIDE DEF u, v, m
  <2> QED BY <1>2, <2>3, <2>4, <2>5, <2>6, <2>7, <2>8, <2>9, <2>10, SearchGoesOn
<1> QED BY <1>5, <1>6

\* Without equal entries at first there are none later.
LEMMA StillDistinct ==
  ASSUME NEW n \in Nat, SortInv(n), Reg!Distinct, NEW i \in 0 .. n - 1, NEW k \in 0 .. n - 1, x[i] = x[k]
  PROVE  i = k
<1> DEFINE D == 0 .. n - 1
<1>1. PICK g \in Arranging(n) : \A j \in D : x[j] = x0[g[j]]
  BY DEF SortInv, ArrayInv, Permuted
<1>2. g \in [D -> D] /\ \A p, q \in D : g[p] = g[q] => p = q
  BY DEF Arranging, Bijection, Injection, IsInjective
<1>3. DOMAIN x0 = D
  BY DEF SortInv, ArrayInv, Array
<1> HIDE DEF D
<1>4. i \in D /\ k \in D
  BY DEF D
<1>5. g[i] \in D /\ g[k] \in D /\ x0[g[i]] = x0[g[k]]
  BY <1>1, <1>2, <1>4
<1>6. g[i] = g[k]
  BY <1>3, <1>5 DEF Reg!Distinct
<1> QED BY <1>2, <1>4, <1>6

LEMMA ExchangeStep ==
  ASSUME NEW n \in Nat, SortInv(n), Searching(n), Reg!Exchange
  PROVE  SortInv(n)'
<1> DEFINE a == Reg!Left  b == Reg!Right
<1>1. /\ find \in SearchType(n) /\ x \in Array(n) /\ flags \in [0 .. n - 1 -> BOOLEAN]
      /\ find.u <= find.index /\ find.index <= find.v /\ find.u \in 0 .. n - 1 /\ find.v \in 0 .. n - 1
      /\ find.l \in Int /\ find.r \in Int
  BY DEF Searching, SearchType, SortInv, ArrayInv
<1>2. /\ UNCHANGED <<flags, x0, asked>> /\ find.phase = "scan" /\ a < b /\ x' = Reg!Swap(x, a, b)
      /\ find' = [find EXCEPT !.l = a + 1, !.r = b - 1]
  BY Zenon DEF Reg!Exchange
<1>3. Scanning(x, find)
  BY <1>2 DEF Searching
<1>4. Stopped
  BY <1>1, <1>3, ScansStop
<1>5. a \in Int /\ b \in Int
  <2>1. a \in find.l .. find.v /\ b \in find.u .. find.r
    BY <1>4 DEF Stopped
  <2> HIDE DEF a, b
  <2> QED BY <1>1, <2>1
<1>6. /\ find' \in SearchType(n) /\ find'.index = find.index /\ find'.u = find.u /\ find'.v = find.v
      /\ find'.l = a + 1 /\ find'.r = b - 1 /\ find'.phase = "scan"
  <2> HIDE DEF a, b
  <2>1. a + 1 \in Int /\ b - 1 \in Int
    BY <1>5
  <2> QED BY <1>1, <1>2, <2>1 DEF SearchType
<1>7. a \in find.u .. find.v /\ b \in find.u .. find.v /\ Scanning(Reg!Swap(x, a, b), find')
  BY <1>1, <1>2, <1>3, <1>4, <1>6, ExchangeScans
<1> HIDE DEF a, b
<1>8. Kept(x', n)
  <2>1. Kept(Reg!Swap(x, a, b), n)
    BY <1>7, SwapKeeps
  <2> QED BY <1>2, <2>1, Zenon
<1>9. Marked(flags', flags, {}, n)
  BY <1>1, <1>2, MarkNone
<1>10. NewlyPlaced({}, n)
  BY DEF NewlyPlaced
<1>11. Len(asked) = 1 \/ Reg!Distinct => Bounded(x', n, find'.u, find'.v)
  BY <1>6, <1>8 DEF Kept
<1>12. find'.u <= find.index /\ find.index <= find'.v /\ find.u <= find'.u /\ find'.v <= find.v
  BY <1>1, <1>6
<1>13. \A i \in find'.u .. find'.v : i \notin {}
  OBVIOUS
<1>14. Scanning(x', find')
  BY <1>2, <1>7, Zenon
<1>15. UNCHANGED <<x0, asked>>
  BY <1>2
<1> QED BY <1>6, <1>8, <1>9, <1>10, <1>11, <1>12, <1>13, <1>14, <1>15, SearchGoesOn

LEMMA PlacePivotStep ==
  ASSUME NEW n \in Nat, SortInv(n), Searching(n), Reg!PlacePivot
  PROVE  SortInv(n)'
<1> DEFINE a == Reg!Left  b == Reg!Right  u == find.u  v == find.v  i == find.index
<1>1. /\ find \in SearchType(n) /\ x \in Array(n) /\ flags \in [0 .. n - 1 -> BOOLEAN]
      /\ i \in 0 .. n - 1 /\ u <= i /\ i <= v /\ u \in 0 .. n - 1 /\ v \in 0 .. n - 1
  BY DEF Searching, SearchType, SortInv, ArrayInv
<1>2. /\ UNCHANGED <<x0, asked>> /\ find.phase = "scan" /\ b <= a /\ x' = Reg!Swap(x, u, b)
      /\ flags' = [flags EXCEPT ![b] = TRUE]
      /\ find' = IF i = b THEN Reg!NoFind
                 ELSE IF i < b THEN Reg!Undivided(i, u, b - 1) ELSE Reg!Undivided(i, a, v)
  BY Zenon DEF Reg!PlacePivot
<1>3. Scanning(x, find)
  BY <1>2 DEF Searching
<1>4. Stopped
  BY <1>1, <1>3, ScansStop
<1>5. Divided(Reg!Swap(x, u, b), u, v, a, b) /\ (a = b /\ a # v => x[a] = x[u] /\ a # u)
  BY <1>1, <1>2, <1>3, <1>4, PivotDivides
<1> HIDE DEF a, b, u, v, i
<1>6. Divided(x', u, v, a, b)
  BY <1>2, <1>5, Zenon
<1>7. a \in u .. v /\ b \in u .. v /\ b <= a /\ a <= b + 1
  BY <1>5 DEF Divided
<1>8. a \in 0 .. n - 1 /\ b \in 0 .. n - 1 /\ u \in u .. v /\ u \in Int /\ v \in Int /\ a \in Int /\ b \in Int
  BY <1>1, <1>7
<1>9. Kept(x', n)
  <2>1. Kept(Reg!Swap(x, u, b), n)
    BY <1>7, <1>8, SwapKeeps DEF u, v
  <2> QED BY <1>2, <2>1, Zenon
<1>10. ASSUME Len(asked) = 1 \/ Reg!Distinct
       PROVE  Placed(x', n, b) /\ Bounded(x', n, u, b - 1) /\ Bounded(x', n, a, v)
  <2>1. Bounded(x', n, u, v) /\ x' \in Array(n)
    BY <1>9, <1>10 DEF Kept, u, v
  <2> QED BY <1>1, <1>6, <2>1, DividedIsPlaced
<1>11. Marked(flags', flags, {b}, n)
  BY <1>1, <1>2, <1>8, MarkOne
<1>12. NewlyPlaced({b}, n)
  BY <1>8, <1>10 DEF NewlyPlaced
<1>13. CASE i = b
  <2>1. find' = Reg!NoFind /\ find.index \in {b} /\ UNCHANGED <<x0, asked>>
    BY <1>2, <1>13 DEF i
  <2> QED BY <1>9, <1>11, <1>12, <2>1, SearchEnds
<1>14. CASE i < b
  <2>1. find' = [phase |-> "divide", index |-> i, u |-> u, v |-> b - 1, l |-> u, r |-> b - 1]
    BY <1>1, <1>2, <1>8, <1>14 DEF Reg!Undivided
  <2>2. b - 1 \in 0 .. n - 1 /\ u <= i /\ i <= b - 1 /\ b - 1 <= v
    BY <1>1, <1>7, <1>8, <1>14
  <2>3. /\ find' \in SearchType(n) /\ find'.index = find.index /\ find'.u = u /\ find'.v = b - 1
        /\ find'.phase # "scan"
    BY <1>1, <1>8, <2>1, <2>2 DEF SearchType, i
  <2>4. find'.u <= find.index /\ find.index <= find'.v /\ find.u <= find'.u /\ find'.v <= find.v
    BY <1>8, <2>2, <2>3 DEF i, u, v
  <2>5. Len(asked) = 1 \/ Reg!Distinct => Bounded(x', n, find'.u, find'.v)
    BY <1>10, <2>3
  <2>6. \A k \in find'.u .. find'.v : k \notin {b}
    BY <1>8, <2>3
  <2>7. UNCHANGED <<x0, asked>>
    BY <1>2
  <2> QED BY <1>9, <1>11, <1>12, <2>3, <2>4, <2>5, <2>6, <2>7, SearchGoesOn
<1>15. CASE i > b
  <2>0. i # b /\ ~(i < b)
    BY <1>1, <1>8, <1>15
  <2>1. find' = [phase |-> "divide", index |-> i, u |-> a, v |-> v, l |-> a, r |-> v]
    BY <1>2, <2>0 DEF Reg!Undivided
  <2>2. a <= i /\ i <= v /\ u <= a
    BY <1>1, <1>7, <1>8, <1>15
  <2>3. /\ find' \in SearchType(n) /\ find'.index = find.index /\ find'.u = a /\ find'.v = v
        /\ find'.phase # "scan"
    BY <1>1, <1>8, <2>1, <2>2 DEF SearchType, i
  <2>4. find'.u <= find.index /\ find.index <= find'.v /\ find.u <= find'.u /\ find'.v <= find.v
    BY <1>8, <2>2, <2>3 DEF i, u, v
  <2>5. Len(asked) = 1 \/ Reg!Distinct => Bounded(x', n, find'.u, find'.v)
    BY <1>10, <2>3
  <2>6. ASSUME Reg!Distinct, NEW k \in find'.u .. find'.v PROVE k \notin {b}
    <3>1. a # b
      <4> SUFFICES ASSUME a = b PROVE FALSE
        OBVIOUS
      <4>1. a # v
        BY <1>1, <1>8, <1>15
      <4>2. x[a] = x[u] /\ a # u
        BY <1>5, <4>1
      <4> QED BY <1>1, <1>8, <2>6, <4>2, StillDistinct
    <3>2. k \in a .. v
      BY <2>3
    <3> QED BY <1>7, <1>8, <3>1, <3>2
  <2>7. UNCHANGED <<x0, asked>>
    BY <1>2
  <2> QED BY <1>9, <1>11, <1>12, <2>3, <2>4, <2>5, <2>6, <2>7, SearchGoesOn
<1> QED BY <1>1, <1>8, <1>13, <1>14, <1>15

\* What the invariant says is the property.
LEMMA SortIsRight ==
  ASSUME NEW n \in Nat, SortInv(n)
  PROVE  Reg!OrderedEntries
<1>1. /\ x \in Array(n) /\ x0 \in Array(n) /\ Permuted(x, x0, n)
      /\ asked \in Seq(0 .. n - 1) /\ Len(asked) \in 0 .. 2 /\ DOMAIN x = 0 .. n - 1
  BY DEF SortInv, ArrayInv, Array
<1>2. ASSUME NEW i \in DOMAIN x
      PROVE  Reg!Cardinality({k \in DOMAIN x : x[k] = x[i]}) = Reg!Cardinality({k \in DOMAIN x : x0[k] = x[i]})
  <2>1. EntriesIn(x, n, {x[i]}) = EntriesIn(x0, n, {x[i]})
    BY <1>1, PermutedCounts
  <2>2. /\ {k \in DOMAIN x : x[k] = x[i]} = {k \in 0 .. n - 1 : x[k] \in {x[i]}}
        /\ {k \in DOMAIN x : x0[k] = x[i]} = {k \in 0 .. n - 1 : x0[k] \in {x[i]}}
    BY <1>1
  <2>3. /\ Reg!Cardinality({k \in DOMAIN x : x[k] = x[i]}) = Cardinality({k \in DOMAIN x : x[k] = x[i]})
        /\ Reg!Cardinality({k \in DOMAIN x : x0[k] = x[i]}) = Cardinality({k \in DOMAIN x : x0[k] = x[i]})
    BY SameCardinalityReg, Zenon
  <2> QED BY <2>1, <2>2, <2>3, Zenon DEF EntriesIn
<1>3. ASSUME find = Reg!NoFind, NEW j \in DOMAIN asked, j = 1 \/ Reg!Distinct
      PROVE  Reg!InPlace(asked[j])
  <2>1. j \in 1 .. Len(asked)
    BY <1>1
  <2>2. asked[j] \in 0 .. n - 1
    <3> DEFINE T == 0 .. n - 1
    <3>1. asked \in Seq(T)
      BY <1>1
    <3> HIDE DEF T
    <3>2. asked[j] \in T
      BY <2>1, <3>1, ElementOfSeq
    <3> QED BY <3>2 DEF T
  <2>3. j \in 1 .. 2 /\ Len(asked) \in 1 .. 2 /\ j <= Len(asked)
    BY <1>1, <2>1
  <2>4. (j = 1 \/ j = 2) /\ (Len(asked) = 1 \/ Len(asked) = 2) /\ (j = 2 => Len(asked) = 2)
    BY <2>3
  <2>5. Placed(x, n, asked[j])
    BY <1>3, <2>4 DEF SortInv, FoundInv
  <2> QED BY <1>1, <2>2, <2>5, PlacedIsInPlace
<1>4. ASSUME Reg!Distinct, NEW i \in DOMAIN x, flags[i] PROVE Reg!InPlace(i)
  <2>1. i \in 0 .. n - 1
    BY <1>1
  <2>2. Placed(x, n, i)
    BY <1>4, <2>1 DEF SortInv, FlagsInv
  <2> QED BY <1>1, <2>1, <2>2, PlacedIsInPlace
<1> QED BY <1>2, <1>3, <1>4, Zenon DEF Reg!OrderedEntries

-----------------------------------------------------------------------------
(* The regression, in every behaviour. *)

RegressionIInv == part = "regression" => (\E n \in Nat : SortInv(n)) /\ RegInv /\ SlopeInv

\* The array that is sorted, or none.
LEMMA ArrayIs ==
  ASSUME Reg!Init
  PROVE  \E n \in Nat : x \in Array(n)
<1>1. CASE x \in Arrays
  <2> DEFINE n == Reg!Cardinality(DOMAIN x)
  <2>1. IsFiniteSet(DOMAIN x) /\ x \in [0 .. n - 1 -> Int]
    <3>1. Reg!IsFiniteSet(DOMAIN x) <=> IsFiniteSet(DOMAIN x)
      BY Zenon DEF Reg!IsFiniteSet, IsFiniteSet
    <3> QED BY <1>1, <3>1, MeasurementAssumption DEF Reg!RegressAssumption
  <2>2. n \in Nat
    <3>1. n = Cardinality(DOMAIN x)
      BY SameCardinalityReg, Zenon
    <3> QED BY <2>1, <3>1, FS_CardinalityType
  <2> HIDE DEF n
  <2> QED BY <2>1, <2>2 DEF Array
<1>2. CASE x = Reg!NoArray
  <2>1. x = <<>> /\ DOMAIN x = 1 .. 0 /\ x = [i \in 1 .. 0 |-> x[i]]
    BY <1>2 DEF Reg!NoArray
  <2>2. 1 .. 0 = 0 .. 0 - 1
    OBVIOUS
  <2>3. x \in Array(0)
    BY <2>1, <2>2 DEF Array
  <2> QED BY <2>3
<1>3. x \in Arrays \/ x = Reg!NoArray
  BY Zenon DEF Reg!Init
<1> QED BY <1>1, <1>2, <1>3

LEMMA PermutedItself ==
  ASSUME NEW n \in Nat, NEW a
  PROVE  Permuted(a, a, n)
<1> DEFINE D == 0 .. n - 1  g == [k \in D |-> k]
<1>1. g \in [D -> D] /\ \A k \in D : g[k] = k
  OBVIOUS
<1> HIDE DEF g
<1>2. g \in Arranging(n)
  <2> HIDE DEF D
  <2>1. g \in [D -> D] /\ (\A p, q \in D : g[p] = g[q] => p = q) /\ \A q \in D : \E p \in D : g[p] = q
    BY <1>1
  <2> QED BY <2>1 DEF Arranging, Bijection, Injection, Surjection, IsInjective, D
<1> QED BY <1>1, <1>2 DEF Permuted

LEMMA RegressionInit == MeasurementInit => RegressionIInv
<1> SUFFICES ASSUME MeasurementInit, part = "regression" PROVE (\E n \in Nat : SortInv(n)) /\ RegInv /\ SlopeInv
  BY DEF RegressionIInv
<1>1. Reg!Init
  BY Zenon DEF MeasurementInit
<1>2. PICK n \in Nat : x \in Array(n)
  BY <1>1, ArrayIs
<1>3. x0 = x /\ find = Reg!NoFind /\ asked = <<>> /\ flags = [i \in DOMAIN x |-> FALSE]
  BY <1>1, Zenon DEF Reg!Init
<1>4. DOMAIN x = 0 .. n - 1
  BY <1>2 DEF Array
<1>5. flags \in [0 .. n - 1 -> BOOLEAN] /\ \A i \in 0 .. n - 1 : ~flags[i]
  BY <1>3, <1>4
<1>6. asked \in Seq(0 .. n - 1) /\ Len(asked) = 0 /\ Len(asked) \in 0 .. 2 /\ Len(asked) # 1 /\ Len(asked) # 2
  BY <1>3
<1>7. ArrayInv(n)
  BY <1>2, <1>3, <1>5, <1>6, PermutedItself DEF ArrayInv
<1>8. FlagsInv(n) /\ FoundInv(n)
  BY <1>3, <1>5, <1>6, Zenon DEF FlagsInv, FoundInv
<1>9. SortInv(n)
  BY <1>3, <1>7, <1>8 DEF SortInv
<1>10. RegInv
  <2>1. reg = [n |-> 0, m |-> 0, start |-> 0, nruns |-> 0, done |-> TRUE]
    BY <1>1, Zenon DEF Reg!Init, Reg!NoReg
  <2> QED BY <2>1 DEF RegInv
<1>11. SlopeInv
  <2>1. slope = [phase |-> "idle", lo |-> 0, hi |-> 0, rlo |-> 0, rhi |-> 0, mid |-> 0, rmid |-> 0]
    BY <1>1, Zenon DEF Reg!Init, Reg!NoSlope
  <2> QED BY <2>1 DEF SlopeInv
<1> QED BY <1>9, <1>10, <1>11

LEMMA SortUnchanged ==
  ASSUME NEW n, SortInv(n), UNCHANGED <<x, flags, find, x0, asked>>
  PROVE  SortInv(n)'
<1>1. x' = x /\ flags' = flags /\ find' = find /\ x0' = x0 /\ asked' = asked
  OBVIOUS
<1>2. ArrayInv(n)'
  BY <1>1, Zenon DEF SortInv, ArrayInv, Array, Permuted, Arranging
<1>3. Reg!Distinct' <=> Reg!Distinct
  BY <1>1, Zenon DEF Reg!Distinct
<1>4. FlagsInv(n)'
  BY <1>1, <1>3, Zenon DEF SortInv, FlagsInv, Placed
<1>5. Reg!NoFind' = Reg!NoFind
  BY DEF Reg!NoFind
<1>6. FoundInv(n)'
  BY <1>1, <1>3, <1>5, Zenon DEF SortInv, FoundInv, Placed
<1>7. Searching(n) => Searching(n)'
  BY <1>1, <1>3, Zenon DEF Searching, SearchType, Scanning, Bounded
<1> QED BY <1>1, <1>2, <1>4, <1>5, <1>6, <1>7, Zenon DEF SortInv

LEMMA RegUnchanged == RegInv /\ reg' = reg => RegInv'
BY DEF RegInv, Reg!CriticalSize

LEMMA SlopeUnchanged == SlopeInv /\ slope' = slope => SlopeInv'
BY DEF SlopeInv

LEMMA RegressionNext == RegressionIInv /\ [MeasurementNext]_measurementVars => RegressionIInv'
<1> SUFFICES ASSUME RegressionIInv, [MeasurementNext]_measurementVars, part' = "regression"
             PROVE  (\E n \in Nat : SortInv(n)') /\ RegInv' /\ SlopeInv'
  BY DEF RegressionIInv
<1>1. part = "regression" /\ (Reg!Next \/ UNCHANGED regressVars)
  BY Zenon DEF MeasurementNext, measurementVars
<1>2. PICK n \in Nat : SortInv(n)
  BY <1>1 DEF RegressionIInv
<1>3. RegInv /\ SlopeInv
  BY <1>1 DEF RegressionIInv
<1>4. find.phase \in {"divide", "scan"} => Searching(n)
  BY <1>2 DEF SortInv, Reg!NoFind
<1>5. CASE UNCHANGED regressVars
  <2>1. UNCHANGED <<x, flags, find, x0, asked>> /\ reg' = reg /\ slope' = slope
    BY <1>5, Zenon DEF regressVars
  <2> QED BY <1>2, <1>3, <2>1, SortUnchanged, RegUnchanged, SlopeUnchanged
<1>6. ASSUME NEW i \in DOMAIN x, Reg!Find(i)
      PROVE  SortInv(n)' /\ RegInv' /\ SlopeInv'
  <2>1. reg' = reg /\ slope' = slope
    BY <1>6, Zenon DEF Reg!Find
  <2> QED BY <1>2, <1>3, <1>6, <2>1, FindStep, RegUnchanged, SlopeUnchanged
<1>7. CASE Reg!Divide
  <2>1. reg' = reg /\ slope' = slope /\ find.phase \in {"divide", "scan"}
    BY <1>7, Zenon DEF Reg!Divide
  <2> QED BY <1>2, <1>3, <1>4, <1>7, <2>1, DivideStep, RegUnchanged, SlopeUnchanged
<1>8. CASE Reg!Exchange
  <2>1. reg' = reg /\ slope' = slope /\ find.phase \in {"divide", "scan"}
    BY <1>8, Zenon DEF Reg!Exchange
  <2> QED BY <1>2, <1>3, <1>4, <1>8, <2>1, ExchangeStep, RegUnchanged, SlopeUnchanged
<1>9. CASE Reg!PlacePivot
  <2>1. reg' = reg /\ slope' = slope /\ find.phase \in {"divide", "scan"}
    BY <1>9, Zenon DEF Reg!PlacePivot
  <2> QED BY <1>2, <1>3, <1>4, <1>9, <2>1, PlacePivotStep, RegUnchanged, SlopeUnchanged
<1>10. ASSUME NEW p \in Points, Reg!StartRegression(p)
       PROVE  SortInv(n)' /\ RegInv' /\ SlopeInv'
  <2>1. UNCHANGED <<x, flags, find, x0, asked>> /\ slope' = slope
    BY <1>10, Zenon DEF Reg!StartRegression
  <2> QED BY <1>2, <1>3, <1>10, <2>1, SortUnchanged, StartRegressionStep, SlopeUnchanged
<1>11. CASE Reg!RunsTest
  <2>1. UNCHANGED <<x, flags, find, x0, asked>> /\ slope' = slope
    BY <1>11, Zenon DEF Reg!RunsTest
  <2> QED BY <1>2, <1>3, <1>11, <2>1, SortUnchanged, RunsTestStep, SlopeUnchanged
<1>12. CASE Reg!Expand
  <2>1. UNCHANGED <<x, flags, find, x0, asked>> /\ reg' = reg
    BY <1>12, Zenon DEF Reg!Expand
  <2> QED BY <1>2, <1>3, <1>12, <2>1, SortUnchanged, RegUnchanged, ExpandStep
<1>13. CASE Reg!Bisect
  <2>1. UNCHANGED <<x, flags, find, x0, asked>> /\ reg' = reg
    BY <1>13, Zenon DEF Reg!Bisect
  <2> QED BY <1>2, <1>3, <1>13, <2>1, SortUnchanged, RegUnchanged, BisectStep
<1> QED BY <1>1, <1>5, <1>6, <1>7, <1>8, <1>9, <1>10, <1>11, <1>12, <1>13, Zenon DEF Reg!Next

LEMMA RegressionImplies == RegressionIInv => RegressionSound
<1> SUFFICES ASSUME RegressionIInv, part = "regression" PROVE Reg!OrderedEntries /\ Reg!RegressionHolds
  BY DEF RegressionSound
<1>1. PICK n \in Nat : SortInv(n)
  BY DEF RegressionIInv
<1>2. RegInv /\ SlopeInv
  BY DEF RegressionIInv
<1> QED BY <1>1, <1>2, SortIsRight, RegressionIsHeld

\* Whatever is sorted is a permutation of what it was, and the entry that is looked
\* for is in its place (find_ordered_entry_with_flags); the regression stays within
\* its tables and ends with three samples at least (RGR_FindBestRegression), and the
\* root of the robust regression stays in the range of slopes
\* (RGR_FindBestRobustRegression).
THEOREM RegressionIsSound == MeasurementSpec => []RegressionSound
<1>1. MeasurementInit => RegressionIInv
  BY RegressionInit
<1>2. RegressionIInv /\ [MeasurementNext]_measurementVars => RegressionIInv'
  BY RegressionNext
<1>3. RegressionIInv => RegressionSound
  BY RegressionImplies
<1> QED BY <1>1, <1>2, <1>3, PTL DEF MeasurementSpec
=============================================================================

------------------------- MODULE MeasurementsProofs -------------------------
(***************************************************************************)
(* Proofs about Measurements: for registers of any size, any delays, skews,*)
(* steps and gaps, the register implements SampleLog and what the daemon   *)
(* reads from it is right; and what SelectionProofs proves of the scan and *)
(* of the selection holds of the parts that run them.                      *)
(***************************************************************************)
EXTENDS Measurements, FiniteSetTheorems, SequenceTheorems, WellFoundedInduction, TLAPS

-----------------------------------------------------------------------------
(* The register: the inductive invariant. *)

SampleType == [time : Time, offset : Offset]
RowType == [s : SampleType, delay : Nat, dispersion : Nat]

\* Buffers and a register that fits into them.
Typed(b) ==
  /\ b.sample \in [0 .. RunsSize - 1 -> SampleType]
  /\ b.delays \in [0 .. MAX_SAMPLES - 1 -> Nat]
  /\ b.dispersions \in [0 .. MAX_SAMPLES - 1 -> Nat]

Fits(r) ==
  /\ DOMAIN r = {"n", "runs", "last"}
  /\ r.n \in 0 .. MAX_SAMPLES
  /\ r.runs \in Nat /\ r.runs <= r.n * (REGRESS_RUNS_RATIO - 1)
  /\ r.last \in -1 .. RunsSize - 1 /\ (r.n > 0 => r.last >= 0)

\* There are samples for the runs test only behind enough others.
RunsBehind(r) == r.n < MIN_SAMPLES_FOR_REGRESS => r.runs = 0

TypeOK ==
  /\ Typed(Buffers) /\ Fits(Register)
  /\ regression_ok \in BOOLEAN /\ skew \in Nat
  /\ estimate \in Seq(SampleType)
  /\ file \in [rows : Seq(RowType), whole : BOOLEAN] /\ Len(file.rows) <= MAX_SAMPLES

\* m is the slot of a sample with the smallest delay.
LeastAt(b, r, m) ==
  r.n > 0 => \E k \in 0 .. r.n - 1 :
               /\ m = BufIndex(r, k)
               /\ \A i \in 0 .. r.n - 1 : b.delays[m] <= b.delays[BufIndex(r, i)]

\* Sample k has the least root distance when the newest one came.
Age(b, r, i) == b.sample[r.last].time - b.sample[RunsIndex(r, i)].time
DistanceAt(b, r, i, sk) == Distance(b, BufIndex(r, i), Age(b, r, i), sk)
NearestAt(b, r, k, sk) ==
  r.n > 0 => k \in 0 .. r.n - 1 /\ \A i \in 0 .. r.n - 1 : DistanceAt(b, r, k, sk) <= DistanceAt(b, r, i, sk)

\* There is a regression of three samples, its estimate is of the newest one.
EstimateIsNewest ==
  /\ regression_ok <=> n_samples >= MIN_SAMPLES_FOR_REGRESS
  /\ n_samples >= MIN_SAMPLES_FOR_REGRESS => estimate = <<sample[last_sample]>>

IInv ==
  /\ TypeOK
  /\ RunsBehind(Register)
  /\ LeastAt(Buffers, Register, min_delay_sample)
  /\ NearestAt(Buffers, Register, best_single_sample, skew)
  /\ EstimateIsNewest

-----------------------------------------------------------------------------
(* Indices of a ring. *)

LEMMA DivMod ==
  ASSUME NEW w \in Int, NEW b \in Nat \ {0}
  PROVE  w = b * (w \div b) + (w % b) /\ w % b \in 0 .. b - 1 /\ w \div b \in Int
OBVIOUS

LEMMA SmallMultiple ==
  ASSUME NEW z \in Int, NEW b \in Nat \ {0}, b * z < b, -b < b * z
  PROVE  z = 0
<1>1. CASE z >= 1
  <2>1. b * z >= b
    BY <1>1
  <2> QED BY <2>1
<1>2. CASE z <= -1
  <2>1. b * z <= -b
    BY <1>2
  <2> QED BY <2>1
<1> QED BY <1>1, <1>2

\* The remainder is the one number below b that differs by a multiple of it.
LEMMA Remainder ==
  ASSUME NEW b \in Nat \ {0}, NEW y \in 0 .. b - 1, NEW k \in Int, NEW w \in Int, w = y + b * k
  PROVE  w % b = y
<1> DEFINE d == w \div b
           e == w % b
<1>1. w = b * d + e /\ e \in 0 .. b - 1 /\ d \in Int
  BY DivMod
<1> HIDE DEF d, e
<1>2. b * (d - k) = b * d - b * k
  BY <1>1
<1>3. b * (d - k) = y - e
  BY <1>1, <1>2
<1>4. d - k = 0
  BY <1>1, <1>3, SmallMultiple
<1>5. y = e
  BY <1>1, <1>3, <1>4
<1> QED BY <1>5 DEF e

\* The slot k places before `last` in a ring of n.
Back(last, k, n) == IF k <= last THEN last - k ELSE last - k + n

LEMMA BackIsSlot ==
  ASSUME NEW n \in Nat \ {0}, NEW last \in 0 .. n - 1, NEW k \in 0 .. n - 1
  PROVE  /\ Back(last, k, n) \in 0 .. n - 1
         /\ k = 0 => Back(last, k, n) = last
         /\ k > 0 => Back(last, k, n) # last
BY DEF Back

LEMMA BackIsMod ==
  ASSUME NEW n \in Nat \ {0}, NEW last \in 0 .. n - 1, NEW k \in 0 .. n - 1,
         NEW q \in Int, NEW w \in Int, w = last - k + n * q
  PROVE  w % n = Back(last, k, n)
<1>1. CASE k <= last
  <2>1. last - k \in 0 .. n - 1
    BY <1>1
  <2>2. w % n = last - k
    BY <2>1, Remainder
  <2> QED BY <1>1, <2>2 DEF Back
<1>2. CASE ~(k <= last)
  <2>1. last - k + n \in 0 .. n - 1 /\ q - 1 \in Int
    BY <1>2
  <2>2. w = (last - k + n) + n * (q - 1)
    OBVIOUS
  <2>3. w % n = last - k + n
    BY <2>1, <2>2, Remainder
  <2> QED BY <1>2, <2>3 DEF Back
<1> QED BY <1>1, <1>2

\* One more step forward, one more back.
LEMMA BackFromNext ==
  ASSUME NEW n \in Nat \ {0}, NEW last \in 0 .. n - 1, NEW k \in 0 .. n - 2
  PROVE  Back((last + 1) % n, k + 1, n) = Back(last, k, n) /\ (last + 1) % n \in 0 .. n - 1
<1>1. CASE last + 1 = n
  <2>1. 0 \in 0 .. n - 1 /\ 1 \in Int /\ last + 1 \in Int /\ last + 1 = 0 + n * 1
    BY <1>1
  <2>2. (last + 1) % n = 0
    BY <2>1, Remainder
  <2> QED BY <1>1, <2>2 DEF Back
<1>2. CASE last + 1 # n
  <2>1. last + 1 \in 0 .. n - 1 /\ 0 \in Int /\ last + 1 \in Int /\ last + 1 = (last + 1) + n * 0
    BY <1>2
  <2>2. (last + 1) % n = last + 1
    BY <2>1, Remainder
  <2> QED BY <1>2, <2>2 DEF Back
<1> QED BY <1>1, <1>2

-----------------------------------------------------------------------------
(* The register in the two rings. *)

LEMMA Sizes ==
  /\ MAX_SAMPLES \in Nat \ {0} /\ MAX_SAMPLES >= 3
  /\ REGRESS_RUNS_RATIO \in Nat \ {0}
  /\ RunsSize \in Nat \ {0} /\ RunsSize >= MAX_SAMPLES
<1> DEFINE M == MAX_SAMPLES
           R == REGRESS_RUNS_RATIO
<1>1. M \in Nat /\ M >= 3 /\ R \in Nat /\ R >= 1
  BY StatsAssumption
<1> HIDE DEF M, R
<1>2. M * R >= M /\ M * R \in Nat
  BY <1>1
<1> QED BY <1>1, <1>2 DEF M, R, RunsSize

\* The samples, those for the runs test included, fit into the large ring.
LEMMA AllFit ==
  ASSUME NEW r, Fits(r)
  PROVE  /\ r.n \in 0 .. MAX_SAMPLES /\ r.runs \in Nat /\ r.n + r.runs <= RunsSize
         /\ r.last \in Int /\ (r.n > 0 => r.last \in 0 .. RunsSize - 1) /\ (r.n = 0 => r.runs = 0)
<1> DEFINE M == MAX_SAMPLES
           R == REGRESS_RUNS_RATIO
           n == r.n
           u == r.runs
<1>1. M \in Nat /\ R \in Nat /\ R >= 1 /\ n \in 0 .. M /\ u \in Nat /\ u <= n * (R - 1)
  BY Sizes DEF Fits
<1> HIDE DEF M, R, n, u
<1>2. n * (R - 1) = n * R - n /\ n * R \in Nat
  BY <1>1
<1>3. n * R <= M * R
  BY <1>1
<1>4. n + u <= M * R /\ (n = 0 => u = 0)
  BY <1>1, <1>2, <1>3
<1>5. n + u <= RunsSize
  BY <1>4 DEF M, R, RunsSize
<1>6. r.last \in -1 .. RunsSize - 1 /\ (n > 0 => r.last >= 0) /\ RunsSize \in Nat
  BY Sizes DEF Fits, n
<1> QED BY <1>1, <1>4, <1>5, <1>6 DEF n, u, M

LEMMA RunsIndexIsBack ==
  ASSUME NEW r, Fits(r), r.n > 0, NEW i \in -r.runs .. r.n - 1
  PROVE  /\ r.n - i - 1 \in 0 .. RunsSize - 1
         /\ RunsIndex(r, i) = Back(r.last, r.n - i - 1, RunsSize)
<1> DEFINE N == RunsSize
           k == r.n - i - 1
<1>1. N \in Nat \ {0} /\ r.n \in Nat /\ r.runs \in Nat /\ r.n + r.runs <= N /\ r.last \in 0 .. N - 1
  BY AllFit, Sizes
<1>2. k \in 0 .. N - 1
  BY <1>1
<1> DEFINE w == r.last + 2 * N - r.n + i + 1
<1>3. w \in Int /\ w = r.last - k + N * 2 /\ 2 \in Int
  BY <1>1
<1>4. w % N = Back(r.last, k, N)
  <2> HIDE DEF N, k, w
  <2> QED BY <1>1, <1>2, <1>3, BackIsMod
<1> QED BY <1>2, <1>4 DEF RunsIndex

LEMMA BufIndexIsBack ==
  ASSUME NEW r, Fits(r), NEW i \in 0 .. r.n - 1
  PROVE  /\ r.last % MAX_SAMPLES \in 0 .. MAX_SAMPLES - 1
         /\ r.n - i - 1 \in 0 .. MAX_SAMPLES - 1
         /\ BufIndex(r, i) = Back(r.last % MAX_SAMPLES, r.n - i - 1, MAX_SAMPLES)
<1> DEFINE N == RunsSize
           M == MAX_SAMPLES
           R == REGRESS_RUNS_RATIO
           k == r.n - i - 1
           last == r.last
           d == last \div M
           e == last % M
<1>1. M \in Nat \ {0} /\ R \in Nat /\ r.n \in 0 .. M /\ last \in Int
  BY AllFit, Sizes
<1>2. k \in 0 .. M - 1
  BY <1>1
<1> DEFINE w == last + N - r.n + i + 1
<1>3. w = last - k + N /\ w \in Int
  BY <1>1, Sizes
<1>4. last = M * d + e /\ e \in 0 .. M - 1 /\ d \in Int
  BY <1>1, DivMod
<1>5. N = M * R
  BY DEF RunsSize
<1>6. w = e - k + M * (d + R)
  <2> HIDE DEF N, M, R, k, d, e, w
  <2>1. M * (d + R) = M * d + M * R
    BY <1>1, <1>4
  <2>2. M * d \in Int /\ M * R \in Int
    BY <1>1, <1>4
  <2> QED BY <1>1, <1>2, <1>3, <1>4, <1>5, <2>1, <2>2
<1>7. w % M = Back(e, k, M)
  <2> HIDE DEF N, M, R, k, d, e, w
  <2>1. d + R \in Int
    BY <1>1, <1>4
  <2> QED BY <1>1, <1>2, <1>3, <1>4, <1>6, <2>1, BackIsMod
<1> QED BY <1>2, <1>4, <1>7 DEF BufIndex

\* The slots, and which of them is the newest sample's.
LEMMA RunsSlots ==
  ASSUME NEW r, Fits(r), r.n > 0, NEW i \in -r.runs .. r.n - 1
  PROVE  /\ RunsIndex(r, i) \in 0 .. RunsSize - 1
         /\ i = r.n - 1 => RunsIndex(r, i) = r.last
         /\ i # r.n - 1 => RunsIndex(r, i) # r.last
<1>1. r.n \in Nat /\ r.runs \in Nat /\ r.last \in 0 .. RunsSize - 1 /\ RunsSize \in Nat \ {0}
  BY AllFit, Sizes
<1>2. r.n - i - 1 \in 0 .. RunsSize - 1 /\ RunsIndex(r, i) = Back(r.last, r.n - i - 1, RunsSize)
  BY RunsIndexIsBack
<1> DEFINE k == r.n - i - 1
<1>3. i \in Int /\ (i = r.n - 1 <=> k = 0)
  BY <1>1
<1>4. k # 0 => k > 0
  BY <1>1, <1>2
<1> HIDE DEF k
<1> QED BY <1>1, <1>2, <1>3, <1>4, BackIsSlot DEF k

LEMMA BufSlots ==
  ASSUME NEW r, Fits(r), NEW i \in 0 .. r.n - 1
  PROVE  /\ BufIndex(r, i) \in 0 .. MAX_SAMPLES - 1
         /\ i = r.n - 1 => BufIndex(r, i) = r.last % MAX_SAMPLES
         /\ i # r.n - 1 => BufIndex(r, i) # r.last % MAX_SAMPLES
<1>1. r.n \in Nat /\ MAX_SAMPLES \in Nat \ {0}
  BY AllFit, Sizes
<1>2. /\ r.last % MAX_SAMPLES \in 0 .. MAX_SAMPLES - 1
      /\ r.n - i - 1 \in 0 .. MAX_SAMPLES - 1
      /\ BufIndex(r, i) = Back(r.last % MAX_SAMPLES, r.n - i - 1, MAX_SAMPLES)
  BY BufIndexIsBack
<1> DEFINE k == r.n - i - 1
<1>3. i \in Int /\ (i = r.n - 1 <=> k = 0)
  BY <1>1
<1>4. k # 0 => k > 0
  BY <1>1, <1>2
<1> HIDE DEF k
<1> QED BY <1>1, <1>2, <1>3, <1>4, BackIsSlot DEF k

\* A step of the large ring is one of the small ring, whose size divides it.
LEMMA NextInBothRings ==
  ASSUME NEW last \in Int
  PROVE  ((last + 1) % RunsSize) % MAX_SAMPLES = ((last % MAX_SAMPLES) + 1) % MAX_SAMPLES
<1> DEFINE M == MAX_SAMPLES
           R == REGRESS_RUNS_RATIO
           N == RunsSize
           d == last \div M
           e == last % M
           g == (e + 1) \div M
           y == (e + 1) % M
           q == (last + 1) \div N
           z == (last + 1) % N
<1>1. M \in Nat \ {0} /\ N \in Nat \ {0} /\ R \in Nat
  BY Sizes
<1>2. last = M * d + e /\ d \in Int /\ e \in 0 .. M - 1
  BY <1>1, DivMod
<1>3. e + 1 = M * g + y /\ g \in Int /\ y \in 0 .. M - 1
  <2>1. e + 1 \in Int
    BY <1>1, <1>2
  <2> HIDE DEF M, e
  <2> QED BY <1>1, <2>1, DivMod
<1>4. last + 1 = N * q + z /\ q \in Int /\ z \in 0 .. N - 1
  <2>1. last + 1 \in Int
    OBVIOUS
  <2> HIDE DEF N
  <2> QED BY <1>1, <2>1, DivMod
<1>5. N = M * R
  BY DEF RunsSize
<1> HIDE DEF M, R, N, d, e, g, y, q, z
<1>6. N * q = M * (R * q)
  BY <1>1, <1>4, <1>5
<1>7. R * q \in Int /\ g + d - R * q \in Int
  BY <1>1, <1>2, <1>3, <1>4
<1>8. M * (g + d - R * q) = M * g + M * d - M * (R * q)
  <2> DEFINE p == R * q
  <2>1. p \in Int
    BY <1>7
  <2> HIDE DEF p
  <2>2. M * (g + d - p) = M * g + M * d - M * p
    BY <1>1, <1>2, <1>3, <2>1
  <2> QED BY <2>2 DEF p
<1>9. z = y + M * (g + d - R * q)
  <2>1. M * g \in Int /\ M * d \in Int /\ M * (R * q) \in Int
    BY <1>1, <1>2, <1>3, <1>7
  <2> QED BY <1>1, <1>2, <1>3, <1>4, <1>6, <1>8, <2>1
<1>10. z % M = y
  <2>1. z \in Int
    BY <1>1, <1>4
  <2> QED BY <1>1, <1>3, <1>7, <1>9, <2>1, Remainder
<1> QED BY <1>10 DEF z, y, M, N, e

-----------------------------------------------------------------------------
(* Changes of the register. *)

\* r1 is r without its oldest samples.
Rest(r1, r) ==
  /\ Fits(r1) /\ r1.last = r.last
  /\ r1.n <= r.n /\ r1.runs <= r.runs + r.n - r1.n

LEMMA RestSlots ==
  ASSUME NEW r, NEW r1, Fits(r), Rest(r1, r), NEW i \in Int
  PROVE  /\ RunsIndex(r1, i) = RunsIndex(r, i + r.n - r1.n)
         /\ BufIndex(r1, i) = BufIndex(r, i + r.n - r1.n)
<1>1. r.n \in Int /\ r1.n \in Int /\ r.last \in Int /\ r1.last = r.last /\ RunsSize \in Int
  BY AllFit, Sizes DEF Rest
<1>2. /\ r1.last + 2 * RunsSize - r1.n + i + 1 = r.last + 2 * RunsSize - r.n + (i + r.n - r1.n) + 1
      /\ r1.last + RunsSize - r1.n + i + 1 = r.last + RunsSize - r.n + (i + r.n - r1.n) + 1
  BY <1>1
<1> QED BY <1>2 DEF RunsIndex, BufIndex

LEMMA LesserOfTwo ==
  ASSUME NEW a \in Nat, NEW b \in Nat
  PROVE  Min({a, b}) \in Nat /\ Min({a, b}) <= a /\ Min({a, b}) <= b
<1>1. \E w \in {a, b} : \A y \in {a, b} : w <= y
  OBVIOUS
<1>2. Min({a, b}) \in {a, b} /\ \A y \in {a, b} : Min({a, b}) <= y
  BY <1>1 DEF Min
<1> QED BY <1>2

LEMMA PruneLeavesRest ==
  ASSUME NEW r, Fits(r), NEW k \in 0 .. r.n
  PROVE  Rest(Prune(r, k), r) /\ Prune(r, k).n = r.n - k
<1> DEFINE n == r.n - k
           p == n * (REGRESS_RUNS_RATIO - 1)
           u == Min({r.runs + k, p})
<1>1. r.n \in 0 .. MAX_SAMPLES /\ r.runs \in Nat /\ MAX_SAMPLES \in Nat
  BY AllFit, Sizes
<1>2. n \in 0 .. MAX_SAMPLES /\ k \in Nat /\ n <= r.n /\ r.runs + k \in Nat
  BY <1>1
<1>3. p \in Nat
  <2>1. REGRESS_RUNS_RATIO - 1 \in Nat
    BY Sizes
  <2>2. n \in Nat
    BY <1>2
  <2> HIDE DEF n
  <2> QED BY <2>1, <2>2
<1>4. u \in Nat /\ u <= r.runs + k /\ u <= p
  <2> HIDE DEF p
  <2> QED BY <1>2, <1>3, LesserOfTwo
<1>5. LET w == Prune(r, k)
      IN w.n = n /\ w.runs = u /\ w.last = r.last /\ DOMAIN w = {"n", "runs", "last"}
  BY DEF Prune, Fits
<1>6. r.last \in -1 .. RunsSize - 1 /\ (r.n > 0 => r.last >= 0)
  BY DEF Fits
<1>7. Fits(Prune(r, k))
  <2>1. n > 0 => r.last >= 0
    BY <1>1, <1>2, <1>6
  <2> HIDE DEF n, u
  <2> QED BY <1>2, <1>4, <1>5, <1>6, <2>1 DEF Fits
<1>8. u <= r.runs + r.n - n
  BY <1>1, <1>2, <1>4
<1> HIDE DEF u, n
<1> QED BY <1>2, <1>5, <1>7, <1>8 DEF Rest, n

\* Another sample leaves the others where they are.
Extended(r) == [r EXCEPT !.n = @ + 1, !.last = (@ + 1) % RunsSize]

LEMMA ExtendedFits ==
  ASSUME NEW r, Fits(r), r.n < MAX_SAMPLES
  PROVE  /\ Fits(Extended(r)) /\ Extended(r).n = r.n + 1 /\ Extended(r).runs = r.runs
         /\ Extended(r).last = (r.last + 1) % RunsSize
<1> DEFINE n == r.n
           R == REGRESS_RUNS_RATIO - 1
           u == r.runs
           last == (r.last + 1) % RunsSize
<1>1. n \in Nat /\ n + 1 \in 0 .. MAX_SAMPLES /\ R \in Nat /\ u \in Nat /\ r.last \in Int
  BY AllFit, Sizes
<1>2. u <= n * R
  BY DEF Fits
<1>3. u <= (n + 1) * R
  <2> HIDE DEF n, R, u
  <2>1. (n + 1) * R = n * R + R /\ n * R \in Nat
    BY <1>1
  <2> QED BY <1>1, <1>2, <2>1
<1>4. last \in 0 .. RunsSize - 1
  <2>1. r.last + 1 \in Int /\ RunsSize \in Nat \ {0}
    BY <1>1, Sizes
  <2> QED BY <2>1, DivMod
<1>5. last \in -1 .. RunsSize - 1 /\ last >= 0
  BY <1>4, Sizes
<1>6. LET w == Extended(r)
      IN w.n = n + 1 /\ w.runs = u /\ w.last = last /\ DOMAIN w = {"n", "runs", "last"}
  BY DEF Extended, Fits
<1> HIDE DEF last, R, u
<1> QED BY <1>1, <1>3, <1>5, <1>6 DEF Fits, last, R, u

LEMMA ExtendedSlots ==
  ASSUME NEW r, Fits(r), r.n < MAX_SAMPLES
  PROVE  /\ \A i \in -r.runs .. r.n - 1 : RunsIndex(Extended(r), i) = RunsIndex(r, i)
         /\ \A i \in 0 .. r.n - 1 : BufIndex(Extended(r), i) = BufIndex(r, i)
<1> DEFINE w == Extended(r)
<1>1. Fits(w) /\ w.n = r.n + 1 /\ w.runs = r.runs /\ w.last = (r.last + 1) % RunsSize
  BY ExtendedFits
<1>2. r.n \in Nat /\ r.runs \in Nat /\ r.last \in Int /\ (r.n > 0 => r.last \in 0 .. RunsSize - 1)
      /\ (r.n = 0 => r.runs = 0) /\ RunsSize \in Nat \ {0} /\ MAX_SAMPLES \in Nat \ {0}
  BY AllFit, Sizes
<1> HIDE DEF w
<1>3. ASSUME NEW i \in -r.runs .. r.n - 1 PROVE RunsIndex(w, i) = RunsIndex(r, i)
  <2>1. r.n > 0 /\ i \in -w.runs .. w.n - 1 /\ w.n > 0 /\ i \in Int
    BY <1>1, <1>2
  <2>2. r.n - i - 1 \in 0 .. RunsSize - 1 /\ RunsIndex(r, i) = Back(r.last, r.n - i - 1, RunsSize)
    BY <2>1, RunsIndexIsBack
  <2>3. w.n - i - 1 \in 0 .. RunsSize - 1 /\ RunsIndex(w, i) = Back(w.last, w.n - i - 1, RunsSize)
    BY <1>1, <2>1, RunsIndexIsBack
  <2> DEFINE k == r.n - i - 1
  <2>4. w.n - i - 1 = k + 1 /\ k \in 0 .. RunsSize - 2
    BY <1>1, <1>2, <2>1, <2>2, <2>3
  <2> HIDE DEF k
  <2>5. Back((r.last + 1) % RunsSize, k + 1, RunsSize) = Back(r.last, k, RunsSize)
    BY <1>2, <2>1, <2>4, BackFromNext
  <2> QED BY <1>1, <2>2, <2>3, <2>4, <2>5 DEF k
<1>4. ASSUME NEW i \in 0 .. r.n - 1 PROVE BufIndex(w, i) = BufIndex(r, i)
  <2> DEFINE M == MAX_SAMPLES
             k == r.n - i - 1
             e == r.last % M
  <2>1. i \in 0 .. w.n - 1 /\ i \in Int
    BY <1>1, <1>2
  <2>2. e \in 0 .. M - 1 /\ k \in 0 .. M - 1 /\ BufIndex(r, i) = Back(e, k, M)
    BY BufIndexIsBack
  <2>3. w.n - i - 1 \in 0 .. M - 1 /\ BufIndex(w, i) = Back(w.last % M, w.n - i - 1, M)
    BY <1>1, <2>1, BufIndexIsBack
  <2>4. w.n - i - 1 = k + 1 /\ k \in 0 .. M - 2
    BY <1>1, <1>2, <2>1, <2>2, <2>3
  <2>5. w.last % M = (e + 1) % M
    BY <1>1, <1>2, NextInBothRings
  <2>6. Back((e + 1) % M, k + 1, M) = Back(e, k, M)
    <3> HIDE DEF M, k, e
    <3>1. M \in Nat \ {0}
      BY <1>2 DEF M
    <3> QED BY <2>2, <2>4, <3>1, BackFromNext
  <2> HIDE DEF M, k, e
  <2> QED BY <2>2, <2>3, <2>4, <2>5, <2>6
<1> QED BY <1>3, <1>4 DEF w

-----------------------------------------------------------------------------
(* The least of the samples. *)

\* The least element of a set of natural numbers exists.
LEMMA LeastExists ==
  ASSUME NEW S \in SUBSET Nat, S # {}
  PROVE  Min(S) \in S /\ \A y \in S : Min(S) <= y
<1>1. PICK w \in S : \A y \in S : ~(<<y, w>> \in OpToRel(<, Nat))
  BY NatLessThanWellFounded, WFMin, Zenon
<1>2. \A y \in S : <<y, w>> \notin {p \in Nat \X Nat : p[1] < p[2]}
  BY <1>1 DEF OpToRel
<1>3. ASSUME NEW y \in S PROVE w <= y
  <2>1. <<y, w>> \in Nat \X Nat /\ w \in Nat /\ y \in Nat
    OBVIOUS
  <2>2. ~(<<y, w>>[1] < <<y, w>>[2])
    BY <1>2, <2>1
  <2> QED BY <2>1, <2>2
<1> QED BY <1>3 DEF Min

\* So does that of finitely many integers: the shortest beginning without one
\* would be one longer than a beginning with one.
LEMMA LeastValueExists ==
  ASSUME NEW n \in Nat \ {0}, NEW f \in [0 .. n - 1 -> Int]
  PROVE  \E i \in 0 .. n - 1 : \A k \in 0 .. n - 1 : f[i] <= f[k]
<1> DEFINE Has(m) == \E i \in 0 .. m - 1 : \A k \in 0 .. m - 1 : f[i] <= f[k]
           S == {m \in 1 .. n : ~Has(m)}
<1>1. SUFFICES ASSUME ~Has(n) PROVE FALSE
  OBVIOUS
<1>2. S \in SUBSET Nat /\ S # {}
  <2>1. n \in 1 .. n
    OBVIOUS
  <2> HIDE DEF Has
  <2> QED BY <1>1, <2>1
<1>3. PICK m \in S : \A y \in S : m <= y
  <2>1. Min(S) \in S /\ \A y \in S : Min(S) <= y
    <3> HIDE DEF S
    <3> QED BY <1>2, LeastExists
  <2> QED BY <2>1
<1>4. m \in 1 .. n /\ ~Has(m)
  BY <1>3
<1>5. m # 1
  <2>1. SUFFICES ASSUME m = 1 PROVE FALSE
    OBVIOUS
  <2>2. f[0] \in Int /\ 0 \in 0 .. m - 1 /\ \A k \in 0 .. m - 1 : k = 0
    BY <2>1
  <2>3. ASSUME NEW k \in 0 .. m - 1 PROVE f[0] <= f[k]
    <3>1. k = 0
      BY <2>2
    <3>2. f[0] <= f[0]
      BY <2>2
    <3> QED BY <3>1, <3>2
  <2> QED BY <1>4, <2>2, <2>3
<1>6. Has(m - 1)
  <2>1. m - 1 \in 1 .. n /\ ~(m <= m - 1)
    BY <1>4, <1>5
  <2> QED BY <1>3, <2>1
<1>7. PICK i \in 0 .. m - 2 : \A k \in 0 .. m - 2 : f[i] <= f[k]
  <2>1. (m - 1) - 1 = m - 2
    BY <1>4
  <2> QED BY <1>6, <2>1
<1>8. \A k \in 0 .. m - 1 : f[k] \in Int /\ (k \in 0 .. m - 2 \/ k = m - 1)
  BY <1>4
<1>9. m - 1 \in 0 .. m - 1 /\ i \in 0 .. m - 1 /\ f[i] \in Int /\ f[m - 1] \in Int
  BY <1>4, <1>5, <1>8
<1>10. CASE f[i] <= f[m - 1]
  <2>1. \A k \in 0 .. m - 1 : f[i] <= f[k]
    BY <1>7, <1>8, <1>10
  <2> QED BY <1>4, <1>9, <2>1
<1>11. CASE ~(f[i] <= f[m - 1])
  <2>1. \A k \in 0 .. m - 1 : f[m - 1] <= f[k]
    BY <1>7, <1>8, <1>9, <1>11
  <2> QED BY <1>4, <1>9, <2>1
<1> QED BY <1>10, <1>11

\* The first place of the least value, which the code looks for.
LEMMA FirstLeast ==
  ASSUME NEW n \in Nat \ {0}, NEW f \in [0 .. n - 1 -> Int]
  PROVE  LET S == {i \in 0 .. n - 1 : \A k \in 0 .. n - 1 : f[i] <= f[k]}
         IN Min(S) \in 0 .. n - 1 /\ \A k \in 0 .. n - 1 : f[Min(S)] <= f[k]
<1> DEFINE S == {i \in 0 .. n - 1 : \A k \in 0 .. n - 1 : f[i] <= f[k]}
<1>1. S \in SUBSET Nat /\ S # {}
  <2>1. PICK i \in 0 .. n - 1 : \A k \in 0 .. n - 1 : f[i] <= f[k]
    BY LeastValueExists
  <2>2. i \in S
    BY <2>1
  <2>3. \A k \in S : k \in Nat
    OBVIOUS
  <2> HIDE DEF S
  <2> QED BY <2>2, <2>3
<1>2. Min(S) \in S
  <2> HIDE DEF S
  <2> QED BY <1>1, LeastExists
<1> QED BY <1>2

LEMMA MinDelayIsFound ==
  ASSUME NEW b, NEW r, Typed(b), Fits(r)
  PROVE  LeastAt(b, r, MinDelayIndex(r, b.delays))
<1>1. SUFFICES ASSUME r.n > 0
               PROVE  LeastAt(b, r, MinDelayIndex(r, b.delays))
  BY DEF LeastAt
<1> DEFINE n == r.n
           d == b.delays
           f == [i \in 0 .. n - 1 |-> d[BufIndex(r, i)]]
           S == {i \in 0 .. n - 1 : \A k \in 0 .. n - 1 : f[i] <= f[k]}
<1>2. n \in Nat \ {0}
  BY <1>1, AllFit
<1>3. \A i \in 0 .. n - 1 : d[BufIndex(r, i)] \in Nat
  BY BufSlots DEF Typed
<1>4. f \in [0 .. n - 1 -> Int]
  BY <1>3
<1>5. Min(S) \in 0 .. n - 1 /\ \A k \in 0 .. n - 1 : f[Min(S)] <= f[k]
  <2> HIDE DEF n, f
  <2> QED BY <1>2, <1>4, FirstLeast
<1>6. S = {i \in 0 .. n - 1 : \A k \in 0 .. n - 1 : d[BufIndex(r, i)] <= d[BufIndex(r, k)]}
  OBVIOUS
<1>7. MinDelayIndex(r, d) = BufIndex(r, Min(S))
  BY <1>1, <1>2, <1>6 DEF MinDelayIndex, LeastDelay
<1>8. \A k \in 0 .. n - 1 : f[k] = d[BufIndex(r, k)]
  OBVIOUS
<1> HIDE DEF S, f
<1> QED BY <1>5, <1>7, <1>8 DEF LeastAt

LEMMA AgeIsNumber ==
  ASSUME NEW b, NEW r, Typed(b), Fits(r), NEW i \in -r.runs .. r.n - 1, r.n > 0
  PROVE  Age(b, r, i) \in Int
<1>1. RunsIndex(r, i) \in 0 .. RunsSize - 1 /\ r.last \in 0 .. RunsSize - 1
  BY RunsSlots, AllFit
<1>2. b.sample[RunsIndex(r, i)] \in SampleType /\ b.sample[r.last] \in SampleType
  BY <1>1 DEF Typed
<1>3. \A s \in SampleType : s.time \in Int
  BY StatsAssumption DEF SampleType, Time
<1> QED BY <1>2, <1>3 DEF Age

LEMMA DistanceIsNumber ==
  ASSUME NEW b, NEW r, Typed(b), Fits(r), NEW i \in 0 .. r.n - 1, NEW sk \in Nat
  PROVE  DistanceAt(b, r, i, sk) \in Int
<1> DEFINE e == Age(b, r, i)
           d == b.dispersions[BufIndex(r, i)]
           y == b.delays[BufIndex(r, i)]
<1>1. r.n \in Nat /\ r.n > 0 /\ r.runs \in Nat /\ i \in -r.runs .. r.n - 1
  BY AllFit
<1>2. e \in Int
  BY <1>1, AgeIsNumber
<1>3. d \in Nat /\ y \in Nat
  BY BufSlots DEF Typed
<1>4. DistanceAt(b, r, i, sk) = 2 * d + 2 * e * sk + y
  BY DEF DistanceAt, Distance
<1> HIDE DEF e, d, y
<1>5. 2 * e * sk \in Int
  BY <1>2
<1> QED BY <1>3, <1>4, <1>5

\* The ages of what is left after the regression dropped samples are read behind
\* the dropped ones.
LEMMA BestSampleIsNearest ==
  ASSUME NEW b, NEW r, NEW r1, Typed(b), Fits(r), Rest(r1, r), r1.n > 0, NEW sk \in Nat
  PROVE  NearestAt(b, r1, BestSample(b, r, r1, r.runs + r.n - r1.n, sk), sk)
<1> DEFINE n == r1.n
           first == r.runs + r.n - r1.n
           E(i) == b.sample[r.last].time - b.sample[RunsIndex(r, first + i - r.runs)].time
           f == [i \in 0 .. n - 1 |-> DistanceAt(b, r1, i, sk)]
           S == {i \in 0 .. n - 1 : \A k \in 0 .. n - 1 : f[i] <= f[k]}
<1>1. Fits(r1) /\ r1.last = r.last /\ r.n \in Nat /\ r.runs \in Nat /\ n \in Nat \ {0}
  BY AllFit DEF Rest
<1>2. ASSUME NEW i \in 0 .. n - 1
      PROVE  Distance(b, BufIndex(r1, i), E(i), sk) = DistanceAt(b, r1, i, sk)
  <2>1. i \in Int /\ first + i - r.runs = i + r.n - r1.n
    BY <1>1
  <2>2. RunsIndex(r1, i) = RunsIndex(r, i + r.n - r1.n)
    BY <2>1, RestSlots
  <2>3. E(i) = Age(b, r1, i)
    BY <1>1, <2>1, <2>2 DEF Age
  <2> QED BY <2>3 DEF DistanceAt
<1>3. f \in [0 .. n - 1 -> Int]
  BY <1>1, DistanceIsNumber
<1>4. Min(S) \in 0 .. n - 1 /\ \A k \in 0 .. n - 1 : f[Min(S)] <= f[k]
  <2> HIDE DEF n, f
  <2> QED BY <1>1, <1>3, FirstLeast
<1>5. S = {i \in 0 .. n - 1 : \A k \in 0 .. n - 1 :
             Distance(b, BufIndex(r1, i), E(i), sk) <= Distance(b, BufIndex(r1, k), E(k), sk)}
  BY <1>2
<1>6. BestSample(b, r, r1, first, sk) = Min(S)
  BY <1>5 DEF BestSample
<1>7. \A k \in 0 .. n - 1 : f[k] = DistanceAt(b, r1, k, sk)
  OBVIOUS
<1> HIDE DEF S, f
<1> QED BY <1>4, <1>6, <1>7 DEF NearestAt

-----------------------------------------------------------------------------
(* What is written back. *)

SameIndices(r1, r2) == r1.n = r2.n /\ r1.runs = r2.runs /\ r1.last = r2.last

\* The buffers b2 hold what b holds of the samples of r.
Holds(b2, b, r) ==
  /\ \A i \in -r.runs .. r.n - 1 : b2.sample[RunsIndex(r, i)] = b.sample[RunsIndex(r, i)]
  /\ \A i \in 0 .. r.n - 1 : LET j == BufIndex(r, i)
                             IN b2.delays[j] = b.delays[j] /\ b2.dispersions[j] = b.dispersions[j]

LEMMA SameSlots ==
  ASSUME NEW r1, NEW r2, SameIndices(r1, r2)
  PROVE  \A i : RunsIndex(r1, i) = RunsIndex(r2, i) /\ BufIndex(r1, i) = BufIndex(r2, i)
BY DEF SameIndices, RunsIndex, BufIndex

LEMMA LeastIsHeld ==
  ASSUME NEW b, NEW b2, NEW r, NEW r2, SameIndices(r2, r), Holds(b2, b, r), NEW m, LeastAt(b, r, m)
  PROVE  LeastAt(b2, r2, m)
<1>1. r2.n = r.n /\ \A i : BufIndex(r2, i) = BufIndex(r, i)
  BY SameSlots DEF SameIndices
<1>2. \A i \in 0 .. r.n - 1 : b2.delays[BufIndex(r, i)] = b.delays[BufIndex(r, i)]
  BY DEF Holds
<1>3. SUFFICES ASSUME r.n > 0 PROVE LeastAt(b2, r2, m)
  BY <1>1 DEF LeastAt
<1>4. PICK k \in 0 .. r.n - 1 : m = BufIndex(r, k) /\ \A i \in 0 .. r.n - 1 : b.delays[m] <= b.delays[BufIndex(r, i)]
  BY <1>3 DEF LeastAt
<1>5. b2.delays[m] = b.delays[m]
  BY <1>2, <1>4
<1> QED BY <1>1, <1>2, <1>4, <1>5 DEF LeastAt

\* The nearest sample stays the nearest when all distances grow alike.
LEMMA NearestIsHeld ==
  ASSUME NEW b, NEW b2, NEW r, NEW r2, Fits(r), Typed(b), NEW sk \in Nat, r2.n = r.n, NEW c \in Int,
         \A i \in 0 .. r.n - 1 : DistanceAt(b2, r2, i, sk) = DistanceAt(b, r, i, sk) + c,
         NEW k, NearestAt(b, r, k, sk)
  PROVE  NearestAt(b2, r2, k, sk)
<1>1. SUFFICES ASSUME r.n > 0 PROVE NearestAt(b2, r2, k, sk)
  BY DEF NearestAt
<1>2. k \in 0 .. r.n - 1 /\ \A i \in 0 .. r.n - 1 : DistanceAt(b, r, k, sk) <= DistanceAt(b, r, i, sk)
  BY <1>1 DEF NearestAt
<1>3. \A i \in 0 .. r.n - 1 : DistanceAt(b, r, i, sk) \in Int
  BY DistanceIsNumber
<1>4. \A i \in 0 .. r.n - 1 : DistanceAt(b2, r2, k, sk) <= DistanceAt(b2, r2, i, sk)
  BY <1>2, <1>3
<1> QED BY <1>2, <1>4 DEF NearestAt

LEMMA DistanceIsHeld ==
  ASSUME NEW b, NEW b2, NEW r, NEW r2, Fits(r), SameIndices(r2, r), Holds(b2, b, r),
         NEW i \in 0 .. r.n - 1, NEW sk
  PROVE  DistanceAt(b2, r2, i, sk) = DistanceAt(b, r, i, sk)
<1>1. r.n \in Nat /\ r.runs \in Nat /\ r.n > 0 /\ i \in -r.runs .. r.n - 1 /\ r.n - 1 \in -r.runs .. r.n - 1
  BY AllFit
<1>2. RunsIndex(r, r.n - 1) = r.last
  BY <1>1, RunsSlots
<1>3. b2.sample[r.last] = b.sample[r.last] /\ b2.sample[RunsIndex(r, i)] = b.sample[RunsIndex(r, i)]
  BY <1>1, <1>2 DEF Holds
<1>4. r2.last = r.last /\ RunsIndex(r2, i) = RunsIndex(r, i) /\ BufIndex(r2, i) = BufIndex(r, i)
  BY SameSlots DEF SameIndices
<1>5. Age(b2, r2, i) = Age(b, r, i)
  BY <1>3, <1>4 DEF Age
<1>6. b2.delays[BufIndex(r, i)] = b.delays[BufIndex(r, i)]
      /\ b2.dispersions[BufIndex(r, i)] = b.dispersions[BufIndex(r, i)]
  BY DEF Holds
<1> QED BY <1>4, <1>5, <1>6 DEF DistanceAt, Distance

\* Store writes a register back, and keeps all that is in it.
LEMMA StoreHolds ==
  ASSUME NEW b, NEW r, Typed(b), Fits(r), Typed(Buffers), Store(b, r)
  PROVE  /\ Typed(Buffers') /\ Fits(Register') /\ SameIndices(Register', r)
         /\ Holds(Buffers', b, r)
<1> DEFINE live == {BufIndex(r, i) : i \in 0 .. r.n - 1}
           liveRuns == {RunsIndex(r, i) : i \in -r.runs .. r.n - 1}
           N == RunsSize - 1
           M == MAX_SAMPLES - 1
<1>1. /\ sample \in [0 .. N -> SampleType] /\ delays \in [0 .. M -> Nat] /\ dispersions \in [0 .. M -> Nat]
      /\ b.sample \in [0 .. N -> SampleType] /\ b.delays \in [0 .. M -> Nat] /\ b.dispersions \in [0 .. M -> Nat]
  BY DEF Typed, Buffers
<1>2. /\ n_samples' = r.n /\ runs_samples' = r.runs /\ last_sample' = r.last
      /\ sample' = [i \in 0 .. N |-> IF i \in liveRuns THEN b.sample[i] ELSE Garbage]
      /\ delays' = [j \in 0 .. M |-> IF j \in live THEN b.delays[j] ELSE 0]
      /\ dispersions' = [j \in 0 .. M |-> IF j \in live THEN b.dispersions[j] ELSE 0]
  BY <1>1 DEF Store
<1>3. Garbage \in SampleType
  BY StatsAssumption DEF Garbage, SampleType, Time, Offset
<1>4. ASSUME NEW i \in -r.runs .. r.n - 1
      PROVE  RunsIndex(r, i) \in liveRuns /\ RunsIndex(r, i) \in 0 .. N
  <2>1. r.n > 0
    BY AllFit
  <2> QED BY <2>1, RunsSlots
<1>5. \A i \in 0 .. r.n - 1 : BufIndex(r, i) \in live /\ BufIndex(r, i) \in 0 .. M
  BY BufSlots
<1> HIDE DEF live, liveRuns, N, M
<1>6. sample' \in [0 .. N -> SampleType] /\ delays' \in [0 .. M -> Nat] /\ dispersions' \in [0 .. M -> Nat]
  BY <1>1, <1>2, <1>3
<1>7. Typed(Buffers')
  BY <1>6 DEF Typed, Buffers, N, M
<1>8. SameIndices(Register', r)
  BY <1>2 DEF SameIndices, Register
<1>9. Fits(Register')
  BY <1>2 DEF Fits, Register
<1>10. Holds(Buffers', b, r)
  <2>1. \A i \in -r.runs .. r.n - 1 : sample'[RunsIndex(r, i)] = b.sample[RunsIndex(r, i)]
    BY <1>2, <1>4
  <2>2. \A i \in 0 .. r.n - 1 : delays'[BufIndex(r, i)] = b.delays[BufIndex(r, i)]
    BY <1>2, <1>5
  <2>3. \A i \in 0 .. r.n - 1 : dispersions'[BufIndex(r, i)] = b.dispersions[BufIndex(r, i)]
    BY <1>2, <1>5
  <2> QED BY <2>1, <2>2, <2>3 DEF Holds, Buffers
<1> QED BY <1>7, <1>8, <1>9, <1>10

-----------------------------------------------------------------------------
(* The regression. *)

\* The register has the newest samples of r, a regression if there are enough.
RegressionOf(b, r) ==
  /\ Typed(Buffers') /\ Rest(Register', r) /\ RunsBehind(Register')
  /\ Holds(Buffers', b, Register')
  /\ LeastAt(Buffers', Register', min_delay_sample')
  /\ NearestAt(Buffers', Register', best_single_sample', skew')
  /\ regression_ok' \in BOOLEAN /\ skew' \in Nat
  /\ regression_ok' <=> n_samples' >= MIN_SAMPLES_FOR_REGRESS
  /\ n_samples' > 0 <=> r.n > 0
  /\ estimate' = IF n_samples' >= MIN_SAMPLES_FOR_REGRESS THEN <<b.sample[r.last]>> ELSE estimate

LEMMA StoreOfRest ==
  ASSUME NEW b, NEW r, NEW r1, Typed(b), Fits(r), Rest(r1, r), RunsBehind(r1), Typed(Buffers), Store(b, r1),
         NEW sk \in Nat, skew' = sk,
         LeastAt(b, r1, min_delay_sample'), NearestAt(b, r1, best_single_sample', sk)
  PROVE  /\ Typed(Buffers') /\ Rest(Register', r) /\ RunsBehind(Register')
         /\ Holds(Buffers', b, Register') /\ n_samples' = r1.n
         /\ LeastAt(Buffers', Register', min_delay_sample')
         /\ NearestAt(Buffers', Register', best_single_sample', skew')
<1>1. Fits(r1)
  BY DEF Rest
<1>2. Typed(Buffers') /\ Fits(Register') /\ SameIndices(Register', r1) /\ Holds(Buffers', b, r1)
  BY <1>1, StoreHolds
<1>3. Rest(Register', r) /\ RunsBehind(Register')
  BY <1>2 DEF Rest, RunsBehind, SameIndices
<1>4. Holds(Buffers', b, Register')
  <2> DEFINE q == Register'
  <2>1. SameIndices(q, r1)
    BY <1>2
  <2> HIDE DEF q
  <2>2. q.n = r1.n /\ q.runs = r1.runs
        /\ \A i : RunsIndex(q, i) = RunsIndex(r1, i) /\ BufIndex(q, i) = BufIndex(r1, i)
    BY <2>1, SameSlots DEF SameIndices
  <2>3. Holds(Buffers', b, q)
    BY <1>2, <2>2 DEF Holds
  <2> QED BY <2>3 DEF q
<1>5. n_samples' = r1.n
  BY <1>2 DEF SameIndices, Register
<1>6. LeastAt(Buffers', Register', min_delay_sample')
  BY <1>2, LeastIsHeld
<1>7. NearestAt(Buffers', Register', best_single_sample', sk)
  <2>1. \A i \in 0 .. r1.n - 1 : DistanceAt(b, r1, i, sk) \in Int
    BY <1>1, DistanceIsNumber
  <2>2. \A i \in 0 .. r1.n - 1 : DistanceAt(Buffers', Register', i, sk) = DistanceAt(b, r1, i, sk)
    BY <1>1, <1>2, DistanceIsHeld
  <2>3. Register'.n = r1.n
    BY <1>2 DEF SameIndices
  <2>4. \A i \in 0 .. r1.n - 1 : DistanceAt(Buffers', Register', i, sk) = DistanceAt(b, r1, i, sk) + 0
    BY <2>1, <2>2
  <2>5. 0 \in Int
    OBVIOUS
  <2> QED BY <1>1, <2>3, <2>4, <2>5, NearestIsHeld
<1> QED BY <1>2, <1>3, <1>4, <1>5, <1>6, <1>7

LEMMA RegressionKeeps ==
  ASSUME NEW b, NEW r, NEW m, Typed(b), Fits(r), RunsBehind(r), LeastAt(b, r, m), Typed(Buffers),
         DoNewRegression(b, r, m)
  PROVE  RegressionOf(b, r)
<1>1. r.n \in Nat /\ r.runs \in Nat
  BY AllFit
<1>2. Rest(r, r)
  BY <1>1 DEF Rest
<1>3. CASE r.n < MIN_SAMPLES_FOR_REGRESS
  <2>1. /\ regression_ok' = FALSE /\ skew' = WorstSkew /\ Store(b, r) /\ min_delay_sample' = m
        /\ best_single_sample' = IF r.n = 0 THEN best_single_sample ELSE BestSample(b, r, r, 0, WorstSkew)
        /\ estimate' = estimate
    BY <1>3 DEF DoNewRegression
  <2>2. WorstSkew \in Nat
    BY StatsAssumption
  <2>3. NearestAt(b, r, best_single_sample', WorstSkew)
    <3>1. CASE r.n = 0
      BY <3>1 DEF NearestAt
    <3>2. CASE r.n > 0
      <4>1. r.runs + r.n - r.n = 0
        BY <1>1, <1>3 DEF RunsBehind
      <4>2. NearestAt(b, r, BestSample(b, r, r, r.runs + r.n - r.n, WorstSkew), WorstSkew)
        BY <1>2, <2>2, <3>2, BestSampleIsNearest
      <4> QED BY <2>1, <3>2, <4>1, <4>2
    <3> QED BY <1>1, <3>1, <3>2
  <2>4. /\ Typed(Buffers') /\ Rest(Register', r) /\ RunsBehind(Register')
        /\ Holds(Buffers', b, Register') /\ n_samples' = r.n
        /\ LeastAt(Buffers', Register', min_delay_sample')
        /\ NearestAt(Buffers', Register', best_single_sample', skew')
    BY <1>2, <2>1, <2>2, <2>3, StoreOfRest
  <2>5. ~(n_samples' >= MIN_SAMPLES_FOR_REGRESS) /\ (n_samples' > 0 <=> r.n > 0)
    BY <1>1, <1>3, <2>4 DEF MIN_SAMPLES_FOR_REGRESS
  <2> QED BY <2>1, <2>2, <2>4, <2>5 DEF RegressionOf
<1>4. CASE ~(r.n < MIN_SAMPLES_FOR_REGRESS)
  <2>1. PICK start \in 0 .. r.n - MIN_SAMPLES_FOR_REGRESS, sk \in Skew :
          LET r1 == IF start = 0 THEN r ELSE Prune(r, start)
          IN /\ regression_ok' = TRUE /\ skew' = sk
             /\ Store(b, r1)
             /\ min_delay_sample' = IF start = 0 THEN m ELSE MinDelayIndex(r1, b.delays)
             /\ best_single_sample' = BestSample(b, r, r1, TimesBackStart(r.runs, start), sk)
             /\ estimate' = <<b.sample[r.last]>>
    BY <1>4, Zenon DEF DoNewRegression
  <2> DEFINE r1 == IF start = 0 THEN r ELSE Prune(r, start)
  <2>2. sk \in Nat /\ start \in 0 .. r.n
    BY <1>1, StatsAssumption DEF MIN_SAMPLES_FOR_REGRESS
  <2>3. Rest(r1, r) /\ r1.n = r.n - start
    <3>1. CASE start = 0
      BY <1>1, <1>2, <3>1
    <3>2. CASE start # 0
      BY <2>2, <3>2, PruneLeavesRest
    <3> QED BY <3>1, <3>2
  <2>4. /\ regression_ok' = TRUE /\ skew' = sk /\ Store(b, r1)
        /\ min_delay_sample' = IF start = 0 THEN m ELSE MinDelayIndex(r1, b.delays)
        /\ best_single_sample' = BestSample(b, r, r1, r.runs + start, sk)
        /\ estimate' = <<b.sample[r.last]>>
    BY <2>1 DEF TimesBackStart
  <2>5. LeastAt(b, r1, min_delay_sample')
    <3>1. CASE start = 0
      BY <2>4, <3>1
    <3>2. CASE start # 0
      <4> HIDE DEF r1
      <4>1. Fits(r1)
        BY <2>3 DEF Rest
      <4> QED BY <2>4, <3>2, <4>1, MinDelayIsFound
    <3> QED BY <3>1, <3>2
  <2> HIDE DEF r1
  <2>6. r1.n >= MIN_SAMPLES_FOR_REGRESS /\ r1.n > 0 /\ r1.n \in Nat
    BY <1>1, <2>3 DEF MIN_SAMPLES_FOR_REGRESS
  <2>7. NearestAt(b, r1, best_single_sample', sk)
    <3>1. r.runs + r.n - r1.n = r.runs + start
      BY <1>1, <2>2, <2>3
    <3>2. NearestAt(b, r1, BestSample(b, r, r1, r.runs + r.n - r1.n, sk), sk)
      BY <2>2, <2>3, <2>6, BestSampleIsNearest
    <3> QED BY <2>4, <3>1, <3>2
  <2>8. RunsBehind(r1)
    BY <2>6 DEF RunsBehind, MIN_SAMPLES_FOR_REGRESS
  <2>9. /\ Typed(Buffers') /\ Rest(Register', r) /\ RunsBehind(Register')
        /\ Holds(Buffers', b, Register') /\ n_samples' = r1.n
        /\ LeastAt(Buffers', Register', min_delay_sample')
        /\ NearestAt(Buffers', Register', best_single_sample', skew')
    BY <2>2, <2>3, <2>4, <2>5, <2>7, <2>8, StoreOfRest
  <2>10. n_samples' >= MIN_SAMPLES_FOR_REGRESS /\ n_samples' > 0 /\ r.n > 0
    BY <1>1, <1>4, <2>6, <2>9 DEF MIN_SAMPLES_FOR_REGRESS
  <2> QED BY <2>2, <2>4, <2>9, <2>10 DEF RegressionOf
<1> QED BY <1>3, <1>4

-----------------------------------------------------------------------------
(* The invariant of the register. *)

\* What holds after a regression on a register and buffers that are right.
LEMMA AfterRegression ==
  ASSUME NEW b, NEW r, Typed(b), Fits(r), RunsBehind(r), RegressionOf(b, r), estimate \in Seq(SampleType),
         file' \in [rows : Seq(RowType), whole : BOOLEAN], Len(file'.rows) <= MAX_SAMPLES
  PROVE  IInv'
<1>1. Fits(Register') /\ Register'.last = r.last /\ Register'.n = n_samples' /\ Register'.last = last_sample'
  BY DEF RegressionOf, Rest, Register
<1>2. n_samples' > 0 => r.last \in 0 .. RunsSize - 1 /\ sample'[r.last] = b.sample[r.last]
  <2> DEFINE q == Register'
  <2>1. Fits(q) /\ q.last = r.last /\ q.n = n_samples' /\ Holds(Buffers', b, q)
    BY <1>1 DEF RegressionOf
  <2> HIDE DEF q
  <2>2. q.n \in Nat /\ q.runs \in Nat /\ (q.n > 0 => q.last \in 0 .. RunsSize - 1)
    BY <2>1, AllFit
  <2>3. ASSUME q.n > 0 PROVE sample'[q.last] = b.sample[q.last]
    <3>1. q.n - 1 \in -q.runs .. q.n - 1
      BY <2>2, <2>3
    <3>2. RunsIndex(q, q.n - 1) = q.last
      BY <2>1, <2>3, <3>1, RunsSlots
    <3> QED BY <2>1, <3>1, <3>2 DEF Holds, Buffers
  <2> QED BY <2>1, <2>2, <2>3
<1>3. n_samples' \in Nat
  BY <1>1 DEF Fits
<1>4. EstimateIsNewest'
  BY <1>1, <1>2, <1>3 DEF EstimateIsNewest, RegressionOf, MIN_SAMPLES_FOR_REGRESS
<1>5. estimate' \in Seq(SampleType)
  <2>1. CASE n_samples' >= MIN_SAMPLES_FOR_REGRESS
    <3>1. b.sample[r.last] \in SampleType
      <4>1. n_samples' > 0
        BY <1>3, <2>1 DEF MIN_SAMPLES_FOR_REGRESS
      <4> QED BY <1>2, <4>1 DEF Typed
    <3> QED BY <2>1, <3>1 DEF RegressionOf
  <2>2. CASE ~(n_samples' >= MIN_SAMPLES_FOR_REGRESS)
    BY <2>2 DEF RegressionOf
  <2> QED BY <2>1, <2>2
<1>6. TypeOK'
  BY <1>1, <1>5 DEF TypeOK, RegressionOf
<1> QED BY <1>4, <1>6 DEF IInv, RegressionOf

-----------------------------------------------------------------------------
(* Accumulating a sample. *)

LEMMA RestOfRest ==
  ASSUME NEW r, NEW r1, NEW r2, Fits(r), Rest(r1, r), Rest(r2, r1)
  PROVE  Rest(r2, r)
<1>1. Fits(r1) /\ Fits(r2)
  BY DEF Rest
<1>2. r.n \in Nat /\ r.runs \in Nat /\ r1.n \in Nat /\ r1.runs \in Nat /\ r2.n \in Nat /\ r2.runs \in Nat
  BY <1>1, AllFit
<1> QED BY <1>1, <1>2 DEF Rest

\* There is room for the new sample, behind older ones only.
LEMMA RoomIsRest ==
  ASSUME NEW s, s \in SampleType, Fits(Register), RunsBehind(Register), Typed(Buffers)
  PROVE  LET r0 == Room(s)
         IN /\ Rest(r0, Register) /\ r0.n < MAX_SAMPLES
            /\ r0.n + 1 < MIN_SAMPLES_FOR_REGRESS => r0.runs = 0
            /\ r0.n > 0 => sample[r0.last].time < s.time
<1> DEFINE q == Register
           r == IF q.n = MAX_SAMPLES THEN Prune(q, 1) ELSE q
           r0 == Room(s)
<1>1. r0 = IF r.n > 0 /\ sample[r.last].time >= s.time THEN Prune(r, r.n) ELSE r
  BY DEF Room, Register
<1>2. Fits(q) /\ RunsBehind(q)
  OBVIOUS
<1> HIDE DEF q, r0
<1>3. q.n \in 0 .. MAX_SAMPLES /\ q.runs \in Nat /\ MAX_SAMPLES \in Nat /\ MAX_SAMPLES >= 3
  BY <1>2, AllFit, Sizes
<1>4. Rest(r, q) /\ r.n < MAX_SAMPLES /\ (r.n + 1 < MIN_SAMPLES_FOR_REGRESS => r.runs = 0)
  <2>1. CASE q.n = MAX_SAMPLES
    <3>1. 1 \in 0 .. q.n
      BY <1>3, <2>1
    <3>2. Rest(Prune(q, 1), q) /\ Prune(q, 1).n = q.n - 1
      BY <1>2, <3>1, PruneLeavesRest
    <3> QED BY <1>3, <2>1, <3>2 DEF MIN_SAMPLES_FOR_REGRESS
  <2>2. CASE q.n # MAX_SAMPLES
    <3>1. Rest(q, q)
      BY <1>2, <1>3 DEF Rest
    <3> QED BY <1>2, <1>3, <2>2, <3>1 DEF RunsBehind, MIN_SAMPLES_FOR_REGRESS
  <2> QED BY <2>1, <2>2
<1>5. Fits(r)
  BY <1>4 DEF Rest
<1> HIDE DEF r
<1>6. CASE r.n > 0 /\ sample[r.last].time >= s.time
  <2>1. r.n \in 0 .. r.n /\ r.n \in Nat
    BY <1>5, AllFit
  <2>2. r0 = Prune(r, r.n)
    BY <1>1, <1>6
  <2>3. Rest(r0, r) /\ r0.n = r.n - r.n
    BY <1>5, <2>1, <2>2, PruneLeavesRest
  <2>4. Rest(r0, q) /\ r0.n = 0
    BY <1>2, <1>4, <2>1, <2>3, RestOfRest
  <2>5. r0.runs = 0
    BY <2>4, AllFit DEF Rest
  <2> QED BY <1>3, <2>4, <2>5 DEF r0, q
<1>7. CASE ~(r.n > 0 /\ sample[r.last].time >= s.time)
  <2>1. r0 = r
    BY <1>1, <1>7
  <2>2. r.n > 0 => sample[r.last].time < s.time
    <3>1. SUFFICES ASSUME r.n > 0 PROVE sample[r.last].time < s.time
      OBVIOUS
    <3>2. r.last \in 0 .. RunsSize - 1
      BY <1>5, <3>1, AllFit
    <3>3. sample[r.last] \in SampleType
      BY <3>2 DEF Typed, Buffers
    <3>4. sample[r.last].time \in Int /\ s.time \in Int
      BY <3>3, StatsAssumption DEF SampleType, Time
    <3> QED BY <1>7, <3>1, <3>4
  <2> QED BY <1>4, <2>1, <2>2 DEF r0, q
<1> QED BY <1>6, <1>7

\* The buffers with the new sample at the end of r.
Filled(r, s, delay) ==
  [sample |-> [sample EXCEPT ![r.last] = s],
   delays |-> [delays EXCEPT ![r.last % MAX_SAMPLES] = delay],
   dispersions |-> [dispersions EXCEPT ![r.last % MAX_SAMPLES] = 0]]

\* What the new register is made of: the rest r0 of the old one, and s.
FilledKeeps(b, r, r0, s, delay) ==
  /\ Typed(b)
  /\ \A i \in -r0.runs .. r0.n - 1 : b.sample[RunsIndex(r, i)] = sample[RunsIndex(r0, i)]
  /\ \A i \in 0 .. r0.n - 1 : BufIndex(r, i) = BufIndex(r0, i) /\ b.delays[BufIndex(r0, i)] = delays[BufIndex(r0, i)]
  /\ BufIndex(r, r0.n) = r.last % MAX_SAMPLES /\ b.delays[r.last % MAX_SAMPLES] = delay
  /\ b.sample[r.last] = s

LEMMA FilledIsRight ==
  ASSUME NEW s \in SampleType, NEW delay \in Nat, NEW r0, Fits(r0), r0.n < MAX_SAMPLES, Typed(Buffers)
  PROVE  LET r == Extended(r0) IN FilledKeeps(Filled(r, s, delay), r, r0, s, delay)
<1> DEFINE r == Extended(r0)
           b == Filled(r, s, delay)
           m == r.last % MAX_SAMPLES
<1>1. Fits(r) /\ r.n = r0.n + 1 /\ r.runs = r0.runs
  BY ExtendedFits
<1>2. r0.n \in Nat /\ r0.runs \in Nat /\ r.last \in 0 .. RunsSize - 1 /\ r.n > 0
  BY <1>1, AllFit
<1>3. m \in 0 .. MAX_SAMPLES - 1
  <2>1. r.last \in Int /\ MAX_SAMPLES \in Nat \ {0}
    BY <1>2, Sizes
  <2> QED BY <2>1, DivMod
<1>4. /\ sample \in [0 .. RunsSize - 1 -> SampleType]
      /\ delays \in [0 .. MAX_SAMPLES - 1 -> Nat] /\ dispersions \in [0 .. MAX_SAMPLES - 1 -> Nat]
  BY DEF Typed, Buffers
<1>5. /\ \A i \in -r0.runs .. r0.n - 1 : RunsIndex(r, i) = RunsIndex(r0, i)
      /\ \A i \in 0 .. r0.n - 1 : BufIndex(r, i) = BufIndex(r0, i)
  BY ExtendedSlots
<1> HIDE DEF r, m
<1>6. b.sample = [sample EXCEPT ![r.last] = s] /\ b.delays = [delays EXCEPT ![m] = delay]
      /\ b.dispersions = [dispersions EXCEPT ![m] = 0]
  BY DEF Filled, m
<1> HIDE DEF b
<1>7. Typed(b)
  BY <1>2, <1>3, <1>4, <1>6 DEF Typed
<1>8. b.sample[r.last] = s /\ b.delays[m] = delay
  BY <1>2, <1>3, <1>4, <1>6
<1>9. ASSUME NEW i \in -r0.runs .. r0.n - 1 PROVE b.sample[RunsIndex(r, i)] = sample[RunsIndex(r0, i)]
  <2>1. i \in -r.runs .. r.n - 1 /\ i # r.n - 1
    BY <1>1, <1>2
  <2>2. RunsIndex(r, i) \in 0 .. RunsSize - 1 /\ RunsIndex(r, i) # r.last
    BY <1>1, <1>2, <2>1, RunsSlots
  <2>3. b.sample[RunsIndex(r, i)] = sample[RunsIndex(r, i)]
    BY <1>2, <1>4, <1>6, <2>2
  <2> QED BY <1>5, <2>3
<1>10. ASSUME NEW i \in 0 .. r0.n - 1
       PROVE  b.delays[BufIndex(r0, i)] = delays[BufIndex(r0, i)]
  <2>1. i \in 0 .. r.n - 1 /\ i # r.n - 1
    BY <1>1, <1>2
  <2>2. BufIndex(r, i) \in 0 .. MAX_SAMPLES - 1 /\ BufIndex(r, i) # m
    BY <1>1, <2>1, BufSlots DEF m
  <2>3. b.delays[BufIndex(r, i)] = delays[BufIndex(r, i)]
    BY <1>3, <1>4, <1>6, <2>2
  <2> QED BY <1>5, <2>3
<1>11. BufIndex(r, r0.n) = m
  <2>1. r0.n \in 0 .. r.n - 1 /\ r0.n = r.n - 1
    BY <1>1, <1>2
  <2> QED BY <1>1, <2>1, BufSlots DEF m
<1> QED BY <1>5, <1>7, <1>8, <1>9, <1>10, <1>11 DEF FilledKeeps, r, b, m

\* The smallest delay is the new one or the old smallest one.
LEMMA LeastWithNew ==
  ASSUME NEW b, NEW r, NEW r0, NEW s, NEW delay \in Nat, FilledKeeps(b, r, r0, s, delay),
         Fits(r0), r.n = r0.n + 1, Typed(Buffers),
         NEW m0, LeastAt(Buffers, r0, m0)
  PROVE  LeastAt(b, r, IF r0.n = 0 \/ delay < b.delays[m0] THEN r.last % MAX_SAMPLES ELSE m0)
<1> DEFINE m == r.last % MAX_SAMPLES
           n == r0.n
<1>1. n \in Nat /\ r.n = n + 1
  BY AllFit
<1>2. /\ \A i \in 0 .. n - 1 : BufIndex(r, i) = BufIndex(r0, i) /\ b.delays[BufIndex(r0, i)] = delays[BufIndex(r0, i)]
      /\ BufIndex(r, n) = m /\ b.delays[m] = delay
  BY DEF FilledKeeps
<1>3. \A i \in 0 .. n - 1 : delays[BufIndex(r0, i)] \in Nat
  BY BufSlots DEF Typed, Buffers
<1>4. \A i \in 0 .. r.n - 1 : i \in 0 .. n - 1 \/ i = n
  BY <1>1
<1>5. n \in 0 .. r.n - 1 /\ \A i \in 0 .. n - 1 : i \in 0 .. r.n - 1
  BY <1>1
<1>6. n > 0 => \E k \in 0 .. n - 1 : m0 = BufIndex(r0, k) /\ \A i \in 0 .. n - 1 : delays[m0] <= delays[BufIndex(r0, i)]
  BY DEF LeastAt, Buffers
<1> HIDE DEF m, n
<1>7. CASE n = 0
  <2>1. \A i \in 0 .. r.n - 1 : i = n
    BY <1>1, <1>7
  <2>2. \A i \in 0 .. r.n - 1 : b.delays[m] <= b.delays[BufIndex(r, i)]
    BY <1>2, <2>1
  <2>3. LeastAt(b, r, m)
    BY <1>2, <1>5, <2>2 DEF LeastAt
  <2> QED BY <1>7, <2>3 DEF m, n
<1>8. CASE n > 0
  <2>1. PICK k \in 0 .. n - 1 : m0 = BufIndex(r0, k) /\ \A i \in 0 .. n - 1 : delays[m0] <= delays[BufIndex(r0, i)]
    BY <1>6, <1>8
  <2>2. b.delays[m0] = delays[m0] /\ delays[m0] \in Nat /\ m0 = BufIndex(r, k) /\ k \in 0 .. r.n - 1
    BY <1>2, <1>3, <1>5, <2>1
  <2>3. \A i \in 0 .. n - 1 : b.delays[m0] <= b.delays[BufIndex(r, i)]
    BY <1>2, <2>1, <2>2
  <2>4. \A i \in 0 .. r.n - 1 : b.delays[BufIndex(r, i)] \in Nat
    BY <1>2, <1>3, <1>4
  <2>5. CASE delay < b.delays[m0]
    <3>1. ASSUME NEW i \in 0 .. r.n - 1 PROVE b.delays[m] <= b.delays[BufIndex(r, i)]
      <4>1. CASE i \in 0 .. n - 1
        BY <1>2, <2>2, <2>3, <2>4, <2>5, <4>1
      <4>2. CASE i = n
        BY <1>2, <4>2
      <4> QED BY <1>4, <4>1, <4>2
    <3>2. LeastAt(b, r, m)
      BY <1>2, <1>5, <3>1 DEF LeastAt
    <3> QED BY <2>5, <3>2 DEF m
  <2>6. CASE ~(delay < b.delays[m0])
    <3>1. ASSUME NEW i \in 0 .. r.n - 1 PROVE b.delays[m0] <= b.delays[BufIndex(r, i)]
      <4>1. CASE i \in 0 .. n - 1
        BY <2>3, <4>1
      <4>2. CASE i = n
        BY <1>2, <2>2, <2>6, <4>2
      <4> QED BY <1>4, <4>1, <4>2
    <3>2. LeastAt(b, r, m0)
      BY <2>2, <3>1 DEF LeastAt
    <3> QED BY <1>8, <2>6, <3>2, <1>1 DEF n
  <2> QED BY <2>5, <2>6
<1> QED BY <1>1, <1>7, <1>8

LEMMA AccumulateIsRegression ==
  ASSUME IInv, NEW s, s.time \in Int, s.offset \in Measured, s = [time |-> s.time, offset |-> s.offset],
         NEW delay \in Delay, AccumulateSample(s, delay)
  PROVE  \E b, r, r0 :
           /\ Fits(r) /\ RunsBehind(r) /\ r.n = r0.n + 1 /\ r.runs = r0.runs
           /\ Rest(r0, Register) /\ FilledKeeps(b, r, r0, s, delay)
           /\ r0.n > 0 => sample[r0.last].time < s.time
           /\ RegressionOf(b, r) /\ s \in SampleType /\ file' = NoFile
<1> DEFINE r0 == Room(s)
           r == Extended(r0)
           b == Filled(r, s, delay)
           m == r.last % MAX_SAMPLES
           m0 == IF r0 = Register THEN min_delay_sample ELSE MinDelayIndex(r0, delays)
           m1 == IF r0.n = 0 \/ delay < b.delays[m0] THEN m ELSE m0
<1>1. s.time \in Time /\ DoNewRegression(b, r, m1) /\ file' = NoFile
  BY DEF AccumulateSample, Accumulated, Extended, Filled
<1>2. s \in SampleType
  BY <1>1, StatsAssumption DEF SampleType
<1>3. Typed(Buffers) /\ Fits(Register) /\ RunsBehind(Register) /\ LeastAt(Buffers, Register, min_delay_sample)
  BY DEF IInv, TypeOK
<1>4. /\ Rest(r0, Register) /\ r0.n < MAX_SAMPLES
      /\ r0.n + 1 < MIN_SAMPLES_FOR_REGRESS => r0.runs = 0
      /\ r0.n > 0 => sample[r0.last].time < s.time
  BY <1>2, <1>3, RoomIsRest
<1>5. Fits(r0) /\ delay \in Nat
  BY <1>4, StatsAssumption DEF Rest
<1>6. FilledKeeps(b, r, r0, s, delay)
  BY <1>2, <1>3, <1>4, <1>5, FilledIsRight
<1>7. Fits(r) /\ r.n = r0.n + 1 /\ r.runs = r0.runs
  BY <1>4, <1>5, ExtendedFits
<1>8. RunsBehind(r)
  BY <1>4, <1>7 DEF RunsBehind
<1>9. LeastAt(Buffers, r0, m0)
  <2>1. CASE r0 = Register
    BY <1>3, <2>1
  <2>2. CASE r0 # Register
    <3>1. Buffers.delays = delays
      BY DEF Buffers
    <3> HIDE DEF r0
    <3> QED BY <1>3, <1>5, <2>2, <3>1, MinDelayIsFound
  <2> QED BY <2>1, <2>2
<1> HIDE DEF r0, b, m0, r
<1>10. LeastAt(b, r, m1)
  BY <1>3, <1>5, <1>6, <1>7, <1>9, LeastWithNew
<1>11. RegressionOf(b, r)
  <2>1. Typed(b)
    BY <1>6 DEF FilledKeeps
  <2> HIDE DEF m1
  <2> QED BY <1>1, <1>3, <1>7, <1>8, <1>10, <2>1, RegressionKeeps
<1> QED BY <1>1, <1>2, <1>4, <1>6, <1>7, <1>8, <1>11

-----------------------------------------------------------------------------
(* Logs. *)

LogOf(b, r) == [i \in 1 .. r.runs + r.n |-> b.sample[RunsIndex(r, i - 1 - r.runs)]]

\* t is the end of the log l.
EndOf(t, l) ==
  /\ t \in Seq(SampleType) /\ l \in Seq(SampleType) /\ Len(t) <= Len(l)
  /\ \A i \in 1 .. Len(t) : t[i] = l[i + (Len(l) - Len(t))]

LEMMA EndOfEnd ==
  ASSUME NEW t, NEW u, NEW l, EndOf(t, u), EndOf(u, l)
  PROVE  EndOf(t, l)
<1> DEFINE a == Len(t)
           b == Len(u)
           c == Len(l)
<1>1. a \in Nat /\ b \in Nat /\ c \in Nat /\ a <= b /\ b <= c
  BY DEF EndOf
<1>2. ASSUME NEW i \in 1 .. a PROVE t[i] = l[i + (c - a)]
  <2>1. t[i] = u[i + (b - a)]
    BY DEF EndOf
  <2>2. i + (b - a) \in 1 .. b /\ (i + (b - a)) + (c - b) = i + (c - a)
    BY <1>1
  <2>3. u[i + (b - a)] = l[(i + (b - a)) + (c - b)]
    BY <2>2 DEF EndOf
  <2> QED BY <2>1, <2>2, <2>3
<1> QED BY <1>1, <1>2 DEF EndOf

LEMMA EndAppended ==
  ASSUME NEW t, NEW l, EndOf(t, l), NEW s \in SampleType
  PROVE  EndOf(Append(t, s), Append(l, s))
<1> DEFINE a == Len(t)
           c == Len(l)
<1>1. a \in Nat /\ c \in Nat /\ a <= c /\ t \in Seq(SampleType) /\ l \in Seq(SampleType)
  BY DEF EndOf
<1>2. /\ Append(t, s) \in Seq(SampleType) /\ Append(l, s) \in Seq(SampleType)
      /\ Len(Append(t, s)) = a + 1 /\ Len(Append(l, s)) = c + 1
  BY <1>1
<1>3. ASSUME NEW i \in 1 .. a + 1 PROVE Append(t, s)[i] = Append(l, s)[i + (c - a)]
  <2>1. CASE i \in 1 .. a
    <3>1. t[i] = l[i + (c - a)] /\ i + (c - a) \in 1 .. c
      BY <1>1, <2>1 DEF EndOf
    <3> QED BY <1>1, <2>1, <3>1
  <2>2. CASE i = a + 1
    <3>1. i + (c - a) = c + 1
      BY <1>1, <2>2
    <3> QED BY <1>1, <2>2, <3>1
  <2> QED BY <1>1, <2>1, <2>2
<1>4. (c + 1) - (a + 1) = c - a /\ a + 1 <= c + 1
  BY <1>1
<1> QED BY <1>2, <1>3, <1>4 DEF EndOf

LEMMA EndIsSuffix ==
  ASSUME NEW t, NEW l, EndOf(t, l)
  PROVE  t \in Log!Suffixes(l)
<1> DEFINE a == Len(t)
           c == Len(l)
           k == c - a + 1
           u == SubSeq(l, k, c)
<1>1. a \in Nat /\ c \in Nat /\ a <= c /\ t \in Seq(SampleType) /\ l \in Seq(SampleType)
  BY DEF EndOf
<1>2. k \in 1 .. c + 1
  BY <1>1
<1>3. u \in Seq(SampleType) /\ Len(u) = a /\ \A i \in 1 .. a : u[i] = l[i + (c - a)]
  <2>1. \A i \in k .. c : l[i] \in SampleType
    BY <1>1, <1>2
  <2>2. k \in Int /\ c \in Int /\ k <= c + 1
    BY <1>1, <1>2
  <2>3. u = [i \in 1 .. a |-> l[i + (c - a)]]
    <3>1. c - k + 1 = a /\ \A i \in 1 .. a : i + k - 1 = i + (c - a)
      BY <1>1
    <3> QED BY <1>1, <3>1 DEF SubSeq
  <2>4. \A i \in 1 .. a : l[i + (c - a)] \in SampleType
    BY <1>1
  <2> QED BY <1>1, <2>3, <2>4
<1>4. t = u
  <2>1. \A i \in 1 .. a : t[i] = u[i]
    BY <1>3 DEF EndOf
  <2> HIDE DEF u
  <2> QED BY <1>1, <1>3, <2>1
<1> QED BY <1>2, <1>4 DEF Log!Suffixes

LEMMA LogIsTyped ==
  ASSUME NEW b, NEW r, Typed(b), Fits(r)
  PROVE  /\ LogOf(b, r) \in Seq(SampleType) /\ Len(LogOf(b, r)) = r.runs + r.n
         /\ r.n > 0 => LogOf(b, r)[r.runs + r.n] = b.sample[r.last]
<1>1. r.n \in Nat /\ r.runs \in Nat /\ (r.n = 0 => r.runs = 0)
  BY AllFit
<1>2. ASSUME NEW i \in 1 .. r.runs + r.n PROVE b.sample[RunsIndex(r, i - 1 - r.runs)] \in SampleType
  <2>1. r.n > 0 /\ i - 1 - r.runs \in -r.runs .. r.n - 1
    BY <1>1
  <2> QED BY <2>1, RunsSlots DEF Typed
<1>3. ASSUME r.n > 0 PROVE b.sample[RunsIndex(r, (r.runs + r.n) - 1 - r.runs)] = b.sample[r.last]
  <2>1. (r.runs + r.n) - 1 - r.runs = r.n - 1 /\ r.n - 1 \in -r.runs .. r.n - 1
    BY <1>1, <1>3
  <2> QED BY <1>3, <2>1, RunsSlots
<1>4. r.n > 0 => r.runs + r.n \in 1 .. r.runs + r.n
  BY <1>1
<1> QED BY <1>1, <1>2, <1>3, <1>4 DEF LogOf

LEMMA LogOfRest ==
  ASSUME NEW b, NEW r, NEW r1, Typed(b), Fits(r), Rest(r1, r)
  PROVE  EndOf(LogOf(b, r1), LogOf(b, r))
<1>1. Fits(r1) /\ r1.n <= r.n /\ r1.runs <= r.runs + r.n - r1.n
  BY DEF Rest
<1>2. r.n \in Nat /\ r.runs \in Nat /\ r1.n \in Nat /\ r1.runs \in Nat
  BY <1>1, AllFit
<1>3. /\ LogOf(b, r1) \in Seq(SampleType) /\ Len(LogOf(b, r1)) = r1.runs + r1.n
      /\ LogOf(b, r) \in Seq(SampleType) /\ Len(LogOf(b, r)) = r.runs + r.n
  BY <1>1, LogIsTyped
<1>4. r1.runs + r1.n <= r.runs + r.n
  BY <1>1, <1>2
<1>5. ASSUME NEW i \in 1 .. r1.runs + r1.n
      PROVE  LogOf(b, r1)[i] = LogOf(b, r)[i + ((r.runs + r.n) - (r1.runs + r1.n))]
  <2> DEFINE j == i - 1 - r1.runs
             k == i + ((r.runs + r.n) - (r1.runs + r1.n))
  <2>1. j \in Int /\ k \in 1 .. r.runs + r.n /\ k - 1 - r.runs = j + r.n - r1.n
    BY <1>1, <1>2
  <2>2. RunsIndex(r1, j) = RunsIndex(r, j + r.n - r1.n)
    BY <2>1, RestSlots
  <2>3. LogOf(b, r1)[i] = b.sample[RunsIndex(r1, j)]
    BY DEF LogOf
  <2>4. LogOf(b, r)[k] = b.sample[RunsIndex(r, k - 1 - r.runs)]
    BY <2>1 DEF LogOf
  <2> QED BY <2>1, <2>2, <2>3, <2>4
<1> QED BY <1>3, <1>4, <1>5 DEF EndOf

LEMMA LogIsHeld ==
  ASSUME NEW b, NEW b2, NEW r, Fits(r), Holds(b2, b, r)
  PROVE  LogOf(b2, r) = LogOf(b, r)
<1>1. r.n \in Nat /\ r.runs \in Nat
  BY AllFit
<1>2. ASSUME NEW i \in 1 .. r.runs + r.n
      PROVE  b2.sample[RunsIndex(r, i - 1 - r.runs)] = b.sample[RunsIndex(r, i - 1 - r.runs)]
  <2>1. i - 1 - r.runs \in -r.runs .. r.n - 1
    BY <1>1
  <2> QED BY <2>1 DEF Holds
<1> QED BY <1>2 DEF LogOf

LEMMA LogOfFilled ==
  ASSUME NEW b, NEW r, NEW r0, NEW s \in SampleType, NEW delay, FilledKeeps(b, r, r0, s, delay),
         Fits(r0), Fits(r), r.n = r0.n + 1, r.runs = r0.runs, Typed(Buffers)
  PROVE  LogOf(b, r) = Append(LogOf(Buffers, r0), s)
<1> DEFINE t == LogOf(b, r)
           u == LogOf(Buffers, r0)
           n == r0.runs + r0.n
<1>1. r0.n \in Nat /\ r0.runs \in Nat /\ r.n \in Nat /\ r.runs \in Nat /\ r.n > 0 /\ r.runs + r.n = n + 1 /\ n \in Nat
  BY AllFit
<1>2. /\ Typed(b) /\ b.sample[r.last] = s
      /\ \A i \in -r0.runs .. r0.n - 1 : b.sample[RunsIndex(r, i)] = sample[RunsIndex(r0, i)]
  BY DEF FilledKeeps
<1>3. t \in Seq(SampleType) /\ Len(t) = n + 1 /\ t[n + 1] = s
  BY <1>1, <1>2, LogIsTyped
<1>4. u \in Seq(SampleType) /\ Len(u) = n
  BY LogIsTyped
<1>5. ASSUME NEW i \in 1 .. n PROVE t[i] = u[i]
  <2>1. i - 1 - r0.runs \in -r0.runs .. r0.n - 1 /\ i \in 1 .. r.runs + r.n
    BY <1>1
  <2>2. t[i] = b.sample[RunsIndex(r, i - 1 - r0.runs)]
    BY <2>1 DEF LogOf
  <2>3. u[i] = sample[RunsIndex(r0, i - 1 - r0.runs)]
    BY DEF LogOf, Buffers
  <2> QED BY <1>2, <2>1, <2>2, <2>3
<1> HIDE DEF t, u, n
<1>6. /\ Append(u, s) \in Seq(SampleType) /\ Len(Append(u, s)) = n + 1 /\ Append(u, s)[n + 1] = s
      /\ \A i \in 1 .. n : Append(u, s)[i] = u[i]
  BY <1>1, <1>4
<1>7. \A i \in 1 .. n + 1 : t[i] = Append(u, s)[i]
  <2>1. \A i \in 1 .. n + 1 : i \in 1 .. n \/ i = n + 1
    BY <1>1
  <2> QED BY <1>3, <1>5, <1>6, <2>1
<1>8. t = Append(u, s)
  <2> DEFINE v == Append(u, s)
  <2> HIDE DEF v
  <2>1. v \in Seq(SampleType) /\ Len(v) = n + 1 /\ \A i \in 1 .. n + 1 : t[i] = v[i]
    BY <1>6, <1>7 DEF v
  <2>2. t = v
    BY <1>1, <1>3, <2>1
  <2> QED BY <2>2 DEF v
<1> QED BY <1>8 DEF t, u

\* What a regression leaves of a log is its end, with the newest sample.
LEMMA LogOfRegression ==
  ASSUME NEW b, NEW r, Typed(b), Fits(r), RunsBehind(r), RegressionOf(b, r)
  PROVE  LET log == LogOf(Buffers', Register')
         IN /\ EndOf(log, LogOf(b, r)) /\ Len(log) <= RunsSize
            /\ Len(log) >= MIN_SAMPLES_FOR_REGRESS <=> n_samples' >= MIN_SAMPLES_FOR_REGRESS
            /\ r.n > 0 => Len(log) > 0 /\ log[Len(log)] = b.sample[r.last]
            /\ r.n = 1 => Len(log) = 1
<1> DEFINE q == Register'
           log == LogOf(Buffers', q)
<1>1. /\ Typed(Buffers') /\ Rest(q, r) /\ RunsBehind(q) /\ Holds(Buffers', b, q)
      /\ q.n > 0 <=> r.n > 0
      /\ q.n = n_samples'
  BY DEF RegressionOf, Register
<1> HIDE DEF q
<1>2. Fits(q) /\ q.last = r.last /\ q.n <= r.n /\ q.runs <= r.runs + r.n - q.n
  BY <1>1 DEF Rest
<1>3. /\ q.n \in Nat /\ q.runs \in Nat /\ q.n + q.runs <= RunsSize
      /\ r.n \in Nat /\ r.runs \in Nat
  BY <1>2, AllFit
<1>4. log = LogOf(b, q)
  BY <1>1, <1>2, LogIsHeld
<1>5. EndOf(log, LogOf(b, r))
  BY <1>1, <1>4, LogOfRest
<1>6. Len(log) = q.runs + q.n /\ (q.n > 0 => log[q.runs + q.n] = b.sample[r.last])
  BY <1>2, <1>4, LogIsTyped
<1>7. Len(log) >= MIN_SAMPLES_FOR_REGRESS <=> q.n >= MIN_SAMPLES_FOR_REGRESS
  BY <1>1, <1>3, <1>6 DEF RunsBehind, MIN_SAMPLES_FOR_REGRESS
<1>8. r.n = 1 => Len(log) = 1
  <2>1. SUFFICES ASSUME r.n = 1 PROVE Len(log) = 1
    OBVIOUS
  <2>2. r.runs = 0
    BY <2>1 DEF RunsBehind, MIN_SAMPLES_FOR_REGRESS
  <2>3. q.n = 1
    BY <1>1, <1>2, <1>3, <2>1
  <2>4. q.runs = 0
    BY <1>2, <1>3, <2>1, <2>2, <2>3
  <2> QED BY <1>6, <2>3, <2>4
<1> HIDE DEF log
<1>9. r.n > 0 => Len(log) > 0 /\ log[Len(log)] = b.sample[r.last]
  BY <1>1, <1>3, <1>6
<1>10. Len(log) <= RunsSize
  <2>1. RunsSize \in Nat
    BY Sizes
  <2> QED BY <1>3, <1>6, <2>1
<1> QED BY <1>1, <1>5, <1>7, <1>8, <1>9, <1>10 DEF log, q

-----------------------------------------------------------------------------
(* The steps of the register, of the invariant and of the refinement. *)

\* The log and the saved log of SampleLog.
theLog == [i \in 1 .. runs_samples + n_samples |-> SampleAt(i - 1 - runs_samples)]
theSaved == [i \in DOMAIN file.rows |-> file.rows[i].s]

LEMMA TheLogIs == theLog = LogOf(Buffers, Register) /\ theLog' = LogOf(Buffers', Register')
BY DEF theLog, LogOf, SampleAt, Buffers, Register

LEMMA NothingSaved == NoFile \in [rows : Seq(RowType), whole : BOOLEAN] /\ Len(NoFile.rows) <= MAX_SAMPLES
<1>1. MAX_SAMPLES \in Nat
  BY Sizes
<1> QED BY <1>1 DEF NoFile

LEMMA NothingMapped ==
  ASSUME file' = NoFile
  PROVE  theSaved' = <<>>
<1>1. file'.rows = <<>> /\ DOMAIN file'.rows = {}
  BY DEF NoFile
<1> QED BY <1>1 DEF theSaved

LEMMA AccumulateStep ==
  ASSUME IInv, NEW s, s.time \in Int, s.offset \in Measured, s = [time |-> s.time, offset |-> s.offset],
         NEW delay \in Delay, AccumulateSample(s, delay)
  PROVE  IInv' /\ Log!Add
<1>1. PICK b, r, r0 :
        /\ Fits(r) /\ RunsBehind(r) /\ r.n = r0.n + 1 /\ r.runs = r0.runs
        /\ Rest(r0, Register) /\ FilledKeeps(b, r, r0, s, delay)
        /\ r0.n > 0 => sample[r0.last].time < s.time
        /\ RegressionOf(b, r) /\ s \in SampleType /\ file' = NoFile
  BY AccumulateIsRegression
<1>2. Typed(b) /\ b.sample[r.last] = s
  BY <1>1 DEF FilledKeeps
<1>3. Typed(Buffers) /\ Fits(Register) /\ estimate \in Seq(SampleType) /\ Fits(r0)
  BY <1>1 DEF IInv, TypeOK, Rest
<1>4. IInv'
  BY <1>1, <1>2, <1>3, NothingSaved, AfterRegression
<1>5. r0.n \in Nat /\ r0.runs \in Nat /\ r.n > 0 /\ r.n \in Nat
  BY <1>1, <1>3, AllFit
<1> DEFINE new == theLog'
           old == LogOf(Buffers, r0)
<1>6. /\ EndOf(new, LogOf(b, r)) /\ Len(new) <= RunsSize
      /\ Len(new) >= MIN_SAMPLES_FOR_REGRESS <=> n_samples' >= MIN_SAMPLES_FOR_REGRESS
      /\ Len(new) > 0 /\ new[Len(new)] = s
      /\ r.n = 1 => Len(new) = 1
  BY <1>1, <1>2, <1>5, LogOfRegression, TheLogIs
<1>7. EndOf(old, theLog)
  BY <1>1, <1>3, LogOfRest, TheLogIs
<1>8. LogOf(b, r) = Append(old, s)
  BY <1>1, <1>3, LogOfFilled
<1>9. old \in Seq(SampleType) /\ Len(old) = r0.runs + r0.n /\ (r0.n > 0 => old[r0.runs + r0.n] = sample[r0.last])
  BY <1>3, LogIsTyped DEF Buffers
<1> HIDE DEF old, new
<1>10. new \in Log!Suffixes(Append(theLog, s))
  <2>1. EndOf(Append(old, s), Append(theLog, s))
    BY <1>1, <1>7, EndAppended
  <2>2. EndOf(new, Append(theLog, s))
    BY <1>6, <1>8, <2>1, EndOfEnd
  <2> QED BY <2>2, EndIsSuffix
<1>11. new \in Seq(SampleType)
  BY <1>6 DEF EndOf
<1>12. ASSUME Len(new) > 1 PROVE new[Len(new) - 1].time < s.time
  <2>1. r.n # 1 /\ r0.n > 0
    BY <1>1, <1>5, <1>6, <1>12
  <2> DEFINE n == Len(new)
             c == r0.runs + r0.n
             l == Append(old, s)
  <2>2. c \in Nat /\ c > 0 /\ Len(l) = c + 1 /\ l[c] = old[c]
    BY <1>1, <1>5, <1>9, <2>1
  <2>3. n \in Nat /\ n <= c + 1 /\ \A i \in 1 .. n : new[i] = l[i + (c + 1 - n)]
    <3>1. EndOf(new, l)
      BY <1>6, <1>8
    <3> HIDE DEF l, c
    <3>2. n \in Nat /\ n <= Len(l) /\ \A i \in 1 .. n : new[i] = l[i + (Len(l) - n)]
      BY <3>1 DEF EndOf
    <3>3. n \in Nat /\ c \in Nat /\ n <= c + 1 /\ Len(l) = c + 1
      BY <2>2, <3>2
    <3>4. ASSUME NEW i \in 1 .. n PROVE new[i] = l[i + (c + 1 - n)]
      <4>1. new[i] = l[i + (Len(l) - n)]
        BY <3>2
      <4> QED BY <3>3, <4>1
    <3> QED BY <3>3, <3>4
  <2>4. n - 1 \in 1 .. n /\ (n - 1) + (c + 1 - n) = c
    BY <1>12, <2>2, <2>3
  <2>5. new[n - 1] = old[c]
    <3> HIDE DEF l, n, c
    <3>1. new[n - 1] = l[(n - 1) + (c + 1 - n)]
      BY <2>3, <2>4
    <3> QED BY <2>2, <2>4, <3>1
  <2> QED BY <1>1, <1>9, <2>1, <2>5
<1>13. estimate' = IF Len(new) >= 3 THEN <<new[Len(new)]>> ELSE estimate
  BY <1>1, <1>2, <1>6 DEF RegressionOf, MIN_SAMPLES_FOR_REGRESS
<1>14. theSaved' = <<>>
  BY <1>1, NothingMapped
<1>15. new # <<>>
  BY <1>6, <1>11
<1>16. Log!Newest(new) = s /\ Log!Newest(new) \in Log!Sample
  BY <1>1, <1>6 DEF Log!Newest, Log!Sample, SampleType
<1>17. Len(new) > 1 => new[Len(new) - 1].time < Log!Newest(new).time
  BY <1>12, <1>16
<1>18. estimate' = Log!Estimate(new, estimate)
  BY <1>13 DEF Log!Estimate, Log!Newest
<1>19. new \in Log!Suffixes(Append(theLog, Log!Newest(new)))
  BY <1>10, <1>16
<1>20. Log!Add
  <2>1. Len(new) <= RunsSize
    BY <1>6
  <2> QED BY <1>14, <1>15, <1>16, <1>17, <1>18, <1>19, <2>1, Zenon DEF Log!Add, theLog, theSaved, new
<1> QED BY <1>4, <1>20

\* A step of the clock.
LEMMA MovedIs ==
  ASSUME NEW s \in SampleType, NEW d \in Int
  PROVE  /\ Moved(s, d).time = s.time - d /\ Moved(s, d).offset = s.offset - d
         /\ s.time \in Int /\ s.offset \in Int
         /\ Moved(s, d).time \in Time /\ Moved(s, d).offset \in Offset => Moved(s, d) \in SampleType
<1>1. s.time \in Int /\ s.offset \in Int
  BY StatsAssumption DEF SampleType, Time, Offset
<1> QED BY <1>1 DEF Moved, SampleType

LEMMA SlewStep ==
  ASSUME IInv, NEW d \in Steps, SlewSamples(d)
  PROVE  IInv' /\ Log!Step(d)
<1>1. /\ Typed(Buffers) /\ Fits(Register) /\ RunsBehind(Register) /\ EstimateIsNewest
      /\ estimate \in Seq(SampleType) /\ regression_ok \in BOOLEAN /\ skew \in Nat
      /\ file \in [rows : Seq(RowType), whole : BOOLEAN] /\ Len(file.rows) <= MAX_SAMPLES
      /\ LeastAt(Buffers, Register, min_delay_sample)
      /\ NearestAt(Buffers, Register, best_single_sample, skew)
  BY DEF IInv, TypeOK
<1>2. d \in Int /\ MaxOffset \in Nat
  BY StatsAssumption DEF Offset
<1> DEFINE N == RunsSize - 1
           n == n_samples
           u == runs_samples
           M == MAX_SAMPLES - 1
<1>3. /\ n \in Nat /\ u \in Nat /\ n > 0 /\ last_sample \in 0 .. N
      /\ Register.n = n /\ Register.runs = u /\ Register.last = last_sample
  BY <1>1, AllFit DEF SlewSamples, Register
<1>4. ASSUME NEW i \in -u .. n - 1 PROVE RunsIndex(Register, i) \in Slewed /\ RunsIndex(Register, i) \in 0 .. N
  BY <1>1, <1>3, <1>4, RunsSlots DEF Slewed
<1>5. last_sample \in Slewed
  <2>1. n - 1 \in -u .. n - 1
    BY <1>3
  <2>2. RunsIndex(Register, n - 1) = last_sample
    BY <1>1, <1>3, <2>1, RunsSlots
  <2> QED BY <1>4, <2>1, <2>2
<1>6. sample \in [0 .. N -> SampleType] /\ delays \in [0 .. M -> Nat] /\ dispersions \in [0 .. M -> Nat]
  BY <1>1 DEF Typed, Buffers
<1>7. /\ sample' = [i \in 0 .. N |-> IF i \in Slewed THEN Moved(sample[i], d) ELSE sample[i]]
      /\ estimate' = [i \in DOMAIN estimate |-> Moved(estimate[i], d)]
      /\ \A i \in Slewed : sample'[i].time \in Time /\ sample'[i].offset \in Offset
      /\ \A i \in DOMAIN estimate : estimate'[i].time \in Time /\ estimate'[i].offset \in Offset
      /\ UNCHANGED <<n_samples, runs_samples, last_sample, delays, dispersions, regression_ok, skew,
                     best_single_sample, min_delay_sample, file>>
  BY <1>6 DEF SlewSamples
<1> HIDE DEF N, M
<1>8. \A i \in 0 .. N : sample'[i] = IF i \in Slewed THEN Moved(sample[i], d) ELSE sample[i]
  BY <1>7
<1>9. ASSUME NEW i \in 0 .. N PROVE sample'[i] \in SampleType
  <2>1. sample[i] \in SampleType
    BY <1>6
  <2>2. CASE i \in Slewed
    <3>1. sample'[i] = Moved(sample[i], d)
      BY <1>8, <2>2
    <3> QED BY <1>2, <1>7, <2>1, <2>2, <3>1, MovedIs
  <2>3. CASE i \notin Slewed
    BY <1>8, <2>1, <2>3
  <2> QED BY <2>2, <2>3
<1>10. sample' \in [0 .. N -> SampleType]
  BY <1>7, <1>9
<1>11. Register' = Register /\ Fits(Register') /\ RunsBehind(Register')
  BY <1>1, <1>7 DEF Register
<1>12. Typed(Buffers')
  BY <1>6, <1>7, <1>10 DEF Typed, Buffers, N, M
<1>13. ASSUME NEW i \in DOMAIN estimate
       PROVE  estimate'[i] \in SampleType
  <2>1. estimate[i] \in SampleType
    BY <1>1
  <2>2. estimate'[i] = Moved(estimate[i], d) /\ estimate'[i].time \in Time /\ estimate'[i].offset \in Offset
    BY <1>7
  <2> QED BY <1>2, <2>1, <2>2, MovedIs
<1>14. estimate' \in Seq(SampleType) /\ Len(estimate') = Len(estimate)
  <2>1. DOMAIN estimate = 1 .. Len(estimate) /\ Len(estimate) \in Nat
    BY <1>1
  <2>2. DOMAIN estimate' = 1 .. Len(estimate)
    BY <1>7, <2>1
  <2>3. estimate' \in [1 .. Len(estimate) -> SampleType]
    BY <1>7, <1>13, <2>1
  <2> QED BY <2>1, <2>2, <2>3
<1>15. EstimateIsNewest'
  <2>1. CASE n >= MIN_SAMPLES_FOR_REGRESS
    <3>1. estimate = <<sample[last_sample]>>
      BY <1>1, <2>1 DEF EstimateIsNewest
    <3>2. DOMAIN estimate = {1} /\ estimate[1] = sample[last_sample] /\ Len(estimate) = 1
      BY <3>1
    <3>3. estimate'[1] = Moved(sample[last_sample], d)
      BY <1>7, <3>2
    <3>4. sample'[last_sample] = Moved(sample[last_sample], d)
      BY <1>3, <1>5, <1>8
    <3>5. estimate' = <<sample'[last_sample]>>
      <4> DEFINE e == estimate'
      <4>1. e \in Seq(SampleType) /\ Len(e) = 1 /\ e[1] = sample'[last_sample]
        BY <1>14, <3>2, <3>3, <3>4
      <4> HIDE DEF e
      <4>2. e = <<e[1]>>
        BY <4>1
      <4> QED BY <4>1, <4>2 DEF e
    <3> QED BY <1>1, <1>7, <3>5 DEF EstimateIsNewest
  <2>2. CASE ~(n >= MIN_SAMPLES_FOR_REGRESS)
    BY <1>1, <1>7, <2>2 DEF EstimateIsNewest
  <2> QED BY <2>1, <2>2
<1>16. LeastAt(Buffers', Register', min_delay_sample')
  <2>1. Buffers'.delays = Buffers.delays
    BY <1>7 DEF Buffers
  <2> QED BY <1>1, <1>7, <1>11, <2>1 DEF LeastAt
<1>17. ASSUME NEW i \in 0 .. n - 1
       PROVE  DistanceAt(Buffers', Register, i, skew) = DistanceAt(Buffers, Register, i, skew) + 0
  <2> DEFINE j == RunsIndex(Register, i)
  <2>1. j \in Slewed /\ j \in 0 .. N
    <3>1. i \in -u .. n - 1
      BY <1>3
    <3> QED BY <1>4, <3>1
  <2>2. sample'[j] = Moved(sample[j], d) /\ sample'[last_sample] = Moved(sample[last_sample], d)
    BY <1>3, <1>5, <1>8, <2>1
  <2>3. sample[j] \in SampleType /\ sample[last_sample] \in SampleType
    BY <1>3, <1>6, <2>1
  <2>4. sample'[last_sample].time - sample'[j].time = sample[last_sample].time - sample[j].time
    <3>1. /\ sample'[j].time = sample[j].time - d /\ sample[j].time \in Int
          /\ sample'[last_sample].time = sample[last_sample].time - d /\ sample[last_sample].time \in Int
      BY <1>2, <2>2, <2>3, MovedIs
    <3> QED BY <1>2, <3>1
  <2>5. Age(Buffers', Register, i) = Age(Buffers, Register, i)
    BY <1>3, <2>4 DEF Age, Buffers
  <2>6. DistanceAt(Buffers', Register, i, skew) = DistanceAt(Buffers, Register, i, skew)
    BY <1>7, <2>5 DEF DistanceAt, Distance, Buffers
  <2>7. DistanceAt(Buffers, Register, i, skew) \in Int
    BY <1>1, <1>3, DistanceIsNumber
  <2> QED BY <2>6, <2>7
<1>18. NearestAt(Buffers', Register', best_single_sample', skew')
  <2>1. 0 \in Int
    OBVIOUS
  <2>2. NearestAt(Buffers', Register, best_single_sample, skew)
    BY <1>1, <1>3, <1>17, <2>1, NearestIsHeld
  <2> QED BY <1>7, <1>11, <2>2
<1>19. TypeOK'
  BY <1>1, <1>7, <1>11, <1>12, <1>14 DEF TypeOK
<1>20. IInv'
  BY <1>11, <1>15, <1>16, <1>18, <1>19 DEF IInv
<1>21. ASSUME NEW i \in 1 .. u + n PROVE SampleAt(i - 1 - u)' = Log!Shift(SampleAt(i - 1 - u), d)
  <2>1. i - 1 - u \in -u .. n - 1
    BY <1>3
  <2>2. sample'[RunsIndex(Register, i - 1 - u)] = Moved(sample[RunsIndex(Register, i - 1 - u)], d)
    BY <1>4, <1>8, <2>1
  <2>3. u' = u
    BY <1>7
  <2> QED BY <1>11, <2>2, <2>3 DEF SampleAt, Log!Shift, Moved
<1>22. theLog' = [i \in DOMAIN theLog |-> Log!Shift(theLog[i], d)]
  <2>1. DOMAIN theLog = 1 .. u + n
    BY DEF theLog
  <2>2. theLog' = [i \in 1 .. u + n |-> SampleAt(i - 1 - u)']
    BY <1>7 DEF theLog
  <2>3. \A i \in 1 .. u + n : theLog[i] = SampleAt(i - 1 - u)
    BY DEF theLog
  <2> QED BY <1>21, <2>1, <2>2, <2>3
<1>23. estimate' = [i \in DOMAIN estimate |-> Log!Shift(estimate[i], d)]
  BY <1>7 DEF Log!Shift, Moved
<1>24. theSaved' = theSaved
  BY <1>7 DEF theSaved
<1>25. Log!Step(d)
  BY <1>22, <1>23, <1>24, Zenon DEF Log!Step, theLog, theSaved
<1> QED BY <1>20, <1>25

\* The distances of all samples grow alike.
LEMMA AddDispersionStep ==
  ASSUME IInv, AddDispersion
  PROVE  IInv' /\ UNCHANGED <<theLog, estimate, theSaved>>
<1> DEFINE live == {BufIndex(Register, i) : i \in 0 .. n_samples - 1}
           M == MAX_SAMPLES - 1
<1>1. /\ Typed(Buffers) /\ Fits(Register) /\ RunsBehind(Register) /\ EstimateIsNewest
      /\ estimate \in Seq(SampleType) /\ regression_ok \in BOOLEAN /\ skew \in Nat
      /\ file \in [rows : Seq(RowType), whole : BOOLEAN] /\ Len(file.rows) <= MAX_SAMPLES
      /\ LeastAt(Buffers, Register, min_delay_sample)
      /\ NearestAt(Buffers, Register, best_single_sample, skew)
  BY DEF IInv, TypeOK
<1>2. dispersions \in [0 .. M -> Nat] /\ delays \in [0 .. M -> Nat]
  BY <1>1 DEF Typed, Buffers
<1>3. /\ dispersions' = [j \in 0 .. M |-> dispersions[j] + IF j \in live THEN 1 ELSE 0]
      /\ UNCHANGED <<n_samples, runs_samples, last_sample, sample, delays, regression_ok, skew,
                     best_single_sample, min_delay_sample, estimate, file>>
  BY <1>2 DEF AddDispersion
<1>4. Register' = Register /\ Register.n = n_samples
  BY <1>3 DEF Register
<1>5. \A i \in 0 .. n_samples - 1 : BufIndex(Register, i) \in live /\ BufIndex(Register, i) \in 0 .. M
  BY <1>1, <1>4, BufSlots
<1> HIDE DEF live, M
<1>6. dispersions' \in [0 .. M -> Nat]
  BY <1>2, <1>3
<1>7. Typed(Buffers')
  BY <1>1, <1>3, <1>6 DEF Typed, Buffers, M
<1>8. ASSUME NEW i \in 0 .. n_samples - 1
      PROVE  DistanceAt(Buffers', Register, i, skew) = DistanceAt(Buffers, Register, i, skew) + 2
  <2> DEFINE j == BufIndex(Register, i)
             e == 2 * Age(Buffers, Register, i) * skew
  <2>1. dispersions'[j] = dispersions[j] + 1 /\ dispersions[j] \in Nat /\ delays[j] \in Nat
    BY <1>2, <1>3, <1>5
  <2>2. Age(Buffers', Register, i) = Age(Buffers, Register, i)
    BY <1>3 DEF Age, Buffers
  <2>3. e \in Int
    <3> DEFINE a == Age(Buffers, Register, i)
    <3>1. a \in Int
      <4>1. Register.n > 0 /\ i \in -Register.runs .. Register.n - 1
        BY <1>1, <1>4, AllFit
      <4> QED BY <1>1, <4>1, AgeIsNumber
    <3> HIDE DEF a
    <3>2. 2 * a * skew \in Int
      BY <1>1, <3>1
    <3> QED BY <3>2 DEF a
  <2>4. DistanceAt(Buffers', Register, i, skew) = 2 * dispersions'[j] + e + delays[j]
    BY <1>3, <2>2 DEF DistanceAt, Distance, Buffers
  <2>5. DistanceAt(Buffers, Register, i, skew) = 2 * dispersions[j] + e + delays[j]
    BY DEF DistanceAt, Distance, Buffers
  <2> HIDE DEF e, j
  <2> QED BY <2>1, <2>3, <2>4, <2>5
<1>9. NearestAt(Buffers', Register', best_single_sample', skew')
  <2>1. 2 \in Int
    OBVIOUS
  <2>2. NearestAt(Buffers', Register, best_single_sample, skew)
    BY <1>1, <1>4, <1>8, <2>1, NearestIsHeld
  <2> QED BY <1>3, <1>4, <2>2
<1>10. LeastAt(Buffers', Register', min_delay_sample')
  <2>1. Buffers'.delays = Buffers.delays
    BY <1>3 DEF Buffers
  <2> QED BY <1>1, <1>3, <1>4, <2>1 DEF LeastAt
<1>11. EstimateIsNewest'
  BY <1>1, <1>3 DEF EstimateIsNewest
<1>12. TypeOK' /\ RunsBehind(Register')
  BY <1>1, <1>3, <1>4, <1>7 DEF TypeOK
<1>13. UNCHANGED <<theLog, estimate, theSaved>>
  BY <1>3 DEF theLog, theSaved, SampleAt, Register, RunsIndex
<1> QED BY <1>9, <1>10, <1>11, <1>12, <1>13 DEF IInv

\* A new register.
NewRegister ==
  /\ n_samples = 0 /\ runs_samples = 0 /\ last_sample = 0
  /\ sample = BlankRuns /\ delays = Blank /\ dispersions = Blank
  /\ regression_ok = FALSE /\ skew = WorstSkew /\ estimate = <<>>
  /\ file \in [rows : Seq(RowType), whole : BOOLEAN] /\ Len(file.rows) <= MAX_SAMPLES

LEMMA NewIsRight == NewRegister => IInv /\ theLog = <<>> /\ estimate = <<>>
<1>1. SUFFICES ASSUME NewRegister PROVE IInv /\ theLog = <<>> /\ estimate = <<>>
  OBVIOUS
<1>2. /\ n_samples = 0 /\ runs_samples = 0 /\ last_sample = 0
      /\ sample = BlankRuns /\ delays = Blank /\ dispersions = Blank
      /\ regression_ok = FALSE /\ skew = WorstSkew /\ estimate = <<>>
      /\ file \in [rows : Seq(RowType), whole : BOOLEAN] /\ Len(file.rows) <= MAX_SAMPLES
  BY <1>1 DEF NewRegister
<1>3. Garbage \in SampleType /\ WorstSkew \in Nat
  BY StatsAssumption DEF Garbage, SampleType, Time, Offset
<1>4. Typed(Buffers)
  BY <1>2, <1>3 DEF Typed, Buffers, BlankRuns, Blank
<1>5. Register.n = 0 /\ Register.runs = 0 /\ Register.last = 0 /\ DOMAIN Register = {"n", "runs", "last"}
  BY <1>2 DEF Register
<1>6. Fits(Register)
  <2>1. 0 \in 0 .. MAX_SAMPLES /\ 0 \in -1 .. RunsSize - 1
    BY Sizes
  <2>2. 0 <= 0 * (REGRESS_RUNS_RATIO - 1)
    BY Sizes
  <2> QED BY <1>5, <2>1, <2>2 DEF Fits
<1>7. RunsBehind(Register) /\ LeastAt(Buffers, Register, min_delay_sample)
      /\ NearestAt(Buffers, Register, best_single_sample, skew)
  BY <1>5 DEF RunsBehind, LeastAt, NearestAt
<1>8. EstimateIsNewest
  BY <1>2 DEF EstimateIsNewest, MIN_SAMPLES_FOR_REGRESS
<1>9. TypeOK
  <2>1. estimate \in Seq(SampleType)
    BY <1>2
  <2>2. regression_ok \in BOOLEAN
    BY <1>2, Zenon
  <2>3. skew \in Nat
    BY <1>2, <1>3, Zenon
  <2> QED BY <1>2, <1>4, <1>6, <2>1, <2>2, <2>3 DEF TypeOK
<1>10. theLog = <<>>
  BY <1>2 DEF theLog
<1> QED BY <1>2, <1>7, <1>8, <1>9, <1>10 DEF IInv

LEMMA InitStep == Init => IInv /\ Log!Init
<1>1. SUFFICES ASSUME Init PROVE IInv /\ Log!Init
  OBVIOUS
<1>2. NewRegister /\ file = NoFile
  BY <1>1, NothingSaved DEF Init, NewRegister
<1>3. IInv /\ theLog = <<>> /\ estimate = <<>>
  BY <1>2, NewIsRight
<1>4. theSaved = <<>>
  <2>1. file.rows = <<>> /\ DOMAIN file.rows = {}
    BY <1>2 DEF NoFile
  <2> QED BY <2>1 DEF theSaved
<1> QED BY <1>3, <1>4, Zenon DEF Log!Init, theLog, theSaved

LEMMA RestartStep ==
  ASSUME IInv, Restart
  PROVE  IInv' /\ Log!Restart
<1>1. Typed(Buffers) /\ Fits(Register)
  BY DEF IInv, TypeOK
<1> DEFINE n == n_samples
           u == runs_samples
           rows == [k \in 1 .. n |-> Row(k - 1)]
<1>2. n \in Nat /\ u \in Nat /\ n <= MAX_SAMPLES /\ Register.n = n /\ Register.runs = u
  BY <1>1, AllFit DEF Register
<1>3. ASSUME NEW k \in 1 .. n PROVE Row(k - 1) \in RowType /\ Row(k - 1).s = SampleAt(k - 1)
  <2>1. k - 1 \in 0 .. n - 1 /\ k - 1 \in -u .. n - 1 /\ n > 0
    BY <1>2
  <2>2. RunsIndex(Register, k - 1) \in 0 .. RunsSize - 1 /\ BufIndex(Register, k - 1) \in 0 .. MAX_SAMPLES - 1
    BY <1>1, <1>2, <2>1, RunsSlots, BufSlots
  <2>3. /\ sample[RunsIndex(Register, k - 1)] \in SampleType
        /\ delays[BufIndex(Register, k - 1)] \in Nat /\ dispersions[BufIndex(Register, k - 1)] \in Nat
    BY <1>1, <2>2 DEF Typed, Buffers
  <2> QED BY <2>3 DEF Row, RowType, SampleAt
<1>4. rows \in Seq(RowType) /\ Len(rows) = n
  BY <1>2, <1>3
<1>5. \/ \E whole \in BOOLEAN : file' = [rows |-> rows, whole |-> whole]
      \/ file' = NoFile
  BY DEF Restart
<1>6. file' \in [rows : Seq(RowType), whole : BOOLEAN] /\ Len(file'.rows) <= MAX_SAMPLES
  <2> HIDE DEF rows, n
  <2> QED BY <1>2, <1>4, <1>5, NothingSaved
<1>7. NewRegister'
  BY <1>6 DEF Restart, NewRegister, BlankRuns, Blank
<1>8. IInv' /\ theLog' = <<>> /\ estimate' = <<>>
  <2>1. (NewRegister => IInv /\ theLog = <<>> /\ estimate = <<>>)'
    BY NewIsRight, PTL
  <2> QED BY <1>7, <2>1
<1>9. /\ theLog \in Seq(SampleType) /\ Len(theLog) = u + n
      /\ \A i \in 1 .. u + n : theLog[i] = SampleAt(i - 1 - u)
  <2>1. theLog \in Seq(SampleType) /\ Len(theLog) = u + n
    BY <1>1, <1>2, LogIsTyped, TheLogIs
  <2>2. \A i \in 1 .. u + n : theLog[i] = SampleAt(i - 1 - u)
    BY DEF theLog
  <2> QED BY <2>1, <2>2
<1>10. EndOf(theSaved', theLog)
  <2>1. CASE file' = NoFile
    <3>1. theSaved' = <<>>
      BY <2>1, NothingMapped
    <3>2. EndOf(<<>>, theLog)
      BY <1>2, <1>9 DEF EndOf
    <3> QED BY <3>1, <3>2
  <2>2. CASE \E whole \in BOOLEAN : file' = [rows |-> rows, whole |-> whole]
    <3>1. file'.rows = rows
      BY <2>2
    <3> DEFINE t == [k \in 1 .. n |-> SampleAt(k - 1)]
    <3>2. theSaved' = t
      BY <1>3, <3>1 DEF theSaved
    <3>3. ASSUME NEW k \in 1 .. n PROVE SampleAt(k - 1) = theLog[k + ((u + n) - n)] /\ SampleAt(k - 1) \in SampleType
      <4>1. k + ((u + n) - n) \in 1 .. u + n /\ (k + ((u + n) - n)) - 1 - u = k - 1
        BY <1>2
      <4>2. theLog[k + ((u + n) - n)] = SampleAt(k - 1)
        BY <1>9, <4>1
      <4> QED BY <1>9, <4>1, <4>2
    <3>4. t \in Seq(SampleType) /\ Len(t) = n /\ \A k \in 1 .. n : t[k] = SampleAt(k - 1)
      BY <1>2, <3>3
    <3>5. n <= u + n
      BY <1>2
    <3> HIDE DEF t, n, u
    <3>6. EndOf(t, theLog)
      BY <1>9, <3>3, <3>4, <3>5 DEF EndOf
    <3> QED BY <3>2, <3>6
  <2> QED BY <1>5, <2>1, <2>2
<1>11. theSaved' \in Log!Suffixes(theLog)
  BY <1>10, EndIsSuffix
<1> QED BY <1>8, <1>11, Zenon DEF Log!Restart, theLog, theSaved

\* The rows of a dump file fill a new register from the start of its buffers.
LoadedRegister(rows) == [n |-> Len(rows), runs |-> 0, last |-> LoadedLast(rows)]
LoadedRow(rows, i) == rows[IF i < Len(rows) THEN i + 1 ELSE 1]
LoadedBuffers(rows) ==
  [sample |-> [i \in 0 .. RunsSize - 1 |-> LoadedRow(rows, i).s],
   delays |-> [j \in 0 .. MAX_SAMPLES - 1 |-> LoadedRow(rows, j).delay],
   dispersions |-> [j \in 0 .. MAX_SAMPLES - 1 |-> LoadedRow(rows, j).dispersion]]

LEMMA LoadedFits ==
  ASSUME NEW rows \in Seq(RowType), Len(rows) <= MAX_SAMPLES
  PROVE  LET r == LoadedRegister(rows) IN Fits(r) /\ RunsBehind(r) /\ r.n = Len(rows) /\ r.runs = 0
<1> DEFINE r == LoadedRegister(rows)
           n == Len(rows)
<1>1. n \in Nat /\ n <= MAX_SAMPLES /\ MAX_SAMPLES \in Nat /\ RunsSize \in Nat /\ MAX_SAMPLES <= RunsSize
  BY Sizes
<1>2. r.n = n /\ r.runs = 0 /\ r.last = n - 1 /\ DOMAIN r = {"n", "runs", "last"}
  BY DEF LoadedRegister, LoadedLast
<1> HIDE DEF r, n
<1>3. 0 <= n * (REGRESS_RUNS_RATIO - 1)
  <2>1. REGRESS_RUNS_RATIO - 1 \in Nat
    BY Sizes
  <2> QED BY <1>1, <2>1
<1>4. Fits(r)
  BY <1>1, <1>2, <1>3 DEF Fits
<1> QED BY <1>2, <1>4 DEF RunsBehind, r, n

LEMMA LoadedIsRight ==
  ASSUME NEW rows \in Seq(RowType), Len(rows) <= MAX_SAMPLES, rows # <<>>
  PROVE  /\ Typed(LoadedBuffers(rows))
         /\ LogOf(LoadedBuffers(rows), LoadedRegister(rows)) = [i \in 1 .. Len(rows) |-> rows[i].s]
<1> DEFINE r == LoadedRegister(rows)
           b == LoadedBuffers(rows)
           n == Len(rows)
<1>1. n \in Nat /\ n > 0
  OBVIOUS
<1>2. Fits(r) /\ r.n = n /\ r.runs = 0 /\ r.last = n - 1
  BY LoadedFits DEF LoadedRegister, LoadedLast
<1>3. \A i \in Nat : LoadedRow(rows, i) \in RowType
  <2>1. \A i \in Nat : (IF i < n THEN i + 1 ELSE 1) \in 1 .. n
    BY <1>1
  <2> QED BY <2>1 DEF LoadedRow
<1>4. \A i \in Nat : /\ LoadedRow(rows, i).s \in SampleType /\ LoadedRow(rows, i).delay \in Nat
                     /\ LoadedRow(rows, i).dispersion \in Nat
  BY <1>3 DEF RowType
<1>5. Typed(b)
  BY <1>4, Sizes DEF Typed, LoadedBuffers
<1>6. ASSUME NEW i \in 1 .. n PROVE b.sample[RunsIndex(r, i - 1 - 0)] = rows[i].s
  <2> DEFINE j == i - 1 - 0
  <2>1. j \in -r.runs .. r.n - 1 /\ r.n > 0 /\ j = i - 1
    BY <1>1, <1>2
  <2>2. r.n - j - 1 \in 0 .. RunsSize - 1 /\ RunsIndex(r, j) = Back(r.last, r.n - j - 1, RunsSize)
    BY <1>2, <2>1, RunsIndexIsBack
  <2>3. RunsIndex(r, j) = i - 1
    BY <1>1, <1>2, <2>1, <2>2 DEF Back
  <2>4. i - 1 \in 0 .. RunsSize - 1
    BY <1>2, <2>1, <2>3, RunsSlots
  <2>5. b.sample[i - 1] = LoadedRow(rows, i - 1).s
    BY <2>4 DEF LoadedBuffers
  <2>6. LoadedRow(rows, i - 1) = rows[i]
    BY <1>1 DEF LoadedRow
  <2> QED BY <2>3, <2>5, <2>6
<1> HIDE DEF r, b
<1>7. LogOf(b, r) = [i \in 1 .. n |-> rows[i].s]
  <2>1. r.runs + r.n = n
    BY <1>1, <1>2
  <2>2. LogOf(b, r) = [i \in 1 .. n |-> b.sample[RunsIndex(r, i - 1 - 0)]]
    BY <1>2, <2>1 DEF LogOf
  <2> QED BY <1>6, <2>2
<1> QED BY <1>5, <1>7 DEF r, b

LEMMA ReloadStep ==
  ASSUME IInv, Reload
  PROVE  IInv' /\ Log!Load
<1> DEFINE rows == file.rows
           r == LoadedRegister(rows)
           b == IF rows = <<>> THEN Buffers ELSE LoadedBuffers(rows)
           m == IF rows = <<>> THEN 0 ELSE MinDelayIndex(r, b.delays)
<1>1. /\ Typed(Buffers) /\ Fits(Register) /\ estimate \in Seq(SampleType)
      /\ rows \in Seq(RowType) /\ Len(rows) <= MAX_SAMPLES
  BY DEF IInv, TypeOK
<1>2. n_samples = 0 /\ file' = NoFile
  BY DEF Reload
<1>3. DOMAIN sample = 0 .. RunsSize - 1 /\ DOMAIN delays = 0 .. MAX_SAMPLES - 1
      /\ DOMAIN dispersions = 0 .. MAX_SAMPLES - 1
  BY <1>1 DEF Typed, Buffers
<1>4. DoNewRegression(b, r, m)
  <2>1. CASE rows = <<>>
    BY <2>1 DEF Reload, LoadedRegister
  <2>2. CASE rows # <<>>
    BY <1>3, <2>2 DEF Reload, LoadedRegister, LoadedBuffers, LoadedRow
  <2> QED BY <2>1, <2>2
<1>5. Fits(r) /\ RunsBehind(r) /\ r.n = Len(rows) /\ r.runs = 0
  BY <1>1, LoadedFits
<1>6. Typed(b) /\ LogOf(b, r) = theSaved
  <2>1. DOMAIN rows = 1 .. Len(rows)
    BY <1>1
  <2>2. theSaved = [i \in 1 .. Len(rows) |-> rows[i].s]
    BY <2>1 DEF theSaved
  <2>3. CASE rows = <<>>
    <3>1. Len(rows) = 0 /\ 1 .. Len(rows) = {} /\ 1 .. r.runs + r.n = {}
      BY <1>5, <2>3
    <3>2. LogOf(b, r) = theSaved
      BY <2>2, <3>1 DEF LogOf
    <3> QED BY <1>1, <2>3, <3>2
  <2>4. CASE rows # <<>>
    BY <1>1, <2>2, <2>4, LoadedIsRight
  <2> QED BY <2>3, <2>4
<1>7. LeastAt(b, r, m)
  <2>1. CASE rows = <<>>
    <3>1. ~(r.n > 0)
      BY <1>5, <2>1
    <3> QED BY <3>1 DEF LeastAt
  <2>2. CASE rows # <<>>
    <3> HIDE DEF b, r
    <3> QED BY <1>5, <1>6, <2>2, MinDelayIsFound
  <2> QED BY <2>1, <2>2
<1> HIDE DEF b, r, m
<1>8. RegressionOf(b, r)
  BY <1>1, <1>4, <1>5, <1>6, <1>7, RegressionKeeps
<1>9. IInv'
  BY <1>1, <1>2, <1>5, <1>6, <1>8, NothingSaved, AfterRegression
<1> DEFINE new == theLog'
<1>10. /\ EndOf(new, LogOf(b, r))
       /\ Len(new) >= MIN_SAMPLES_FOR_REGRESS <=> n_samples' >= MIN_SAMPLES_FOR_REGRESS
       /\ r.n > 0 => Len(new) > 0 /\ new[Len(new)] = b.sample[r.last]
  BY <1>5, <1>6, <1>8, LogOfRegression, TheLogIs
<1>11. new \in Log!Suffixes(theSaved)
  <2> HIDE DEF new
  <2> QED BY <1>6, <1>10, EndIsSuffix
<1>12. theLog = <<>>
  <2>1. runs_samples = 0
    BY <1>1, <1>2, AllFit DEF Register
  <2> QED BY <1>2, <2>1 DEF theLog
<1>13. theSaved' = <<>>
  BY <1>2, NothingMapped
<1>14. estimate' = Log!Estimate(new, estimate)
  <2>1. CASE n_samples' >= MIN_SAMPLES_FOR_REGRESS
    <3>1. n_samples' > 0
      <4>1. n_samples' \in Int
        BY <1>9, AllFit DEF IInv, TypeOK, Register, Fits
      <4> QED BY <2>1, <4>1 DEF MIN_SAMPLES_FOR_REGRESS
    <3>2. r.n > 0
      BY <1>8, <3>1 DEF RegressionOf
    <3> HIDE DEF new
    <3> QED BY <1>8, <1>10, <2>1, <3>2 DEF RegressionOf, Log!Estimate, Log!Newest, MIN_SAMPLES_FOR_REGRESS
  <2>2. CASE ~(n_samples' >= MIN_SAMPLES_FOR_REGRESS)
    <3> HIDE DEF new
    <3> QED BY <1>8, <1>10, <2>2 DEF RegressionOf, Log!Estimate, MIN_SAMPLES_FOR_REGRESS
  <2> QED BY <2>1, <2>2
<1> QED BY <1>9, <1>11, <1>12, <1>13, <1>14, Zenon DEF Log!Load, theLog, theSaved

LEMMA LoadAbandonedStep ==
  ASSUME IInv, LoadAbandoned
  PROVE  IInv' /\ Log!Load
<1>1. /\ UNCHANGED <<n_samples, runs_samples, last_sample, sample, delays, dispersions,
                     regression_ok, skew, best_single_sample, min_delay_sample, estimate>>
      /\ n_samples = 0 /\ file' = NoFile
  BY DEF LoadAbandoned
<1>2. Buffers' = Buffers /\ Register' = Register
  BY <1>1 DEF Buffers, Register
<1>3. IInv'
  BY <1>1, <1>2, NothingSaved DEF IInv, TypeOK, EstimateIsNewest
<1>4. theLog = <<>> /\ theLog' = <<>>
  <2>1. runs_samples = 0
    BY <1>1, AllFit DEF IInv, TypeOK, Register
  <2> QED BY <1>1, <2>1 DEF theLog
<1>5. theSaved' = <<>>
  BY <1>1, NothingMapped
<1>6. theSaved \in Seq(SampleType)
  <2> DEFINE rows == file.rows
  <2>1. rows \in Seq(RowType)
    BY DEF IInv, TypeOK
  <2>2. DOMAIN rows = 1 .. Len(rows) /\ Len(rows) \in Nat
    BY <2>1
  <2>3. \A i \in 1 .. Len(rows) : rows[i].s \in SampleType
    <3> TAKE i \in 1 .. Len(rows)
    <3>1. rows[i] \in RowType
      BY <2>1, <2>2
    <3> QED BY <3>1 DEF RowType
  <2>4. theSaved = [i \in 1 .. Len(rows) |-> rows[i].s]
    BY <2>2 DEF theSaved
  <2> HIDE DEF rows
  <2> QED BY <2>2, <2>3, <2>4
<1>7. <<>> \in Log!Suffixes(theSaved)
  <2> HIDE DEF theSaved
  <2>1. Len(theSaved) + 1 \in 1 .. Len(theSaved) + 1 /\ SubSeq(theSaved, Len(theSaved) + 1, Len(theSaved)) = <<>>
    BY <1>6
  <2> QED BY <2>1 DEF Log!Suffixes
<1>8. estimate' = Log!Estimate(<<>>, estimate)
  BY <1>1 DEF Log!Estimate
<1> QED BY <1>3, <1>4, <1>5, <1>7, <1>8, Zenon DEF Log!Load, theLog, theSaved

-----------------------------------------------------------------------------
(* The theorems about the register. *)

LEMMA NextStep == IInv /\ [Next]_vars => IInv' /\ [Log!Next]_<<theLog, estimate, theSaved>>
<1> SUFFICES ASSUME IInv, [Next]_vars
             PROVE  IInv' /\ [Log!Next]_<<theLog, estimate, theSaved>>
  OBVIOUS
<1>1. ASSUME NEW gap \in Gap, NEW offset \in Measured, NEW delay \in Delay,
             AccumulateSample([time |-> Newest + gap, offset |-> offset], delay)
      PROVE  IInv' /\ Log!Next
  <2> DEFINE s == [time |-> Newest + gap, offset |-> offset]
  <2>1. s.time \in Int /\ s.offset \in Measured /\ s = [time |-> s.time, offset |-> s.offset]
    <3>1. Newest \in Int
      <4>1. Typed(Buffers) /\ Fits(Register)
        BY DEF IInv, TypeOK
      <4>2. n_samples \in Nat /\ (n_samples > 0 => last_sample \in 0 .. RunsSize - 1)
        BY <4>1, AllFit DEF Register
      <4>3. n_samples # 0 => sample[last_sample] \in SampleType
        BY <4>1, <4>2 DEF Typed, Buffers
      <4> QED BY <4>3, StatsAssumption DEF Newest, SampleType, Time
    <3>2. gap \in Int
      BY StatsAssumption
    <3>3. Newest + gap \in Int
      BY <3>1, <3>2
    <3> QED BY <3>3
  <2> HIDE DEF s
  <2>2. AccumulateSample(s, delay)
    BY <1>1 DEF s
  <2> QED BY <2>1, <2>2, AccumulateStep DEF Log!Next
<1>2. ASSUME NEW d \in Steps, SlewSamples(d) PROVE IInv' /\ Log!Next
  <2>1. d \in Offset
    BY StatsAssumption
  <2> QED BY <1>2, <2>1, SlewStep DEF Log!Next
<1>3. ASSUME AddDispersion PROVE IInv' /\ UNCHANGED <<theLog, estimate, theSaved>>
  BY <1>3, AddDispersionStep
<1>4. ASSUME Restart PROVE IInv' /\ Log!Next
  BY <1>4, RestartStep DEF Log!Next
<1>5. ASSUME Reload PROVE IInv' /\ Log!Next
  BY <1>5, ReloadStep DEF Log!Next
<1>7. ASSUME LoadAbandoned PROVE IInv' /\ Log!Next
  BY <1>7, LoadAbandonedStep DEF Log!Next
<1>6. ASSUME UNCHANGED vars PROVE IInv' /\ UNCHANGED <<theLog, estimate, theSaved>>
  <2>1. UNCHANGED <<theLog, estimate, theSaved>>
    BY <1>6 DEF vars, theLog, theSaved, SampleAt, Register, RunsIndex
  <2>2. Buffers' = Buffers /\ Register' = Register
    BY <1>6 DEF vars, Buffers, Register
  <2>3. IInv'
    BY <1>6, <2>2 DEF IInv, TypeOK, EstimateIsNewest, vars
  <2> QED BY <2>1, <2>3
<1> QED BY <1>1, <1>2, <1>3, <1>4, <1>5, <1>6, <1>7, Zenon DEF Next

LEMMA InvImplies == IInv => MinDelayIsLeast /\ ReadsAreRight
<1> SUFFICES ASSUME IInv, n_samples > 0 PROVE MinDelayIsLeast /\ ReadsAreRight
  BY DEF MinDelayIsLeast, ReadsAreRight
<1>1. /\ Typed(Buffers) /\ Fits(Register) /\ EstimateIsNewest /\ skew \in Nat
      /\ LeastAt(Buffers, Register, min_delay_sample)
      /\ NearestAt(Buffers, Register, best_single_sample, skew)
  BY DEF IInv, TypeOK
<1> DEFINE n == n_samples
<1>2. /\ n \in Nat /\ runs_samples \in Nat /\ last_sample \in 0 .. RunsSize - 1
      /\ Register.n = n /\ Register.runs = runs_samples /\ Register.last = last_sample
      /\ Buffers.delays = delays /\ Buffers.dispersions = dispersions /\ Buffers.sample = sample
  BY <1>1, AllFit DEF Register, Buffers
<1>3. MinDelayIsLeast
  <2> DEFINE S == {delays[BufIndex(Register, i)] : i \in 0 .. n - 1}
  <2>1. PICK k \in 0 .. n - 1 : min_delay_sample = BufIndex(Register, k)
           /\ \A i \in 0 .. n - 1 : delays[min_delay_sample] <= delays[BufIndex(Register, i)]
    BY <1>1, <1>2 DEF LeastAt
  <2>2. \A i \in 0 .. n - 1 : delays[BufIndex(Register, i)] \in Nat
    BY <1>1, <1>2, BufSlots DEF Typed
  <2> DEFINE w == delays[min_delay_sample]
  <2>3. w \in S /\ (\A y \in S : w <= y) /\ S \in SUBSET Nat
    BY <2>1, <2>2
  <2> HIDE DEF S, w
  <2>4. Min(S) \in S /\ \A y \in S : Min(S) <= y
    BY <2>3, LeastExists
  <2>5. Min(S) = w
    <3>1. PICK y \in Nat : y = Min(S)
      BY <2>3, <2>4
    <3>2. w \in Nat /\ w <= y /\ y <= w
      BY <2>3, <2>4, <3>1
    <3> QED BY <3>1, <3>2
  <2> QED BY <2>5 DEF MinDelayIsLeast, MinRoundTripDelay, S, w
<1>4. best_single_sample \in 0 .. n - 1
      /\ \A i \in 0 .. n - 1 :
           DistanceAt(Buffers, Register, best_single_sample, skew) <= DistanceAt(Buffers, Register, i, skew)
  BY <1>1, <1>2 DEF NearestAt
<1> DEFINE here == sample[last_sample].time
           best == SelectionData(here)
<1>5. \A i \in 0 .. n - 1 : Distance(Buffers, BufIndex(Register, i), here - SampleAt(i).time, skew)
                              = DistanceAt(Buffers, Register, i, skew)
  BY <1>2 DEF DistanceAt, Age, SampleAt
<1>6. 2 * best.root_dispersion + best.root_delay = DistanceAt(Buffers, Register, best_single_sample, skew)
  <2> DEFINE j == BufIndex(Register, best_single_sample)
             e == here - SampleAt(best_single_sample).time
             d == dispersions[j]
             y == delays[j]
  <2>1. best.root_delay = y /\ best.root_dispersion = d + e * skew
    BY DEF SelectionData, ReferenceData
  <2>2. DistanceAt(Buffers, Register, best_single_sample, skew) = 2 * d + 2 * e * skew + y
    BY <1>2, <1>4, <1>5 DEF Distance
  <2>3. e \in Int /\ d \in Nat /\ y \in Nat
    <3>1. best_single_sample \in -Register.runs .. Register.n - 1 /\ Register.n > 0
      BY <1>2, <1>4
    <3>2. Age(Buffers, Register, best_single_sample) \in Int
      BY <1>1, <3>1, AgeIsNumber
    <3>3. e \in Int
      BY <1>2, <3>2 DEF Age, SampleAt
    <3>4. j \in 0 .. MAX_SAMPLES - 1
      BY <1>1, <1>2, <1>4, BufSlots
    <3> QED BY <1>1, <1>2, <3>3, <3>4 DEF Typed
  <2> HIDE DEF e, d, y, best
  <2>4. 2 * (d + e * skew) + y = 2 * d + 2 * e * skew + y
    <3>1. e * skew \in Int /\ 2 * e * skew = 2 * (e * skew)
      BY <1>1, <2>3
    <3> DEFINE p == e * skew
    <3>2. 2 * (d + p) = 2 * d + 2 * p
      <4> HIDE DEF p
      <4>1. p \in Int
        BY <3>1 DEF p
      <4> QED BY <2>3, <4>1
    <3> QED BY <3>1, <3>2
  <2> QED BY <2>1, <2>2, <2>4
<1>7. Latest = sample[last_sample]
  <2>1. n - 1 \in -runs_samples .. n - 1
    BY <1>2
  <2>2. RunsIndex(Register, n - 1) = last_sample
    BY <1>1, <1>2, <2>1, RunsSlots
  <2> QED BY <2>2 DEF Latest, SampleAt
<1>8. PredictOffset = Latest.offset
  <2>1. CASE n < MIN_SAMPLES_FOR_REGRESS
    BY <1>2, <1>7, <2>1 DEF PredictOffset
  <2>2. CASE ~(n < MIN_SAMPLES_FOR_REGRESS)
    <3>1. estimate[1] = sample[last_sample]
      BY <1>1, <1>2, <2>2 DEF EstimateIsNewest, MIN_SAMPLES_FOR_REGRESS
    <3> QED BY <1>7, <2>2, <3>1 DEF PredictOffset
  <2> QED BY <2>1, <2>2
<1>9. best.select_ok => TrackingData.ref_time = Latest.time /\ TrackingData.root_delay = best.root_delay
  <2>1. best.select_ok = regression_ok /\ best.root_delay = delays[BufIndex(Register, best_single_sample)]
    BY DEF SelectionData, ReferenceData
  <2>2. TrackingData.ref_time = estimate[1].time
        /\ TrackingData.root_delay = delays[BufIndex(Register, best_single_sample)]
    BY DEF TrackingData, ReferenceData
  <2>3. regression_ok => estimate[1] = sample[last_sample]
    BY <1>1 DEF EstimateIsNewest
  <2> QED BY <1>7, <2>1, <2>2, <2>3
<1>10. ReadsAreRight
  <2>1. best_single_sample < n
    BY <1>2, <1>4
  <2> QED BY <1>4, <1>5, <1>6, <1>8, <1>9, <2>1 DEF ReadsAreRight
<1> QED BY <1>3, <1>10

\* The inductive invariant.
THEOREM StatsIInv == Spec => []IInv
BY InitStep, NextStep, PTL DEF Spec

\* The delay that new samples are measured against is the least of the register
\* (sourcestats.c, find_min_delay_sample and SST_MinRoundTripDelay), wherever the
\* two rings have wrapped and whatever was pruned, slewed or loaded.
THEOREM StatsMinDelayIsLeast == Spec => []MinDelayIsLeast
BY StatsIInv, InvImplies, PTL

\* The sample that stands for the source has the least root distance, and the
\* predicted offset is that of the newest one (SST_GetReferenceData,
\* SST_GetSelectionData, SST_GetTrackingData, SST_PredictOffset).
THEOREM StatsReadsAreRight == Spec => []ReadsAreRight
BY StatsIInv, InvImplies, PTL

\* The register implements the log of SampleLog: every operation adds a newest
\* sample, moves all of them, forgets some of the oldest, ends or loads the log.
THEOREM StatsImplementsLog == Spec => LogSpec
<1>1. Init => Log!Init
  BY InitStep
<1>2. IInv /\ [Next]_vars => [Log!Next]_<<theLog, estimate, theSaved>>
  BY NextStep
<1> QED BY <1>1, <1>2, StatsIInv, PTL DEF Spec, LogSpec, Log!Spec, theLog, theSaved

-----------------------------------------------------------------------------
(* The register, in every behaviour of Measurements. *)

\* What is proved above of SourceStats on its own holds of the whole: the other
\* parts leave the register alone.
THEOREM MeasurementRegister == MeasurementSpec => [](MinDelayIsLeast /\ ReadsAreRight) /\ LogSpec
<1>1. MeasurementInit => Init
  BY Zenon DEF MeasurementInit
<1>2. [MeasurementNext]_measurementVars => [Next]_vars
  <2> SUFFICES ASSUME [MeasurementNext]_measurementVars PROVE [Next]_vars
    OBVIOUS
  <2>1. MeasurementNext => [Next]_vars
    BY Zenon DEF MeasurementNext
  <2>2. UNCHANGED measurementVars => UNCHANGED vars
    BY DEF measurementVars
  <2> QED BY <2>1, <2>2, Zenon
<1>3. MeasurementSpec => Spec
  BY <1>1, <1>2, PTL DEF MeasurementSpec, Spec
<1> QED BY <1>3, StatsMinDelayIsLeast, StatsReadsAreRight, StatsImplementsLog, PTL

-----------------------------------------------------------------------------
(* The selection: SelectionProofs for the sources of the constants and for *)
(* the pair.                                                               *)

SelP == INSTANCE SelectionProofs WITH regression_ok <- select_ok
PairP == INSTANCE SelectionProofs WITH
  regression_ok <- select_ok, Source <- Pair, Option <- PairOption, REACH_SIZE <- PAIR_REACH_SIZE

LEMMA SameScanInit == SelP!ScanInit <=> Scan!ScanInit
BY DEF SelP!Interval, Scan!Interval, SelP!ScanInit, Scan!ScanInit, SelP!SortList, Scan!SortList

LEMMA SameScanNext == SelP!ScanNext <=> Scan!ScanNext
BY DEF SelP!Before, Scan!Before, SelP!IsNext, Scan!IsNext, SelP!ScanHigh, Scan!ScanHigh,
       SelP!ScanLow, Scan!ScanLow, SelP!ScanNext, Scan!ScanNext, SelP!scanVars, Scan!scanVars

LEMMA SameScanProperties ==
  (SelP!ScanFindsDeepest <=> Scan!ScanFindsDeepest) /\ (SelP!DeepestSurvive <=> Scan!DeepestSurvive)
BY DEF SelP!Admissible, Scan!Admissible, SelP!Around, Scan!Around,
       SelP!BestDepth, Scan!BestDepth, SelP!BestHi, Scan!BestHi, SelP!BestLo, Scan!BestLo,
       SelP!Deepest, Scan!Deepest, SelP!DeepestSurvive, Scan!DeepestSurvive,
       SelP!DepthAt, Scan!DepthAt, SelP!Done, Scan!Done, SelP!Endpoints, Scan!Endpoints,
       SelP!ScanFindsDeepest, Scan!ScanFindsDeepest, SelP!Selectable, Scan!Selectable,
       SelP!Max, Scan!Max, SelP!Min, Scan!Min, SelP!Cardinality, Scan!Cardinality

LEMMA SelElect ==
  \A cur, match, info, good, st : SelP!Elect(cur, match, info, good, st) = Select!Elect(cur, match, info, good, st)
BY DEF SelP!Distance, Select!Distance, SelP!Elect, Select!Elect, SelP!Followed, Select!Followed,
           SelP!INVALID_SOURCE, Select!INVALID_SOURCE, SelP!Level, Select!Level,
           SelP!MaxScoreIndices, Select!MaxScoreIndices, SelP!MinStratum, Select!MinStratum,
           SelP!NearestIndices, Select!NearestIndices, SelP!NewScores, Select!NewScores,
           SelP!Outcome, Select!Outcome, SelP!Scaled, Select!Scaled,
           SelP!ScoreMoves, Select!ScoreMoves, SelP!SelDistance, Select!SelDistance,
           SelP!Max, Select!Max, SelP!Min, Select!Min

LEMMA SelEnds ==
  \A J, lo, hi : /\ SelP!BestLo(J) = Select!BestLo(J) /\ SelP!BestHi(J) = Select!BestHi(J)
                /\ SelP!Admissible(J, lo, hi) = Select!Admissible(J, lo, hi)
BY DEF SelP!Admissible, Select!Admissible, SelP!Around, Select!Around,
           SelP!BestDepth, Select!BestDepth, SelP!BestHi, Select!BestHi, SelP!BestLo, Select!BestLo,
           SelP!Deepest, Select!Deepest, SelP!DepthAt, Select!DepthAt,
           SelP!Endpoints, Select!Endpoints, SelP!Max, Select!Max, SelP!Min, Select!Min,
           SelP!Cardinality, Select!Cardinality

LEMMA SelMajority ==
  \A J, S : SelP!Majority(SelP!BestDepth(J), SelP!Cardinality(S)) <=> Select!Majority(Select!BestDepth(J), Select!Cardinality(S))
BY DEF SelP!Around, Select!Around, SelP!BestDepth, Select!BestDepth, SelP!DepthAt, Select!DepthAt,
           SelP!Endpoints, Select!Endpoints, SelP!Majority, Select!Majority, SelP!Max, Select!Max,
           SelP!Cardinality, Select!Cardinality

LEMMA SelOutcomes ==
  /\ SelP!Known = Select!Known /\ SelP!Looked = Select!Looked
  /\ \A looked, ok, good, bad : SelP!Statuses(looked, ok, good, bad) = Select!Statuses(looked, ok, good, bad)
  /\ \A cur, st : SelP!Lost(cur, st) = Select!Lost(cur, st)
  /\ \A cur, looked, ok : SelP!MustWait(cur, looked, ok) <=> Select!MustWait(cur, looked, ok)
BY DEF SelP!INVALID_SOURCE, Select!INVALID_SOURCE, SelP!Known, Select!Known,
           SelP!Looked, Select!Looked, SelP!Lost, Select!Lost, SelP!MaxReach, Select!MaxReach,
           SelP!MustWait, Select!MustWait, SelP!Outcome, Select!Outcome,
           SelP!Statuses, Select!Statuses, SelP!Max, Select!Max, SelP!Range, Select!Range

LEMMA SelAmong ==
  \A cur, match, info, looked, ok :
    SelP!SelectAmong(cur, match, info, looked, ok) = Select!SelectAmong(cur, match, info, looked, ok)
<1> SUFFICES ASSUME NEW cur, NEW match, NEW info, NEW looked, NEW ok
             PROVE  SelP!SelectAmong(cur, match, info, looked, ok) = Select!SelectAmong(cur, match, info, looked, ok)
  OBVIOUS
<1> DEFINE J == [s \in ok |-> info[s]]
           good == Select!Admissible(J, Select!BestLo(J), Select!BestHi(J))
           elect == Select!Elect(cur, match, info, good, Select!Statuses(looked, ok, good, ok \ good))
           lost == Select!Lost(cur, Select!Statuses(looked, ok, {}, Select!Known))
           many == Select!Majority(Select!BestDepth(J), Select!Cardinality(ok))
<1>1. SelP!SelectAmong(cur, match, info, looked, ok) = IF many THEN elect ELSE {lost}
  <2>1. SelP!Admissible(J, SelP!BestLo(J), SelP!BestHi(J)) = good
    BY SelEnds
  <2> DEFINE fine == SelP!Admissible(J, SelP!BestLo(J), SelP!BestHi(J))
  <2>2. SelP!Elect(cur, match, info, fine, SelP!Statuses(looked, ok, fine, ok \ fine)) = elect
    BY <2>1, SelElect, SelOutcomes
  <2>3. SelP!Lost(cur, SelP!Statuses(looked, ok, {}, SelP!Known)) = lost
    BY SelOutcomes
  <2>4. SelP!Majority(SelP!BestDepth(J), SelP!Cardinality(ok)) <=> many
    BY SelMajority
  <2>5. SelP!SelectAmong(cur, match, info, looked, ok)
          = IF SelP!Majority(SelP!BestDepth(J), SelP!Cardinality(ok))
              THEN SelP!Elect(cur, match, info, fine, SelP!Statuses(looked, ok, fine, ok \ fine))
              ELSE {SelP!Lost(cur, SelP!Statuses(looked, ok, {}, SelP!Known))}
    BY Zenon DEF SelP!SelectAmong
  <2> QED BY ONLY <2>2, <2>3, <2>4, <2>5
<1>2. Select!SelectAmong(cur, match, info, looked, ok) = IF many THEN elect ELSE {lost}
  BY Zenon DEF Select!SelectAmong
<1> QED BY ONLY <1>1, <1>2

LEMMA SelSelectSource ==
  \A cur, match : SelP!SelectSource(cur, match) = Select!SelectSource(cur, match)
<1> SUFFICES ASSUME NEW cur, NEW match
             PROVE  SelP!SelectSource(cur, match) = Select!SelectSource(cur, match)
  OBVIOUS
<1> DEFINE looked == Select!Looked
           ok == {s \in looked : select_ok'[s]}
           read == ok \cup (IF cur = 0 THEN {} ELSE {sources[cur]})
           st == Select!Statuses(looked, ok, {}, {})
           outcomes == UNION {Select!SelectAmong(cur, match, info, looked, ok) : info \in [read -> Data]}
<1>1. Select!SelectSource(cur, match)
        = IF sources = <<>> THEN {Select!Lost(cur, status)}
          ELSE IF Select!MustWait(cur, looked, ok) THEN {Select!Outcome(cur, st, sel_score, reference)}
          ELSE IF ok = {} THEN {Select!Lost(cur, st)} ELSE outcomes
  BY Zenon DEF Select!SelectSource, Select!INVALID_SOURCE
<1>2. SelP!SelectSource(cur, match)
        = IF sources = <<>> THEN {SelP!Lost(cur, status)}
          ELSE IF SelP!MustWait(cur, looked, ok) THEN {SelP!Outcome(cur, SelP!Statuses(looked, ok, {}, {}), sel_score, reference)}
          ELSE IF ok = {} THEN {SelP!Lost(cur, SelP!Statuses(looked, ok, {}, {}))}
          ELSE UNION {SelP!SelectAmong(cur, match, info, looked, ok) : info \in [read -> Data]}
  <2>1. SelP!Looked = looked
    BY SelOutcomes
  <2> HIDE DEF looked
  <2> QED BY Zenon, <2>1 DEF SelP!SelectSource, SelP!INVALID_SOURCE
<1>3. UNION {SelP!SelectAmong(cur, match, info, looked, ok) : info \in [read -> Data]} = outcomes
  BY SelAmong
<1>4. /\ SelP!Lost(cur, status) = Select!Lost(cur, status)
      /\ SelP!MustWait(cur, looked, ok) <=> Select!MustWait(cur, looked, ok)
      /\ SelP!Statuses(looked, ok, {}, {}) = st /\ SelP!Lost(cur, st) = Select!Lost(cur, st)
  BY SelOutcomes
<1>5. SelP!Outcome(cur, st, sel_score, reference) = Select!Outcome(cur, st, sel_score, reference)
  BY DEF SelP!Outcome, Select!Outcome
<1> HIDE DEF looked, ok, read, st, outcomes
<1> QED BY ONLY <1>1, <1>2, <1>3, <1>4, <1>5

LEMMA SelHelpers ==
  /\ \A s : SelP!IsSelected(s) <=> Select!IsSelected(s)
  /\ \A o : SelP!Becomes(o) <=> Select!Becomes(o)
  /\ \A sel, st, sc, ref : SelP!Outcome(sel, st, sc, ref) = Select!Outcome(sel, st, sc, ref)
  /\ \A sel, dead : SelP!IndexWithout(sel, dead) = Select!IndexWithout(sel, dead)
  /\ \A seq, i : SelP!RemoveAt(seq, i) = Select!RemoveAt(seq, i)
  /\ SelP!elected = Select!elected /\ SelP!fields = Select!fields
BY DEF SelP!IsSelected, Select!IsSelected, SelP!INVALID_SOURCE, Select!INVALID_SOURCE,
       SelP!Becomes, Select!Becomes, SelP!Outcome, Select!Outcome,
       SelP!IndexWithout, Select!IndexWithout, SelP!RemoveAt, Select!RemoveAt,
       SelP!elected, Select!elected, SelP!fields, Select!fields

LEMMA SelReselect == \A s : SelP!ReselectIfSelected(s) <=> Select!ReselectIfSelected(s)
<1> TAKE s
<1>1. SelP!SelectSource(selected_source_index, NoMatch) = Select!SelectSource(selected_source_index, NoMatch)
  BY SelSelectSource
<1>2. (SelP!IsSelected(s) <=> Select!IsSelected(s)) /\ \A o : SelP!Becomes(o) <=> Select!Becomes(o)
  BY SelHelpers
<1> QED BY <1>1, <1>2 DEF SelP!ReselectIfSelected, Select!ReselectIfSelected, SelP!elected, Select!elected

LEMMA SelDestroy == \A s : SelP!SRC_DestroyInstance(s) <=> Select!SRC_DestroyInstance(s)
<1> SUFFICES ASSUME NEW s PROVE SelP!SRC_DestroyInstance(s) <=> Select!SRC_DestroyInstance(s)
  OBVIOUS
<1> DEFINE outcomes == IF Select!IsSelected(s) THEN Select!SelectSource(selected_source_index, NoMatch)
                       ELSE {Select!Outcome(selected_source_index, status, sel_score, reference)}
           gone(o, dead) == Select!Outcome(Select!IndexWithout(o.sel, dead), [o.status EXCEPT ![s] = "SRC_BAD_STATS"],
                                        [o.score EXCEPT ![s] = 1], o.ref)
<1>1. outcomes = IF SelP!IsSelected(s) THEN SelP!SelectSource(selected_source_index, NoMatch)
                 ELSE {SelP!Outcome(selected_source_index, status, sel_score, reference)}
  BY SelHelpers, SelSelectSource
<1>2. ASSUME NEW o, NEW dead
      PROVE  SelP!Becomes(SelP!Outcome(SelP!IndexWithout(o.sel, dead), [o.status EXCEPT ![s] = "SRC_BAD_STATS"],
                                     [o.score EXCEPT ![s] = 1], o.ref)) <=> Select!Becomes(gone(o, dead))
  BY SelHelpers
<1>3. SelP!Known = Select!Known /\ \A dead : SelP!RemoveAt(sources, dead) = Select!RemoveAt(sources, dead)
  BY SelHelpers, SelOutcomes
<1> DEFINE left == s \in Select!Known /\ sel_option' = [sel_option EXCEPT ![s] = "normal"]
                   /\ selectable' = [selectable EXCEPT ![s] = FALSE] /\ reachability' = [reachability EXCEPT ![s] = 0]
                   /\ select_ok' = [select_ok EXCEPT ![s] = FALSE]
<1>4. Select!SRC_DestroyInstance(s) <=> left /\ \E dead \in 1 .. Len(sources), o \in outcomes :
        sources[dead] = s /\ sources' = Select!RemoveAt(sources, dead) /\ Select!Becomes(gone(o, dead))
  BY Zenon DEF Select!SRC_DestroyInstance
<1>5. SelP!SRC_DestroyInstance(s) <=> left /\ \E dead \in 1 .. Len(sources), o \in outcomes :
        sources[dead] = s /\ sources' = SelP!RemoveAt(sources, dead)
        /\ SelP!Becomes(SelP!Outcome(SelP!IndexWithout(o.sel, dead), [o.status EXCEPT ![s] = "SRC_BAD_STATS"],
                                   [o.score EXCEPT ![s] = 1], o.ref))
  <2> HIDE DEF outcomes
  <2> QED BY Zenon, <1>1, <1>3 DEF SelP!SRC_DestroyInstance
<1> HIDE DEF left, outcomes
<1> QED BY Zenon, <1>2, <1>3, <1>4, <1>5

LEMMA SelOperations ==
  \A s, option, reachable :
    /\ SelP!SRC_CreateNewInstance(s, option) <=> Select!SRC_CreateNewInstance(s, option)
    /\ SelP!SRC_SetSelectable(s) <=> Select!SRC_SetSelectable(s)
    /\ SelP!SRC_UnsetSelectable(s) <=> Select!SRC_UnsetSelectable(s)
    /\ SelP!SRC_UpdateReachability(s, reachable) <=> Select!SRC_UpdateReachability(s, reachable)
    /\ SelP!SRC_AccumulateSample(s) <=> Select!SRC_AccumulateSample(s)
    /\ SelP!SRC_ReselectSource <=> Select!SRC_ReselectSource
    /\ SelP!SRC_ReloadSources <=> Select!SRC_ReloadSources
<1> TAKE s, option, reachable
<1>1. SelP!Known = Select!Known /\ SelP!elected = Select!elected /\ SelP!fields = Select!fields
  BY SelHelpers, SelOutcomes
<1>2. SelP!SRC_CreateNewInstance(s, option) <=> Select!SRC_CreateNewInstance(s, option)
  BY <1>1 DEF SelP!SRC_CreateNewInstance, Select!SRC_CreateNewInstance
<1>3. SelP!SRC_SetSelectable(s) <=> Select!SRC_SetSelectable(s)
  BY <1>1 DEF SelP!SRC_SetSelectable, Select!SRC_SetSelectable, SelP!elected, Select!elected
<1>4. SelP!SRC_UnsetSelectable(s) <=> Select!SRC_UnsetSelectable(s)
  BY <1>1, SelReselect DEF SelP!SRC_UnsetSelectable, Select!SRC_UnsetSelectable
<1>5. SelP!SRC_UpdateReachability(s, reachable) <=> Select!SRC_UpdateReachability(s, reachable)
  BY <1>1, SelReselect DEF SelP!SRC_UpdateReachability, Select!SRC_UpdateReachability, SelP!elected, Select!elected
<1>6. SelP!SRC_AccumulateSample(s) <=> Select!SRC_AccumulateSample(s)
  BY <1>1, SelSelectSource, SelHelpers DEF SelP!SRC_AccumulateSample, Select!SRC_AccumulateSample
<1>7. SelP!SRC_ReselectSource <=> Select!SRC_ReselectSource
  BY <1>1, SelSelectSource, SelHelpers
     DEF SelP!SRC_ReselectSource, Select!SRC_ReselectSource, SelP!INVALID_SOURCE, Select!INVALID_SOURCE, SelP!fields, Select!fields
<1>8. SelP!SRC_ReloadSources <=> Select!SRC_ReloadSources
  BY <1>1 DEF SelP!SRC_ReloadSources, Select!SRC_ReloadSources, SelP!elected, Select!elected
<1> QED BY <1>2, <1>3, <1>4, <1>5, <1>6, <1>7, <1>8

LEMMA SelNext == SelP!Next <=> Select!Next
BY Zenon, SelOperations, SelDestroy DEF SelP!Next, Select!Next


LEMMA PairElect ==
  \A cur, match, info, good, st : PairP!Elect(cur, match, info, good, st) = SelectPair!Elect(cur, match, info, good, st)
BY DEF PairP!Distance, SelectPair!Distance, PairP!Elect, SelectPair!Elect,
           PairP!Followed, SelectPair!Followed, PairP!INVALID_SOURCE, SelectPair!INVALID_SOURCE,
           PairP!Level, SelectPair!Level, PairP!MaxScoreIndices, SelectPair!MaxScoreIndices,
           PairP!MinStratum, SelectPair!MinStratum, PairP!NearestIndices, SelectPair!NearestIndices,
           PairP!NewScores, SelectPair!NewScores, PairP!Outcome, SelectPair!Outcome,
           PairP!Scaled, SelectPair!Scaled, PairP!ScoreMoves, SelectPair!ScoreMoves,
           PairP!SelDistance, SelectPair!SelDistance, PairP!Max, SelectPair!Max,
           PairP!Min, SelectPair!Min

LEMMA PairEnds ==
  \A J, lo, hi : /\ PairP!BestLo(J) = SelectPair!BestLo(J) /\ PairP!BestHi(J) = SelectPair!BestHi(J)
                /\ PairP!Admissible(J, lo, hi) = SelectPair!Admissible(J, lo, hi)
BY DEF PairP!Admissible, SelectPair!Admissible, PairP!Around, SelectPair!Around,
           PairP!BestDepth, SelectPair!BestDepth, PairP!BestHi, SelectPair!BestHi,
           PairP!BestLo, SelectPair!BestLo, PairP!Deepest, SelectPair!Deepest,
           PairP!DepthAt, SelectPair!DepthAt, PairP!Endpoints, SelectPair!Endpoints,
           PairP!Max, SelectPair!Max, PairP!Min, SelectPair!Min,
           PairP!Cardinality, SelectPair!Cardinality

LEMMA PairMajority ==
  \A J, S : PairP!Majority(PairP!BestDepth(J), PairP!Cardinality(S)) <=> SelectPair!Majority(SelectPair!BestDepth(J), SelectPair!Cardinality(S))
BY DEF PairP!Around, SelectPair!Around, PairP!BestDepth, SelectPair!BestDepth,
           PairP!DepthAt, SelectPair!DepthAt, PairP!Endpoints, SelectPair!Endpoints,
           PairP!Majority, SelectPair!Majority, PairP!Max, SelectPair!Max,
           PairP!Cardinality, SelectPair!Cardinality

LEMMA PairOutcomes ==
  /\ PairP!Known = SelectPair!Known /\ PairP!Looked = SelectPair!Looked
  /\ \A looked, ok, good, bad : PairP!Statuses(looked, ok, good, bad) = SelectPair!Statuses(looked, ok, good, bad)
  /\ \A cur, st : PairP!Lost(cur, st) = SelectPair!Lost(cur, st)
  /\ \A cur, looked, ok : PairP!MustWait(cur, looked, ok) <=> SelectPair!MustWait(cur, looked, ok)
BY DEF PairP!INVALID_SOURCE, SelectPair!INVALID_SOURCE, PairP!Known, SelectPair!Known,
           PairP!Looked, SelectPair!Looked, PairP!Lost, SelectPair!Lost,
           PairP!MaxReach, SelectPair!MaxReach, PairP!MustWait, SelectPair!MustWait,
           PairP!Outcome, SelectPair!Outcome, PairP!Statuses, SelectPair!Statuses,
           PairP!Max, SelectPair!Max, PairP!Range, SelectPair!Range

LEMMA PairAmong ==
  \A cur, match, info, looked, ok :
    PairP!SelectAmong(cur, match, info, looked, ok) = SelectPair!SelectAmong(cur, match, info, looked, ok)
<1> SUFFICES ASSUME NEW cur, NEW match, NEW info, NEW looked, NEW ok
             PROVE  PairP!SelectAmong(cur, match, info, looked, ok) = SelectPair!SelectAmong(cur, match, info, looked, ok)
  OBVIOUS
<1> DEFINE J == [s \in ok |-> info[s]]
           good == SelectPair!Admissible(J, SelectPair!BestLo(J), SelectPair!BestHi(J))
           elect == SelectPair!Elect(cur, match, info, good, SelectPair!Statuses(looked, ok, good, ok \ good))
           lost == SelectPair!Lost(cur, SelectPair!Statuses(looked, ok, {}, SelectPair!Known))
           many == SelectPair!Majority(SelectPair!BestDepth(J), SelectPair!Cardinality(ok))
<1>1. PairP!SelectAmong(cur, match, info, looked, ok) = IF many THEN elect ELSE {lost}
  <2>1. PairP!Admissible(J, PairP!BestLo(J), PairP!BestHi(J)) = good
    BY PairEnds
  <2> DEFINE fine == PairP!Admissible(J, PairP!BestLo(J), PairP!BestHi(J))
  <2>2. PairP!Elect(cur, match, info, fine, PairP!Statuses(looked, ok, fine, ok \ fine)) = elect
    BY <2>1, PairElect, PairOutcomes
  <2>3. PairP!Lost(cur, PairP!Statuses(looked, ok, {}, PairP!Known)) = lost
    BY PairOutcomes
  <2>4. PairP!Majority(PairP!BestDepth(J), PairP!Cardinality(ok)) <=> many
    BY PairMajority
  <2>5. PairP!SelectAmong(cur, match, info, looked, ok)
          = IF PairP!Majority(PairP!BestDepth(J), PairP!Cardinality(ok))
              THEN PairP!Elect(cur, match, info, fine, PairP!Statuses(looked, ok, fine, ok \ fine))
              ELSE {PairP!Lost(cur, PairP!Statuses(looked, ok, {}, PairP!Known))}
    BY Zenon DEF PairP!SelectAmong
  <2> QED BY ONLY <2>2, <2>3, <2>4, <2>5
<1>2. SelectPair!SelectAmong(cur, match, info, looked, ok) = IF many THEN elect ELSE {lost}
  BY Zenon DEF SelectPair!SelectAmong
<1> QED BY ONLY <1>1, <1>2

LEMMA PairSelectSource ==
  \A cur, match : PairP!SelectSource(cur, match) = SelectPair!SelectSource(cur, match)
<1> SUFFICES ASSUME NEW cur, NEW match
             PROVE  PairP!SelectSource(cur, match) = SelectPair!SelectSource(cur, match)
  OBVIOUS
<1> DEFINE looked == SelectPair!Looked
           ok == {s \in looked : select_ok'[s]}
           read == ok \cup (IF cur = 0 THEN {} ELSE {sources[cur]})
           st == SelectPair!Statuses(looked, ok, {}, {})
           outcomes == UNION {SelectPair!SelectAmong(cur, match, info, looked, ok) : info \in [read -> Data]}
<1>1. SelectPair!SelectSource(cur, match)
        = IF sources = <<>> THEN {SelectPair!Lost(cur, status)}
          ELSE IF SelectPair!MustWait(cur, looked, ok) THEN {SelectPair!Outcome(cur, st, sel_score, reference)}
          ELSE IF ok = {} THEN {SelectPair!Lost(cur, st)} ELSE outcomes
  BY Zenon DEF SelectPair!SelectSource, SelectPair!INVALID_SOURCE
<1>2. PairP!SelectSource(cur, match)
        = IF sources = <<>> THEN {PairP!Lost(cur, status)}
          ELSE IF PairP!MustWait(cur, looked, ok) THEN {PairP!Outcome(cur, PairP!Statuses(looked, ok, {}, {}), sel_score, reference)}
          ELSE IF ok = {} THEN {PairP!Lost(cur, PairP!Statuses(looked, ok, {}, {}))}
          ELSE UNION {PairP!SelectAmong(cur, match, info, looked, ok) : info \in [read -> Data]}
  <2>1. PairP!Looked = looked
    BY PairOutcomes
  <2> HIDE DEF looked
  <2> QED BY Zenon, <2>1 DEF PairP!SelectSource, PairP!INVALID_SOURCE
<1>3. UNION {PairP!SelectAmong(cur, match, info, looked, ok) : info \in [read -> Data]} = outcomes
  BY PairAmong
<1>4. /\ PairP!Lost(cur, status) = SelectPair!Lost(cur, status)
      /\ PairP!MustWait(cur, looked, ok) <=> SelectPair!MustWait(cur, looked, ok)
      /\ PairP!Statuses(looked, ok, {}, {}) = st /\ PairP!Lost(cur, st) = SelectPair!Lost(cur, st)
  BY PairOutcomes
<1>5. PairP!Outcome(cur, st, sel_score, reference) = SelectPair!Outcome(cur, st, sel_score, reference)
  BY DEF PairP!Outcome, SelectPair!Outcome
<1> HIDE DEF looked, ok, read, st, outcomes
<1> QED BY ONLY <1>1, <1>2, <1>3, <1>4, <1>5

LEMMA PairHelpers ==
  /\ \A s : PairP!IsSelected(s) <=> SelectPair!IsSelected(s)
  /\ \A o : PairP!Becomes(o) <=> SelectPair!Becomes(o)
  /\ \A sel, st, sc, ref : PairP!Outcome(sel, st, sc, ref) = SelectPair!Outcome(sel, st, sc, ref)
  /\ \A sel, dead : PairP!IndexWithout(sel, dead) = SelectPair!IndexWithout(sel, dead)
  /\ \A seq, i : PairP!RemoveAt(seq, i) = SelectPair!RemoveAt(seq, i)
  /\ PairP!elected = SelectPair!elected /\ PairP!fields = SelectPair!fields
BY DEF PairP!IsSelected, SelectPair!IsSelected,
       PairP!INVALID_SOURCE, SelectPair!INVALID_SOURCE, PairP!Becomes, SelectPair!Becomes,
       PairP!Outcome, SelectPair!Outcome, PairP!IndexWithout, SelectPair!IndexWithout,
       PairP!RemoveAt, SelectPair!RemoveAt, PairP!elected, SelectPair!elected,
       PairP!fields, SelectPair!fields

LEMMA PairReselect == \A s : PairP!ReselectIfSelected(s) <=> SelectPair!ReselectIfSelected(s)
<1> TAKE s
<1>1. PairP!SelectSource(selected_source_index, NoMatch) = SelectPair!SelectSource(selected_source_index, NoMatch)
  BY PairSelectSource
<1>2. (PairP!IsSelected(s) <=> SelectPair!IsSelected(s)) /\ \A o : PairP!Becomes(o) <=> SelectPair!Becomes(o)
  BY PairHelpers
<1> QED BY <1>1, <1>2 DEF PairP!ReselectIfSelected, SelectPair!ReselectIfSelected, PairP!elected, SelectPair!elected

LEMMA PairDestroy == \A s : PairP!SRC_DestroyInstance(s) <=> SelectPair!SRC_DestroyInstance(s)
<1> SUFFICES ASSUME NEW s PROVE PairP!SRC_DestroyInstance(s) <=> SelectPair!SRC_DestroyInstance(s)
  OBVIOUS
<1> DEFINE outcomes == IF SelectPair!IsSelected(s) THEN SelectPair!SelectSource(selected_source_index, NoMatch)
                       ELSE {SelectPair!Outcome(selected_source_index, status, sel_score, reference)}
           gone(o, dead) == SelectPair!Outcome(SelectPair!IndexWithout(o.sel, dead), [o.status EXCEPT ![s] = "SRC_BAD_STATS"],
                                        [o.score EXCEPT ![s] = 1], o.ref)
<1>1. outcomes = IF PairP!IsSelected(s) THEN PairP!SelectSource(selected_source_index, NoMatch)
                 ELSE {PairP!Outcome(selected_source_index, status, sel_score, reference)}
  BY PairHelpers, PairSelectSource
<1>2. ASSUME NEW o, NEW dead
      PROVE  PairP!Becomes(PairP!Outcome(PairP!IndexWithout(o.sel, dead), [o.status EXCEPT ![s] = "SRC_BAD_STATS"],
                                     [o.score EXCEPT ![s] = 1], o.ref)) <=> SelectPair!Becomes(gone(o, dead))
  BY PairHelpers
<1>3. PairP!Known = SelectPair!Known /\ \A dead : PairP!RemoveAt(sources, dead) = SelectPair!RemoveAt(sources, dead)
  BY PairHelpers, PairOutcomes
<1> DEFINE left == s \in SelectPair!Known /\ sel_option' = [sel_option EXCEPT ![s] = "normal"]
                   /\ selectable' = [selectable EXCEPT ![s] = FALSE] /\ reachability' = [reachability EXCEPT ![s] = 0]
                   /\ select_ok' = [select_ok EXCEPT ![s] = FALSE]
<1>4. SelectPair!SRC_DestroyInstance(s) <=> left /\ \E dead \in 1 .. Len(sources), o \in outcomes :
        sources[dead] = s /\ sources' = SelectPair!RemoveAt(sources, dead) /\ SelectPair!Becomes(gone(o, dead))
  BY Zenon DEF SelectPair!SRC_DestroyInstance
<1>5. PairP!SRC_DestroyInstance(s) <=> left /\ \E dead \in 1 .. Len(sources), o \in outcomes :
        sources[dead] = s /\ sources' = PairP!RemoveAt(sources, dead)
        /\ PairP!Becomes(PairP!Outcome(PairP!IndexWithout(o.sel, dead), [o.status EXCEPT ![s] = "SRC_BAD_STATS"],
                                   [o.score EXCEPT ![s] = 1], o.ref))
  <2> HIDE DEF outcomes
  <2> QED BY Zenon, <1>1, <1>3 DEF PairP!SRC_DestroyInstance
<1> HIDE DEF left, outcomes
<1> QED BY Zenon, <1>2, <1>3, <1>4, <1>5

LEMMA PairOperations ==
  \A s, option, reachable :
    /\ PairP!SRC_CreateNewInstance(s, option) <=> SelectPair!SRC_CreateNewInstance(s, option)
    /\ PairP!SRC_SetSelectable(s) <=> SelectPair!SRC_SetSelectable(s)
    /\ PairP!SRC_UnsetSelectable(s) <=> SelectPair!SRC_UnsetSelectable(s)
    /\ PairP!SRC_UpdateReachability(s, reachable) <=> SelectPair!SRC_UpdateReachability(s, reachable)
    /\ PairP!SRC_AccumulateSample(s) <=> SelectPair!SRC_AccumulateSample(s)
    /\ PairP!SRC_ReselectSource <=> SelectPair!SRC_ReselectSource
    /\ PairP!SRC_ReloadSources <=> SelectPair!SRC_ReloadSources
<1> TAKE s, option, reachable
<1>1. PairP!Known = SelectPair!Known /\ PairP!elected = SelectPair!elected /\ PairP!fields = SelectPair!fields
  BY PairHelpers, PairOutcomes
<1>2. PairP!SRC_CreateNewInstance(s, option) <=> SelectPair!SRC_CreateNewInstance(s, option)
  BY <1>1 DEF PairP!SRC_CreateNewInstance, SelectPair!SRC_CreateNewInstance
<1>3. PairP!SRC_SetSelectable(s) <=> SelectPair!SRC_SetSelectable(s)
  BY <1>1 DEF PairP!SRC_SetSelectable, SelectPair!SRC_SetSelectable, PairP!elected, SelectPair!elected
<1>4. PairP!SRC_UnsetSelectable(s) <=> SelectPair!SRC_UnsetSelectable(s)
  BY <1>1, PairReselect DEF PairP!SRC_UnsetSelectable, SelectPair!SRC_UnsetSelectable
<1>5. PairP!SRC_UpdateReachability(s, reachable) <=> SelectPair!SRC_UpdateReachability(s, reachable)
  BY <1>1, PairReselect DEF PairP!SRC_UpdateReachability, SelectPair!SRC_UpdateReachability, PairP!elected, SelectPair!elected
<1>6. PairP!SRC_AccumulateSample(s) <=> SelectPair!SRC_AccumulateSample(s)
  BY <1>1, PairSelectSource, PairHelpers DEF PairP!SRC_AccumulateSample, SelectPair!SRC_AccumulateSample
<1>7. PairP!SRC_ReselectSource <=> SelectPair!SRC_ReselectSource
  BY <1>1, PairSelectSource, PairHelpers
     DEF PairP!SRC_ReselectSource, SelectPair!SRC_ReselectSource, PairP!INVALID_SOURCE, SelectPair!INVALID_SOURCE, PairP!fields, SelectPair!fields
<1>8. PairP!SRC_ReloadSources <=> SelectPair!SRC_ReloadSources
  BY <1>1 DEF PairP!SRC_ReloadSources, SelectPair!SRC_ReloadSources, PairP!elected, SelectPair!elected
<1> QED BY <1>2, <1>3, <1>4, <1>5, <1>6, <1>7, <1>8

LEMMA PairNext == PairP!Next <=> SelectPair!Next
BY Zenon, PairOperations, PairDestroy DEF PairP!Next, SelectPair!Next


-----------------------------------------------------------------------------
(* The parts that select. *)

SelectionInv ==
  /\ part = "scan" => SelP!ScanInv
  /\ part = "selection" => SelP!SelectInv
  /\ part = "pair" => PairP!SelectInv

LEMMA SelectionInit == MeasurementInit => SelectionInv
<1> SUFFICES ASSUME MeasurementInit PROVE SelectionInv
  OBVIOUS
<1>1. part = "scan" => SelP!ScanInv
  <2>1. SelP!OffsetAssumption
    BY MeasurementAssumption
       DEF Scan!OffsetAssumption, SelP!OffsetAssumption, Scan!IsFiniteSet, SelP!IsFiniteSet
  <2>2. part = "scan" => Scan!ScanInit
    BY DEF MeasurementInit
  <2> QED BY <2>1, <2>2, SameScanInit, SelP!ScanInitInv
<1>2. part = "selection" => SelP!SelectInv
  <2>1. SelP!OptionAssumption
    BY MeasurementAssumption DEF Select!OptionAssumption, SelP!OptionAssumption
  <2>2. part = "selection" => Select!Init
    BY DEF MeasurementInit
  <2>3. Select!Init <=> SelP!Init
    BY DEF Select!Init, SelP!Init, Select!INVALID_SOURCE, SelP!INVALID_SOURCE
  <2> QED BY <2>1, <2>2, <2>3, SelP!SelectInitInv
<1>3. part = "pair" => PairP!SelectInv
  <2>1. PairP!OptionAssumption
    BY MeasurementAssumption DEF SelectPair!OptionAssumption, PairP!OptionAssumption
  <2>2. part = "pair" => SelectPair!Init
    BY DEF MeasurementInit
  <2>3. SelectPair!Init <=> PairP!Init
    BY DEF SelectPair!Init, PairP!Init, SelectPair!INVALID_SOURCE, PairP!INVALID_SOURCE
  <2> QED BY <2>1, <2>2, <2>3, PairP!SelectInitInv
<1> QED BY <1>1, <1>2, <1>3 DEF SelectionInv

\* A step that changes the table or the reachability keeps a selected candidate,
\* in both selections.
NoHops == SelP!NoHop /\ PairP!NoHop

LEMMA SelectionRests ==
  UNCHANGED selectVars => NoHops
BY DEF selectVars, NoHops, SelP!NoHop, PairP!NoHop

LEMMA SelectionNext == SelectionInv /\ [MeasurementNext]_measurementVars => SelectionInv' /\ NoHops
<1> SUFFICES ASSUME SelectionInv, [MeasurementNext]_measurementVars PROVE SelectionInv' /\ NoHops
  OBVIOUS
<1>0. /\ part' = part
      /\ part = "scan" => Scan!ScanNext \/ UNCHANGED scanVars
      /\ part = "selection" => Select!Next \/ UNCHANGED selectVars
      /\ part = "pair" => SelectPair!Next \/ UNCHANGED selectVars
      /\ part \notin {"selection", "pair"} => UNCHANGED selectVars
  BY DEF MeasurementNext, measurementVars
<1>1. part = "scan" => SelP!ScanInv'
  <2>1. UNCHANGED scanVars => UNCHANGED SelP!scanVars
    BY DEF scanVars, SelP!scanVars
  <2> QED BY <1>0, <2>1, SameScanNext, SelP!ScanStep DEF SelectionInv
<1>2. ASSUME part = "selection" PROVE SelP!SelectInv' /\ SelP!NoHop
  <2>1. SelP!DataAssumption /\ SelP!SelectAssumption /\ SelP!OptionAssumption
    BY MeasurementAssumption
       DEF Select!OptionAssumption, SelP!OptionAssumption, Select!DataAssumption, SelP!DataAssumption,
           Select!SelectAssumption, SelP!SelectAssumption
  <2>2. UNCHANGED selectVars => UNCHANGED SelP!vars
    BY DEF selectVars, SelP!vars, SelP!fields, SelP!elected
  <2> QED BY <1>0, <1>2, <2>1, <2>2, SelNext, SelP!SelectStep, SelP!SelectStutter DEF SelectionInv
<1>3. ASSUME part = "pair" PROVE PairP!SelectInv' /\ PairP!NoHop
  <2>1. PairP!DataAssumption /\ PairP!SelectAssumption /\ PairP!OptionAssumption
    BY MeasurementAssumption
       DEF SelectPair!OptionAssumption, PairP!OptionAssumption, Select!DataAssumption, PairP!DataAssumption,
           SelectPair!SelectAssumption, PairP!SelectAssumption
  <2>2. UNCHANGED selectVars => UNCHANGED PairP!vars
    BY DEF selectVars, PairP!vars, PairP!fields, PairP!elected
  <2> QED BY <1>0, <1>3, <2>1, <2>2, PairNext, PairP!SelectStep, PairP!SelectStutter DEF SelectionInv
<1>4. SelP!NoHop <=> PairP!NoHop
  BY DEF SelP!NoHop, PairP!NoHop, SelP!IsSelected, PairP!IsSelected, SelP!INVALID_SOURCE, PairP!INVALID_SOURCE
<1>5. NoHops
  BY <1>0, <1>2, <1>3, <1>4, SelectionRests DEF NoHops
<1>6. SelectionInv'
  BY <1>0, <1>1, <1>2, <1>3 DEF SelectionInv
<1> QED BY <1>5, <1>6

LEMMA SelectionImplies == SelectionInv => SelectionSound
<1> SUFFICES ASSUME SelectionInv PROVE SelectionSound
  OBVIOUS
<1>1. part = "scan" => Scan!ScanFindsDeepest /\ Scan!DeepestSurvive
  BY SameScanProperties, SelP!ScanProperties DEF SelectionInv
<1>2. part = "selection" => Select!SyncIsSelected /\ Select!ReferenceFollowsSelection
  BY DEF SelectionInv, SelP!SelectInv, SelP!SyncIsSelected, Select!SyncIsSelected, SelP!ReferenceFollowsSelection,
         Select!ReferenceFollowsSelection, SelP!IsSelected, Select!IsSelected, SelP!INVALID_SOURCE, Select!INVALID_SOURCE
<1>3. part = "pair" => SelectPair!SyncIsSelected /\ SelectPair!ReferenceFollowsSelection
  BY DEF SelectionInv, PairP!SelectInv, PairP!SyncIsSelected, SelectPair!SyncIsSelected, PairP!ReferenceFollowsSelection,
         SelectPair!ReferenceFollowsSelection, PairP!IsSelected, SelectPair!IsSelected, PairP!INVALID_SOURCE, SelectPair!INVALID_SOURCE
<1> QED BY <1>1, <1>2, <1>3 DEF SelectionSound

\* The scan finds the deepest intervals and leaves sources that reach them; the
\* selected source is the one marked, fit to be selected, and the one the
\* reference follows.
THEOREM SelectionIsSound == MeasurementSpec => []SelectionSound
BY SelectionInit, SelectionNext, SelectionImplies, PTL DEF MeasurementSpec

\* A step that brings no sample never replaces a source that is still a candidate.
THEOREM NoHopWithoutSampleHolds == MeasurementSpec => NoHopWithoutSample
<1>1. SelectionInv /\ [MeasurementNext]_measurementVars => SelectionInv'
  BY SelectionNext
<1>2. SelectionInv /\ [MeasurementNext]_measurementVars =>
        [<<sources, selectable, reachability>>' # <<sources, selectable, reachability>> =>
           \A s \in Source : Select!IsSelected(s) => status'[s] # "SRC_SELECTABLE"]_(Select!vars)
  BY SelectionNext
     DEF NoHops, SelP!NoHop, SelP!IsSelected, Select!IsSelected, SelP!INVALID_SOURCE, Select!INVALID_SOURCE
<1>3. SelectionInv /\ [MeasurementNext]_measurementVars =>
        [<<sources, selectable, reachability>>' # <<sources, selectable, reachability>> =>
           \A s \in Pair : SelectPair!IsSelected(s) => status'[s] # "SRC_SELECTABLE"]_(SelectPair!vars)
  BY SelectionNext
     DEF NoHops, PairP!NoHop, PairP!IsSelected, SelectPair!IsSelected, PairP!INVALID_SOURCE, SelectPair!INVALID_SOURCE
<1> QED BY SelectionInit, <1>1, <1>2, <1>3, PTL
     DEF MeasurementSpec, NoHopWithoutSample, Select!NoHopWithoutSample, SelectPair!NoHopWithoutSample
=============================================================================

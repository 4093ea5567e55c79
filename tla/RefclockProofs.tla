--------------------------- MODULE RefclockProofs ---------------------------
(***************************************************************************)
(* Proofs about the parts of Measurements that are reference clocks: a     *)
(* filter of any length selects the middle samples in order of time, and   *)
(* any number of clocks, polled in any order while the system clock is     *)
(* changed, put their pulses into the right second and pass each sample    *)
(* once.                                                                   *)
(***************************************************************************)
EXTENDS Measurements, FiniteSetTheorems, SequenceTheorems, WellFoundedInduction, TLAPS

-----------------------------------------------------------------------------
(* Remainders and least elements. *)

LEMMA DivMod ==
  ASSUME NEW w \in Int, NEW b \in Nat \ {0}
  PROVE  w = b * (w \div b) + (w % b) /\ w % b \in 0 .. b - 1 /\ w \div b \in Int
OBVIOUS

LEMMA SmallMultiple ==
  ASSUME NEW z \in Int, NEW b \in Nat \ {0}, b * z < b, -b < b * z
  PROVE  z = 0
<1>1. CASE z >= 1
  <2>1. b * z >= b
    BY <1>1
  <2> QED BY <2>1
<1>2. CASE z <= -1
  <2>1. b * z <= -b
    BY <1>2
  <2> QED BY <2>1
<1> QED BY <1>1, <1>2

LEMMA Remainder ==
  ASSUME NEW b \in Nat \ {0}, NEW y \in 0 .. b - 1, NEW k \in Int, NEW w \in Int, w = y + b * k
  PROVE  w % b = y
<1> DEFINE d == w \div b
           e == w % b
<1>1. w = b * d + e /\ e \in 0 .. b - 1 /\ d \in Int
  BY DivMod
<1> HIDE DEF d, e
<1>2. b * (d - k) = b * d - b * k
  BY <1>1
<1>3. b * (d - k) = y - e
  BY <1>1, <1>2
<1>4. d - k = 0
  BY <1>1, <1>3, SmallMultiple
<1>5. y = e
  BY <1>1, <1>3, <1>4
<1> QED BY <1>5 DEF e

LEMMA LeastExists ==
  ASSUME NEW S \in SUBSET Nat, S # {}
  PROVE  Min(S) \in S /\ \A y \in S : Min(S) <= y
<1>1. PICK w \in S : \A y \in S : ~(<<y, w>> \in OpToRel(<, Nat))
  BY NatLessThanWellFounded, WFMin, Zenon
<1>2. \A y \in S : <<y, w>> \notin {p \in Nat \X Nat : p[1] < p[2]}
  BY <1>1 DEF OpToRel
<1>3. ASSUME NEW y \in S PROVE w <= y
  <2>1. <<y, w>> \in Nat \X Nat /\ w \in Nat /\ y \in Nat
    OBVIOUS
  <2>2. ~(<<y, w>>[1] < <<y, w>>[2])
    BY <1>2, <2>1
  <2> QED BY <2>1, <2>2
<1> QED BY <1>3 DEF Min

-----------------------------------------------------------------------------
(* Induction and recursion, over sets and functions. *)

LEMMA AllUpTo ==
  ASSUME NEW N \in Nat, NEW G, 0 \in G, \A k \in 1 .. N : k - 1 \in G => k \in G
  PROVE  \A k \in 0 .. N : k \in G
<1> DEFINE Bad == {k \in 0 .. N : k \notin G}
<1> SUFFICES ASSUME Bad # {} PROVE FALSE
  OBVIOUS
<1>1. Bad \in SUBSET Nat
  OBVIOUS
<1>2. Min(Bad) \in Bad /\ \A y \in Bad : Min(Bad) <= y
  BY <1>1, LeastExists
<1>3. Min(Bad) \in 1 .. N /\ Min(Bad) - 1 \in 0 .. N
  BY <1>2
<1>4. Min(Bad) - 1 \notin Bad
  BY <1>2, <1>3
<1> QED BY <1>2, <1>3, <1>4

\* A function that is defined by what follows a value exists.
Follows(g, N, base, step) == g[0] = base /\ \A k \in 1 .. N : g[k] = step[<<g[k - 1], k>>]
StepsIn(T, N) == [T \X (1 .. N) -> T]

LEMMA RecursionExists ==
  ASSUME NEW N \in Nat, NEW T, NEW base \in T, NEW step \in StepsIn(T, N)
  PROVE  \E g \in [0 .. N -> T] : Follows(g, N, base, step)
<1> DEFINE G == {m \in 0 .. N : \E g \in [0 .. m -> T] : Follows(g, m, base, step)}
<1>1. 0 \in G
  <2>1. [k \in 0 .. 0 |-> base] \in [0 .. 0 -> T] /\ Follows([k \in 0 .. 0 |-> base], 0, base, step)
    BY DEF Follows
  <2> QED BY <2>1
<1>2. ASSUME NEW m \in 1 .. N, m - 1 \in G PROVE m \in G
  <2>1. PICK g \in [0 .. m - 1 -> T] : Follows(g, m - 1, base, step)
    BY <1>2
  <2> DEFINE h == [k \in 0 .. m |-> IF k = m THEN step[<<g[m - 1], m>>] ELSE g[k]]
  <2>2. step[<<g[m - 1], m>>] \in T
    <3>1. <<g[m - 1], m>> \in T \X (1 .. N)
      OBVIOUS
    <3> QED BY <3>1 DEF StepsIn
  <2>3. h \in [0 .. m -> T]
    BY <2>2
  <2>4. Follows(h, m, base, step)
    <3>1. h[0] = base
      BY <2>1 DEF Follows
    <3>2. ASSUME NEW k \in 1 .. m PROVE h[k] = step[<<h[k - 1], k>>]
      <4>1. CASE k = m
        <5>1. h[k] = step[<<g[m - 1], m>>] /\ h[k - 1] = g[m - 1]
          BY <4>1
        <5> QED BY <4>1, <5>1
      <4>2. CASE k # m
        <5>1. k \in 1 .. m - 1 /\ h[k] = g[k] /\ h[k - 1] = g[k - 1]
          BY <4>2
        <5> QED BY <2>1, <5>1 DEF Follows
      <4> QED BY <4>1, <4>2
    <3> QED BY <3>1, <3>2 DEF Follows
  <2> HIDE DEF h
  <2> QED BY <2>3, <2>4
<1> HIDE DEF G
<1>3. N \in G
  BY <1>1, <1>2, AllUpTo
<1> QED BY <1>3 DEF G

-----------------------------------------------------------------------------
(* Ranks in a finite set. *)

\* before is a strict order of all of S.
Strict(before, S) ==
  /\ \A i \in S : <<i, i>> \notin before
  /\ \A i, j \in S : i # j => <<i, j>> \in before \/ <<j, i>> \in before
  /\ \A i, j, k \in S : <<i, j>> \in before /\ <<j, k>> \in before => <<i, k>> \in before
Preceding(before, S, i) == {k \in S : <<k, i>> \in before}
RankIn(before, S, i) == Cardinality(Preceding(before, S, i))

LEMMA RanksRise ==
  ASSUME NEW S, IsFiniteSet(S), NEW before, Strict(before, S)
  PROVE  /\ \A i \in S : RankIn(before, S, i) \in 0 .. Cardinality(S) - 1
         /\ \A i, j \in S : <<i, j>> \in before => RankIn(before, S, i) < RankIn(before, S, j)
         /\ \A i, j \in S : RankIn(before, S, i) = RankIn(before, S, j) => i = j
<1>0. \A i : Preceding(before, S, i) \in SUBSET S
  BY DEF Preceding
<1>1. \A i : IsFiniteSet(Preceding(before, S, i)) /\ Cardinality(Preceding(before, S, i)) \in Nat
  BY <1>0, FS_Subset, FS_CardinalityType
<1>2. ASSUME NEW i \in S PROVE RankIn(before, S, i) \in 0 .. Cardinality(S) - 1
  <2>1. Preceding(before, S, i) \in SUBSET (S \ {i})
    BY DEF Strict, Preceding
  <2>2. IsFiniteSet(S \ {i}) /\ Cardinality(S \ {i}) = Cardinality(S) - 1
    BY FS_RemoveElement
  <2>3. Cardinality(Preceding(before, S, i)) <= Cardinality(S) - 1
    BY <2>1, <2>2, FS_Subset
  <2>4. Cardinality(S) \in Nat
    BY FS_CardinalityType
  <2> QED BY <1>1, <2>3, <2>4 DEF RankIn
<1>3. ASSUME NEW i \in S, NEW j \in S, <<i, j>> \in before
      PROVE  RankIn(before, S, i) < RankIn(before, S, j)
  <2>1. Preceding(before, S, i) \cup {i} \in SUBSET Preceding(before, S, j)
    BY <1>3 DEF Strict, Preceding
  <2>2. i \notin Preceding(before, S, i)
    BY DEF Strict, Preceding
  <2>3. Cardinality(Preceding(before, S, i) \cup {i}) = Cardinality(Preceding(before, S, i)) + 1
    BY <1>1, <2>2, FS_AddElement
  <2>4. Cardinality(Preceding(before, S, i) \cup {i}) <= Cardinality(Preceding(before, S, j))
    BY <1>1, <2>1, FS_Subset
  <2> QED BY <1>1, <2>3, <2>4 DEF RankIn
<1>4. ASSUME NEW i \in S, NEW j \in S, RankIn(before, S, i) = RankIn(before, S, j) PROVE i = j
  <2>1. RankIn(before, S, i) \in Int /\ RankIn(before, S, j) \in Int
    BY <1>1 DEF RankIn
  <2>2. <<i, j>> \notin before
    BY <1>3, <1>4, <2>1
  <2>3. <<j, i>> \notin before
    BY <1>3, <1>4, <2>1
  <2> QED BY <2>2, <2>3, Zenon DEF Strict
<1> QED BY <1>2, <1>3, <1>4

LEMMA RankTaken ==
  ASSUME NEW S, IsFiniteSet(S), NEW before, Strict(before, S), NEW p \in 0 .. Cardinality(S) - 1
  PROVE  \E i \in S : RankIn(before, S, i) = p
<1> DEFINE n == Cardinality(S)
           rank == [i \in S |-> RankIn(before, S, i)]
<1>1. n \in Nat
  BY FS_CardinalityType
<1>2. IsFiniteSet(0 .. n - 1) /\ Cardinality(0 .. n - 1) = n
  BY <1>1, FS_Interval
<1>3. rank \in [S -> 0 .. n - 1] /\ \A i, j \in S : rank[i] = rank[j] => i = j
  BY RanksRise
<1> HIDE DEF rank
<1>4. rank \in Injection(S, 0 .. n - 1)
  BY <1>3 DEF Injection, IsInjective
<1>5. rank \in Surjection(S, 0 .. n - 1)
  BY <1>2, <1>4, FS_Injection
<1>6. \E i \in S : rank[i] = p
  BY <1>5 DEF Surjection
<1> QED BY <1>6 DEF rank

-----------------------------------------------------------------------------
(* The ring of a filter, and its samples in the order of their offsets. *)

Taking == [time : Int, offset : Int, dispersion : Nat, left : BOOLEAN]
RingOf(L) ==
  [length : {L}, index : -1 .. L - 1, used : 0 .. L, last : -1 .. L - 1, samples : [0 .. L - 1 -> Taking]]

\* A ring is filled from its first slot on, and then goes round.
Ring(f, L) == f \in RingOf(L) /\ (f.index = f.used - 1 \/ (f.used = L /\ f.index >= 0))

LEMMA SameCardinality == \A S : Clocks!Cardinality(S) = Cardinality(S)
BY DEF Clocks!Cardinality, Cardinality

LEMMA GoodIsUsed ==
  ASSUME NEW L \in Nat \ {0}, NEW f, Ring(f, L)
  PROVE  /\ Clocks!Good(f) \in SUBSET Clocks!Used(f) /\ IsFiniteSet(Clocks!Good(f))
         /\ f.used > 0 => Cardinality(Clocks!Good(f)) > 0
<1>1. f.used \in Nat
  BY DEF Ring, RingOf
<1>2. IsFiniteSet(Clocks!Used(f)) /\ Cardinality(Clocks!Used(f)) = f.used
  <2> DEFINE b == f.used - 1
  <2>1. b \in Int /\ (0 > b => f.used = 0) /\ b - 0 + 1 = f.used /\ Clocks!Used(f) = 0 .. b
    BY <1>1 DEF Clocks!Used
  <2> HIDE DEF b
  <2>2. IsFiniteSet(0 .. b) /\ Cardinality(0 .. b) = IF 0 > b THEN 0 ELSE b - 0 + 1
    BY <2>1, FS_Interval
  <2> QED BY <1>1, <2>1, <2>2
<1>3. \/ Clocks!Good(f) = Clocks!Used(f)
      \/ Clocks!Good(f) \in SUBSET Clocks!Used(f) /\ Cardinality(Clocks!Good(f)) >= 4
  BY SameCardinality DEF Clocks!Good
<1>4. IsFiniteSet(Clocks!Good(f))
  BY <1>2, <1>3, FS_Subset
<1>5. Clocks!Good(f) \in SUBSET Clocks!Used(f)
  BY <1>3
<1>6. f.used > 0 => Cardinality(Clocks!Good(f)) > 0
  <2>1. CASE Clocks!Good(f) = Clocks!Used(f)
    BY <1>1, <1>2, <2>1
  <2>2. CASE Cardinality(Clocks!Good(f)) >= 4
    <3>1. Cardinality(Clocks!Good(f)) \in Nat
      BY <1>4, FS_CardinalityType
    <3> QED BY <2>2, <3>1
  <2> QED BY <1>3, <2>1, <2>2
<1> QED BY <1>4, <1>5, <1>6

Earlier(f) ==
  {p \in Clocks!Used(f) \X Clocks!Used(f) :
     \/ f.samples[p[1]].offset < f.samples[p[2]].offset
     \/ f.samples[p[1]].offset = f.samples[p[2]].offset /\ p[1] < p[2]}

LEMMA EarlierIs ==
  ASSUME NEW f, NEW i \in Clocks!Used(f), NEW k \in Clocks!Used(f)
  PROVE  <<k, i>> \in Earlier(f) <=> \/ f.samples[k].offset < f.samples[i].offset
                                     \/ f.samples[k].offset = f.samples[i].offset /\ k < i
BY DEF Earlier

LEMMA EarlierIsStrict ==
  ASSUME NEW L \in Nat \ {0}, NEW f, Ring(f, L), NEW S \in SUBSET Clocks!Used(f)
  PROVE  Strict(Earlier(f), S)
<1>1. \A i \in S : i \in Int /\ i \in Clocks!Used(f) /\ f.samples[i].offset \in Int
  <2>1. \A i \in S : i \in 0 .. L - 1 /\ i \in Clocks!Used(f)
    BY DEF Ring, RingOf, Clocks!Used
  <2>2. \A i \in 0 .. L - 1 : f.samples[i] \in Taking
    BY DEF Ring, RingOf
  <2> QED BY <2>1, <2>2 DEF Taking
<1>2. \A i \in S : <<i, i>> \notin Earlier(f)
  BY <1>1, EarlierIs
<1>3. \A i, j \in S : i # j => <<i, j>> \in Earlier(f) \/ <<j, i>> \in Earlier(f)
  BY <1>1, EarlierIs
<1>4. \A i, j, k \in S : <<i, j>> \in Earlier(f) /\ <<j, k>> \in Earlier(f) => <<i, k>> \in Earlier(f)
  BY <1>1, EarlierIs
<1> QED BY <1>2, <1>3, <1>4 DEF Strict

\* sorted has every sample of S once, with no offset after a greater one.
SortedBy(f, S, sorted) ==
  LET n == Cardinality(S) IN
  /\ n \in Nat /\ sorted \in [1 .. n -> S] /\ Len(sorted) = n
  /\ \A i \in S : \E p \in 1 .. n : sorted[p] = i
  /\ \A p, q \in 1 .. n : sorted[p] = sorted[q] => p = q
  /\ \A p, q \in 1 .. n : p < q => f.samples[sorted[p]].offset <= f.samples[sorted[q]].offset

LEMMA ByOffsetSorts ==
  ASSUME NEW L \in Nat \ {0}, NEW f, Ring(f, L), NEW S \in SUBSET Clocks!Used(f)
  PROVE  SortedBy(f, S, Clocks!ByOffset(f, S))
<1> DEFINE n == Cardinality(S)
           sorted == Clocks!ByOffset(f, S)
           rank(i) == RankIn(Earlier(f), S, i)
<1>1. IsFiniteSet(S) /\ n \in Nat
  <2>1. IsFiniteSet(Clocks!Used(f))
    BY FS_Interval DEF Clocks!Used, Ring, RingOf
  <2> QED BY <2>1, FS_Subset, FS_CardinalityType
<1>2. Strict(Earlier(f), S)
  BY EarlierIsStrict
<1>3. sorted = [p \in 1 .. n |-> CHOOSE i \in S : rank(i) = p - 1]
  <2>1. \A i \in S : {k \in S : f.samples[k].offset < f.samples[i].offset
                                \/ (f.samples[k].offset = f.samples[i].offset /\ k < i)}
                      = Preceding(Earlier(f), S, i)
    BY EarlierIs DEF Preceding
  <2> DEFINE before(i) == {k \in S : f.samples[k].offset < f.samples[i].offset
                                     \/ (f.samples[k].offset = f.samples[i].offset /\ k < i)}
  <2>2. sorted = [p \in 1 .. n |-> CHOOSE i \in S : Clocks!Cardinality(before(i)) = p - 1]
    BY SameCardinality DEF Clocks!ByOffset
  <2>3. \A i \in S : Clocks!Cardinality(before(i)) = rank(i)
    BY <2>1, SameCardinality DEF RankIn
  <2> HIDE DEF before
  <2>4. \A p \in 1 .. n : (CHOOSE i \in S : Clocks!Cardinality(before(i)) = p - 1) = CHOOSE i \in S : rank(i) = p - 1
    BY <2>3
  <2> QED BY <2>2, <2>4
<1>4. \A p \in 1 .. n : sorted[p] \in S /\ rank(sorted[p]) = p - 1
  <2> TAKE p \in 1 .. n
  <2>1. p - 1 \in 0 .. n - 1
    BY <1>1
  <2>2. \E i \in S : rank(i) = p - 1
    BY <1>1, <1>2, <2>1, RankTaken
  <2> QED BY <1>3, <2>2
<1>5. sorted \in [1 .. n -> S] /\ Len(sorted) = n
  <2>1. DOMAIN sorted = 1 .. n /\ sorted = [p \in 1 .. n |-> sorted[p]]
    BY <1>3
  <2> HIDE DEF sorted
  <2>2. sorted \in [1 .. n -> S]
    BY <1>4, <2>1
  <2> QED BY <1>1, <2>2, LenProperties, SeqDef
<1>6. \A i \in S : rank(i) \in 0 .. n - 1
  BY <1>1, <1>2, RanksRise
<1>7. \A i, j \in S : rank(i) = rank(j) => i = j
  BY <1>1, <1>2, RanksRise
<1>8. \A i, j \in S : <<i, j>> \in Earlier(f) => rank(i) < rank(j)
  BY <1>1, <1>2, RanksRise
<1> HIDE DEF sorted, rank, n
<1>9. ASSUME NEW i \in S PROVE \E p \in 1 .. n : sorted[p] = i
  <2>1. rank(i) + 1 \in 1 .. n /\ rank(i) \in Int
    BY <1>1, <1>6
  <2>2. rank(sorted[rank(i) + 1]) = rank(i) /\ sorted[rank(i) + 1] \in S
    BY <1>4, <2>1
  <2> QED BY <1>7, <2>1, <2>2
<1>10. ASSUME NEW p \in 1 .. n, NEW q \in 1 .. n, sorted[p] = sorted[q] PROVE p = q
  <2>1. p - 1 = q - 1
    BY <1>4, <1>10
  <2> QED BY <1>1, <2>1
<1>11. ASSUME NEW p \in 1 .. n, NEW q \in 1 .. n, p < q
       PROVE  f.samples[sorted[p]].offset <= f.samples[sorted[q]].offset
  <2>1. sorted[p] \in S /\ sorted[q] \in S /\ rank(sorted[p]) = p - 1 /\ rank(sorted[q]) = q - 1
    BY <1>4
  <2>2. <<sorted[q], sorted[p]>> \notin Earlier(f)
    <3>1. ~(rank(sorted[q]) < rank(sorted[p]))
      BY <1>1, <1>11, <2>1
    <3> QED BY <1>8, <2>1, <3>1
  <2>3. ~(f.samples[sorted[q]].offset < f.samples[sorted[p]].offset)
    BY <2>1, <2>2, EarlierIs
  <2>4. \A i \in S : f.samples[i].offset \in Int
    <3>1. \A i \in S : i \in 0 .. L - 1
      BY DEF Ring, RingOf, Clocks!Used
    <3>2. \A i \in 0 .. L - 1 : f.samples[i] \in Taking
      BY DEF Ring, RingOf
    <3> QED BY <3>1, <3>2 DEF Taking
  <2> QED BY <2>1, <2>3, <2>4
<1> QED BY <1>1, <1>5, <1>9, <1>10, <1>11 DEF SortedBy, sorted, n

-----------------------------------------------------------------------------
(* The sort in place. *)

LEMMA SlotsFinite ==
  ASSUME NEW u \in Nat
  PROVE  IsFiniteSet(0 .. u - 1) /\ Cardinality(0 .. u - 1) = u
<1> DEFINE b == u - 1
<1>1. b \in Int /\ (0 > b => u = 0) /\ b - 0 + 1 = u
  OBVIOUS
<1> HIDE DEF b
<1>2. IsFiniteSet(0 .. b) /\ Cardinality(0 .. b) = IF 0 > b THEN 0 ELSE b - 0 + 1
  BY <1>1, FS_Interval
<1>3. IsFiniteSet(0 .. b) /\ Cardinality(0 .. b) = u
  BY <1>1, <1>2
<1> QED BY <1>3 DEF b

SelType(u) == [0 .. u - 1 -> -1 .. u - 1]
MoveType(u) == [sel : SelType(u), rank : -1 .. u - 1]
State(sel, rank) == [sel |-> sel, rank |-> rank]

\* The ranks in the slots and the one taken up are those of R, each once; outside
\* lo .. hi they are in place.
Held(s, u, R, lo, hi) ==
  /\ s \in MoveType(u)
  /\ \A a, b \in 0 .. u - 1 : s.sel[a] = s.sel[b] /\ s.sel[a] # -1 => a = b
  /\ s.rank # -1 => \A a \in 0 .. u - 1 : s.sel[a] # s.rank
  /\ \A r \in 0 .. u - 1 : r \in R <=> r = s.rank \/ \E a \in 0 .. u - 1 : s.sel[a] = r
  /\ \A a \in 0 .. u - 1 : s.sel[a] \in {-1, a} \/ a \in lo .. hi

LEMMA StateIs ==
  ASSUME NEW u \in Nat, NEW sel \in SelType(u), NEW rank \in -1 .. u - 1
  PROVE  State(sel, rank) \in MoveType(u) /\ State(sel, rank).sel = sel /\ State(sel, rank).rank = rank
BY DEF State, MoveType

LEMMA TakenUp ==
  ASSUME NEW u \in Nat \ {0}, NEW R, NEW k \in 0 .. u - 1, NEW hi \in Int, NEW sel,
         Held(State(sel, -1), u, R, k, hi)
  PROVE  Held(State([sel EXCEPT ![k] = -1], sel[k]), u, R, k + 1, hi)
<1> DEFINE g == [sel EXCEPT ![k] = -1]
<1>1. State(sel, -1).sel = sel /\ State(sel, -1).rank = -1
  BY DEF State
<1>2. sel \in SelType(u)
  BY <1>1 DEF Held, MoveType
<1>3. /\ \A a, b \in 0 .. u - 1 : sel[a] = sel[b] /\ sel[a] # -1 => a = b
      /\ \A r \in 0 .. u - 1 : r \in R <=> \E a \in 0 .. u - 1 : sel[a] = r
      /\ \A a \in 0 .. u - 1 : sel[a] \in {-1, a} \/ a \in k .. hi
  <2>1. \A r \in 0 .. u - 1 : r # -1
    OBVIOUS
  <2> QED BY <1>1, <2>1 DEF Held
<1>4. g \in SelType(u) /\ sel[k] \in -1 .. u - 1 /\ g[k] = -1
      /\ \A a \in 0 .. u - 1 : a # k => g[a] = sel[a]
  BY <1>2 DEF SelType
<1> HIDE DEF g
<1> DEFINE s == State(g, sel[k])
<1>5. s \in MoveType(u) /\ s.sel = g /\ s.rank = sel[k]
  BY <1>4, StateIs
<1> HIDE DEF s
<1>6. \A a, b \in 0 .. u - 1 : s.sel[a] = s.sel[b] /\ s.sel[a] # -1 => a = b
  BY <1>3, <1>4, <1>5
<1>7. s.rank # -1 => \A a \in 0 .. u - 1 : s.sel[a] # s.rank
  BY <1>3, <1>4, <1>5
<1>8. \A r \in 0 .. u - 1 : r \in R <=> r = s.rank \/ \E a \in 0 .. u - 1 : s.sel[a] = r
  BY <1>3, <1>4, <1>5
<1>9. \A a \in 0 .. u - 1 : s.sel[a] \in {-1, a} \/ a \in k + 1 .. hi
  BY <1>3, <1>4, <1>5
<1> QED BY <1>5, <1>6, <1>7, <1>8, <1>9 DEF Held, s, g

Fixed(sel, u) == {a \in 0 .. u - 1 : sel[a] = a}

LEMMA MoveIs ==
  ASSUME NEW u \in Nat \ {0}, NEW s \in MoveType(u)
  PROVE  /\ Clocks!Move(s) \in MoveType(u)
         /\ s.rank = -1 => Clocks!Move(s) = s
         /\ s.rank # -1 /\ s.sel[s.rank] # s.rank =>
              Clocks!Move(s) = State([s.sel EXCEPT ![s.rank] = s.rank], s.sel[s.rank])
<1>1. s.sel \in SelType(u) /\ s.rank \in -1 .. u - 1
  BY DEF MoveType
<1>2. CASE s.rank = -1 \/ s.sel[s.rank] = s.rank
  <2>1. Clocks!Move(s) = s
    BY <1>2 DEF Clocks!Move
  <2> QED BY <1>2, <2>1
<1>3. CASE ~(s.rank = -1 \/ s.sel[s.rank] = s.rank)
  <2>1. Clocks!Move(s) = State([s.sel EXCEPT ![s.rank] = s.rank], s.sel[s.rank])
    BY <1>3 DEF Clocks!Move, State
  <2>2. [s.sel EXCEPT ![s.rank] = s.rank] \in SelType(u) /\ s.sel[s.rank] \in -1 .. u - 1
    BY <1>1, <1>3 DEF SelType
  <2> QED BY <1>3, <2>1, <2>2, StateIs
<1> QED BY <1>2, <1>3

FixesOneMore(s, t, u) == s.rank \notin Fixed(s.sel, u) /\ Fixed(t.sel, u) = Fixed(s.sel, u) \cup {s.rank}

LEMMA MoveHolds ==
  ASSUME NEW u \in Nat \ {0}, NEW R, NEW lo \in Int, NEW hi \in Int, NEW s, Held(s, u, R, lo, hi)
  PROVE  /\ Held(Clocks!Move(s), u, R, lo, hi)
         /\ s.rank # -1 => FixesOneMore(s, Clocks!Move(s), u)
<1>1. s \in MoveType(u)
  BY DEF Held
<1>2. CASE s.rank = -1
  BY <1>1, <1>2, MoveIs
<1>3. CASE s.rank # -1
  <2> DEFINE r0 == s.rank
             g == [s.sel EXCEPT ![r0] = r0]
             t == State(g, s.sel[r0])
  <2>1. s.sel \in SelType(u) /\ r0 \in 0 .. u - 1 /\ s.sel[r0] \in -1 .. u - 1
    BY <1>1, <1>3 DEF MoveType, SelType
  <2>2. s.sel[r0] # r0 /\ \A a \in 0 .. u - 1 : s.sel[a] # r0
    BY <1>3, <2>1 DEF Held
  <2>3. Clocks!Move(s) = t
    BY <1>1, <1>3, <2>2, MoveIs
  <2>4. g \in SelType(u) /\ g[r0] = r0 /\ \A a \in 0 .. u - 1 : a # r0 => g[a] = s.sel[a]
    BY <2>1 DEF SelType
  <2> HIDE DEF g
  <2>5. t \in MoveType(u) /\ t.sel = g /\ t.rank = s.sel[r0]
    BY <2>1, <2>4, StateIs
  <2> HIDE DEF t
  <2>6. /\ \A a, b \in 0 .. u - 1 : s.sel[a] = s.sel[b] /\ s.sel[a] # -1 => a = b
        /\ \A r \in 0 .. u - 1 : r \in R <=> r = r0 \/ \E a \in 0 .. u - 1 : s.sel[a] = r
        /\ \A a \in 0 .. u - 1 : s.sel[a] \in {-1, a} \/ a \in lo .. hi
    BY DEF Held
  <2> HIDE DEF r0
  <2>7. \A a, b \in 0 .. u - 1 : t.sel[a] = t.sel[b] /\ t.sel[a] # -1 => a = b
    BY <2>2, <2>4, <2>5, <2>6
  <2>8. t.rank # -1 => \A a \in 0 .. u - 1 : t.sel[a] # t.rank
    BY <2>1, <2>2, <2>4, <2>5, <2>6
  <2>9. \A r \in 0 .. u - 1 : r \in R <=> r = t.rank \/ \E a \in 0 .. u - 1 : t.sel[a] = r
    BY <2>1, <2>2, <2>4, <2>5, <2>6
  <2>10. \A a \in 0 .. u - 1 : t.sel[a] \in {-1, a} \/ a \in lo .. hi
    BY <2>1, <2>4, <2>5, <2>6
  <2>11. Held(t, u, R, lo, hi)
    BY <2>5, <2>7, <2>8, <2>9, <2>10 DEF Held
  <2>12. FixesOneMore(s, t, u)
    <3>1. r0 \notin Fixed(s.sel, u) /\ Fixed(t.sel, u) = Fixed(s.sel, u) \cup {r0}
      BY <2>1, <2>2, <2>4, <2>5 DEF Fixed
    <3> QED BY <3>1 DEF FixesOneMore, r0
  <2> QED BY <2>3, <2>11, <2>12 DEF r0
<1> QED BY <1>2, <1>3

Chased(f, sel, i) ==
  CHOOSE moved : moved = [n \in 0 .. f.used |->
    IF n = 0 THEN [sel |-> [sel EXCEPT ![i] = -1], rank |-> sel[i]] ELSE Clocks!Move(moved[n - 1])]

LEMMA ChasedDefined ==
  ASSUME NEW f, f.used \in Nat \ {0}, NEW sel \in SelType(f.used), NEW i \in 0 .. f.used - 1
  PROVE  /\ Chased(f, sel, i)[0] = State([sel EXCEPT ![i] = -1], sel[i])
         /\ \A n \in 1 .. f.used : Chased(f, sel, i)[n] = Clocks!Move(Chased(f, sel, i)[n - 1])
<1> DEFINE u == f.used
           T == MoveType(u)
           base == State([sel EXCEPT ![i] = -1], sel[i])
           step == [p \in T \X (1 .. u) |-> Clocks!Move(p[1])]
           Value(g, n) == IF n = 0 THEN base ELSE Clocks!Move(g[n - 1])
<1>1. base \in T
  <2>1. [sel EXCEPT ![i] = -1] \in SelType(u) /\ sel[i] \in -1 .. u - 1
    BY DEF SelType
  <2> QED BY <2>1, StateIs
<1>2. step \in StepsIn(T, u)
  BY MoveIs DEF StepsIn
<1> HIDE DEF base, T
<1>3. PICK g \in [0 .. u -> T] : Follows(g, u, base, step)
  <2> HIDE DEF step
  <2> QED BY <1>1, <1>2, RecursionExists
<1>4. g = [n \in 0 .. u |-> Value(g, n)]
  <2>1. ASSUME NEW n \in 0 .. u PROVE g[n] = Value(g, n)
    <3>1. CASE n = 0
      BY <1>3, <3>1 DEF Follows
    <3>2. CASE n # 0
      <4>1. n \in 1 .. u /\ n - 1 \in 0 .. u /\ <<g[n - 1], n>> \in T \X (1 .. u)
        BY <3>2
      <4>2. g[n] = step[<<g[n - 1], n>>]
        BY <1>3, <4>1 DEF Follows
      <4> QED BY <3>2, <4>1, <4>2
    <3> QED BY <3>1, <3>2
  <2> HIDE DEF Value
  <2> QED BY <2>1
<1> DEFINE moved == Chased(f, sel, i)
<1>5. moved = [n \in 0 .. u |-> Value(moved, n)]
  BY <1>4 DEF Chased, base, State
<1> HIDE DEF moved
<1>6. moved[0] = base
  <2>1. 0 \in 0 .. u /\ Value(moved, 0) = base
    OBVIOUS
  <2> HIDE DEF Value
  <2> QED BY <1>5, <2>1
<1>7. ASSUME NEW n \in 1 .. u PROVE moved[n] = Clocks!Move(moved[n - 1])
  <2>1. n \in 0 .. u /\ Value(moved, n) = Clocks!Move(moved[n - 1])
    OBVIOUS
  <2> HIDE DEF Value
  <2> QED BY <1>5, <2>1
<1> QED BY <1>6, <1>7 DEF moved, base

\* A slot that is emptied is settled: no rank is lost, and none is left over.
LEMMA SettleHolds ==
  ASSUME NEW f, f.used \in Nat \ {0}, NEW R, NEW k \in 0 .. f.used - 1, NEW hi \in Int, NEW sel,
         Held(State(sel, -1), f.used, R, k, hi)
  PROVE  Held(State(Clocks!Settle(f, sel, k), -1), f.used, R, k + 1, hi)
<1> DEFINE u == f.used
           moved == Chased(f, sel, k)
<1>0. sel \in SelType(u)
  BY DEF Held, State, MoveType
<1>1. Clocks!Settle(f, sel, k) = moved[u].sel
  BY DEF Clocks!Settle, Chased
<1>2. moved[0] = State([sel EXCEPT ![k] = -1], sel[k]) /\ \A n \in 1 .. u : moved[n] = Clocks!Move(moved[n - 1])
  BY <1>0, ChasedDefined
<1> HIDE DEF moved
<1> DEFINE Settling(n) == /\ Held(moved[n], u, R, k + 1, hi)
                          /\ moved[n].rank # -1 => Cardinality(Fixed(moved[n].sel, u)) >= n
           G == {n \in 0 .. u : Settling(n)}
<1>10. u \in Nat \ {0} /\ u - 1 \in Int
  OBVIOUS
<1>3. \A n : IsFiniteSet(Fixed(moved[n].sel, u)) /\ Cardinality(Fixed(moved[n].sel, u)) \in Nat
  <2> TAKE n
  <2>1. IsFiniteSet(0 .. u - 1)
    BY <1>10, SlotsFinite
  <2>2. Fixed(moved[n].sel, u) \in SUBSET (0 .. u - 1)
    BY DEF Fixed
  <2> QED BY <2>1, <2>2, FS_Subset, FS_CardinalityType
<1>4. 0 \in G
  <2>1. Held(moved[0], u, R, k + 1, hi)
    BY <1>2, TakenUp
  <2> QED BY <1>3, <2>1
<1>5. ASSUME NEW n \in 1 .. u, n - 1 \in G PROVE n \in G
  <2>1. Held(moved[n - 1], u, R, k + 1, hi)
    BY <1>5
  <2>2. Held(moved[n], u, R, k + 1, hi)
    BY <1>2, <2>1, MoveHolds
  <2>3. ASSUME moved[n].rank # -1 PROVE Cardinality(Fixed(moved[n].sel, u)) >= n
    <3>1. moved[n - 1].rank # -1
      <4>1. moved[n - 1] \in MoveType(u)
        BY <2>1 DEF Held
      <4> QED BY <1>2, <2>3, <4>1, MoveIs
    <3>2. Cardinality(Fixed(moved[n - 1].sel, u)) >= n - 1
      BY <1>5, <3>1
    <3> DEFINE s0 == moved[n - 1]
               F == Fixed(s0.sel, u)
    <3>0. Held(s0, u, R, k + 1, hi) /\ s0.rank # -1 /\ k + 1 \in Int
      BY <2>1, <3>1
    <3>3. moved[n - 1].rank \notin F /\ Fixed(moved[n].sel, u) = F \cup {moved[n - 1].rank}
      <4>1. s0.rank \notin F /\ Fixed(Clocks!Move(s0).sel, u) = F \cup {s0.rank}
        <5> DEFINE lo == k + 1
        <5>1. Held(s0, u, R, lo, hi) /\ s0.rank # -1 /\ lo \in Int
          BY <3>0
        <5> HIDE DEF s0, u, lo
        <5>2. FixesOneMore(s0, Clocks!Move(s0), u)
          BY <1>10, <5>1, MoveHolds
        <5> QED BY <5>2 DEF FixesOneMore
      <4>2. moved[n] = Clocks!Move(moved[n - 1])
        BY <1>2
      <4> QED BY <4>1, <4>2
    <3>4. Cardinality(Fixed(moved[n].sel, u)) = Cardinality(F) + 1
      <4>1. IsFiniteSet(F)
        BY <1>3
      <4> HIDE DEF F
      <4> QED BY <3>3, <4>1, FS_AddElement
    <3> QED BY <1>3, <3>2, <3>4
  <2> QED BY <2>2, <2>3
<1>6. u \in G
  <2> HIDE DEF G
  <2> QED BY <1>4, <1>5, AllUpTo
<1>7. moved[u].rank = -1
  <2> SUFFICES ASSUME moved[u].rank # -1 PROVE FALSE
    OBVIOUS
  <2>1. Cardinality(Fixed(moved[u].sel, u)) >= u
    BY <1>6
  <2>2. IsFiniteSet(0 .. u - 1) /\ Cardinality(0 .. u - 1) = u
    BY <1>10, SlotsFinite
  <2>3. Fixed(moved[u].sel, u) \in SUBSET (0 .. u - 1)
    BY DEF Fixed
  <2>4. Fixed(moved[u].sel, u) = 0 .. u - 1
    <3>1. Cardinality(Fixed(moved[u].sel, u)) <= u
      BY <2>2, <2>3, FS_Subset
    <3>2. Cardinality(Fixed(moved[u].sel, u)) = u
      BY <1>3, <2>1, <3>1
    <3> QED BY <2>2, <2>3, <3>2, FS_Subset
  <2>5. Held(moved[u], u, R, k + 1, hi)
    BY <1>6
  <2>6. moved[u].rank \in 0 .. u - 1 /\ moved[u].sel[moved[u].rank] # moved[u].rank
    BY <2>5 DEF Held, MoveType
  <2> QED BY <2>4, <2>6 DEF Fixed
<1>8. moved[u] = State(moved[u].sel, -1)
  <2>1. moved[u] \in MoveType(u)
    BY <1>6 DEF Held
  <2> QED BY <1>7, <2>1 DEF MoveType, State
<1> QED BY <1>1, <1>6, <1>8

-----------------------------------------------------------------------------
(* The slots that are selected. *)

Rank(f, i) == (i + Clocks!ToRank(f)) % f.used
SlotOf(f, r) == (r + f.used - Clocks!ToRank(f)) % f.used

LEMMA RankIs ==
  ASSUME NEW L \in Nat \ {0}, NEW f, Ring(f, L), f.used > 0, NEW i \in 0 .. f.used - 1
  PROVE  Rank(f, i) = IF i <= f.index THEN i + f.used - f.index - 1 ELSE i - f.index - 1
<1> DEFINE u == f.used  o == Clocks!ToRank(f)
<1>1. u \in Nat \ {0} /\ o \in 0 .. u - 1 /\ o = u - f.index - 1 /\ f.index \in Int /\ i \in 0 .. u - 1
  BY DEF Ring, RingOf, Clocks!ToRank
<1>2. Rank(f, i) = (i + o) % u
  BY DEF Rank
<1> HIDE DEF u, o
<1> DEFINE w == i + o
<1>3. w \in Int /\ w \in 0 .. 2 * u - 2 /\ w = i + o
  BY <1>1
<1> HIDE DEF w
<1>4. ASSUME ~(w < u) PROVE w % u = w - u
  <2> DEFINE y == w - u
  <2>1. y \in 0 .. u - 1 /\ w = y + u * 1 /\ 1 \in Int
    BY <1>1, <1>3, <1>4
  <2> HIDE DEF y
  <2>2. w % u = y
    BY <1>1, <1>3, <2>1, Remainder
  <2> QED BY <2>2 DEF y
<1>5. ASSUME w < u PROVE w % u = w
  <2> DEFINE y == w  none == 0
  <2>1. y \in 0 .. u - 1 /\ w = y + u * none /\ none \in Int
    BY <1>1, <1>3, <1>5
  <2> HIDE DEF y, none
  <2>2. w % u = y
    BY <1>1, <1>3, <2>1, Remainder
  <2> QED BY <2>2 DEF y
<1>6. Rank(f, i) = IF w < u THEN w ELSE w - u
  <2>1. Rank(f, i) = w % u
    BY <1>2 DEF w
  <2> QED BY <1>4, <1>5, <2>1
<1> QED BY <1>1, <1>3, <1>6 DEF u

LEMMA RanksAndSlots ==
  ASSUME NEW L \in Nat \ {0}, NEW f, Ring(f, L), f.used > 0, NEW i \in 0 .. f.used - 1
  PROVE  /\ Rank(f, i) \in 0 .. f.used - 1 /\ SlotOf(f, Rank(f, i)) = i
         /\ SlotOf(f, i) \in 0 .. f.used - 1 /\ Rank(f, SlotOf(f, i)) = i
<1> DEFINE u == f.used  o == Clocks!ToRank(f)
<1>1. u \in Nat \ {0} /\ o \in 0 .. u - 1
  BY DEF Ring, RingOf, Clocks!ToRank
<1> HIDE DEF u, o
<1>2. ASSUME NEW k \in 0 .. u - 1
      PROVE  /\ (k + o) % u = (IF k + o < u THEN k + o ELSE k + o - u)
             /\ (k + u - o) % u = (IF k < o THEN k + u - o ELSE k - o)
  <2>1. k \in Int /\ o \in Int
    BY <1>1
  <2>3. ASSUME ~(k + o < u) PROVE (k + o) % u = k + o - u
    <3>1. k + o - u \in 0 .. u - 1 /\ k + o = (k + o - u) + u * 1 /\ 1 \in Int /\ k + o \in Int
      BY <1>1, <2>1, <2>3
    <3> QED BY <1>1, <3>1, Remainder
  <2>4. ASSUME k + o < u PROVE (k + o) % u = k + o
    <3>1. k + o \in 0 .. u - 1 /\ k + o = (k + o) + u * 0 /\ 0 \in Int /\ k + o \in Int
      BY <1>1, <2>1, <2>4
    <3> QED BY <1>1, <3>1, Remainder
  <2>5. ASSUME k < o PROVE (k + u - o) % u = k + u - o
    <3>1. k + u - o \in 0 .. u - 1 /\ k + u - o = (k + u - o) + u * 0 /\ 0 \in Int /\ k + u - o \in Int
      BY <1>1, <2>1, <2>5
    <3> QED BY <1>1, <3>1, Remainder
  <2>6. ASSUME ~(k < o) PROVE (k + u - o) % u = k - o
    <3>1. k - o \in 0 .. u - 1 /\ k + u - o = (k - o) + u * 1 /\ 1 \in Int /\ k + u - o \in Int
      BY <1>1, <2>1, <2>6
    <3> QED BY <1>1, <3>1, Remainder
  <2> QED BY <2>3, <2>4, <2>5, <2>6
<1>3. i \in 0 .. u - 1
  BY DEF u
<1>4. /\ Rank(f, i) = (IF i + o < u THEN i + o ELSE i + o - u) /\ Rank(f, i) \in 0 .. u - 1
      /\ SlotOf(f, i) = (IF i < o THEN i + u - o ELSE i - o) /\ SlotOf(f, i) \in 0 .. u - 1
  BY <1>1, <1>2, <1>3 DEF Rank, SlotOf, u, o
<1>5. SlotOf(f, Rank(f, i)) = i
  <2>1. SlotOf(f, Rank(f, i)) = (IF Rank(f, i) < o THEN Rank(f, i) + u - o ELSE Rank(f, i) - o)
    BY <1>2, <1>4 DEF SlotOf, u, o
  <2> QED BY <1>1, <1>3, <1>4, <2>1
<1>6. Rank(f, SlotOf(f, i)) = i
  <2>1. Rank(f, SlotOf(f, i)) = (IF SlotOf(f, i) + o < u THEN SlotOf(f, i) + o ELSE SlotOf(f, i) + o - u)
    BY <1>2, <1>4 DEF Rank, u, o
  <2> QED BY <1>1, <1>3, <1>4, <2>1
<1> QED BY <1>4, <1>5, <1>6 DEF u

\* Less than half is cut off at either end.
LEMMA FromIs ==
  ASSUME NEW n \in Nat
  PROVE  Clocks!From(n) \in Nat /\ 2 * Clocks!From(n) <= n /\ (n > 0 => 2 * Clocks!From(n) < n)
<1>1. CASE n > 2
  <2> DEFINE d == n \div 5  c == IF d > 1 THEN d ELSE 1
  <2>1. d \in Nat /\ 5 * d <= n
    OBVIOUS
  <2> HIDE DEF d
  <2>2. c \in {1, d} /\ \A y \in {1, d} : c >= y
    BY <2>1
  <2>3. Clocks!Max({1, d}) = c
    <3>1. \A m \in {1, d} : (\A y \in {1, d} : m >= y) => m = c
      BY <2>1, <2>2
    <3> HIDE DEF c
    <3> QED BY <2>2, <3>1 DEF Clocks!Max
  <2>4. Clocks!From(n) = c
    BY <1>1, <2>3 DEF Clocks!From, d
  <2> QED BY <1>1, <2>1, <2>4
<1>2. CASE ~(n > 2)
  BY <1>2 DEF Clocks!From
<1> QED BY <1>1, <1>2

\* The ranks of a sorted sequence without its ends.
Middle(f, sorted) ==
  {Rank(f, sorted[p]) : p \in Clocks!From(Len(sorted)) + 1 .. Len(sorted) - Clocks!From(Len(sorted))}

LEMMA RanksHeld ==
  ASSUME NEW L \in Nat \ {0}, NEW f, Ring(f, L), f.used > 0, NEW S \in SUBSET Clocks!Used(f),
         NEW sorted, SortedBy(f, S, sorted)
  PROVE  Held(State(Clocks!Ranks(f, sorted), -1), f.used, Middle(f, sorted),
              Clocks!From(Len(sorted)), Len(sorted) - Clocks!From(Len(sorted)) - 1)
<1> DEFINE u == f.used  n == Len(sorted)  from == Clocks!From(n)  ranks == Clocks!Ranks(f, sorted)
           s == State(ranks, -1)
<1>1. u \in Nat \ {0} /\ n \in Nat /\ sorted \in [1 .. n -> S] /\ Clocks!Used(f) = 0 .. u - 1
  BY DEF SortedBy, Ring, RingOf, Clocks!Used
<1>2. n <= u
  <2>1. IsFiniteSet(0 .. u - 1) /\ Cardinality(0 .. u - 1) = u /\ S \in SUBSET (0 .. u - 1) /\ Cardinality(S) = n
    BY <1>1, SlotsFinite DEF SortedBy
  <2> HIDE DEF u, n
  <2> QED BY <2>1, FS_Subset
<1>3. from \in Nat /\ 2 * from <= n
  BY <1>1, FromIs
<1>4. \A p \in 1 .. n : sorted[p] \in 0 .. u - 1 /\ Rank(f, sorted[p]) \in 0 .. u - 1
  <2> TAKE p \in 1 .. n
  <2>1. sorted[p] \in 0 .. u - 1
    BY <1>1
  <2> QED BY <2>1, RanksAndSlots
<1>5. ranks = [i \in 0 .. u - 1 |-> IF i \in from .. n - from - 1 THEN Rank(f, sorted[i + 1]) ELSE -1]
  BY <1>1 DEF Clocks!Ranks, Rank
<1>6. \A p, q \in 1 .. n : Rank(f, sorted[p]) = Rank(f, sorted[q]) => p = q
  <2> SUFFICES ASSUME NEW p \in 1 .. n, NEW q \in 1 .. n, Rank(f, sorted[p]) = Rank(f, sorted[q])
               PROVE  p = q
    OBVIOUS
  <2>1. SlotOf(f, Rank(f, sorted[p])) = sorted[p]
    BY <1>4, RanksAndSlots
  <2>2. SlotOf(f, Rank(f, sorted[q])) = sorted[q]
    BY <1>4, RanksAndSlots
  <2>3. sorted[p] = sorted[q]
    BY <2>1, <2>2
  <2> QED BY <2>3 DEF SortedBy
<1> DEFINE at(i) == Rank(f, sorted[i + 1])
<1>7. \A i \in from .. n - from - 1 : i + 1 \in 1 .. n /\ i \in 0 .. u - 1 /\ ranks[i] = at(i) /\ at(i) \in 0 .. u - 1
  BY <1>1, <1>2, <1>3, <1>4, <1>5
<1>8. \A i \in 0 .. u - 1 : i \notin from .. n - from - 1 => ranks[i] = -1
  BY <1>5
<1>9. \A r : r \in Middle(f, sorted) <=> \E i \in from .. n - from - 1 : r = at(i)
  <2> TAKE r
  <2>1. ASSUME NEW p \in from + 1 .. n - from, r = Rank(f, sorted[p])
        PROVE  \E i \in from .. n - from - 1 : r = at(i)
    <3>1. p - 1 \in from .. n - from - 1 /\ (p - 1) + 1 = p
      BY <1>1, <1>3
    <3> QED BY <2>1, <3>1
  <2>2. ASSUME NEW i \in from .. n - from - 1, r = at(i)
        PROVE  \E p \in from + 1 .. n - from : r = Rank(f, sorted[p])
    <3>1. i + 1 \in from + 1 .. n - from
      BY <1>1, <1>3
    <3> QED BY <2>2, <3>1
  <2> HIDE DEF at
  <2>3. r \in Middle(f, sorted) <=> \E p \in from + 1 .. n - from : r = Rank(f, sorted[p])
    BY DEF Middle
  <2> QED BY <2>1, <2>2, <2>3
<1>10. \A i, j \in from .. n - from - 1 : at(i) = at(j) => i = j
  <2> SUFFICES ASSUME NEW i \in from .. n - from - 1, NEW j \in from .. n - from - 1, at(i) = at(j) PROVE i = j
    OBVIOUS
  <2>1. i + 1 = j + 1
    BY <1>6, <1>7
  <2> QED BY <1>1, <1>3, <2>1
<1>11. ranks \in SelType(u)
  <2>1. \A i \in 0 .. u - 1 : ranks[i] \in -1 .. u - 1
    <3> HIDE DEF at, ranks
    <3> QED BY <1>1, <1>7, <1>8
  <2>2. ranks = [i \in 0 .. u - 1 |-> ranks[i]]
    BY <1>5
  <2> HIDE DEF ranks
  <2> QED BY <2>1, <2>2 DEF SelType
<1> HIDE DEF ranks, at
<1>12. s \in MoveType(u) /\ s.sel = ranks /\ s.rank = -1
  BY <1>1, <1>11, StateIs
<1> HIDE DEF s, from, n, u
<1>13. \A a, b \in 0 .. u - 1 : ranks[a] = ranks[b] /\ ranks[a] # -1 => a = b
  BY <1>7, <1>8, <1>10
<1>14. \A r \in 0 .. u - 1 : r \in Middle(f, sorted) <=> r = -1 \/ \E a \in 0 .. u - 1 : ranks[a] = r
  BY <1>7, <1>8, <1>9
<1>15. \A a \in 0 .. u - 1 : ranks[a] \in {-1, a} \/ a \in from .. n - from - 1
  BY <1>8
<1>16. Held(s, u, Middle(f, sorted), from, n - from - 1)
  BY <1>12, <1>13, <1>14, <1>15 DEF Held
<1> QED BY <1>16 DEF s, u, n, from, ranks

LEMMA SettleTyped ==
  ASSUME NEW f, f.used \in Nat \ {0}, NEW sel \in SelType(f.used), NEW i \in 0 .. f.used - 1
  PROVE  Clocks!Settle(f, sel, i) \in SelType(f.used)
<1> DEFINE u == f.used  moved == Chased(f, sel, i)
           G == {n \in 0 .. u : moved[n] \in MoveType(u)}
<1>1. Clocks!Settle(f, sel, i) = moved[u].sel
  BY DEF Clocks!Settle, Chased
<1>2. moved[0] = State([sel EXCEPT ![i] = -1], sel[i]) /\ \A n \in 1 .. u : moved[n] = Clocks!Move(moved[n - 1])
  BY ChasedDefined
<1> HIDE DEF moved
<1>3. 0 \in G
  <2>1. [sel EXCEPT ![i] = -1] \in SelType(u) /\ sel[i] \in -1 .. u - 1
    BY DEF SelType
  <2> QED BY <1>2, <2>1, StateIs
<1>4. ASSUME NEW n \in 1 .. u, n - 1 \in G PROVE n \in G
  <2> DEFINE s == moved[n - 1]
  <2>1. s \in MoveType(u) /\ moved[n] = Clocks!Move(s) /\ n \in 0 .. u /\ u \in Nat \ {0}
    BY <1>2, <1>4
  <2> HIDE DEF s, u
  <2>2. Clocks!Move(s) \in MoveType(u)
    BY <2>1, MoveIs
  <2> QED BY <2>1, <2>2
<1>5. u \in G
  <2> HIDE DEF G
  <2> QED BY <1>3, <1>4, AllUpTo
<1> QED BY <1>1, <1>5 DEF MoveType

\* The recursive function of Settled.
SettledTo(f, sorted) ==
  CHOOSE settled : settled = [n \in 0 .. Len(sorted) - 2 * Clocks!From(Len(sorted)) |->
    IF n = 0 THEN Clocks!Ranks(f, sorted)
    ELSE Clocks!Settle(f, settled[n - 1], Clocks!From(Len(sorted)) + n - 1)]

LEMMA SettledDefined ==
  ASSUME NEW f, f.used \in Nat \ {0}, NEW sorted, Len(sorted) \in Nat, Len(sorted) <= f.used,
         Clocks!Ranks(f, sorted) \in SelType(f.used)
  PROVE  /\ SettledTo(f, sorted)[0] = Clocks!Ranks(f, sorted)
         /\ \A n \in 1 .. Len(sorted) - 2 * Clocks!From(Len(sorted)) :
              SettledTo(f, sorted)[n]
                = Clocks!Settle(f, SettledTo(f, sorted)[n - 1], Clocks!From(Len(sorted)) + n - 1)
<1> DEFINE from == Clocks!From(Len(sorted))
           N == Len(sorted) - 2 * from
           T == SelType(f.used)
           base == Clocks!Ranks(f, sorted)
           step == [p \in T \X (1 .. N) |-> Clocks!Settle(f, p[1], from + p[2] - 1)]
           Value(g, n) == IF n = 0 THEN base ELSE Clocks!Settle(f, g[n - 1], from + n - 1)
<1>0. from \in Nat /\ N \in Nat /\ \A n \in 1 .. N : from + n - 1 \in 0 .. f.used - 1
  <2>1. from \in Nat /\ 2 * from <= Len(sorted)
    BY FromIs
  <2> HIDE DEF from
  <2> QED BY <2>1
<1> HIDE DEF from, N
<1>1. step \in StepsIn(T, N)
  <2>1. \A p \in T \X (1 .. N) : p[1] \in SelType(f.used) /\ p[2] \in 1 .. N /\ from + p[2] - 1 \in 0 .. f.used - 1
    BY <1>0
  <2>2. \A p \in T \X (1 .. N) : Clocks!Settle(f, p[1], from + p[2] - 1) \in T
    BY <2>1, SettleTyped
  <2> HIDE DEF T
  <2> QED BY <2>2 DEF StepsIn
<1> HIDE DEF T
<1>2. base \in T
  BY DEF T
<1>3. PICK g \in [0 .. N -> T] : Follows(g, N, base, step)
  <2> HIDE DEF step, base
  <2> QED BY <1>0, <1>1, <1>2, RecursionExists
<1>4. g = [n \in 0 .. N |-> Value(g, n)]
  <2>1. ASSUME NEW n \in 0 .. N PROVE g[n] = Value(g, n)
    <3>1. CASE n = 0
      BY <1>3, <3>1 DEF Follows
    <3>2. CASE n # 0
      <4>1. n \in 1 .. N /\ n - 1 \in 0 .. N /\ <<g[n - 1], n>> \in T \X (1 .. N)
        BY <1>0, <3>2
      <4>2. g[n] = step[<<g[n - 1], n>>]
        BY <1>3, <4>1 DEF Follows
      <4> QED BY <3>2, <4>1, <4>2
    <3> QED BY <3>1, <3>2
  <2> HIDE DEF Value
  <2> QED BY <2>1
<1> DEFINE settled == SettledTo(f, sorted)
<1>5. settled = [n \in 0 .. N |-> Value(settled, n)]
  BY <1>4 DEF SettledTo, N, from
<1> HIDE DEF settled
<1>6. settled[0] = base
  <2>1. 0 \in 0 .. N /\ Value(settled, 0) = base
    BY <1>0
  <2> HIDE DEF Value
  <2> QED BY <1>5, <2>1
<1>7. ASSUME NEW n \in 1 .. N PROVE settled[n] = Clocks!Settle(f, settled[n - 1], from + n - 1)
  <2>1. n \in 0 .. N /\ Value(settled, n) = Clocks!Settle(f, settled[n - 1], from + n - 1)
    BY <1>0
  <2> HIDE DEF Value
  <2> QED BY <1>5, <2>1
<1> QED BY <1>6, <1>7 DEF settled, base, N, from

\* In the end each rank of the middle is in its own slot.
LEMMA SettledIs ==
  ASSUME NEW L \in Nat \ {0}, NEW f, Ring(f, L), f.used > 0, NEW S \in SUBSET Clocks!Used(f),
         NEW sorted, SortedBy(f, S, sorted)
  PROVE  \A i \in 0 .. f.used - 1 :
           Clocks!Settled(f, sorted)[i] = IF i \in Middle(f, sorted) THEN i ELSE -1
<1> DEFINE u == f.used  n == Len(sorted)  from == Clocks!From(n)  N == n - 2 * from
           R == Middle(f, sorted)
           settled == SettledTo(f, sorted)
           Settling(k) == Held(State(settled[k], -1), u, R, from + k, n - from - 1)
           G == {k \in 0 .. N : Settling(k)}
<1>1. u \in Nat \ {0} /\ n \in Nat /\ n <= u
  <2>1. u \in Nat \ {0} /\ n = Cardinality(S) /\ S \in SUBSET (0 .. u - 1)
    BY DEF SortedBy, Ring, RingOf, Clocks!Used
  <2>2. IsFiniteSet(0 .. u - 1) /\ Cardinality(0 .. u - 1) = u
    BY <2>1, SlotsFinite
  <2>3. Cardinality(S) <= u
    <3> HIDE DEF u
    <3> QED BY <2>1, <2>2, FS_Subset
  <2> QED BY <2>1, <2>3 DEF SortedBy
<1>2. from \in Nat /\ N \in Nat /\ from + N = n - from
  <2>1. from \in Nat /\ 2 * from <= n
    BY <1>1, FromIs
  <2> HIDE DEF from
  <2> QED BY <1>1, <2>1
<1>3. Held(State(Clocks!Ranks(f, sorted), -1), u, R, from, n - from - 1)
  BY RanksHeld
<1>4. Clocks!Ranks(f, sorted) \in SelType(u)
  BY <1>3 DEF Held, State, MoveType
<1>5. settled[0] = Clocks!Ranks(f, sorted)
      /\ \A k \in 1 .. N : settled[k] = Clocks!Settle(f, settled[k - 1], from + k - 1)
  BY <1>1, <1>4, SettledDefined
<1>6. Clocks!Settled(f, sorted) = settled[N]
  BY DEF Clocks!Settled, SettledTo
<1> HIDE DEF settled, from, R
<1>7. 0 \in G
  <2>1. from + 0 = from
    BY <1>2
  <2> QED BY <1>2, <1>3, <1>5, <2>1
<1>8. ASSUME NEW k \in 1 .. N, k - 1 \in G PROVE k \in G
  <2>1. Held(State(settled[k - 1], -1), u, R, from + k - 1, n - from - 1)
    <3>1. from + (k - 1) = from + k - 1
      BY <1>2
    <3> QED BY <1>8, <3>1
  <2>2. from + k - 1 \in 0 .. u - 1 /\ n - from - 1 \in Int /\ (from + k - 1) + 1 = from + k
    BY <1>1, <1>2
  <2> DEFINE m == from + k - 1  hi == n - from - 1
  <2>3. Held(State(Clocks!Settle(f, settled[k - 1], m), -1), u, R, m + 1, hi)
    <3> HIDE DEF m, hi
    <3>1. Held(State(settled[k - 1], -1), f.used, R, m, hi) /\ m \in 0 .. f.used - 1 /\ hi \in Int /\ f.used \in Nat \ {0}
      BY <1>1, <2>1, <2>2 DEF m, hi
    <3> QED BY <3>1, SettleHolds
  <2> QED BY <1>5, <2>2, <2>3
<1>9. N \in G
  <2>1. N \in Nat /\ 0 \in G /\ \A k \in 1 .. N : k - 1 \in G => k \in G
    BY <1>2, <1>7, <1>8
  <2> HIDE DEF G, N
  <2>2. \A k \in 0 .. N : k \in G
    BY <2>1, AllUpTo
  <2> QED BY <2>1, <2>2
<1>10. Held(State(settled[N], -1), u, R, from + N, n - from - 1)
  BY <1>9
<1> HIDE DEF N, u, n
<1>11. State(settled[N], -1).sel = settled[N] /\ State(settled[N], -1).rank = -1
  BY DEF State
<1>12. settled[N] \in SelType(u)
  BY <1>10, <1>11 DEF Held, MoveType
<1>13. \A i \in 0 .. u - 1 : settled[N][i] \in {-1, i}
  <2>1. \A i : i \notin from + N .. n - from - 1
    BY <1>1, <1>2
  <2> QED BY <1>10, <1>11, <2>1 DEF Held
<1>14. \A r \in 0 .. u - 1 : r \in R <=> r = -1 \/ \E a \in 0 .. u - 1 : settled[N][a] = r
  BY <1>10, <1>11 DEF Held
<1>15. ASSUME NEW i \in 0 .. u - 1 PROVE settled[N][i] = IF i \in R THEN i ELSE -1
  <2>1. i # -1 /\ \A a \in 0 .. u - 1 : a # -1
    BY <1>1
  <2> QED BY <1>13, <1>14, <2>1
<1> QED BY <1>6, <1>15 DEF R, u


-----------------------------------------------------------------------------
(* The selection: the slots of the ranks that are settled, in their order. *)

LEMMA CountedBy ==
  ASSUME NEW m \in Nat, NEW T, NEW g \in [1 .. m -> T],
         \A p, q \in 1 .. m : g[p] = g[q] => p = q,
         \A t \in T : \E p \in 1 .. m : g[p] = t
  PROVE  Cardinality(T) = m
<1>1. IsFiniteSet(1 .. m) /\ Cardinality(1 .. m) = m
  BY FS_Interval
<1>2. g \in Bijection(1 .. m, T)
  BY DEF Bijection, Injection, Surjection, IsInjective
<1>3. ExistsBijection(1 .. m, T)
  BY <1>2 DEF ExistsBijection
<1> QED BY <1>1, <1>3, FS_Bijection

\* The recursive function of Select.
KeptTo(f, settled) ==
  CHOOSE kept : kept = [n \in 0 .. f.used |->
    IF n = 0 THEN <<>>
    ELSE IF settled[n - 1] = -1 THEN kept[n - 1]
    ELSE Append(kept[n - 1], (settled[n - 1] + f.used - Clocks!ToRank(f)) % f.used)]

KeepsAt(f, settled, seq, n) == IF settled[n - 1] = -1 THEN seq ELSE Append(seq, SlotOf(f, settled[n - 1]))

LEMMA KeptDefined ==
  ASSUME NEW f, f.used \in Nat \ {0}, NEW settled,
         \A i \in 0 .. f.used - 1 : settled[i] # -1 => SlotOf(f, settled[i]) \in 0 .. f.used - 1
  PROVE  /\ KeptTo(f, settled)[0] = <<>>
         /\ \A n \in 1 .. f.used : KeptTo(f, settled)[n] = KeepsAt(f, settled, KeptTo(f, settled)[n - 1], n)
<1> DEFINE u == f.used
           T == Seq(0 .. u - 1)
           step == [p \in T \X (1 .. u) |-> KeepsAt(f, settled, p[1], p[2])]
           Value(g, n) == IF n = 0 THEN <<>> ELSE KeepsAt(f, settled, g[n - 1], n)
<1>0. u \in Nat
  OBVIOUS
<1>1. step \in StepsIn(T, u)
  <2>1. ASSUME NEW p \in T \X (1 .. u) PROVE KeepsAt(f, settled, p[1], p[2]) \in T
    <3>1. p[1] \in T /\ p[2] - 1 \in 0 .. u - 1
      OBVIOUS
    <3>2. settled[p[2] - 1] # -1 => SlotOf(f, settled[p[2] - 1]) \in 0 .. u - 1
      BY <3>1
    <3>3. settled[p[2] - 1] # -1 => Append(p[1], SlotOf(f, settled[p[2] - 1])) \in T
      BY <3>1, <3>2, AppendProperties
    <3> QED BY <3>1, <3>3 DEF KeepsAt
  <2> HIDE DEF T
  <2> QED BY <2>1 DEF StepsIn
<1> HIDE DEF T
<1>2. <<>> \in T
  BY DEF T
<1>3. PICK g \in [0 .. u -> T] : Follows(g, u, <<>>, step)
  <2> HIDE DEF step, u
  <2> QED BY <1>0, <1>1, <1>2, RecursionExists
<1>4. g = [n \in 0 .. u |-> Value(g, n)]
  <2>1. ASSUME NEW n \in 0 .. u PROVE g[n] = Value(g, n)
    <3>1. CASE n = 0
      BY <1>3, <3>1 DEF Follows
    <3>2. CASE n # 0
      <4>1. n \in 1 .. u /\ n - 1 \in 0 .. u /\ <<g[n - 1], n>> \in T \X (1 .. u)
        BY <1>0, <3>2
      <4>2. g[n] = step[<<g[n - 1], n>>]
        BY <1>3, <4>1 DEF Follows
      <4> QED BY <3>2, <4>1, <4>2
    <3> QED BY <3>1, <3>2
  <2> HIDE DEF Value
  <2> QED BY <2>1
<1> DEFINE kept == KeptTo(f, settled)
<1>5. kept = [n \in 0 .. u |-> Value(kept, n)]
  BY <1>4 DEF KeptTo, KeepsAt, SlotOf
<1> HIDE DEF kept
<1>6. kept[0] = <<>>
  <2>1. 0 \in 0 .. u /\ Value(kept, 0) = <<>>
    BY <1>0
  <2> HIDE DEF Value
  <2> QED BY <1>5, <2>1
<1>7. ASSUME NEW n \in 1 .. u PROVE kept[n] = KeepsAt(f, settled, kept[n - 1], n)
  <2>1. n \in 0 .. u /\ Value(kept, n) = KeepsAt(f, settled, kept[n - 1], n)
    BY <1>0
  <2> HIDE DEF Value
  <2> QED BY <1>5, <2>1
<1> QED BY <1>6, <1>7 DEF kept

\* seq has the slots of the ranks of R that are below n, from the oldest sample on.
Keeping(f, seq, R, n) ==
  /\ seq \in Seq(0 .. f.used - 1)
  /\ \A p \in 1 .. Len(seq) : Rank(f, seq[p]) \in R /\ Rank(f, seq[p]) < n
  /\ \A r \in R : r < n => \E p \in 1 .. Len(seq) : Rank(f, seq[p]) = r
  /\ \A p, q \in 1 .. Len(seq) : p < q => Rank(f, seq[p]) < Rank(f, seq[q])

LEMMA KeepsOneMore ==
  ASSUME NEW L \in Nat \ {0}, NEW f, Ring(f, L), f.used > 0, NEW R \in SUBSET (0 .. f.used - 1),
         NEW n \in 1 .. f.used, NEW settled,
         settled[n - 1] = IF n - 1 \in R THEN n - 1 ELSE -1,
         NEW seq, Keeping(f, seq, R, n - 1)
  PROVE  Keeping(f, KeepsAt(f, settled, seq, n), R, n)
<1> DEFINE u == f.used  e == SlotOf(f, n - 1)
<1>1. u \in Nat \ {0} /\ n - 1 \in 0 .. u - 1 /\ n \in Int
  BY DEF Ring, RingOf
<1>2. e \in 0 .. u - 1 /\ Rank(f, e) = n - 1
  BY <1>1, RanksAndSlots
<1>3. /\ seq \in Seq(0 .. u - 1) /\ Len(seq) \in Nat
      /\ \A p \in 1 .. Len(seq) : Rank(f, seq[p]) \in R /\ Rank(f, seq[p]) < n - 1
      /\ \A r \in R : r < n - 1 => \E p \in 1 .. Len(seq) : Rank(f, seq[p]) = r
      /\ \A p, q \in 1 .. Len(seq) : p < q => Rank(f, seq[p]) < Rank(f, seq[q])
  BY DEF Keeping
<1>4. \A r \in R : r \in Int
  BY <1>1
<1>5. CASE n - 1 \in R
  <2> DEFINE g == Append(seq, e)
  <2>1. KeepsAt(f, settled, seq, n) = g
    BY <1>1, <1>5 DEF KeepsAt
  <2> HIDE DEF e
  <2>2. /\ g \in Seq(0 .. u - 1) /\ Len(g) = Len(seq) + 1
        /\ \A p \in 1 .. Len(seq) : g[p] = seq[p]
        /\ g[Len(g)] = e
    <3> HIDE DEF u
    <3> QED BY <1>2, <1>3, AppendProperties
  <2> HIDE DEF g, u
  <2>3. \A p \in 1 .. Len(g) : (p \in 1 .. Len(seq) /\ g[p] = seq[p]) \/ (p = Len(g) /\ Rank(f, g[p]) = n - 1)
    <3> TAKE p \in 1 .. Len(g)
    <3>1. CASE p = Len(g)
      BY <1>2, <2>2, <3>1
    <3>2. CASE p # Len(g)
      <4>1. p \in 1 .. Len(seq)
        BY <1>3, <2>2, <3>2
      <4> QED BY <2>2, <4>1
    <3> QED BY <3>1, <3>2
  <2>4. \A p \in 1 .. Len(g) : Rank(f, g[p]) \in R /\ Rank(f, g[p]) < n
    <3> TAKE p \in 1 .. Len(g)
    <3>1. CASE p \in 1 .. Len(seq) /\ g[p] = seq[p]
      <4>1. Rank(f, seq[p]) \in R /\ Rank(f, seq[p]) < n - 1 /\ Rank(f, seq[p]) \in Int
        BY <1>3, <1>4, <3>1
      <4> QED BY <1>1, <3>1, <4>1
    <3>2. CASE p = Len(g) /\ Rank(f, g[p]) = n - 1
      BY <1>1, <1>5, <3>2
    <3> QED BY <2>3, <3>1, <3>2
  <2>5. ASSUME NEW r \in R, r < n PROVE \E p \in 1 .. Len(g) : Rank(f, g[p]) = r
    <3>1. CASE r = n - 1
      <4>1. Len(g) \in 1 .. Len(g) /\ Rank(f, g[Len(g)]) = r
        BY <1>2, <1>3, <2>2, <3>1
      <4> QED BY <4>1
    <3>2. CASE r # n - 1
      <4>1. PICK p \in 1 .. Len(seq) : Rank(f, seq[p]) = r
        BY <1>1, <1>3, <1>4, <2>5, <3>2
      <4>2. p \in 1 .. Len(g) /\ Rank(f, g[p]) = r
        BY <1>3, <2>2, <4>1
      <4> QED BY <4>2
    <3> QED BY <3>1, <3>2
  <2>6. ASSUME NEW p \in 1 .. Len(g), NEW q \in 1 .. Len(g), p < q
        PROVE  Rank(f, g[p]) < Rank(f, g[q])
    <3>1. p \in 1 .. Len(seq) /\ g[p] = seq[p]
      BY <1>3, <2>2, <2>6
    <3>2. CASE q = Len(g)
      BY <1>2, <1>3, <2>2, <3>1, <3>2
    <3>3. CASE q # Len(g)
      <4>1. q \in 1 .. Len(seq) /\ g[q] = seq[q]
        BY <2>3, <3>3
      <4> QED BY <1>3, <2>6, <3>1, <4>1
    <3> QED BY <3>2, <3>3
  <2>7. Keeping(f, g, R, n)
    BY <2>2, <2>4, <2>5, <2>6 DEF Keeping, u
  <2> QED BY <2>1, <2>7
<1>6. CASE n - 1 \notin R
  <2>1. KeepsAt(f, settled, seq, n) = seq
    BY <1>6 DEF KeepsAt
  <2>2. \A r \in R : r < n => r < n - 1
    BY <1>1, <1>4, <1>6
  <2>3. \A p \in 1 .. Len(seq) : Rank(f, seq[p]) \in R /\ Rank(f, seq[p]) < n
    <3> TAKE p \in 1 .. Len(seq)
    <3>1. Rank(f, seq[p]) \in R /\ Rank(f, seq[p]) < n - 1 /\ Rank(f, seq[p]) \in Int
      BY <1>3, <1>4
    <3> QED BY <1>1, <3>1
  <2> QED BY <1>3, <2>1, <2>2, <2>3 DEF Keeping, u
<1> QED BY <1>5, <1>6

\* sel has the samples of sorted without its ends, from the oldest on.
Selects(f, sel, sorted) ==
  LET from == Clocks!From(Len(sorted)) IN
  /\ sel \in Seq(0 .. f.used - 1) /\ Len(sel) = Len(sorted) - 2 * from
  /\ \A p \in 1 .. Len(sel) : \E q \in from + 1 .. Len(sorted) - from : sel[p] = sorted[q]
  /\ \A p, q \in 1 .. Len(sel) : p < q => Rank(f, sel[p]) < Rank(f, sel[q])

LEMMA SelectIs ==
  ASSUME NEW L \in Nat \ {0}, NEW f, Ring(f, L), Clocks!Enough(f)
  PROVE  Selects(f, Clocks!Select(f), Clocks!ByOffset(f, Clocks!Good(f)))
<1> DEFINE u == f.used  S == Clocks!Good(f)  sorted == Clocks!ByOffset(f, S)  n == Len(sorted)
           from == Clocks!From(n)  R == Middle(f, sorted)
           settled == Clocks!Settled(f, sorted)
           kept == KeptTo(f, settled)
           sel == Clocks!Select(f)
<1>1. u \in Nat \ {0} /\ u > 0
  BY DEF Ring, RingOf, Clocks!Enough
<1>2. S \in SUBSET Clocks!Used(f)
  BY GoodIsUsed
<1> HIDE DEF S
<1>3. SortedBy(f, S, sorted)
  BY <1>2, ByOffsetSorts
<1> HIDE DEF sorted
<1>4. \A i \in 0 .. u - 1 : settled[i] = IF i \in R THEN i ELSE -1
  BY <1>1, <1>2, <1>3, SettledIs
<1>5. n \in Nat /\ sorted \in [1 .. n -> S] /\ from \in Nat /\ 2 * from <= n
  BY <1>3, FromIs DEF SortedBy
<1>6. \A p \in 1 .. n : sorted[p] \in 0 .. u - 1 /\ Rank(f, sorted[p]) \in 0 .. u - 1
  <2> TAKE p \in 1 .. n
  <2>1. sorted[p] \in 0 .. u - 1
    BY <1>2, <1>5 DEF Clocks!Used
  <2> QED BY <1>1, <2>1, RanksAndSlots
<1>7. R \in SUBSET (0 .. u - 1)
  <2>1. \A p \in from + 1 .. n - from : p \in 1 .. n
    BY <1>5
  <2> QED BY <1>6, <2>1 DEF Middle
<1> HIDE DEF settled
<1>8. kept[0] = <<>> /\ \A k \in 1 .. u : kept[k] = KeepsAt(f, settled, kept[k - 1], k)
  <2>1. ASSUME NEW i \in 0 .. u - 1, settled[i] # -1 PROVE SlotOf(f, settled[i]) \in 0 .. u - 1
    <3>1. settled[i] = i
      BY <1>4, <2>1
    <3> QED BY <1>1, <3>1, RanksAndSlots
  <2> QED BY <1>1, <2>1, KeptDefined
<1>9. sel = kept[u]
  BY DEF Clocks!Select, KeptTo, settled, sorted, S
<1> HIDE DEF kept, sel, R, from
<1> DEFINE G == {k \in 0 .. u : Keeping(f, kept[k], R, k)}
<1>10. 0 \in G
  <2>1. \A r \in R : ~(r < 0)
    BY <1>1, <1>7
  <2>2. <<>> \in Seq(0 .. u - 1) /\ Len(<<>>) = 0
    OBVIOUS
  <2>3. Keeping(f, <<>>, R, 0)
    <3>1. 1 .. Len(<<>>) = {}
      BY <2>2
    <3> QED BY <2>1, <2>2, <3>1 DEF Keeping
  <2> QED BY <1>1, <1>8, <2>3
<1>11. ASSUME NEW k \in 1 .. u, k - 1 \in G PROVE k \in G
  <2>1. k - 1 \in 0 .. u - 1 /\ Keeping(f, kept[k - 1], R, k - 1)
    BY <1>1, <1>11
  <2>2. settled[k - 1] = IF k - 1 \in R THEN k - 1 ELSE -1
    BY <1>4, <2>1
  <2>3. Keeping(f, KeepsAt(f, settled, kept[k - 1], k), R, k)
    BY <1>1, <1>7, <2>1, <2>2, KeepsOneMore
  <2> QED BY <1>8, <2>3
<1>12. u \in G
  <2>1. u \in Nat /\ 0 \in G /\ \A k \in 1 .. u : k - 1 \in G => k \in G
    BY <1>1, <1>10, <1>11
  <2> HIDE DEF G, u
  <2>2. \A k \in 0 .. u : k \in G
    BY <2>1, AllUpTo
  <2> QED BY <2>1, <2>2
<1>13. /\ sel \in Seq(0 .. u - 1) /\ Len(sel) \in Nat
       /\ \A p \in 1 .. Len(sel) : Rank(f, sel[p]) \in R
       /\ \A r \in R : \E p \in 1 .. Len(sel) : Rank(f, sel[p]) = r
       /\ \A p, q \in 1 .. Len(sel) : p < q => Rank(f, sel[p]) < Rank(f, sel[q])
  <2>1. Keeping(f, sel, R, u)
    BY <1>9, <1>12
  <2>2. \A r \in R : r < u
    BY <1>1, <1>7
  <2> QED BY <2>1, <2>2 DEF Keeping
<1> DEFINE N == n - 2 * from
<1>14. N \in Nat /\ \A p \in 1 .. N : from + p \in from + 1 .. n - from /\ from + p \in 1 .. n
  BY <1>5
<1>15. Cardinality(R) = N
  <2> DEFINE g == [p \in 1 .. N |-> Rank(f, sorted[from + p])]
  <2>1. \A p \in from + 1 .. n - from : p - from \in 1 .. N /\ from + (p - from) = p
    BY <1>5
  <2>2. \A t : t \in R <=> \E p \in from + 1 .. n - from : t = Rank(f, sorted[p])
    BY DEF R, Middle, from
  <2>3. g \in [1 .. N -> R]
    BY <1>14, <2>2
  <2>4. \A t \in R : \E p \in 1 .. N : g[p] = t
    <3> TAKE t \in R
    <3>1. PICK p \in from + 1 .. n - from : t = Rank(f, sorted[p])
      BY <2>2
    <3>2. p - from \in 1 .. N /\ g[p - from] = t
      BY <2>1, <3>1
    <3> QED BY <3>2
  <2>5. ASSUME NEW p \in 1 .. N, NEW q \in 1 .. N, g[p] = g[q] PROVE p = q
    <3>1. Rank(f, sorted[from + p]) = Rank(f, sorted[from + q])
      BY <2>5
    <3>2. sorted[from + p] = sorted[from + q]
      <4>1. SlotOf(f, Rank(f, sorted[from + p])) = sorted[from + p]
        BY <1>1, <1>6, <1>14, RanksAndSlots
      <4>2. SlotOf(f, Rank(f, sorted[from + q])) = sorted[from + q]
        BY <1>1, <1>6, <1>14, RanksAndSlots
      <4> QED BY <3>1, <4>1, <4>2
    <3>3. from + p = from + q
      <4>1. from + p \in 1 .. Cardinality(S) /\ from + q \in 1 .. Cardinality(S)
        BY <1>3, <1>14 DEF SortedBy
      <4> QED BY <1>3, <3>2, <4>1 DEF SortedBy
    <3> QED BY <1>5, <3>3
  <2> HIDE DEF g, N
  <2> QED BY <1>14, <2>3, <2>4, <2>5, CountedBy
<1>16. Cardinality(R) = Len(sel)
  <2> DEFINE g == [p \in 1 .. Len(sel) |-> Rank(f, sel[p])]
  <2>1. g \in [1 .. Len(sel) -> R] /\ \A t \in R : \E p \in 1 .. Len(sel) : g[p] = t
    BY <1>13
  <2>2. \A t \in R : t \in Int
    BY <1>1, <1>7
  <2>3. ASSUME NEW p \in 1 .. Len(sel), NEW q \in 1 .. Len(sel), g[p] = g[q] PROVE p = q
    <3>1. Rank(f, sel[p]) = Rank(f, sel[q]) /\ Rank(f, sel[p]) \in Int
      BY <1>13, <2>2, <2>3
    <3>2. ~(p < q) /\ ~(q < p)
      BY <1>13, <3>1
    <3> QED BY <1>13, <3>2
  <2> HIDE DEF g
  <2> QED BY <1>13, <2>1, <2>3, CountedBy
<1>17. ASSUME NEW p \in 1 .. Len(sel) PROVE \E q \in from + 1 .. n - from : sel[p] = sorted[q]
  <2>1. PICK q \in from + 1 .. n - from : Rank(f, sel[p]) = Rank(f, sorted[q])
    BY <1>13 DEF R, Middle, from
  <2>2. q \in 1 .. n
    BY <1>5
  <2>3. sorted[q] \in 0 .. u - 1 /\ sel[p] \in 0 .. u - 1
    BY <1>6, <1>13, <2>2, ElementOfSeq
  <2>4. SlotOf(f, Rank(f, sel[p])) = sel[p] /\ SlotOf(f, Rank(f, sorted[q])) = sorted[q]
    BY <1>1, <2>3, RanksAndSlots
  <2> QED BY <2>1, <2>4
<1>18. Selects(f, sel, sorted)
  BY <1>13, <1>15, <1>16, <1>17 DEF Selects, from
<1> QED BY <1>18 DEF sel, sorted, S

-----------------------------------------------------------------------------
(* The mean of a selection is between its samples. *)

Convex(E) == E \in SUBSET Int /\ \A a, b \in E : a .. b \in SUBSET E

SumsUp(s, m, g) == s[0] = 0 /\ \A n \in 1 .. m : s[n] = s[n - 1] + g[n]

LEMMA SumsExist ==
  ASSUME NEW m \in Nat, NEW g \in [1 .. m -> Int]
  PROVE  \E s \in [0 .. m -> Int] : SumsUp(s, m, g)
<1> DEFINE step == [p \in Int \X (1 .. m) |-> p[1] + g[p[2]]]
<1>1. step \in StepsIn(Int, m)
  BY DEF StepsIn
<1>2. PICK s \in [0 .. m -> Int] : Follows(s, m, 0, step)
  <2>1. 0 \in Int
    OBVIOUS
  <2> HIDE DEF step
  <2> QED BY <1>1, <2>1, RecursionExists
<1>3. ASSUME NEW n \in 1 .. m PROVE s[n] = s[n - 1] + g[n]
  <2>0. n - 1 \in 0 .. m
    OBVIOUS
  <2>1. s[n] = step[<<s[n - 1], n>>]
    <3> HIDE DEF step
    <3> QED BY <1>2 DEF Follows
  <2>2. <<s[n - 1], n>> \in Int \X (1 .. m)
    BY <1>2, <2>0
  <2> QED BY <2>1, <2>2
<1> QED BY <1>2, <1>3 DEF Follows, SumsUp

LEMMA Scaled ==
  ASSUME NEW k \in Nat, NEW a \in Int, NEW b \in Int, a <= b
  PROVE  k * a <= k * b /\ k * (a + 1) = k * a + k /\ (k + 1) * a = k * a + a
<1>1. b - a \in Nat /\ b = a + (b - a)
  OBVIOUS
<1>2. k * (b - a) >= 0
  BY <1>1
<1>3. k * b = k * a + k * (b - a)
  BY <1>1
<1> QED BY <1>2, <1>3

LEMMA MeanBetween ==
  ASSUME NEW m \in Nat \ {0}, NEW E, Convex(E), NEW g \in [1 .. m -> E], NEW s, SumsUp(s, m, g)
  PROVE  s[m] \div m \in E
<1> DEFINE Between(n) == s[n] \in Int /\ \E a, b \in E : n * a <= s[n] /\ s[n] <= n * b
           G == {n \in 0 .. m : Between(n)}
<1>1. E \in SUBSET Int /\ \A a, b \in E : a .. b \in SUBSET E
  BY DEF Convex
<1>2. 0 \in G
  <2>1. 1 \in 1 .. m /\ s[0] = 0
    BY DEF SumsUp
  <2>2. g[1] \in E /\ g[1] \in Int
    BY <1>1, <2>1
  <2>3. 0 * g[1] = 0
    BY <2>2
  <2> QED BY <2>1, <2>2, <2>3
<1>3. ASSUME NEW n \in 1 .. m, n - 1 \in G PROVE n \in G
  <2>1. PICK a \in E, b \in E : (n - 1) * a <= s[n - 1] /\ s[n - 1] <= (n - 1) * b
    BY <1>3
  <2> DEFINE e == g[n]  c == IF e < a THEN e ELSE a  d == IF e > b THEN e ELSE b
  <2>2. e \in E /\ e \in Int /\ a \in Int /\ b \in Int /\ s[n - 1] \in Int /\ s[n] = s[n - 1] + e
    BY <1>1, <1>3 DEF SumsUp
  <2> HIDE DEF e
  <2>3. c \in E /\ d \in E /\ c \in Int /\ d \in Int /\ c <= a /\ c <= e /\ b <= d /\ e <= d
    BY <2>2
  <2> HIDE DEF c, d
  <2> DEFINE k == n - 1
  <2>4. k \in Nat /\ n = k + 1
    OBVIOUS
  <2>5. k * a <= s[k] /\ s[k] <= k * b /\ s[n] = s[k] + e /\ s[k] \in Int
    BY <2>1, <2>2
  <2> HIDE DEF k
  <2>6. k * c <= k * a /\ (k + 1) * c = k * c + c
    BY <2>2, <2>3, <2>4, Scaled
  <2>7. k * b <= k * d /\ (k + 1) * d = k * d + d
    <3>1. d <= d
      BY <2>3
    <3> QED BY <2>2, <2>3, <2>4, <3>1, Scaled
  <2>8. k * a \in Int /\ k * b \in Int /\ k * c \in Int /\ k * d \in Int
    BY <2>2, <2>3, <2>4
  <2> DEFINE ka == k * a  kb == k * b  kc == k * c  kd == k * d
  <2>9. n * c = kc + c /\ n * d = kd + d
    BY <2>4, <2>6, <2>7
  <2>10. kc <= ka /\ kb <= kd /\ ka <= s[k] /\ s[k] <= kb /\ ka \in Int /\ kb \in Int /\ kc \in Int /\ kd \in Int
    BY <2>5, <2>6, <2>7, <2>8
  <2> HIDE DEF ka, kb, kc, kd
  <2>11. n * c <= s[n] /\ s[n] <= n * d /\ s[n] \in Int
    BY <2>2, <2>3, <2>5, <2>9, <2>10
  <2> QED BY <2>3, <2>11
<1>4. m \in G
  <2>1. m \in Nat /\ m \in 0 .. m
    OBVIOUS
  <2> HIDE DEF G
  <2>2. \A n \in 0 .. m : n \in G
    BY <1>2, <1>3, <2>1, AllUpTo
  <2> QED BY <2>1, <2>2
<1>5. PICK a \in E, b \in E : m * a <= s[m] /\ s[m] <= m * b
  BY <1>4
<1> DEFINE q == s[m] \div m  r == s[m] % m
<1>6. s[m] \in Int /\ a \in Int /\ b \in Int
  BY <1>1, <1>4
<1>7. s[m] = m * q + r /\ r \in 0 .. m - 1 /\ q \in Int
  BY <1>6, DivMod
<1> HIDE DEF q, r
<1>8. q >= a
  <2> SUFFICES ASSUME q + 1 <= a PROVE FALSE
    BY <1>6, <1>7
  <2>1. m * (q + 1) <= m * a
    BY <1>6, <1>7, Scaled
  <2>2. m * (q + 1) = m * q + m
    BY <1>6, <1>7, Scaled
  <2> DEFINE mq == m * q  ma == m * a
  <2>3. mq + m <= ma /\ ma <= s[m] /\ s[m] = mq + r /\ mq \in Int /\ ma \in Int
    BY <1>5, <1>6, <1>7, <2>1, <2>2
  <2> HIDE DEF mq, ma
  <2> QED BY <1>6, <1>7, <2>3
<1>9. q <= b
  <2> SUFFICES ASSUME b + 1 <= q PROVE FALSE
    BY <1>6, <1>7
  <2>1. m * (b + 1) <= m * q
    BY <1>6, <1>7, Scaled
  <2>2. m * (b + 1) = m * b + m
    <3>1. b <= b
      BY <1>6
    <3> QED BY <1>6, <3>1, Scaled
  <2> DEFINE mq == m * q  mb == m * b
  <2>3. mb + m <= mq /\ s[m] <= mb /\ s[m] = mq + r /\ mq \in Int /\ mb \in Int
    BY <1>5, <1>6, <1>7, <2>1, <2>2
  <2> HIDE DEF mq, mb
  <2> QED BY <1>6, <1>7, <2>3
<1>10. q \in E
  <2>1. q \in a .. b
    BY <1>6, <1>7, <1>8, <1>9
  <2> QED BY <1>1, <2>1
<1> QED BY <1>10 DEF q

\* The recursive functions of Mean.
TimeTo(f, sel) ==
  CHOOSE time : time = [n \in 0 .. Len(sel) |-> IF n = 0 THEN 0 ELSE time[n - 1] + f.samples[sel[n]].time]
OffsetTo(f, sel) ==
  CHOOSE offset : offset = [n \in 0 .. Len(sel) |-> IF n = 0 THEN 0 ELSE offset[n - 1] + f.samples[sel[n]].offset]

LEMMA TimeSums ==
  ASSUME NEW f, NEW sel, Len(sel) \in Nat, NEW g \in [1 .. Len(sel) -> Int],
         \A n \in 1 .. Len(sel) : g[n] = f.samples[sel[n]].time
  PROVE  SumsUp(TimeTo(f, sel), Len(sel), g)
<1> DEFINE m == Len(sel)
           Value(s, n) == IF n = 0 THEN 0 ELSE s[n - 1] + f.samples[sel[n]].time
<1>1. PICK s \in [0 .. m -> Int] : SumsUp(s, m, g)
  BY SumsExist
<1>2. s = [n \in 0 .. m |-> Value(s, n)]
  <2>1. ASSUME NEW n \in 0 .. m PROVE s[n] = Value(s, n)
    <3>1. CASE n = 0
      BY <1>1, <3>1 DEF SumsUp
    <3>2. CASE n # 0
      <4>1. n \in 1 .. m
        BY <3>2
      <4> QED BY <1>1, <3>2, <4>1 DEF SumsUp
    <3> QED BY <3>1, <3>2
  <2> HIDE DEF Value
  <2> QED BY <1>1, <2>1
<1> DEFINE t == TimeTo(f, sel)
<1>3. t = [n \in 0 .. m |-> Value(t, n)]
  BY <1>2 DEF TimeTo
<1> HIDE DEF t
<1>4. t[0] = 0
  <2>1. 0 \in 0 .. m /\ Value(t, 0) = 0
    OBVIOUS
  <2> HIDE DEF Value
  <2> QED BY <1>3, <2>1
<1>5. ASSUME NEW n \in 1 .. m PROVE t[n] = t[n - 1] + g[n]
  <2>1. n \in 0 .. m /\ Value(t, n) = t[n - 1] + g[n]
    OBVIOUS
  <2> HIDE DEF Value
  <2> QED BY <1>3, <2>1
<1> QED BY <1>4, <1>5 DEF SumsUp, t

LEMMA OffsetSums ==
  ASSUME NEW f, NEW sel, Len(sel) \in Nat, NEW g \in [1 .. Len(sel) -> Int],
         \A n \in 1 .. Len(sel) : g[n] = f.samples[sel[n]].offset
  PROVE  SumsUp(OffsetTo(f, sel), Len(sel), g)
<1> DEFINE m == Len(sel)
           Value(s, n) == IF n = 0 THEN 0 ELSE s[n - 1] + f.samples[sel[n]].offset
<1>1. PICK s \in [0 .. m -> Int] : SumsUp(s, m, g)
  BY SumsExist
<1>2. s = [n \in 0 .. m |-> Value(s, n)]
  <2>1. ASSUME NEW n \in 0 .. m PROVE s[n] = Value(s, n)
    <3>1. CASE n = 0
      BY <1>1, <3>1 DEF SumsUp
    <3>2. CASE n # 0
      <4>1. n \in 1 .. m
        BY <3>2
      <4> QED BY <1>1, <3>2, <4>1 DEF SumsUp
    <3> QED BY <3>1, <3>2
  <2> HIDE DEF Value
  <2> QED BY <1>1, <2>1
<1> DEFINE t == OffsetTo(f, sel)
<1>3. t = [n \in 0 .. m |-> Value(t, n)]
  BY <1>2 DEF OffsetTo
<1> HIDE DEF t
<1>4. t[0] = 0
  <2>1. 0 \in 0 .. m /\ Value(t, 0) = 0
    OBVIOUS
  <2> HIDE DEF Value
  <2> QED BY <1>3, <2>1
<1>5. ASSUME NEW n \in 1 .. m PROVE t[n] = t[n - 1] + g[n]
  <2>1. n \in 0 .. m /\ Value(t, n) = t[n - 1] + g[n]
    OBVIOUS
  <2> HIDE DEF Value
  <2> QED BY <1>3, <2>1
<1> QED BY <1>4, <1>5 DEF SumsUp, t

\* Some sample is selected, and each of a full or long enough filter is of the ring.
LEMMA SelectedIsUsed ==
  ASSUME NEW L \in Nat \ {0}, NEW f, Ring(f, L), Clocks!Select(f) # <<>>
  PROVE  /\ Len(Clocks!Select(f)) \in Nat \ {0}
         /\ \A n \in 1 .. Len(Clocks!Select(f)) : Clocks!Select(f)[n] \in Clocks!Used(f)
<1> DEFINE sel == Clocks!Select(f)
<1>1. Clocks!Enough(f)
  BY DEF Clocks!Select
<1>2. sel \in Seq(0 .. f.used - 1)
  BY <1>1, SelectIs DEF Selects
<1> HIDE DEF sel
<1>3. Len(sel) \in Nat
  BY <1>2, LenProperties
<1>4. sel # <<>>
  BY DEF sel
<1>5. Len(sel) # 0
  BY <1>2, <1>4, EmptySeq
<1>6. \A n \in 1 .. Len(sel) : sel[n] \in Clocks!Used(f)
  BY <1>2, ElementOfSeq DEF Clocks!Used
<1> QED BY <1>3, <1>5, <1>6 DEF sel

LEMMA MeanIsBetween ==
  ASSUME NEW L \in Nat \ {0}, NEW f, Ring(f, L), Clocks!Select(f) # <<>>, NEW E, Convex(E)
  PROVE  /\ (\A i \in Clocks!Used(f) : f.samples[i].time \in E) => Clocks!Mean(f).time \in E
         /\ (\A i \in Clocks!Used(f) : f.samples[i].offset \in E) => Clocks!Mean(f).offset \in E
<1> DEFINE sel == Clocks!Select(f)  m == Len(sel)
<1>1. m \in Nat \ {0} /\ \A n \in 1 .. m : sel[n] \in Clocks!Used(f)
  BY SelectedIsUsed
<1>2. Clocks!Mean(f) = [time |-> TimeTo(f, sel)[m] \div m, offset |-> OffsetTo(f, sel)[m] \div m]
  BY DEF Clocks!Mean, TimeTo, OffsetTo
<1> HIDE DEF sel
<1>3. E \in SUBSET Int
  BY DEF Convex
<1>4. ASSUME \A i \in Clocks!Used(f) : f.samples[i].time \in E PROVE Clocks!Mean(f).time \in E
  <2> DEFINE g == [n \in 1 .. m |-> f.samples[sel[n]].time]
  <2>1. g \in [1 .. m -> E]
    BY <1>1, <1>4
  <2>2. g \in [1 .. m -> Int] /\ \A n \in 1 .. m : g[n] = f.samples[sel[n]].time
    BY <1>3, <2>1
  <2> HIDE DEF g
  <2>3. SumsUp(TimeTo(f, sel), m, g)
    BY <1>1, <2>2, TimeSums
  <2> HIDE DEF m
  <2>4. TimeTo(f, sel)[m] \div m \in E
    BY <1>1, <2>1, <2>3, MeanBetween
  <2> QED BY <1>2, <2>4
<1>5. ASSUME \A i \in Clocks!Used(f) : f.samples[i].offset \in E PROVE Clocks!Mean(f).offset \in E
  <2> DEFINE g == [n \in 1 .. m |-> f.samples[sel[n]].offset]
  <2>1. g \in [1 .. m -> E]
    BY <1>1, <1>5
  <2>2. g \in [1 .. m -> Int] /\ \A n \in 1 .. m : g[n] = f.samples[sel[n]].offset
    BY <1>3, <2>1
  <2> HIDE DEF g
  <2>3. SumsUp(OffsetTo(f, sel), m, g)
    BY <1>1, <2>2, OffsetSums
  <2> HIDE DEF m
  <2>4. OffsetTo(f, sel)[m] \div m \in E
    BY <1>1, <2>1, <2>3, MeanBetween
  <2> QED BY <1>2, <2>4
<1> QED BY <1>4, <1>5

-----------------------------------------------------------------------------
(* What holds of the filter of a clock while it errs by e at the time t: the    *)
(* samples in it, and the last one, are right unless a change left them behind; *)
(* and they are between what was passed and now.                                *)

\* The older a sample, the less its rank.
Ordered(f) ==
  \A i, k \in Clocks!Used(f) : Rank(f, i) < Rank(f, k) => f.samples[i].time < f.samples[k].time
Right(f, E, e) ==
  \A i \in 0 .. f.length - 1 :
    (i \in Clocks!Used(f) \/ i = f.last) /\ ~f.samples[i].left => f.samples[i].offset + e \in E
Timely(f, seen, t) ==
  \A i \in Clocks!Used(f) :
    f.samples[i].time < t /\ \A j \in 1 .. Len(seen) : f.samples[i].time > seen[j]
Passes(seen, t) == seen \in Seq(Int) /\ \A j \in 1 .. Len(seen) : seen[j] < t
FilterHolds(f, L, E, e, seen, t) ==
  Ring(f, L) /\ Ordered(f) /\ Right(f, E, e) /\ Timely(f, seen, t) /\ Passes(seen, t)

LEMMA RingIs ==
  ASSUME NEW L \in Nat \ {0}, NEW f, Ring(f, L)
  PROVE  /\ f \in RingOf(L)
         /\ f.length = L /\ f.index \in -1 .. L - 1 /\ f.used \in 0 .. L /\ f.last \in -1 .. L - 1
         /\ f.samples \in [0 .. L - 1 -> Taking]
         /\ \A i \in 0 .. L - 1 : /\ f.samples[i] \in Taking
                                  /\ f.samples[i].time \in Int /\ f.samples[i].offset \in Int
                                  /\ f.samples[i].dispersion \in Nat /\ f.samples[i].left \in BOOLEAN
         /\ f.index = f.used - 1 \/ (f.used = L /\ f.index >= 0)
         /\ \A i \in Clocks!Used(f) : i \in 0 .. L - 1
<1>1. f \in RingOf(L) /\ (f.index = f.used - 1 \/ (f.used = L /\ f.index >= 0))
  BY DEF Ring
<1>2. f.length = L /\ f.index \in -1 .. L - 1 /\ f.used \in 0 .. L /\ f.last \in -1 .. L - 1
      /\ f.samples \in [0 .. L - 1 -> Taking]
  BY <1>1 DEF RingOf
<1>3. \A i \in 0 .. L - 1 : f.samples[i] \in Taking
  BY <1>2
<1>4. \A s \in Taking : s.time \in Int /\ s.offset \in Int /\ s.dispersion \in Nat /\ s.left \in BOOLEAN
  BY DEF Taking
<1>5. \A i \in Clocks!Used(f) : i \in 0 .. L - 1
  BY <1>2 DEF Clocks!Used
<1> QED BY <1>1, <1>2, <1>3, <1>4, <1>5

LEMMA NewHolds ==
  ASSUME NEW L \in Nat \ {0}, NEW E, NEW e, NEW t
  PROVE  FilterHolds(Clocks!New(L), L, E, e, <<>>, t)
<1> DEFINE f == Clocks!New(L)
<1>1. f.used = 0 /\ f.index = -1 /\ f.last = -1 /\ f.length = L
  BY DEF Clocks!New
<1>2. Ring(f, L)
  <2>1. Clocks!Nothing \in Taking
    BY DEF Clocks!Nothing, Taking
  <2>2. f \in RingOf(L)
    BY <2>1 DEF Clocks!New, RingOf
  <2> QED BY <1>1, <2>2 DEF Ring
<1> HIDE DEF f
<1>3. Clocks!Used(f) = {}
  BY <1>1 DEF Clocks!Used
<1>4. Right(f, E, e)
  BY <1>1, <1>3 DEF Right
<1>5. Timely(f, <<>>, t)
  BY <1>3 DEF Timely
<1>6. Passes(<<>>, t)
  <2>1. <<>> \in Seq(Int) /\ 1 .. Len(<<>>) = {}
    OBVIOUS
  <2> QED BY <2>1 DEF Passes
<1>7. Ordered(f)
  BY <1>3 DEF Ordered
<1> QED BY <1>2, <1>4, <1>5, <1>6, <1>7 DEF FilterHolds, f

LEMMA AddIs ==
  ASSUME NEW L \in Nat \ {0}, NEW f, Ring(f, L), NEW s \in Taking
  PROVE  /\ Ring(Clocks!Add(f, s), L)
         /\ Clocks!Add(f, s).length = L
         /\ Clocks!Add(f, s).last \in 0 .. L - 1 /\ Clocks!Add(f, s).index = Clocks!Add(f, s).last
         /\ Clocks!Add(f, s).index = (IF f.index + 1 = L THEN 0 ELSE f.index + 1)
         /\ Clocks!Add(f, s).used = (IF f.used < L THEN f.used + 1 ELSE L)
         /\ Clocks!Add(f, s).samples[Clocks!Add(f, s).last] = s
         /\ \A i \in Clocks!Used(Clocks!Add(f, s)) : i = Clocks!Add(f, s).last \/ i \in Clocks!Used(f)
         /\ \A i \in 0 .. L - 1 : i # Clocks!Add(f, s).last => Clocks!Add(f, s).samples[i] = f.samples[i]
<1> DEFINE i == (f.index + 1) % L
           n == IF f.used + 1 < L THEN f.used + 1 ELSE L
           g == Clocks!Add(f, s)
<1>1. /\ f \in RingOf(L) /\ f.length = L /\ f.index \in -1 .. L - 1 /\ f.used \in 0 .. L
      /\ f.samples \in [0 .. L - 1 -> Taking]
      /\ f.index = f.used - 1 \/ (f.used = L /\ f.index >= 0)
  BY RingIs
<1>2. i = (IF f.index + 1 = L THEN 0 ELSE f.index + 1)
  <2>1. CASE f.index + 1 = L
    <3>1. 0 \in 0 .. L - 1 /\ f.index + 1 = 0 + L * 1 /\ 1 \in Int /\ f.index + 1 \in Int
      BY <1>1, <2>1
    <3> QED BY <2>1, <3>1, Remainder
  <2>2. CASE f.index + 1 # L
    <3>1. f.index + 1 \in 0 .. L - 1 /\ f.index + 1 = (f.index + 1) + L * 0 /\ 0 \in Int /\ f.index + 1 \in Int
      BY <1>1, <2>2
    <3>2. i = f.index + 1
      BY <3>1, Remainder
    <3> QED BY <2>2, <3>2
  <2> QED BY <2>1, <2>2
<1> HIDE DEF i
<1>3. i \in 0 .. L - 1
  BY <1>1, <1>2
<1>4. Clocks!Min({f.used + 1, L}) = n
  <2> DEFINE a == f.used + 1
  <2>1. a \in Int /\ n = IF a < L THEN a ELSE L
    BY <1>1
  <2> HIDE DEF a, n
  <2>2. n \in {a, L} /\ \A y \in {a, L} : n <= y
    BY <2>1
  <2>3. \A m \in {a, L} : (\A y \in {a, L} : m <= y) => m = n
    BY <2>1
  <2>4. Clocks!Min({a, L}) = n
    BY <2>2, <2>3 DEF Clocks!Min
  <2> QED BY <2>4 DEF a
<1> DEFINE samples == [f.samples EXCEPT ![i] = s]
<1>5. g = [f EXCEPT !.index = i, !.last = i, !.used = n, !.samples = samples]
  BY <1>1, <1>4 DEF Clocks!Add, i
<1>6. n \in 0 .. L /\ samples \in [0 .. L - 1 -> Taking]
  BY <1>1, <1>3
<1> HIDE DEF g, n, samples
<1>7. g \in RingOf(L) /\ g.index = i /\ g.last = i /\ g.used = n /\ g.length = L
      /\ g.samples = samples
  <2>2. g.index = i /\ g.last = i /\ g.used = n /\ g.length = L /\ g.samples = samples
    BY <1>1, <1>5 DEF RingOf
  <2>3. g \in RingOf(L)
    <3>1. i \in -1 .. L - 1
      BY <1>3
    <3> QED BY <1>1, <1>5, <1>6, <3>1 DEF RingOf
  <2> QED BY <2>2, <2>3
<1>8. Ring(g, L)
  <2>1. i = n - 1 \/ (n = L /\ i >= 0)
    BY <1>1, <1>2, <1>3 DEF n
  <2> QED BY <1>7, <2>1 DEF Ring
<1>9. g.samples[i] = s /\ \A k \in 0 .. L - 1 : k # i => g.samples[k] = f.samples[k]
  BY <1>1, <1>3, <1>7 DEF samples
<1>10. \A k \in Clocks!Used(g) : k = i \/ k \in Clocks!Used(f)
  <2> TAKE k \in Clocks!Used(g)
  <2>1. k \in 0 .. n - 1
    BY <1>7 DEF Clocks!Used
  <2>2. CASE f.used = L
    BY <1>1, <2>1, <2>2 DEF n, Clocks!Used
  <2>3. CASE f.used # L
    <3>1. i = f.used /\ n = f.used + 1
      BY <1>1, <1>2, <2>3 DEF n
    <3> QED BY <1>1, <2>1, <3>1 DEF Clocks!Used
  <2> QED BY <2>2, <2>3
<1>11. n = IF f.used < L THEN f.used + 1 ELSE L
  BY <1>1 DEF n
<1> QED BY <1>2, <1>3, <1>7, <1>8, <1>9, <1>10, <1>11 DEF g

\* The new sample is the last in the order of age, and the others keep theirs.
LEMMA AddOrdered ==
  ASSUME NEW L \in Nat \ {0}, NEW f, Ring(f, L), Ordered(f), NEW s \in Taking,
         \A i \in Clocks!Used(f) : f.samples[i].time < s.time
  PROVE  Ordered(Clocks!Add(f, s))
<1> DEFINE g == Clocks!Add(f, s)  i == g.last  u == f.used  n == g.used
<1>1. /\ f.index \in -1 .. L - 1 /\ u \in 0 .. L /\ (f.index = u - 1 \/ (u = L /\ f.index >= 0))
      /\ Clocks!Used(f) = 0 .. u - 1
  BY RingIs DEF Clocks!Used
<1>2. /\ Ring(g, L) /\ i \in 0 .. L - 1 /\ g.samples[i] = s
      /\ \A k \in Clocks!Used(g) : k = i \/ k \in Clocks!Used(f)
      /\ \A k \in 0 .. L - 1 : k # i => g.samples[k] = f.samples[k]
  BY AddIs
<1>3. g.index = i /\ i = (IF f.index + 1 = L THEN 0 ELSE f.index + 1) /\ n = (IF u < L THEN u + 1 ELSE L)
  BY AddIs
<1> HIDE DEF g, i, u, n
<1>4. Clocks!Used(g) = 0 .. n - 1
  BY DEF Clocks!Used, n
<1>5. i \in 0 .. n - 1 /\ n \in Nat \ {0} /\ i \in Int
  BY <1>1, <1>2, <1>3
<1>6. \A k \in 0 .. n - 1 : Rank(g, k) = IF k <= i THEN k + n - i - 1 ELSE k - i - 1
  <2> TAKE k \in 0 .. n - 1
  <2>1. g.used > 0 /\ k \in 0 .. g.used - 1
    BY <1>5 DEF n
  <2>2. Rank(g, k) = IF k <= g.index THEN k + g.used - g.index - 1 ELSE k - g.index - 1
    BY <1>2, <2>1, RankIs
  <2> QED BY <1>3, <2>2 DEF n
<1>7. \A k \in 0 .. u - 1 : Rank(f, k) = IF k <= f.index THEN k + u - f.index - 1 ELSE k - f.index - 1
  <2> TAKE k \in 0 .. u - 1
  <2>1. f.used > 0 /\ k \in 0 .. f.used - 1
    BY <1>1 DEF u
  <2>2. Rank(f, k) = IF k <= f.index THEN k + f.used - f.index - 1 ELSE k - f.index - 1
    BY <2>1, RankIs
  <2> QED BY <2>2 DEF u
<1>8. ASSUME NEW j \in 0 .. n - 1, NEW k \in 0 .. n - 1, Rank(g, j) < Rank(g, k)
      PROVE  g.samples[j].time < g.samples[k].time
  <2>1. j # i
    BY <1>5, <1>6, <1>8
  <2>2. j \in 0 .. u - 1 /\ g.samples[j] = f.samples[j]
    <3>1. j \in 0 .. u - 1
      BY <1>1, <1>2, <1>4, <2>1
    <3> QED BY <1>1, <1>2, <2>1, <3>1
  <2>3. CASE k = i
    BY <1>1, <1>2, <2>2, <2>3
  <2>4. CASE k # i
    <3>1. k \in 0 .. u - 1
      BY <1>1, <1>2, <1>4, <2>4
    <3>2. g.samples[k] = f.samples[k]
      BY <1>1, <1>2, <2>4, <3>1
    <3>3. Rank(f, j) < Rank(f, k)
      <4>1. Rank(f, j) - Rank(g, j) = Rank(f, k) - Rank(g, k) /\ Rank(f, j) \in Int /\ Rank(g, j) \in Int
            /\ Rank(f, k) \in Int /\ Rank(g, k) \in Int
        <5>1. /\ Rank(f, j) = (IF j <= f.index THEN j + u - f.index - 1 ELSE j - f.index - 1)
              /\ Rank(f, k) = (IF k <= f.index THEN k + u - f.index - 1 ELSE k - f.index - 1)
              /\ Rank(g, j) = (IF j <= i THEN j + n - i - 1 ELSE j - i - 1)
              /\ Rank(g, k) = (IF k <= i THEN k + n - i - 1 ELSE k - i - 1)
          BY <1>6, <1>7, <2>2, <3>1
        <5> DEFINE a == Rank(f, j)  b == Rank(f, k)  c == Rank(g, j)  e == Rank(g, k)  m == f.index
        <5>2. /\ a = (IF j <= m THEN j + u - m - 1 ELSE j - m - 1)
              /\ b = (IF k <= m THEN k + u - m - 1 ELSE k - m - 1)
              /\ c = (IF j <= i THEN j + n - i - 1 ELSE j - i - 1)
              /\ e = (IF k <= i THEN k + n - i - 1 ELSE k - i - 1)
          BY <5>1
        <5>3. L \in Int /\ u \in 0 .. L /\ j \in 0 .. u - 1 /\ k \in 0 .. u - 1 /\ m \in -1 .. L - 1 /\ j # i /\ k # i
          BY <1>1, <2>1, <2>2, <2>4, <3>1
        <5>4. \/ u < L /\ m = u - 1 /\ i = u /\ n = u + 1
              \/ u = L /\ m = L - 1 /\ i = 0 /\ n = L
              \/ u = L /\ m >= 0 /\ m < L - 1 /\ i = m + 1 /\ n = L
          BY <1>1, <1>3, <5>3
        <5> HIDE DEF a, b, c, e, m
        <5>5. a - c = b - e /\ a \in Int /\ b \in Int /\ c \in Int /\ e \in Int
          <6>1. CASE u < L /\ m = u - 1 /\ i = u /\ n = u + 1
            BY <5>2, <5>3, <6>1
          <6>2. CASE u = L /\ m = L - 1 /\ i = 0 /\ n = L
            BY <5>2, <5>3, <6>2
          <6>3. CASE u = L /\ m >= 0 /\ m < L - 1 /\ i = m + 1 /\ n = L
            BY <5>2, <5>3, <6>3
          <6> QED BY <5>4, <6>1, <6>2, <6>3
        <5> QED BY <5>5 DEF a, b, c, e
      <4> QED BY <1>8, <4>1
    <3> QED BY <1>1, <2>2, <3>1, <3>2, <3>3 DEF Ordered
  <2> QED BY <2>3, <2>4
<1> QED BY <1>4, <1>8 DEF Ordered, g

LEMMA AddHolds ==
  ASSUME NEW L \in Nat \ {0}, NEW f, NEW E, NEW e \in Int, NEW seen, NEW t \in Int, NEW later \in Int, t < later,
         FilterHolds(f, L, E, e, seen, t),
         NEW s \in Taking, s.time = t, ~s.left => s.offset + e \in E
  PROVE  FilterHolds(Clocks!Add(f, s), L, E, e, seen, later)
<1> DEFINE g == Clocks!Add(f, s)
<1>1. Ring(f, L) /\ Ordered(f) /\ Right(f, E, e) /\ Timely(f, seen, t) /\ Passes(seen, t)
  BY DEF FilterHolds
<1>2. /\ Ring(g, L) /\ g.length = L /\ g.last \in 0 .. L - 1 /\ g.samples[g.last] = s
      /\ \A i \in Clocks!Used(g) : i = g.last \/ i \in Clocks!Used(f)
      /\ \A i \in 0 .. L - 1 : i # g.last => g.samples[i] = f.samples[i]
  BY <1>1, AddIs
<1> HIDE DEF g
<1>3. f.length = L /\ \A i \in Clocks!Used(f) : i \in 0 .. L - 1 /\ f.samples[i].time \in Int
  BY <1>1, RingIs
<1>4. Right(g, E, e)
  <2>1. ASSUME NEW i \in 0 .. L - 1, i \in Clocks!Used(g) \/ i = g.last, ~g.samples[i].left
        PROVE  g.samples[i].offset + e \in E
    <3>1. CASE i = g.last
      BY <1>2, <2>1, <3>1
    <3>2. CASE i # g.last
      <4>1. i \in Clocks!Used(f) /\ g.samples[i] = f.samples[i]
        BY <1>2, <2>1, <3>2
      <4> QED BY <1>1, <1>3, <2>1, <4>1 DEF Right
    <3> QED BY <3>1, <3>2
  <2> QED BY <1>2, <2>1 DEF Right
<1>5. seen \in Seq(Int) /\ \A j \in 1 .. Len(seen) : seen[j] < t /\ seen[j] \in Int
  BY <1>1, ElementOfSeq DEF Passes
<1>6. Timely(g, seen, later)
  <2>1. ASSUME NEW i \in Clocks!Used(g)
        PROVE  g.samples[i].time < later /\ \A j \in 1 .. Len(seen) : g.samples[i].time > seen[j]
    <3>1. CASE i = g.last
      <4>1. g.samples[i].time = t
        BY <1>2, <3>1
      <4> QED BY <1>5, <4>1
    <3>2. CASE i # g.last
      <4>1. i \in Clocks!Used(f)
        BY <1>2, <2>1, <3>2
      <4>2. g.samples[i] = f.samples[i] /\ f.samples[i].time \in Int
        BY <1>2, <1>3, <3>2, <4>1
      <4>3. f.samples[i].time < t /\ \A j \in 1 .. Len(seen) : f.samples[i].time > seen[j]
        BY <1>1, <4>1 DEF Timely
      <4> QED BY <4>2, <4>3
    <3> QED BY <3>1, <3>2
  <2> QED BY <2>1 DEF Timely
<1>7. Passes(seen, later)
  BY <1>5 DEF Passes
<1>8. Ordered(g)
  BY <1>1, AddOrdered DEF Timely, g
<1> QED BY <1>2, <1>4, <1>6, <1>7, <1>8 DEF FilterHolds, g

LEMMA LaterHolds ==
  ASSUME NEW L \in Nat \ {0}, NEW f, NEW E, NEW e, NEW seen, NEW t \in Int, NEW later \in Int, t <= later,
         FilterHolds(f, L, E, e, seen, t)
  PROVE  FilterHolds(f, L, E, e, seen, later)
<1>1. Ring(f, L) /\ Ordered(f) /\ Right(f, E, e) /\ Timely(f, seen, t) /\ Passes(seen, t)
  BY DEF FilterHolds
<1>2. \A i \in Clocks!Used(f) : f.samples[i].time \in Int
  BY <1>1, RingIs
<1>3. \A j \in 1 .. Len(seen) : seen[j] \in Int
  BY <1>1, ElementOfSeq DEF Passes
<1>4. Timely(f, seen, later)
  BY <1>1, <1>2 DEF Timely
<1>5. Passes(seen, later)
  BY <1>1, <1>3 DEF Passes
<1> QED BY <1>1, <1>4, <1>5 DEF FilterHolds

LEMMA ResetHolds ==
  ASSUME NEW L \in Nat \ {0}, NEW f, NEW E, NEW e, NEW seen, NEW t, FilterHolds(f, L, E, e, seen, t),
         NEW next, Passes(next, t)
  PROVE  FilterHolds(Clocks!Reset(f), L, E, e, next, t)
<1> DEFINE g == Clocks!Reset(f)
<1>1. Ring(f, L) /\ Right(f, E, e)
  BY DEF FilterHolds
<1>2. f \in RingOf(L) /\ f.length = L
  BY <1>1, RingIs
<1>3. g \in RingOf(L) /\ g.index = -1 /\ g.used = 0 /\ g.last = f.last /\ g.samples = f.samples /\ g.length = L
  <2>1. g = [f EXCEPT !.index = -1, !.used = 0]
    BY DEF Clocks!Reset
  <2>2. -1 \in -1 .. L - 1 /\ 0 \in 0 .. L
    OBVIOUS
  <2> HIDE DEF g
  <2>3. g \in RingOf(L)
    BY <1>2, <2>1, <2>2 DEF RingOf
  <2>4. g.index = -1 /\ g.used = 0 /\ g.last = f.last /\ g.samples = f.samples /\ g.length = f.length
    BY <1>2, <2>1 DEF RingOf
  <2> QED BY <1>2, <2>3, <2>4
<1> HIDE DEF g
<1>4. Clocks!Used(g) = {}
  BY <1>3 DEF Clocks!Used
<1>5. Ring(g, L) /\ Ordered(g) /\ Right(g, E, e) /\ Timely(g, next, t)
  BY <1>1, <1>2, <1>3, <1>4 DEF Ring, Ordered, Right, Timely
<1> QED BY <1>5 DEF FilterHolds, g

\* What was passed moves with the clock.
MovedBack(seen, d) == [i \in DOMAIN seen |-> seen[i] - d]

SlewMakes(g, f, d, L) ==
  /\ Ring(g, L) /\ g.used = f.used /\ g.last = f.last /\ g.index = f.index /\ g.length = L
  /\ \A i \in Clocks!Used(f) : /\ g.samples[i].time = f.samples[i].time - d
                               /\ g.samples[i].offset = f.samples[i].offset + d
                               /\ g.samples[i].left = f.samples[i].left
  /\ \A i \in 0 .. L - 1 : i \notin Clocks!Used(f) /\ i = f.last => g.samples[i].left

LEMMA SlewIs ==
  ASSUME NEW L \in Nat \ {0}, NEW f, Ring(f, L), NEW d \in Int
  PROVE  SlewMakes(Clocks!Slew(f, d), f, d, L)
<1> DEFINE g == Clocks!Slew(f, d)
           s(i) == IF i \in Clocks!Used(f) THEN Clocks!Slewed(f.samples[i], d)
                   ELSE IF i = f.last THEN [f.samples[i] EXCEPT !.left = TRUE] ELSE f.samples[i]
<1>1. f \in RingOf(L) /\ f.length = L /\ f.samples \in [0 .. L - 1 -> Taking]
      /\ \A i \in Clocks!Used(f) : i \in 0 .. L - 1
  BY RingIs
<1>2. g = [f EXCEPT !.samples = [i \in 0 .. L - 1 |-> s(i)]]
  BY <1>1 DEF Clocks!Slew
<1>3. \A a \in Taking : /\ Clocks!Slewed(a, d) \in Taking /\ [a EXCEPT !.left = TRUE] \in Taking
                        /\ [a EXCEPT !.left = TRUE].left
                        /\ Clocks!Slewed(a, d).time = a.time - d /\ Clocks!Slewed(a, d).offset = a.offset + d
                        /\ Clocks!Slewed(a, d).left = a.left
  <2> TAKE a \in Taking
  <2> DEFINE b == Clocks!Slewed(a, d)  c == [a EXCEPT !.left = TRUE]
  <2>1. b = [a EXCEPT !.time = a.time - d, !.offset = a.offset + d] /\ a.time - d \in Int /\ a.offset + d \in Int
    BY DEF Taking, Clocks!Slewed
  <2>2. c \in Taking /\ c.left
    BY DEF Taking
  <2> HIDE DEF b, c
  <2>3. b \in Taking
    BY <2>1 DEF Taking
  <2>4. b.time = a.time - d /\ b.offset = a.offset + d /\ b.left = a.left
    BY <2>1 DEF Taking
  <2> QED BY <2>2, <2>3, <2>4 DEF b, c
<1>4. \A i \in 0 .. L - 1 : f.samples[i] \in Taking
  BY <1>1
<1>5. \A i \in 0 .. L - 1 : s(i) \in Taking
  BY <1>3, <1>4
<1>6. [i \in 0 .. L - 1 |-> s(i)] \in [0 .. L - 1 -> Taking]
  <2> HIDE DEF s
  <2> QED BY <1>5
<1> DEFINE samples == [i \in 0 .. L - 1 |-> s(i)]
<1>7. \A i \in 0 .. L - 1 : samples[i] = s(i)
  <2> HIDE DEF s
  <2> QED OBVIOUS
<1> HIDE DEF g, samples
<1>8. g \in RingOf(L) /\ g.index = f.index /\ g.last = f.last /\ g.used = f.used /\ g.length = L
      /\ g.samples = samples
  <2>1. samples \in [0 .. L - 1 -> Taking] /\ g = [f EXCEPT !.samples = samples]
    BY <1>2, <1>6 DEF samples
  <2>2. g.index = f.index /\ g.last = f.last /\ g.used = f.used /\ g.length = L /\ g.samples = samples
    BY <1>1, <2>1 DEF RingOf
  <2>3. g \in RingOf(L)
    BY <1>1, <2>1 DEF RingOf
  <2> QED BY <2>2, <2>3
<1>9. Ring(g, L)
  BY <1>8 DEF Ring
<1>10. \A i \in Clocks!Used(f) : /\ g.samples[i].time = f.samples[i].time - d
                                 /\ g.samples[i].offset = f.samples[i].offset + d
                                 /\ g.samples[i].left = f.samples[i].left
  <2> TAKE i \in Clocks!Used(f)
  <2>1. i \in 0 .. L - 1 /\ g.samples[i] = Clocks!Slewed(f.samples[i], d) /\ f.samples[i] \in Taking
    BY <1>1, <1>4, <1>7, <1>8
  <2> QED BY <1>3, <2>1
<1>11. ASSUME NEW i \in 0 .. L - 1, i \notin Clocks!Used(f), i = f.last PROVE g.samples[i].left
  <2>1. g.samples[i] = [f.samples[i] EXCEPT !.left = TRUE] /\ f.samples[i] \in Taking
    BY <1>4, <1>7, <1>8, <1>11
  <2> QED BY <1>3, <2>1
<1> QED BY <1>8, <1>9, <1>10, <1>11 DEF SlewMakes, g

LEMMA SlewHolds ==
  ASSUME NEW L \in Nat \ {0}, NEW f, NEW E, NEW e \in Int, NEW seen, NEW t \in Int, NEW d \in Int,
         FilterHolds(f, L, E, e, seen, t)
  PROVE  FilterHolds(Clocks!Slew(f, d), L, E, e - d, MovedBack(seen, d), t - d)
<1> DEFINE g == Clocks!Slew(f, d)  next == MovedBack(seen, d)
<1>1. Ring(f, L) /\ Ordered(f) /\ Right(f, E, e) /\ Timely(f, seen, t) /\ Passes(seen, t)
  BY DEF FilterHolds
<1>2. /\ Ring(g, L) /\ Clocks!Used(g) = Clocks!Used(f) /\ g.last = f.last /\ g.length = L
      /\ \A i \in Clocks!Used(f) : /\ g.samples[i].time = f.samples[i].time - d
                                   /\ g.samples[i].offset = f.samples[i].offset + d
                                   /\ g.samples[i].left = f.samples[i].left
      /\ \A i \in 0 .. L - 1 : i \notin Clocks!Used(f) /\ i = f.last => g.samples[i].left
  <2>1. SlewMakes(g, f, d, L)
    BY <1>1, SlewIs
  <2> QED BY <2>1 DEF SlewMakes, Clocks!Used
<1>3. /\ f.length = L
      /\ \A i \in Clocks!Used(f) : /\ i \in 0 .. L - 1 /\ f.samples[i].time \in Int
                                   /\ f.samples[i].offset \in Int
  BY <1>1, RingIs
<1> HIDE DEF g
<1>4. Right(g, E, e - d)
  <2>1. ASSUME NEW i \in 0 .. L - 1, i \in Clocks!Used(g) \/ i = g.last, ~g.samples[i].left
        PROVE  g.samples[i].offset + (e - d) \in E
    <3>1. i \in Clocks!Used(f)
      BY <1>2, <2>1
    <3>2. ~f.samples[i].left /\ g.samples[i].offset = f.samples[i].offset + d
      BY <1>2, <2>1, <3>1
    <3>3. f.samples[i].offset + e \in E
      BY <1>1, <1>3, <3>1, <3>2 DEF Right
    <3>4. g.samples[i].offset + (e - d) = f.samples[i].offset + e
      BY <1>3, <3>1, <3>2
    <3> QED BY <3>3, <3>4
  <2> QED BY <1>2, <2>1 DEF Right
<1>5. /\ seen \in Seq(Int) /\ Len(seen) \in Nat /\ DOMAIN seen = 1 .. Len(seen)
      /\ \A j \in 1 .. Len(seen) : seen[j] < t /\ seen[j] \in Int
  BY <1>1, ElementOfSeq, LenProperties DEF Passes
<1>6. /\ next \in Seq(Int) /\ Len(next) = Len(seen)
      /\ \A j \in 1 .. Len(seen) : next[j] = seen[j] - d
  <2>1. next = [j \in 1 .. Len(seen) |-> seen[j] - d]
    BY <1>5 DEF MovedBack
  <2>2. next \in [1 .. Len(seen) -> Int]
    BY <1>5, <2>1
  <2>3. next \in Seq(Int)
    BY <1>5, <2>2, SeqDef
  <2>4. DOMAIN next = 1 .. Len(seen)
    BY <2>1
  <2> HIDE DEF next
  <2>5. Len(next) = Len(seen)
    <3>1. Len(next) \in Nat /\ DOMAIN next = 1 .. Len(next)
      BY <2>3, LenProperties
    <3>2. \A j : j \in 1 .. Len(next) <=> j \in 1 .. Len(seen)
      BY <2>4, <3>1
    <3>3. ~(Len(next) > Len(seen))
      <4>1. Len(next) > Len(seen) => Len(next) \in 1 .. Len(next) /\ Len(next) \notin 1 .. Len(seen)
        BY <1>5, <3>1
      <4> QED BY <3>2, <4>1
    <3>4. ~(Len(seen) > Len(next))
      <4>1. Len(seen) > Len(next) => Len(seen) \in 1 .. Len(seen) /\ Len(seen) \notin 1 .. Len(next)
        BY <1>5, <3>1
      <4> QED BY <3>2, <4>1
    <3>5. Len(next) \in Nat /\ Len(seen) \in Nat
      BY <1>5, <3>1
    <3> QED BY <3>3, <3>4, <3>5
  <2> QED BY <2>1, <2>3, <2>5
<1> HIDE DEF next
<1>7. Timely(g, next, t - d)
  <2>1. ASSUME NEW i \in Clocks!Used(f)
        PROVE  g.samples[i].time < t - d /\ \A j \in 1 .. Len(seen) : g.samples[i].time > next[j]
    <3>1. f.samples[i].time < t /\ \A j \in 1 .. Len(seen) : f.samples[i].time > seen[j]
      BY <1>1 DEF Timely
    <3>2. g.samples[i].time = f.samples[i].time - d /\ f.samples[i].time \in Int
      BY <1>2, <1>3
    <3>3. g.samples[i].time < t - d
      BY <3>1, <3>2
    <3>4. ASSUME NEW j \in 1 .. Len(seen) PROVE g.samples[i].time > next[j]
      <4>1. seen[j] \in Int /\ next[j] = seen[j] - d
        BY <1>5, <1>6
      <4>2. f.samples[i].time > seen[j]
        BY <3>1
      <4> QED BY <3>2, <4>1, <4>2
    <3> QED BY <3>3, <3>4
  <2> QED BY <1>2, <1>6, <2>1 DEF Timely
<1>8. Passes(next, t - d)
  BY <1>5, <1>6 DEF Passes
<1>9. Ordered(g)
  <2>1. g.index = f.index /\ g.used = f.used
    BY <1>1, SlewIs DEF SlewMakes, g
  <2>2. \A i \in Clocks!Used(f) : Rank(g, i) = Rank(f, i)
    BY <2>1 DEF Rank, Clocks!ToRank
  <2> QED BY <1>1, <1>2, <1>3, <2>2 DEF Ordered
<1> QED BY <1>2, <1>4, <1>7, <1>8, <1>9 DEF FilterHolds, g, next

LEMMA DispersionHolds ==
  ASSUME NEW L \in Nat \ {0}, NEW f, NEW E, NEW e, NEW seen, NEW t, NEW d \in Nat,
         FilterHolds(f, L, E, e, seen, t)
  PROVE  FilterHolds(Clocks!AddDispersion(f, d), L, E, e, seen, t)
<1> DEFINE g == Clocks!AddDispersion(f, d)
           s(i) == IF i \in Clocks!Used(f) THEN Clocks!Dispersed(f.samples[i], d) ELSE f.samples[i]
<1>1. Ring(f, L) /\ Ordered(f) /\ Right(f, E, e) /\ Timely(f, seen, t) /\ Passes(seen, t)
  BY DEF FilterHolds
<1>2. f \in RingOf(L) /\ f.length = L /\ f.samples \in [0 .. L - 1 -> Taking]
      /\ \A i \in Clocks!Used(f) : i \in 0 .. L - 1
  BY <1>1, RingIs
<1>3. g = [f EXCEPT !.samples = [i \in 0 .. L - 1 |-> s(i)]]
  BY <1>2 DEF Clocks!AddDispersion
<1>4. \A a \in Taking : /\ Clocks!Dispersed(a, d) \in Taking
                        /\ Clocks!Dispersed(a, d).time = a.time
                        /\ Clocks!Dispersed(a, d).offset = a.offset
                        /\ Clocks!Dispersed(a, d).left = a.left
  BY DEF Taking, Clocks!Dispersed
<1>5. \A i \in 0 .. L - 1 : f.samples[i] \in Taking
  BY <1>2
<1>6. \A i \in 0 .. L - 1 : /\ s(i) \in Taking /\ s(i).time = f.samples[i].time
                            /\ s(i).offset = f.samples[i].offset /\ s(i).left = f.samples[i].left
  BY <1>4, <1>5
<1> DEFINE samples == [i \in 0 .. L - 1 |-> s(i)]
<1>7. samples \in [0 .. L - 1 -> Taking] /\ \A i \in 0 .. L - 1 : samples[i] = s(i)
  <2> HIDE DEF s
  <2> QED BY <1>6
<1> HIDE DEF s
<1> HIDE DEF g, samples
<1>8. g \in RingOf(L) /\ g.index = f.index /\ g.last = f.last /\ g.used = f.used /\ g.length = L
      /\ g.samples = samples
  <2>1. g = [f EXCEPT !.samples = samples]
    BY <1>3 DEF samples
  <2>2. g.index = f.index /\ g.last = f.last /\ g.used = f.used /\ g.length = L /\ g.samples = samples
    BY <1>2, <2>1 DEF RingOf
  <2>3. g \in RingOf(L)
    BY <1>2, <1>7, <2>1 DEF RingOf
  <2> QED BY <2>2, <2>3
<1>9. Ring(g, L) /\ Clocks!Used(g) = Clocks!Used(f)
  BY <1>1, <1>8 DEF Ring, Clocks!Used
<1>10. \A i \in 0 .. L - 1 : /\ g.samples[i].time = f.samples[i].time
                             /\ g.samples[i].offset = f.samples[i].offset /\ g.samples[i].left = f.samples[i].left
  BY <1>6, <1>7, <1>8
<1>11. Right(g, E, e)
  BY <1>1, <1>2, <1>8, <1>9, <1>10 DEF Right
<1>12. Timely(g, seen, t)
  BY <1>1, <1>2, <1>9, <1>10 DEF Timely
<1>13. Ordered(g)
  <2>1. \A i \in Clocks!Used(f) : Rank(g, i) = Rank(f, i)
    BY <1>8 DEF Rank, Clocks!ToRank
  <2> QED BY <1>1, <1>2, <1>9, <1>10, <2>1 DEF Ordered
<1> QED BY <1>1, <1>9, <1>11, <1>12, <1>13 DEF FilterHolds, g

\* What is passed is right, newer than all that was passed before, and no later than now.
LEMMA MeanHolds ==
  ASSUME NEW L \in Nat \ {0}, NEW f, NEW E, Convex(E), NEW e \in Int, NEW seen, NEW t \in Int,
         FilterHolds(f, L, E, e, seen, t), Clocks!Select(f) # <<>>
  PROVE  /\ Clocks!Mean(f).time \in Int /\ Clocks!Mean(f).time < t
         /\ ~(\E s \in {f.samples[i] : i \in Clocks!Used(f)} : s.left) => Clocks!Mean(f).offset + e \in E
<1>1. Ring(f, L) /\ Ordered(f) /\ Right(f, E, e) /\ Timely(f, seen, t) /\ Passes(seen, t)
  BY DEF FilterHolds
<1>2. /\ f.length = L
      /\ \A i \in Clocks!Used(f) : /\ i \in 0 .. L - 1 /\ f.samples[i].time \in Int
                                   /\ f.samples[i].offset \in Int
  BY <1>1, RingIs
<1>3. Clocks!Mean(f).time \in Int /\ Clocks!Mean(f).time < t
  <2> DEFINE B == {y \in Int : y < t}
  <2>1. Convex(B)
    BY DEF Convex
  <2>2. \A i \in Clocks!Used(f) : f.samples[i].time \in B
    BY <1>1, <1>2 DEF Timely
  <2>3. Clocks!Mean(f).time \in B
    <3> HIDE DEF B
    <3> QED BY <1>1, <2>1, <2>2, MeanIsBetween
  <2> QED BY <2>3
<1>4. ASSUME ~(\E s \in {f.samples[i] : i \in Clocks!Used(f)} : s.left) PROVE Clocks!Mean(f).offset + e \in E
  <2> DEFINE B == {y \in Int : y + e \in E}
  <2>1. Convex(B)
    <3>1. \A a, b \in E : a .. b \in SUBSET E
      BY DEF Convex
    <3>2. ASSUME NEW a \in B, NEW b \in B, NEW y \in a .. b PROVE y \in B
      <4>1. a \in Int /\ b \in Int /\ y \in Int /\ a + e \in E /\ b + e \in E
        OBVIOUS
      <4>2. y + e \in (a + e) .. (b + e)
        BY <3>2, <4>1
      <4> QED BY <3>1, <4>1, <4>2
    <3>3. \A a, b \in B : a .. b \in SUBSET B
      <4> HIDE DEF B
      <4> QED BY <3>2
    <3> QED BY <3>3 DEF Convex
  <2>2. \A i \in Clocks!Used(f) : f.samples[i].offset \in B
    <3> TAKE i \in Clocks!Used(f)
    <3>1. ~f.samples[i].left
      BY <1>4
    <3> QED BY <1>1, <1>2, <3>1 DEF Right
  <2>3. Clocks!Mean(f).offset \in B
    <3> HIDE DEF B
    <3> QED BY <1>1, <2>1, <2>2, MeanIsBetween
  <2> QED BY <2>3
<1> QED BY <1>3, <1>4

-----------------------------------------------------------------------------
(* The clocks. *)

LEMMA ClockConstants ==
  /\ 0 \in Clock /\ Clock \in SUBSET Nat
  /\ \A c \in Clock : FilterLength[c] \in Nat \ {0} /\ Convex(Clocks!Errors(c))
  /\ \A c \in Clock : \A e \in Clocks!Errors(c) : e \in Int /\ 5 * e <= 4 * Second /\ -5 * e <= 4 * Second
  /\ Second \in Nat \ {0} /\ Precision \in Nat
  /\ \A dt \in Elapse : dt \in Int /\ dt > 0
  /\ \A d \in ClockSteps : d \in Int
<1>1. /\ 0 \in Clock /\ Clock \in SUBSET Nat /\ FilterLength \in [Clock -> Nat \ {0}]
      /\ Second \in Nat \ {0} /\ Precision \in Nat
      /\ \A dt \in Elapse : dt \in Int /\ dt > 0
      /\ \A d \in ClockSteps : d \in Int
  BY MeasurementAssumption DEF Clocks!RefclockAssumption
<1>2. Noise \in SUBSET Int /\ (\A a, b \in Noise : a .. b \in SUBSET Noise)
      /\ \A e \in Noise : 5 * e <= 4 * Second /\ -5 * e <= 4 * Second
  BY MeasurementAssumption DEF Clocks!RefclockAssumption
<1>3. Convex(Noise)
  BY <1>2 DEF Convex
<1>4. Convex({0})
  BY DEF Convex
<1>5. \A c \in Clock : Clocks!Errors(c) = {0} \/ Clocks!Errors(c) = Noise
  BY DEF Clocks!Errors
<1>6. \A c \in Clock : Convex(Clocks!Errors(c))
  <2> TAKE c \in Clock
  <2>1. CASE Clocks!Errors(c) = {0}
    BY <1>4, <2>1
  <2>2. CASE Clocks!Errors(c) = Noise
    BY <1>3, <2>2
  <2> QED BY <1>5, <2>1, <2>2
<1>7. ASSUME NEW c \in Clock, NEW e \in Clocks!Errors(c)
      PROVE  e \in Int /\ 5 * e <= 4 * Second /\ -5 * e <= 4 * Second
  <2>1. CASE e \in Noise
    BY <1>2, <2>1
  <2>2. CASE e = 0
    BY <1>1, <2>2
  <2> QED BY <1>5, <1>7, <2>1, <2>2
<1> QED BY <1>1, <1>6, <1>7

\* All the filters f hold at t.
Holding(f, e, seen, t) ==
  /\ f = [c \in Clock |-> f[c]]
  /\ \A c \in Clock : FilterHolds(f[c], FilterLength[c], Clocks!Errors(c), e, seen[c], t)

Locks == [Clock -> Clock \cup {-1}]

PulsesInv ==
  /\ now \in Int /\ err \in Int /\ wrong = FALSE
  /\ lock_to \in Locks /\ lock_ref \in Locks
  /\ passed = [c \in Clock |-> passed[c]]
  /\ Holding(filter, err, passed, now)

LEMMA HoldingLater ==
  ASSUME NEW f, NEW e, NEW seen, NEW t \in Int, NEW later \in Int, t <= later, Holding(f, e, seen, t)
  PROVE  Holding(f, e, seen, later)
<1>1. ASSUME NEW c \in Clock PROVE FilterHolds(f[c], FilterLength[c], Clocks!Errors(c), e, seen[c], later)
  <2>1. FilterHolds(f[c], FilterLength[c], Clocks!Errors(c), e, seen[c], t) /\ FilterLength[c] \in Nat \ {0}
    BY ClockConstants DEF Holding
  <2> QED BY <2>1, LaterHolds
<1> QED BY <1>1 DEF Holding

\* One filter changes.
LEMMA HoldingExcept ==
  ASSUME NEW f, NEW e, NEW seen, NEW t, Holding(f, e, seen, t), NEW c \in Clock, NEW g,
         FilterHolds(g, FilterLength[c], Clocks!Errors(c), e, seen[c], t)
  PROVE  Holding([f EXCEPT ![c] = g], e, seen, t)
<1> DEFINE h == [f EXCEPT ![c] = g]
<1>1. f = [k \in Clock |-> f[k]]
  BY DEF Holding
<1>2. h[c] = g /\ (\A k \in Clock : k # c => h[k] = f[k]) /\ h = [k \in Clock |-> h[k]]
  BY <1>1
<1> HIDE DEF h
<1>3. ASSUME NEW k \in Clock PROVE FilterHolds(h[k], FilterLength[k], Clocks!Errors(k), e, seen[k], t)
  <2>1. CASE k = c
    BY <1>2, <2>1
  <2>2. CASE k # c
    <3>1. FilterHolds(f[k], FilterLength[k], Clocks!Errors(k), e, seen[k], t)
      BY DEF Holding
    <3> QED BY <1>2, <2>2, <3>1
  <2> QED BY <2>1, <2>2
<1>4. Holding(h, e, seen, t)
  BY <1>2, <1>3 DEF Holding
<1> QED BY <1>4 DEF h

\* A sample of the time now that is right, or of which a change left the reference behind.
LEMMA AddedHolds ==
  ASSUME PulsesInv, NEW c \in Clock, NEW dt \in Elapse, NEW offset \in Int, NEW left \in BOOLEAN,
         left \/ offset + err \in Clocks!Errors(c)
  PROVE  Holding([filter EXCEPT ![c] = Clocks!Add(filter[c], Clocks!Taken(offset, left))], err, passed, now + dt)
<1> DEFINE s == Clocks!Taken(offset, left)  later == now + dt
<1>1. now \in Int /\ err \in Int /\ later \in Int /\ now < later /\ now <= later
  BY ClockConstants DEF PulsesInv
<1>2. s \in Taking /\ s.time = now /\ s.offset = offset /\ s.left = left
  BY <1>1, ClockConstants DEF Clocks!Taken, Taking
<1> HIDE DEF s, later
<1>3. FilterHolds(filter[c], FilterLength[c], Clocks!Errors(c), err, passed[c], now) /\ FilterLength[c] \in Nat \ {0}
  BY ClockConstants DEF PulsesInv, Holding
<1>4. ~s.left => s.offset + err \in Clocks!Errors(c)
  BY <1>2
<1>5. FilterHolds(Clocks!Add(filter[c], s), FilterLength[c], Clocks!Errors(c), err, passed[c], later)
  BY <1>1, <1>2, <1>3, <1>4, AddHolds
<1>6. Holding(filter, err, passed, later)
  <2>1. Holding(filter, err, passed, now)
    BY DEF PulsesInv
  <2> QED BY <1>1, <2>1, HoldingLater
<1>7. Holding([filter EXCEPT ![c] = Clocks!Add(filter[c], s)], err, passed, later)
  BY <1>5, <1>6, HoldingExcept
<1> QED BY <1>7 DEF s, later

\* Where a second starts is known; which it is, when the clock errs by less than half of one.
LEMMA PulseOffsetIs ==
  ASSUME err \in Int
  PROVE  /\ Clocks!PulseOffset \in Int
         /\ \E k \in Int : Clocks!PulseOffset + err = Second * k
         /\ 2 * Clocks!Absolute(err) < Second => Clocks!PulseOffset + err = 0
<1> DEFINE o == (-err) % Second  d == (-err) \div Second
<1>1. Second \in Nat \ {0}
  BY ClockConstants
<1>2. -err = Second * d + o /\ o \in 0 .. Second - 1 /\ d \in Int
  <2> DEFINE w == -err
  <2>1. w \in Int
    OBVIOUS
  <2> HIDE DEF w
  <2>2. w = Second * (w \div Second) + (w % Second) /\ w % Second \in 0 .. Second - 1 /\ w \div Second \in Int
    BY <1>1, <2>1, DivMod
  <2> QED BY <2>2 DEF w
<1>3. Clocks!PulseOffset = IF 2 * o >= Second THEN o - Second ELSE o
  BY DEF Clocks!PulseOffset
<1> HIDE DEF o, d
<1>4. Clocks!PulseOffset \in Int
  BY <1>1, <1>2, <1>3
<1>5. \E k \in Int : Clocks!PulseOffset + err = Second * k
  <2>1. Second * (-d) = -(Second * d) /\ Second * (-d - 1) = -(Second * d) - Second
    BY <1>1, <1>2
  <2> DEFINE sd == Second * d
  <2>2. sd \in Int /\ err = -(sd + o)
    BY <1>1, <1>2
  <2>3. -d \in Int /\ -d - 1 \in Int
    BY <1>2
  <2>4. CASE 2 * o >= Second
    <3>1. Clocks!PulseOffset + err = -sd - Second
      <4> HIDE DEF sd
      <4> QED BY <1>1, <1>2, <1>3, <2>2, <2>4
    <3> QED BY <2>1, <2>3, <3>1
  <2>5. CASE ~(2 * o >= Second)
    <3>1. Clocks!PulseOffset + err = -sd
      <4> HIDE DEF sd
      <4> QED BY <1>1, <1>2, <1>3, <2>2, <2>5
    <3> QED BY <2>1, <2>3, <3>1
  <2> QED BY <2>4, <2>5
<1>6. ASSUME 2 * Clocks!Absolute(err) < Second PROVE Clocks!PulseOffset + err = 0
  <2>1. PICK k \in Int : Clocks!PulseOffset + err = Second * k
    BY <1>5
  <2>2. 2 * err < Second /\ -2 * err < Second
    BY <1>1, <1>6 DEF Clocks!Absolute
  <2>3. 2 * Clocks!PulseOffset < Second /\ 2 * Clocks!PulseOffset >= -Second
    BY <1>1, <1>2, <1>3
  <2> DEFINE sk == Second * k
  <2>4. sk < Second /\ -Second < sk
    <3>1. Clocks!PulseOffset + err = sk
      BY <2>1
    <3> HIDE DEF sk
    <3> QED BY <1>1, <1>4, <2>2, <2>3, <3>1
  <2>5. k = 0
    BY <1>1, <2>4, SmallMultiple
  <2> QED BY <1>1, <2>1, <2>5
<1> QED BY <1>4, <1>5, <1>6

LEMMA AlignedIs ==
  ASSUME NEW offset \in Int, NEW ref \in Int
  PROVE  Clocks!Aligned(offset, ref) \in Int /\ \E k \in Int : Clocks!Aligned(offset, ref) = offset + Second * k
<1> DEFINE d == ref - offset
           w == 2 * Clocks!Absolute(d) + Second
           b == 2 * Second
           n == w \div b
           k == IF d < 0 THEN -n ELSE n
<1>1. Second \in Nat \ {0}
  BY ClockConstants
<1>2. w \in Int /\ b \in Nat \ {0}
  BY <1>1 DEF Clocks!Absolute
<1>3. n \in Int
  <2> HIDE DEF w, b
  <2> QED BY <1>2, DivMod
<1>4. Clocks!Aligned(offset, ref) = offset + Second * k
  BY DEF Clocks!Aligned
<1> HIDE DEF n
<1>5. k \in Int
  BY <1>3
<1> HIDE DEF k
<1>6. Second * k \in Int
  BY <1>1, <1>5
<1> QED BY <1>4, <1>5, <1>6

\* A pulse that agrees with its reference to less than a fifth of a second is of
\* the second the reference is of, and of the right one.
LEMMA AgreedPulseIsRight ==
  ASSUME err \in Int, NEW r \in Int, r + err \in Int, 5 * (r + err) <= 4 * Second, -5 * (r + err) <= 4 * Second,
         NEW more \in Nat,
         5 * (Clocks!Absolute(r - Clocks!Aligned(Clocks!PulseOffset, r)) + more) < Second
  PROVE  Clocks!Aligned(Clocks!PulseOffset, r) + err = 0
<1> DEFINE o == Clocks!PulseOffset  a == Clocks!Aligned(o, r)
<1>1. Second \in Nat \ {0}
  BY ClockConstants
<1>2. o \in Int
  BY PulseOffsetIs
<1>3. PICK j \in Int : o + err = Second * j
  BY PulseOffsetIs
<1> HIDE DEF o
<1>4. a \in Int
  BY <1>2, AlignedIs
<1>5. PICK k \in Int : a = o + Second * k
  BY <1>2, AlignedIs
<1>6. 5 * (Clocks!Absolute(r - a) + more) < Second
  BY DEF o
<1> HIDE DEF a
<1>7. Second * (j + k) = Second * j + Second * k
  BY <1>1
<1> DEFINE sj == Second * j  sk == Second * k  z == Second * (j + k)
<1>8. sj \in Int /\ sk \in Int /\ o + err = sj /\ a = o + sk /\ z = sj + sk
  BY <1>1, <1>3, <1>5, <1>7
<1>9. z = a + err
  <2> HIDE DEF sj, sk, z
  <2> QED BY <1>2, <1>8
<1>10. z < Second /\ -Second < z
  <2>1. 5 * (r - a) < Second /\ 5 * (a - r) < Second
    BY <1>1, <1>4, <1>6 DEF Clocks!Absolute
  <2> HIDE DEF z
  <2> QED BY <1>1, <1>4, <1>9, <2>1
<1>11. j + k = 0
  <2>1. j + k \in Int
    OBVIOUS
  <2> QED BY <1>1, <1>10, <2>1, SmallMultiple
<1>12. z = 0
  BY <1>1, <1>11
<1> QED BY <1>9, <1>12 DEF a, o

LEMMA AddPulseHolds ==
  ASSUME PulsesInv, NEW c \in Clock, c \in Pps, NEW dt \in Elapse, NEW near \in BOOLEAN,
         near => 2 * Clocks!Absolute(err) < Second
  PROVE  Holding(Clocks!AddPulse(filter, c, near), err, passed, now + dt)
<1> DEFINE later == now + dt  o == Clocks!PulseOffset
<1>1. now \in Int /\ err \in Int /\ later \in Int /\ now <= later
  BY ClockConstants DEF PulsesInv
<1>2. Holding(filter, err, passed, now) /\ Holding(filter, err, passed, later)
  <2>1. Holding(filter, err, passed, now)
    BY DEF PulsesInv
  <2> HIDE DEF later
  <2> QED BY <1>1, <2>1, HoldingLater
<1>3. Clocks!Errors(c) = {0}
  BY DEF Clocks!Errors
<1>4. o \in Int
  BY <1>1, PulseOffsetIs
<1> HIDE DEF o
<1>5. CASE lock_ref[c] = -1 /\ near
  <2>1. o + err \in Clocks!Errors(c)
    BY <1>1, <1>3, <1>5, PulseOffsetIs DEF o
  <2>2. Clocks!AddPulse(filter, c, near) = [filter EXCEPT ![c] = Clocks!Add(filter[c], Clocks!Taken(o, FALSE))]
    BY <1>5 DEF Clocks!AddPulse, o
  <2>3. FALSE \in BOOLEAN
    OBVIOUS
  <2> QED BY <1>4, <2>1, <2>2, <2>3, AddedHolds
<1>6. CASE lock_ref[c] = -1 /\ ~near
  <2>1. Clocks!AddPulse(filter, c, near) = [filter EXCEPT ![c] = Clocks!Reset(filter[c])]
    BY <1>6 DEF Clocks!AddPulse
  <2>2. FilterHolds(filter[c], FilterLength[c], Clocks!Errors(c), err, passed[c], later) /\ FilterLength[c] \in Nat \ {0}
    BY <1>2, ClockConstants DEF Holding
  <2>3. Passes(passed[c], later)
    BY <2>2 DEF FilterHolds
  <2> HIDE DEF later
  <2>4. FilterHolds(Clocks!Reset(filter[c]), FilterLength[c], Clocks!Errors(c), err, passed[c], later)
    BY <2>2, <2>3, ResetHolds
  <2>5. Holding([filter EXCEPT ![c] = Clocks!Reset(filter[c])], err, passed, later)
    BY <1>2, <2>4, HoldingExcept
  <2> QED BY <2>1, <2>5 DEF later
<1>7. CASE lock_ref[c] # -1
  <2> DEFINE k == lock_ref[c]  r == filter[k]  ref == r.samples[r.last]
             a == Clocks!Aligned(o, ref.offset)
             Agrees == /\ r.last >= 0 /\ Clocks!Absolute(now - ref.time) < 2 * Second
                       /\ 5 * (Clocks!Absolute(ref.offset - a) + ref.dispersion + Precision) < Second
  <2>1. k \in Clock
    BY <1>7 DEF PulsesInv, Locks
  <2>2. Clocks!AddPulse(filter, c, near)
          = IF Agrees THEN [filter EXCEPT ![c] = Clocks!Add(filter[c], Clocks!Taken(a, ref.left))] ELSE filter
    BY <1>7 DEF Clocks!AddPulse, Clocks!LastSample, Clocks!HasLast, o
  <2>3. CASE ~Agrees
    BY <1>2, <2>2, <2>3
  <2>4. CASE Agrees
    <3> DEFINE L == FilterLength[k]
    <3>1. L \in Nat \ {0} /\ Ring(r, L) /\ Right(r, Clocks!Errors(k), err)
      BY <1>2, <2>1, ClockConstants DEF Holding, FilterHolds
    <3>2. r.length = L /\ r.last \in 0 .. L - 1
      <4>1. r.length = L /\ r.last \in -1 .. L - 1
        BY <3>1, RingIs
      <4> QED BY <2>4, <3>1, <4>1
    <3>3. ref.offset \in Int /\ ref.dispersion \in Nat /\ ref.left \in BOOLEAN
      BY <3>1, <3>2, RingIs
    <3>4. a \in Int
      BY <1>4, <3>3, AlignedIs
    <3>5. ~ref.left => a + err \in Clocks!Errors(c)
      <4> SUFFICES ASSUME ~ref.left PROVE a + err = 0
        BY <1>3
      <4>1. ref.offset + err \in Clocks!Errors(k)
        BY <3>1, <3>2 DEF Right
      <4>2. ref.offset + err \in Int /\ 5 * (ref.offset + err) <= 4 * Second /\ -5 * (ref.offset + err) <= 4 * Second
        BY <2>1, <4>1, ClockConstants
      <4> DEFINE more == ref.dispersion + Precision  q == ref.offset
      <4>3. more \in Nat /\ Clocks!Absolute(q - a) \in Int
        BY <3>3, <3>4, ClockConstants DEF Clocks!Absolute
      <4>4. 5 * (Clocks!Absolute(q - a) + more) < Second
        BY <2>4, <3>3, <4>3, ClockConstants
      <4> HIDE DEF more, r
      <4>5. Clocks!Aligned(o, q) + err = 0
        <5> HIDE DEF q
        <5>1. q \in Int /\ q + err \in Int /\ 5 * (q + err) <= 4 * Second /\ -5 * (q + err) <= 4 * Second
          BY <3>3, <4>2 DEF q
        <5> QED BY <1>1, <4>3, <4>4, <5>1, AgreedPulseIsRight DEF o, q
      <4> QED BY <4>5
    <3> HIDE DEF a, r, Agrees
    <3>6. ref.left \/ a + err \in Clocks!Errors(c)
      BY <3>5
    <3>7. Holding([filter EXCEPT ![c] = Clocks!Add(filter[c], Clocks!Taken(a, ref.left))], err, passed, now + dt)
      BY <3>3, <3>4, <3>6, AddedHolds
    <3> QED BY <2>2, <2>4, <3>7
  <2> QED BY <2>3, <2>4
<1> QED BY <1>5, <1>6, <1>7

LEMMA ReceivedHolds ==
  ASSUME PulsesInv, NEW c \in Clock, NEW dt \in Elapse, NEW f \in Clocks!Received(c)
  PROVE  Holding(f, err, passed, now + dt)
<1>1. CASE c \in Pps
  <2>1. PICK near \in BOOLEAN : (near => 2 * Clocks!Absolute(err) < Second) /\ f = Clocks!AddPulse(filter, c, near)
    BY <1>1 DEF Clocks!Received
  <2> QED BY <1>1, <2>1, AddPulseHolds
<1>2. CASE c \notin Pps
  <2>1. PICK noise \in Noise : f = Clocks!AddSample(filter, c, noise)
    BY <1>2 DEF Clocks!Received
  <2> DEFINE offset == -err + noise
  <2>2. noise \in Clocks!Errors(c)
    BY <1>2 DEF Clocks!Errors
  <2>3. noise \in Int /\ err \in Int
    BY <2>2, ClockConstants DEF PulsesInv
  <2>4. offset \in Int /\ offset + err \in Clocks!Errors(c)
    <3>1. offset + err = noise
      BY <2>3
    <3> QED BY <2>2, <2>3, <3>1
  <2>5. f = [filter EXCEPT ![c] = Clocks!Add(filter[c], Clocks!Taken(offset, FALSE))]
    BY <2>1 DEF Clocks!AddSample
  <2>6. FALSE \in BOOLEAN
    OBVIOUS
  <2> HIDE DEF offset
  <2> QED BY <2>4, <2>5, <2>6, AddedHolds
<1> QED BY <1>1, <1>2

LEMMA PollHolds ==
  ASSUME PulsesInv, NEW c \in Clock, NEW dt \in Elapse, now' = now + dt, err' = err,
         NEW f, Holding(f, err, passed, now + dt), Clocks!Poll(c, f)
  PROVE  wrong' = FALSE /\ passed' = [k \in Clock |-> passed'[k]] /\ Holding(filter', err', passed', now')
<1> DEFINE later == now + dt
<1>1. now \in Int /\ err \in Int /\ later \in Int /\ wrong = FALSE /\ passed = [k \in Clock |-> passed[k]]
  BY ClockConstants DEF PulsesInv
<1>2. Holding(f, err, passed, later)
  OBVIOUS
<1>3. CASE filter' = f /\ passed' = passed /\ wrong' = wrong
  BY <1>1, <1>2, <1>3
<1>4. CASE /\ Clocks!Select(f[c]) # <<>>
           /\ filter' = [f EXCEPT ![c] = Clocks!Reset(f[c])]
           /\ passed' = [passed EXCEPT ![c] = <<Clocks!Mean(f[c]).time>>]
           /\ wrong' = (wrong \/ ((~\E s \in {f[c].samples[i] : i \in Clocks!Used(f[c])} : s.left)
                                  /\ Clocks!Mean(f[c]).offset + err \notin Clocks!Errors(c)))
  <2> DEFINE m == Clocks!Mean(f[c])
  <2>1. FilterHolds(f[c], FilterLength[c], Clocks!Errors(c), err, passed[c], later)
        /\ FilterLength[c] \in Nat \ {0} /\ Convex(Clocks!Errors(c))
    BY <1>2, ClockConstants DEF Holding
  <2> HIDE DEF later
  <2>2. m.time \in Int /\ m.time < later
    BY <1>1, <1>4, <2>1, MeanHolds
  <2>3. ~(\E s \in {f[c].samples[i] : i \in Clocks!Used(f[c])} : s.left) => m.offset + err \in Clocks!Errors(c)
    BY <1>1, <1>4, <2>1, MeanHolds
  <2> HIDE DEF m
  <2>4. wrong' = FALSE
    BY <1>1, <1>4, <2>3 DEF m
  <2>5. Passes(<<m.time>>, later)
    <3>1. <<m.time>> \in Seq(Int) /\ 1 .. Len(<<m.time>>) = {1} /\ <<m.time>>[1] = m.time
      BY <2>2
    <3> QED BY <2>2, <3>1 DEF Passes
  <2>6. FilterHolds(Clocks!Reset(f[c]), FilterLength[c], Clocks!Errors(c), err, <<m.time>>, later)
    BY <2>1, <2>5, ResetHolds
  <2>7. f = [k \in Clock |-> f[k]]
    BY <1>2 DEF Holding
  <2>8. /\ filter'[c] = Clocks!Reset(f[c]) /\ passed'[c] = <<m.time>>
        /\ \A k \in Clock : k # c => filter'[k] = f[k] /\ passed'[k] = passed[k]
        /\ filter' = [k \in Clock |-> filter'[k]] /\ passed' = [k \in Clock |-> passed'[k]]
    <3>1. filter'[c] = Clocks!Reset(f[c]) /\ (\A k \in Clock : k # c => filter'[k] = f[k])
          /\ filter' = [k \in Clock |-> filter'[k]]
      BY <1>4, <2>7
    <3>2. passed'[c] = <<m.time>> /\ (\A k \in Clock : k # c => passed'[k] = passed[k])
          /\ passed' = [k \in Clock |-> passed'[k]]
      BY <1>1, <1>4 DEF m
    <3> QED BY <3>1, <3>2
  <2>9. ASSUME NEW k \in Clock
        PROVE  FilterHolds(filter'[k], FilterLength[k], Clocks!Errors(k), err, passed'[k], later)
    <3>1. CASE k = c
      BY <2>6, <2>8, <3>1
    <3>2. CASE k # c
      <4>1. FilterHolds(f[k], FilterLength[k], Clocks!Errors(k), err, passed[k], later)
        BY <1>2 DEF Holding
      <4> QED BY <2>8, <3>2, <4>1
    <3> QED BY <3>1, <3>2
  <2>10. Holding(filter', err, passed', later)
    BY <2>8, <2>9 DEF Holding
  <2> QED BY <2>4, <2>8, <2>10 DEF later
<1> QED BY <1>3, <1>4 DEF Clocks!Poll

LEMMA PulsesInit == Clocks!Init => PulsesInv
<1> SUFFICES ASSUME Clocks!Init PROVE PulsesInv
  OBVIOUS
<1>1. now = 0 /\ wrong = FALSE /\ err \in {0} \cup ClockSteps /\ passed = [c \in Clock |-> <<>>]
      /\ lock_ref = [c \in Clock |-> 0] /\ lock_to \in [Clock -> Clock \cup {-1}]
      /\ filter = [c \in Clock |-> Clocks!New(FilterLength[c])]
  BY DEF Clocks!Init
<1>2. now \in Int /\ err \in Int /\ lock_to \in Locks /\ lock_ref \in Locks
  BY <1>1, ClockConstants DEF Locks
<1>3. filter = [c \in Clock |-> filter[c]] /\ passed = [c \in Clock |-> passed[c]]
  BY <1>1
<1>4. ASSUME NEW c \in Clock
      PROVE  FilterHolds(filter[c], FilterLength[c], Clocks!Errors(c), err, passed[c], now)
  <2>1. filter[c] = Clocks!New(FilterLength[c]) /\ passed[c] = <<>> /\ FilterLength[c] \in Nat \ {0}
    BY <1>1, ClockConstants
  <2> QED BY <2>1, NewHolds
<1>5. Holding(filter, err, passed, now)
  BY <1>3, <1>4 DEF Holding
<1> QED BY <1>1, <1>2, <1>3, <1>5 DEF PulsesInv

LEMMA PulsesNext == PulsesInv /\ [Clocks!Next]_clockVars => PulsesInv'
<1> SUFFICES ASSUME PulsesInv, [Clocks!Next]_clockVars PROVE PulsesInv'
  OBVIOUS
<1>0. /\ now \in Int /\ err \in Int /\ wrong = FALSE /\ lock_to \in Locks /\ lock_ref \in Locks
      /\ passed = [c \in Clock |-> passed[c]] /\ Holding(filter, err, passed, now)
  BY DEF PulsesInv
<1> DEFINE Result == /\ now' \in Int /\ err' \in Int /\ wrong' = FALSE /\ lock_to' \in Locks /\ lock_ref' \in Locks
                     /\ passed' = [c \in Clock |-> passed'[c]] /\ Holding(filter', err', passed', now')
<1>1. Result => PulsesInv'
  BY DEF PulsesInv, Holding, Locks, Clocks!Errors
<1>2. CASE UNCHANGED clockVars
  BY <1>0, <1>1, <1>2 DEF clockVars
<1>3. CASE Clocks!StartRefclocks
  BY <1>0, <1>1, <1>3 DEF Clocks!StartRefclocks
<1>4. ASSUME NEW c \in Clock, NEW dt \in Elapse, Clocks!DriverReads(c, dt) PROVE PulsesInv'
  <2>1. now' = now + dt /\ filter' \in Clocks!Received(c)
        /\ UNCHANGED <<lock_to, lock_ref, err, passed, wrong>>
    BY <1>4 DEF Clocks!DriverReads, Clocks!Event
  <2>2. Holding(filter', err, passed, now + dt)
    BY <2>1, ReceivedHolds
  <2>3. now' \in Int
    BY <1>0, <2>1, ClockConstants
  <2> QED BY <1>0, <1>1, <2>1, <2>2, <2>3
<1>5. ASSUME NEW c \in Clock, NEW dt \in Elapse, Clocks!PollTimeout(c, dt) PROVE PulsesInv'
  <2>1. now' = now + dt /\ UNCHANGED <<lock_to, lock_ref, err>>
    BY <1>5 DEF Clocks!PollTimeout, Clocks!Event
  <2>2. now' \in Int /\ now + dt \in Int /\ now <= now + dt
    BY <1>0, <2>1, ClockConstants
  <2>3. PICK f : f \in {filter} \cup Clocks!Received(c) /\ Clocks!Poll(c, f)
    <3>1. PICK f \in {filter} \cup IF DriverPolls[c] > 0 THEN Clocks!Received(c) ELSE {} : Clocks!Poll(c, f)
      BY <1>5 DEF Clocks!PollTimeout
    <3> QED BY <3>1
  <2>4. Holding(f, err, passed, now + dt)
    <3>1. CASE f = filter
      BY <1>0, <2>2, <3>1, HoldingLater
    <3>2. CASE f \in Clocks!Received(c)
      BY <3>2, ReceivedHolds
    <3> QED BY <2>3, <3>1, <3>2
  <2>5. wrong' = FALSE /\ passed' = [k \in Clock |-> passed'[k]] /\ Holding(filter', err', passed', now')
    BY <2>1, <2>3, <2>4, PollHolds
  <2> QED BY <1>0, <1>1, <2>1, <2>2, <2>5
<1>6. ASSUME NEW d \in ClockSteps, Clocks!SlewSamples(d) PROVE PulsesInv'
  <2>1. /\ now' = now + (-d) /\ err' = err - d /\ UNCHANGED <<lock_to, lock_ref, wrong>>
        /\ filter' = [c \in Clock |-> Clocks!Slew(filter[c], d)]
        /\ passed' = [c \in Clock |-> MovedBack(passed[c], d)]
    BY <1>6 DEF Clocks!SlewSamples, Clocks!Event, MovedBack
  <2>2. d \in Int /\ now' = now - d /\ now' \in Int /\ err' \in Int
    BY <1>0, <2>1, ClockConstants
  <2>3. ASSUME NEW c \in Clock
        PROVE  FilterHolds(filter'[c], FilterLength[c], Clocks!Errors(c), err', passed'[c], now')
    <3>1. FilterHolds(filter[c], FilterLength[c], Clocks!Errors(c), err, passed[c], now) /\ FilterLength[c] \in Nat \ {0}
      BY <1>0, ClockConstants DEF Holding
    <3>2. FilterHolds(Clocks!Slew(filter[c], d), FilterLength[c], Clocks!Errors(c), err - d, MovedBack(passed[c], d), now - d)
      BY <1>0, <2>2, <3>1, SlewHolds
    <3>3. filter'[c] = Clocks!Slew(filter[c], d) /\ passed'[c] = MovedBack(passed[c], d)
      BY <2>1
    <3> QED BY <2>1, <2>2, <3>2, <3>3
  <2>4. filter' = [c \in Clock |-> filter'[c]] /\ passed' = [c \in Clock |-> passed'[c]]
    BY <2>1
  <2>5. Holding(filter', err', passed', now')
    BY <2>3, <2>4 DEF Holding
  <2> QED BY <1>0, <1>1, <2>1, <2>2, <2>4, <2>5
<1>7. ASSUME Clocks!Dispersion(1) PROVE PulsesInv'
  <2>1. /\ now' = now + 0 /\ UNCHANGED <<lock_to, lock_ref, err, passed, wrong>>
        /\ filter' = [c \in Clock |-> Clocks!AddDispersion(filter[c], 1)]
    BY <1>7 DEF Clocks!Dispersion, Clocks!Event
  <2>2. ASSUME NEW c \in Clock
        PROVE  FilterHolds(filter'[c], FilterLength[c], Clocks!Errors(c), err, passed[c], now)
    <3>1. FilterHolds(filter[c], FilterLength[c], Clocks!Errors(c), err, passed[c], now) /\ FilterLength[c] \in Nat \ {0}
      BY <1>0, ClockConstants DEF Holding
    <3>2. 1 \in Nat
      OBVIOUS
    <3>3. FilterHolds(Clocks!AddDispersion(filter[c], 1), FilterLength[c], Clocks!Errors(c), err, passed[c], now)
      BY <3>1, <3>2, DispersionHolds
    <3>4. filter'[c] = Clocks!AddDispersion(filter[c], 1)
      BY <2>1
    <3> QED BY <3>3, <3>4
  <2>3. filter' = [c \in Clock |-> filter'[c]] /\ now' = now
    BY <1>0, <2>1
  <2>4. Holding(filter', err, passed, now)
    BY <2>2, <2>3 DEF Holding
  <2> QED BY <1>0, <1>1, <2>1, <2>3, <2>4
<1> QED BY <1>2, <1>3, <1>4, <1>5, <1>6, <1>7 DEF Clocks!Next

LEMMA PulsesImply == PulsesInv => Clocks!RightSecond /\ Clocks!PassedOnce
<1> SUFFICES ASSUME PulsesInv PROVE Clocks!RightSecond /\ Clocks!PassedOnce
  OBVIOUS
<1>1. \A c \in Clock : /\ Ring(filter[c], FilterLength[c]) /\ FilterLength[c] \in Nat \ {0}
                       /\ Right(filter[c], Clocks!Errors(c), err)
                       /\ Timely(filter[c], passed[c], now) /\ Passes(passed[c], now)
  BY ClockConstants DEF PulsesInv, Holding, FilterHolds
<1>2. ASSUME NEW c \in Clock, NEW i \in Clocks!Used(filter[c])
      PROVE  i \in 0 .. filter[c].length - 1
  BY <1>1, RingIs
<1>3. \A c \in Clock, i \in 0 .. Events :
        i \in Clocks!Used(filter[c]) /\ ~filter[c].samples[i].left =>
          filter[c].samples[i].offset + err \in Clocks!Errors(c)
  BY <1>1, <1>2 DEF Right
<1>4. \A c \in Clock, i \in 0 .. Events :
        i \in Clocks!Used(filter[c]) /\ passed[c] # <<>> => filter[c].samples[i].time > passed[c][1]
  <2> SUFFICES ASSUME NEW c \in Clock, NEW i \in Clocks!Used(filter[c]), passed[c] # <<>>
               PROVE  filter[c].samples[i].time > passed[c][1]
    OBVIOUS
  <2>1. passed[c] \in Seq(Int)
    BY <1>1 DEF Passes
  <2>2. Len(passed[c]) \in Nat /\ Len(passed[c]) # 0
    BY <2>1, EmptySeq, LenProperties
  <2>3. 1 \in 1 .. Len(passed[c])
    BY <2>2
  <2> QED BY <1>1, <2>3 DEF Timely
<1>5. wrong = FALSE
  BY DEF PulsesInv
<1> QED BY <1>3, <1>4, <1>5 DEF Clocks!RightSecond, Clocks!PassedOnce

PulsesIInv == part = "refclock" => PulsesInv

\* No pulse is taken for another second, and no sample is passed twice, with any
\* clocks, locks, filters and changes of the system clock.
THEOREM PulsesAlwaysHold == MeasurementSpec => []PulsesHold
<1>1. MeasurementInit => PulsesIInv
  BY PulsesInit DEF MeasurementInit, PulsesIInv
<1>2. PulsesIInv /\ [MeasurementNext]_measurementVars => PulsesIInv'
  <2> SUFFICES ASSUME PulsesIInv, [MeasurementNext]_measurementVars, part' = "refclock" PROVE PulsesInv'
    BY DEF PulsesIInv
  <2>1. part = "refclock" /\ [Clocks!Next]_clockVars
    BY DEF MeasurementNext, measurementVars
  <2> QED BY <2>1, PulsesNext DEF PulsesIInv
<1>3. PulsesIInv => PulsesHold
  BY PulsesImply DEF PulsesIInv, PulsesHold
<1> QED BY <1>1, <1>2, <1>3, PTL DEF MeasurementSpec

-----------------------------------------------------------------------------
(* The samples selected are those in the middle, in order of time. *)

LEMMA EndCounts ==
  ASSUME NEW f, NEW S, IsFiniteSet(S), NEW sorted, SortedBy(f, S, sorted), NEW cut \in Nat, NEW shift \in Nat,
         cut + shift <= Len(sorted), NEW T \in SUBSET S, \A p \in 1 .. cut : sorted[p + shift] \in T
  PROVE  Cardinality(T) >= cut
<1> DEFINE n == Len(sorted)
           E == {sorted[p + shift] : p \in 1 .. cut}
           g == [p \in 1 .. cut |-> sorted[p + shift]]
<1>1. n \in Nat /\ n = Cardinality(S) /\ sorted \in [1 .. n -> S]
      /\ \A p, q \in 1 .. n : sorted[p] = sorted[q] => p = q
  BY DEF SortedBy
<1>2. \A p \in 1 .. cut : p + shift \in 1 .. n
  BY <1>1
<1>3. \A p, q \in 1 .. cut : g[p] = g[q] => p = q
  <2> SUFFICES ASSUME NEW p \in 1 .. cut, NEW q \in 1 .. cut, g[p] = g[q] PROVE p = q
    OBVIOUS
  <2>1. sorted[p + shift] = sorted[q + shift]
    OBVIOUS
  <2>2. p + shift = q + shift
    BY <1>1, <1>2, <2>1
  <2> QED BY <2>2
<1>4. g \in [1 .. cut -> E] /\ \A t \in E : \E p \in 1 .. cut : g[p] = t
  OBVIOUS
<1>5. Cardinality(E) = cut
  <2> HIDE DEF g, E
  <2> QED BY <1>3, <1>4, CountedBy
<1>6. E \in SUBSET T
  OBVIOUS
<1>7. IsFiniteSet(T)
  BY FS_Subset
<1>8. Cardinality(E) <= Cardinality(T)
  <2> HIDE DEF E
  <2> QED BY <1>6, <1>7, FS_Subset
<1>9. Cardinality(T) \in Nat
  BY <1>7, FS_CardinalityType
<1> QED BY <1>5, <1>8, <1>9

LEMMA MiddleIsSelected ==
  ASSUME NEW L \in Nat \ {0}, NEW f, Ring(f, L), Ordered(f)
  PROVE  Clocks!SelectionIsMiddle(f)
<1> SUFFICES ASSUME Clocks!Enough(f) PROVE Clocks!SelectionIsMiddle(f)
  BY DEF Clocks!SelectionIsMiddle
<1> DEFINE sel == Clocks!Select(f)  S == Clocks!Good(f)  sorted == Clocks!ByOffset(f, S)
           n == Cardinality(S)  cut == Clocks!From(n)  R == {sel[p] : p \in DOMAIN sel}  rest == S \ R
           off(i) == f.samples[i].offset
<1>1. S \in SUBSET Clocks!Used(f) /\ IsFiniteSet(S)
  BY GoodIsUsed
<1>2. \A i \in Clocks!Used(f) : off(i) \in Int
  BY RingIs
<1>3. SortedBy(f, S, sorted)
  BY <1>1, ByOffsetSorts
<1>4. Selects(f, sel, sorted)
  BY SelectIs
<1> HIDE DEF sel, sorted, S
<1>5. /\ n \in Nat /\ Len(sorted) = n /\ sorted \in [1 .. n -> S]
      /\ \A p, q \in 1 .. n : sorted[p] = sorted[q] => p = q
      /\ \A p, q \in 1 .. n : p < q => off(sorted[p]) <= off(sorted[q])
  BY <1>3 DEF SortedBy
<1>6. cut \in Nat /\ 2 * cut <= n
  BY <1>5, FromIs
<1>7. /\ sel \in Seq(0 .. f.used - 1) /\ Len(sel) = n - 2 * cut
      /\ \A p \in 1 .. Len(sel) : \E q \in cut + 1 .. n - cut : sel[p] = sorted[q]
      /\ \A p, q \in 1 .. Len(sel) : p < q => Rank(f, sel[p]) < Rank(f, sel[q])
  BY <1>4, <1>5 DEF Selects
<1>8. DOMAIN sel = 1 .. Len(sel) /\ \A p \in 1 .. Len(sel) : sel[p] \in Clocks!Used(f)
  BY <1>7, LenProperties, ElementOfSeq DEF Clocks!Used
<1> HIDE DEF cut, n
<1>9. \A i \in R : \E q \in cut + 1 .. n - cut : i = sorted[q]
  BY <1>7, <1>8
<1> HIDE DEF R
<1>10. R \in SUBSET S
  <2>1. \A q \in cut + 1 .. n - cut : q \in 1 .. n
    BY <1>5, <1>6
  <2> QED BY <1>5, <1>9, <2>1
<1>11. \A p \in 1 .. n : p \notin cut + 1 .. n - cut => sorted[p] \in rest
  <2> TAKE p \in 1 .. n
  <2> HAVE p \notin cut + 1 .. n - cut
  <2>1. sorted[p] \notin R
    <3> SUFFICES ASSUME sorted[p] \in R PROVE FALSE
      OBVIOUS
    <3>1. PICK q \in cut + 1 .. n - cut : sorted[p] = sorted[q]
      BY <1>9
    <3>2. q \in 1 .. n
      BY <1>5, <1>6
    <3> QED BY <1>5, <3>1, <3>2
  <2> QED BY <1>5, <2>1
<1>12. ASSUME NEW i \in R
       PROVE  /\ Cardinality({k \in rest : off(k) <= off(i)}) >= cut
              /\ Cardinality({k \in rest : off(k) >= off(i)}) >= cut
  <2> DEFINE A == {k \in rest : off(k) <= off(i)}  B == {k \in rest : off(k) >= off(i)}
  <2>1. PICK q \in cut + 1 .. n - cut : i = sorted[q]
    BY <1>9
  <2>2. q \in 1 .. n /\ q \in Int
    BY <1>5, <1>6
  <2>3. A \in SUBSET S /\ B \in SUBSET S
    OBVIOUS
  <2>4. \A k \in S : off(k) \in Int
    BY <1>1, <1>2
  <2>5. \A p \in 1 .. cut : sorted[p + 0] \in A
    <3> TAKE p \in 1 .. cut
    <3>1. p \in 1 .. n /\ p \notin cut + 1 .. n - cut /\ p < q /\ p + 0 = p
      BY <1>5, <1>6, <2>2
    <3>2. sorted[p] \in rest /\ off(sorted[p]) <= off(i)
      BY <1>5, <1>11, <2>1, <2>2, <3>1
    <3> QED BY <3>1, <3>2
  <2> DEFINE shift == n - cut
  <2>6. \A p \in 1 .. cut : sorted[p + shift] \in B
    <3> TAKE p \in 1 .. cut
    <3>1. p + shift \in 1 .. n /\ p + shift \notin cut + 1 .. n - cut /\ q < p + shift
      BY <1>5, <1>6, <2>2
    <3>2. sorted[p + shift] \in rest /\ off(i) <= off(sorted[p + shift])
      BY <1>5, <1>11, <2>1, <2>2, <3>1
    <3>3. off(i) \in Int /\ off(sorted[p + shift]) \in Int
      BY <1>5, <1>10, <2>4, <3>1
    <3> QED BY <3>2, <3>3
  <2>7. shift \in Nat /\ cut + shift <= n /\ 0 \in Nat /\ cut + 0 <= n
    BY <1>5, <1>6
  <2> HIDE DEF A, B, shift
  <2>8. Cardinality(A) >= cut
    BY <1>1, <1>3, <1>5, <1>6, <2>3, <2>5, <2>7, EndCounts
  <2>9. Cardinality(B) >= cut
    BY <1>1, <1>3, <1>5, <1>6, <2>3, <2>6, <2>7, EndCounts
  <2> QED BY <2>8, <2>9 DEF A, B
<1>13. ASSUME NEW p \in 1 .. Len(sel) - 1
       PROVE  f.samples[sel[p]].time < f.samples[sel[p + 1]].time
  <2>1. p \in 1 .. Len(sel) /\ p + 1 \in 1 .. Len(sel) /\ p < p + 1
    BY <1>5, <1>6, <1>7
  <2>2. sel[p] \in Clocks!Used(f) /\ sel[p + 1] \in Clocks!Used(f) /\ Rank(f, sel[p]) < Rank(f, sel[p + 1])
    BY <1>7, <1>8, <2>1
  <2> QED BY <2>2 DEF Ordered
<1>14. Clocks!Range(sel) = R /\ Clocks!Cardinality(S) = n
  BY SameCardinality DEF Clocks!Range, R, n
<1>15. /\ Clocks!Range(sel) \subseteq S /\ Len(sel) = Clocks!Cardinality(S) - 2 * Clocks!From(Clocks!Cardinality(S))
       /\ \A i \in 1 .. Len(sel) - 1 : f.samples[sel[i]].time < f.samples[sel[i + 1]].time
  BY <1>7, <1>10, <1>13, <1>14 DEF cut
<1>16. \A i \in Clocks!Range(sel) :
         /\ Clocks!Cardinality({k \in S \ Clocks!Range(sel) : off(k) <= off(i)}) >= Clocks!From(Clocks!Cardinality(S))
         /\ Clocks!Cardinality({k \in S \ Clocks!Range(sel) : off(k) >= off(i)}) >= Clocks!From(Clocks!Cardinality(S))
  BY <1>12, <1>14, SameCardinality DEF cut
<1> QED BY <1>15, <1>16 DEF Clocks!SelectionIsMiddle, sel, S

FilterIInv == PulsesIInv /\ (part = "filter" => full_filter \in Filters)

\* What a filter passes on is its middle, in order of time: of every filter that
\* clocks can have, as well as of the filters given.
THEOREM MiddleAlwaysSelected == MeasurementSpec => []MiddleSelected
<1>1. MeasurementInit => FilterIInv
  BY PulsesInit DEF MeasurementInit, PulsesIInv, FilterIInv
<1>2. FilterIInv /\ [MeasurementNext]_measurementVars => FilterIInv'
  <2> SUFFICES ASSUME FilterIInv, [MeasurementNext]_measurementVars PROVE FilterIInv'
    OBVIOUS
  <2>1. part' = part /\ full_filter' = full_filter /\ (part = "refclock" => [Clocks!Next]_clockVars)
    BY DEF MeasurementNext, measurementVars
  <2> QED BY <2>1, PulsesNext DEF FilterIInv, PulsesIInv
<1>3. FilterIInv => MiddleSelected
  <2> SUFFICES ASSUME FilterIInv PROVE MiddleSelected
    OBVIOUS
  <2>1. ASSUME part = "filter" PROVE Clocks!SelectionIsMiddle(full_filter)
    <3> DEFINE f == full_filter  L == f.length
    <3>1. Clocks!IsFilter(f)
      BY <2>1, MeasurementAssumption DEF FilterIInv
    <3>2. L \in Nat \ {0}
      BY <3>1 DEF Clocks!IsFilter
    <3>3. Ring(f, L)
      BY <3>1 DEF Clocks!IsFilter, Ring, RingOf, Taking
    <3>4. Ordered(f)
      BY <3>1 DEF Clocks!IsFilter, Ordered, Rank
    <3> QED BY <3>2, <3>3, <3>4, MiddleIsSelected
  <2>2. ASSUME part = "refclock", NEW c \in Clock PROVE Clocks!SelectionIsMiddle(filter[c])
    <3>1. FilterLength[c] \in Nat \ {0} /\ Ring(filter[c], FilterLength[c]) /\ Ordered(filter[c])
      BY <2>2, ClockConstants DEF FilterIInv, PulsesIInv, PulsesInv, Holding, FilterHolds
    <3> QED BY <3>1, MiddleIsSelected
  <2> QED BY <2>1, <2>2 DEF MiddleSelected
<1> QED BY <1>1, <1>2, <1>3, PTL DEF MeasurementSpec
=============================================================================

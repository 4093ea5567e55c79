------------------------------ MODULE Regress ------------------------------
(***************************************************************************)
(* The regression (regress.c): the quicksort that sorts no more than it    *)
(* needs to find an entry and remembers what it has sorted; the search for *)
(* the slope of the robust regression; and the loop that drops the oldest  *)
(* samples while the residuals have too few runs.                          *)
(*                                                                         *)
(* What is computed with floating point is any value: the residual of a    *)
(* slope has any sign, the residuals of a line have any number of runs.    *)
(***************************************************************************)
EXTENDS Integers, Sequences, SequencesExt, FiniteSets

CONSTANTS
  Arrays,           \* arrays to find entries in, 0 .. n - 1 to integers
  Points,           \* n and m of regressions: samples, and samples before them
  MAX_POINTS, REGRESS_RUNS_RATIO,
  Incr,             \* 3 standard deviations of the slope
  Expansions        \* bound: times the range of slopes is made wider

MIN_SAMPLES_FOR_REGRESS == 3

VARIABLES
  x, flags,         \* the array that is being sorted
  find,             \* the search in progress: its index, the part u .. v, and the scans at l and r
  x0, asked,        \* history: the array as it was, the indices asked for
  reg,              \* a regression in progress
  slope             \* the search for a slope

vars == <<x, flags, find, x0, asked, reg, slope>>

NoArray == <<>>
NoFind == [phase |-> "rest", index |-> 0, u |-> 0, v |-> 0, l |-> 0, r |-> 0]
NoReg == [n |-> 0, m |-> 0, start |-> 0, nruns |-> 0, done |-> TRUE]
NoSlope == [phase |-> "idle", lo |-> 0, hi |-> 0, rlo |-> 0, rhi |-> 0, mid |-> 0, rmid |-> 0]

-----------------------------------------------------------------------------
(* find_ordered_entry_with_flags *)

Swap(a, i, k) == [a EXCEPT ![i] = a[k], ![k] = a[i]]

\* The part around index between entries that are in place.
Part(f, index) ==
  [u |-> CHOOSE u \in DOMAIN f : u <= index /\ (u = 0 \/ f[u - 1]) /\ \A k \in u .. index : ~f[k],
   v |-> CHOOSE v \in DOMAIN f : v >= index /\ (v + 1 \notin DOMAIN f \/ f[v + 1]) /\ \A k \in index .. v : ~f[k]]

\* A part u .. v that is still to be divided.
Undivided(index, u, v) == [phase |-> "divide", index |-> index, u |-> u, v |-> v, l |-> u, r |-> v]

\* find_median asks for the entry in the middle, and the one before if n is even.
Find(index) ==
  /\ find = NoFind /\ Len(asked) < 2
  /\ asked' = Append(asked, index)
  /\ find' = IF flags[index] THEN NoFind
             ELSE Undivided(index, Part(flags, index).u, Part(flags, index).v)
  /\ UNCHANGED <<x, flags, x0, reg, slope>>

\* A short part is sorted; the pivot of a longer one is put first.
Divide ==
  LET u == find.u
      v == find.v
  IN /\ find.phase = "divide"
     /\ IF v - u < 2
        THEN /\ x' = IF x[v] < x[u] THEN Swap(x, u, v) ELSE x
             /\ flags' = [flags EXCEPT ![u] = TRUE, ![v] = TRUE]
             /\ find' = NoFind
        ELSE /\ x' = Swap(x, u, (u + v) \div 2)
             /\ find' = [find EXCEPT !.phase = "scan", !.l = u + 1, !.r = v]
             /\ UNCHANGED flags
     /\ UNCHANGED <<x0, asked, reg, slope>>

\* Where the two scans of a part stop.
Left == CHOOSE i \in find.l .. find.v :
          (i = find.v \/ x[i] >= x[find.u]) /\ \A k \in find.l .. i - 1 : x[k] < x[find.u]
Right == CHOOSE i \in find.u .. find.r :
           x[i] <= x[find.u] /\ \A k \in i + 1 .. find.r : x[k] > x[find.u]

\* The entries where they stop are exchanged.
Exchange ==
  /\ find.phase = "scan" /\ Left < Right
  /\ x' = Swap(x, Left, Right)
  /\ find' = [find EXCEPT !.l = Left + 1, !.r = Right - 1]
  /\ UNCHANGED <<flags, x0, asked, reg, slope>>

\* They have met: the pivot goes there and the side with index is divided.
PlacePivot ==
  LET index == find.index
  IN /\ find.phase = "scan" /\ Right <= Left
     /\ x' = Swap(x, find.u, Right)
     /\ flags' = [flags EXCEPT ![Right] = TRUE]
     /\ find' = IF index = Right THEN NoFind
                ELSE IF index < Right THEN Undivided(index, find.u, Right - 1)
                ELSE Undivided(index, Left, find.v)
     /\ UNCHANGED <<x0, asked, reg, slope>>

-----------------------------------------------------------------------------
(* RGR_FindBestRegression *)

\* The first residual: samples before the start extend the runs test.
ResidStart(r) ==
  LET s == r.n - (r.n - r.start) * REGRESS_RUNS_RATIO IN IF s < -r.m THEN -r.m ELSE s

\* critical_runs: there is none for less than 8 residuals.
CriticalSize == MAX_POINTS + 2
Critical(n) == IF n < 8 THEN {0} ELSE {2, n}

\* Arrays of numbers; what is regressed fits into the tables, as asserted.
RegressAssumption ==
  /\ MAX_POINTS \in Nat /\ REGRESS_RUNS_RATIO \in Nat \ {0} /\ Incr \in Nat /\ Expansions \in Nat
  /\ \A a \in Arrays : IsFiniteSet(DOMAIN a) /\ a \in [0 .. Cardinality(DOMAIN a) - 1 -> Int]
  /\ \A p \in Points :
       p.n \in Nat /\ p.m \in Nat /\ p.n <= MAX_POINTS /\ p.n * REGRESS_RUNS_RATIO < CriticalSize

StartRegression(p) ==
  /\ reg = NoReg /\ p.n >= MIN_SAMPLES_FOR_REGRESS
  /\ reg' = [NoReg EXCEPT !.n = p.n, !.m = p.m, !.done = FALSE]
  /\ UNCHANGED <<x, flags, find, x0, asked, slope>>

\* One round of the loop; when it ends, the runs of the samples are counted.
RunsTest ==
  LET r == reg
      count == r.n - ResidStart(r)
  IN /\ ~r.done
     /\ \E nruns \in {1, count}, critical \in Critical(count) :
          IF nruns > critical \/ r.n - r.start <= MIN_SAMPLES_FOR_REGRESS
          THEN \E own \in {1, r.n - r.start} :
                 reg' = [r EXCEPT !.done = TRUE, !.nruns = IF r.start # ResidStart(r) THEN own ELSE nruns]
          ELSE reg' = [r EXCEPT !.start = @ + 1]
     /\ UNCHANGED <<x, flags, find, x0, asked, slope>>

-----------------------------------------------------------------------------
(* The slope of RGR_FindBestRobustRegression.  Slopes are whole tolerances. *)

Residual == {-1, 0, 1}

\* The range is made wider until its ends have residuals of different signs.
Expand ==
  /\ \/ slope.phase = "idle"
     \/ slope.phase = "expand" /\ slope.hi < Incr * Expansions
  /\ \E rlo, rhi \in Residual :
       slope' = [slope EXCEPT !.lo = @ - Incr, !.hi = @ + Incr, !.rlo = rlo, !.rhi = rhi,
                              !.phase = IF rlo * rhi >= 0 THEN "expand" ELSE "bisect"]
  /\ UNCHANGED <<x, flags, find, x0, asked, reg>>

\* Fault: the half without the root.
HalfWithoutRoot(s, mid, rmid) ==
  IF rmid * s.rlo > 0 THEN [s EXCEPT !.hi = mid, !.rhi = rmid] ELSE [s EXCEPT !.lo = mid, !.rlo = rmid]

\* Fails the assertion when rmid has the sign of neither end.
HalfWithRoot(s, mid, rmid) ==
  IF rmid = 0 THEN s
  ELSE IF rmid * s.rlo > 0 THEN [s EXCEPT !.lo = mid, !.rlo = rmid]
  ELSE IF rmid * s.rhi > 0 THEN [s EXCEPT !.hi = mid, !.rhi = rmid]
  ELSE [s EXCEPT !.phase = "failed"]

Bisect ==
  LET mid == (slope.lo + slope.hi) \div 2
  IN /\ slope.phase = "bisect"
     /\ \E rmid \in Residual :
          LET s == HalfWithRoot(slope, mid, rmid)
              more == s.hi - s.lo > 1 /\ (mid - s.lo) * (s.hi - mid) > 0
          IN slope' = [s EXCEPT !.mid = mid, !.rmid = rmid,
                                !.phase = IF @ # "failed" /\ (rmid = 0 \/ ~more) THEN "done" ELSE @]
     /\ UNCHANGED <<x, flags, find, x0, asked, reg>>

-----------------------------------------------------------------------------

Init ==
  /\ x \in Arrays \cup {NoArray} /\ x0 = x /\ flags = [i \in DOMAIN x |-> FALSE] /\ asked = <<>>
  /\ find = NoFind /\ reg = NoReg /\ slope = NoSlope

\* An array is sorted, or a regression runs.
Next ==
  \/ \E i \in DOMAIN x : Find(i)
  \/ Divide
  \/ Exchange
  \/ PlacePivot
  \/ x = NoArray /\ slope = NoSlope /\ \E p \in Points : StartRegression(p)
  \/ RunsTest
  \/ x = NoArray /\ reg = NoReg /\ Expand
  \/ Bisect

Spec == Init /\ [][Next]_vars

-----------------------------------------------------------------------------
(* Properties. *)

\* The entry at i is one that a sorted array has there.
InPlace(i) ==
  /\ Cardinality({k \in DOMAIN x0 : x0[k] < x[i]}) <= i
  /\ Cardinality({k \in DOMAIN x0 : x0[k] <= x[i]}) > i

Distinct == \A i, k \in DOMAIN x0 : x0[i] = x0[k] => i = k

\* The array keeps its entries, and the one that is asked for first is in place;
\* without equal entries so are the second, which is looked for in the part that
\* the first has left, and all that are flagged.
OrderedEntries ==
  /\ \A i \in DOMAIN x : Cardinality({k \in DOMAIN x : x[k] = x[i]}) = Cardinality({k \in DOMAIN x : x0[k] = x[i]})
  /\ find = NoFind => \A i \in DOMAIN asked : i = 1 \/ Distinct => InPlace(asked[i])
  /\ Distinct => \A i \in DOMAIN x : flags[i] => InPlace(i)

\* The regression stays within its tables, ends with three samples at least, and
\* the runs it returns are of these samples; the root of the robust regression
\* is never lost from the range of slopes, and the assertion holds.
RegressionHolds ==
  /\ reg.n > 0 =>
       /\ reg.n - ResidStart(reg) \in 1 .. MAX_POINTS * REGRESS_RUNS_RATIO
       /\ reg.n - ResidStart(reg) < CriticalSize
       /\ ResidStart(reg) >= -reg.m /\ ResidStart(reg) <= reg.start
       /\ reg.n - reg.start >= MIN_SAMPLES_FOR_REGRESS
       /\ reg.done => reg.nruns <= reg.n - reg.start
  /\ slope.phase # "failed"
  /\ slope.phase = "bisect" => slope.rlo * slope.rhi < 0
  /\ slope.phase = "done" /\ slope.rmid # 0 => slope.rlo * slope.rhi < 0

\* "The tolerance required in determining the value of b1": a slope that is not
\* the root itself is found to within the tolerance, here 1.
SlopeWithinTolerance == slope.phase = "done" /\ slope.rmid # 0 => slope.hi - slope.lo <= 1
=============================================================================

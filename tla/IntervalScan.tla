---------------------------- MODULE IntervalScan ----------------------------
(***************************************************************************)
(* The scan of SRC_SelectSource (sources.c) over the sorted endpoint list, *)
(* one endpoint a step, on every set of intervals with offsets in          *)
(* ScanOffset.                                                             *)
(***************************************************************************)
EXTENDS Intervals

CONSTANTS
  Scanned,          \* sources that provide an interval
  ScanOffset        \* offsets an endpoint may have

OffsetAssumption == ScanOffset \subseteq Int /\ IsFiniteSet(Scanned)

VARIABLES
  I,                \* the intervals of the sources that provided one
  sort_list,        \* the endpoints not yet scanned
  depth, best_depth, best_lo, best_hi

scanVars == <<I, sort_list, depth, best_depth, best_lo, best_hi>>

Interval == {iv \in [lo : ScanOffset, hi : ScanOffset] : iv.lo <= iv.hi}

\* The two entries step 1 writes for each source.
SortList(J) ==
  UNION {{[index |-> s, offset |-> J[s].lo, tag |-> "LOW"],
          [index |-> s, offset |-> J[s].hi, tag |-> "HIGH"]} : s \in DOMAIN J}

\* compare_sort_elements: by offset, LOW before HIGH.
Before(e, f) == e.offset < f.offset \/ (e.offset = f.offset /\ e.tag = "LOW" /\ f.tag = "HIGH")

ScanInit ==
  /\ \E S \in (SUBSET Scanned) \ {{}} : I \in [S -> Interval]
  /\ sort_list = SortList(I)
  /\ depth = 0 /\ best_depth = 0
  /\ best_lo = 0 /\ best_hi = 0

\* Equal elements differ in their index only, which the scan does not read.
IsNext(e) == \A f \in sort_list : ~Before(f, e)

ScanLow(e) ==
  /\ e.tag = "LOW" /\ IsNext(e)
  /\ sort_list' = sort_list \ {e}
  /\ depth' = depth + 1
  /\ IF depth' > best_depth
       THEN best_depth' = depth' /\ best_lo' = e.offset
       ELSE UNCHANGED <<best_depth, best_lo>>
  /\ UNCHANGED <<I, best_hi>>

ScanHigh(e) ==
  /\ e.tag = "HIGH" /\ IsNext(e)
  /\ sort_list' = sort_list \ {e}
  /\ best_hi' = IF depth = best_depth THEN e.offset ELSE best_hi
  /\ depth' = depth - 1
  /\ UNCHANGED <<I, best_depth, best_lo>>

ScanNext == \E e \in sort_list : ScanLow(e) \/ ScanHigh(e)

ScanSpec == ScanInit /\ [][ScanNext]_scanVars

-----------------------------------------------------------------------------
(* Properties. *)

Done == sort_list = {}
Selectable == Admissible(I, best_lo, best_hi)

\* Midway, depth counts the intervals entered and not yet left; at the end the
\* scan has found the deepest point of all, and the first and the last offset
\* of that depth.
ScanFindsDeepest ==
  /\ depth = Cardinality({e \in sort_list : e.tag = "HIGH"})
             - Cardinality({e \in sort_list : e.tag = "LOW"})
  /\ Done => best_depth = BestDepth(I) /\ best_lo = BestLo(I) /\ best_hi = BestHi(I)

\* Some source always passes the falseticker test, so that the election of a
\* maximum score never ends without one (assert of max_score_index). Unless the
\* deepest points belong to different sets of sources (the bad luck of the
\* comment in the code), all the sources whose interval overlaps the best one
\* pass, and they are at least as many as its depth.
DeepestSurvive ==
  LET around(x) == {s \in DOMAIN I : Around(I[s], x)} IN
  Done =>
    /\ Selectable # {}
    /\ around(best_lo) = around(best_hi) =>
         around(best_lo) \subseteq Selectable /\ Cardinality(Selectable) >= best_depth
=============================================================================

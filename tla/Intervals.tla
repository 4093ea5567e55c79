----------------------------- MODULE Intervals -----------------------------
(***************************************************************************)
(* The intervals about the offsets of the sources, and what step 1 and the *)
(* falseticker test of SRC_SelectSource (sources.c) look for in them.      *)
(*                                                                         *)
(* An offset is an integer.  I is a function from the sources that entered *)
(* the endpoint list to records [lo, hi] with lo <= hi.  The definitions   *)
(* are declarative; module IntervalScan shows that the scan of the sorted  *)
(* endpoints computes them.                                                *)
(***************************************************************************)
EXTENDS Integers, FiniteSets, FiniteSetsExt

Around(iv, x) == iv.lo <= x /\ x <= iv.hi

Endpoints(I) == UNION {{I[s].lo, I[s].hi} : s \in DOMAIN I}

\* The number of intervals that contain a point.
DepthAt(I, x) == Cardinality({s \in DOMAIN I : Around(I[s], x)})

BestDepth(I) == Max({0} \cup {DepthAt(I, x) : x \in Endpoints(I)})

Deepest(I) == LET best == BestDepth(I) IN {x \in Endpoints(I) : DepthAt(I, x) = best}

BestLo(I) == Min(Deepest(I))
BestHi(I) == Max(Deepest(I))

\* The sources whose interval contains [lo, hi] or is wholly contained in it.
Admissible(I, lo, hi) ==
  {s \in DOMAIN I : \/ I[s].lo <= lo /\ I[s].hi >= hi
                    \/ I[s].lo >= lo /\ I[s].hi <= hi}

\* More than half of n intervals.
Majority(depth, n) == depth > n \div 2
=============================================================================

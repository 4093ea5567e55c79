--------------------------- MODULE MCMeasurements ---------------------------
(* Values of the constants of Measurements for TLC. *)
EXTENDS Measurements, TLC

CONSTANTS s1, s2, s3, s4

MCSteps == {1}
MCGap == {0, 1, 2}

MCSource == {s1, s2, s3}
MCPair == {s1, s2}
MCScanned == {s1, s2, s3, s4}
MCSymmetry == Permutations(MCScanned)

\* Two close sources that agree, a wide one of a worse stratum, one far away.
MCData == {[lo |-> -1, hi |-> 1, stratum |-> 1],
           [lo |-> -2, hi |-> 4, stratum |-> 2],
           [lo |-> 8, hi |-> 10, stratum |-> 1]}
MCScanOffset == 0 .. 4

Orders(n) == {p \in [0 .. n - 1 -> 0 .. n - 1] : \A i, k \in 0 .. n - 1 : p[i] = p[k] => i = k}

\* Every order of two to four entries, equal ones among them, and of five others.
MCArrays == UNION {[0 .. n - 1 -> 0 .. n - 1] : n \in 2 .. 4} \cup Orders(5)

\* What the callers regress: up to 64 samples and 64 before them.
MCPoints == [n : {3, 4, 5, 8, 16, 63, 64}, m : {0, 1, 4, 63, 64}]

MCClock == {0, 1}
MCFilterLength == 0 :> 2 @@ 1 :> 2
MCDriverPolls == 0 :> 2 @@ 1 :> 0
MCClockSteps == {-10, 7}

\* Filters of five samples, full or with four, in every order of offsets, equal ones among them, and with
\* two dispersions; times are the ages.
MCFilters ==
  LET Ring(used, index, offset, dispersion) ==
        [length |-> 5, index |-> index, used |-> used, last |-> index,
         samples |-> [i \in 0 .. 4 |->
           [time |-> (i - index - 1) % used, offset |-> offset[i], dispersion |-> dispersion[i], left |-> FALSE]]]
      Dispersion == [0 .. 4 -> {2, 4}]
      WithTies == Orders(5) \cup {[i \in 0 .. 4 |-> o[i] \div 2] : o \in Orders(5)}
  IN {Ring(5, i, o, d) : i \in 0 .. 4, o \in WithTies, d \in Dispersion}
     \cup {Ring(4, 3, o, [i \in 0 .. 4 |-> 2]) : o \in Orders(5)}
=============================================================================

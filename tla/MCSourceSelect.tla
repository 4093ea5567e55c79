--------------------------- MODULE MCSourceSelect ---------------------------
(* Values of the constants of SourceSelect for TLC. *)
EXTENDS SourceSelect

CONSTANTS s1, s2

MCTwoSources == {s1, s2}

\* Two sources that always agree, one of them better.
MCNearAndFar == {[lo |-> -1, hi |-> 1, stratum |-> 1],
                 [lo |-> -3, hi |-> 3, stratum |-> 1]}
=============================================================================

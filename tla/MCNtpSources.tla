---------------------------- MODULE MCNtpSources ----------------------------
(* Values of the constants of NtpSources for TLC. *)
EXTENDS NtpSources, TLC

CONSTANTS a1, a2, n1, n2

MCAddress == {a1, a2}
MCName == {n1, n2}

\* Both addresses collide on the last slot, so that one of them wraps around.
MCHash == [a \in Address |-> N_RECORDS - 1]

\* A name that is online at the start, and one that is not.
MCConfigs == {<<[name |-> n1, online |-> TRUE], [name |-> n2, online |-> FALSE]>>}
=============================================================================

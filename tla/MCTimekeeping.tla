--------------------------- MODULE MCTimekeeping ---------------------------
(* Values of the constants of Timekeeping for TLC. *)
EXTENDS Timekeeping, TLC

CONSTANTS a, b, h1

(* The local clock. *)
MCAmounts == {-9, 3}
MCFrequencies == {1}   \* compensations lengthen the tick again

(* The reference. *)

\* Two fallback drifts, no limits, with settime.
MCDrifts ==
  [fb_drift_min : {1}, fb_drift_max : {2}, make_step : {0}, offset_delay : {-1},
   offset_ignore : {0}, manual : {TRUE}, stepped : {FALSE}]

\* Every limit, and none of makestep, after a first step.
MCLimits ==
  [fb_drift_min : {0}, fb_drift_max : {0}, make_step : {-1, 2}, offset_delay : {0, 1},
   offset_ignore : {-1, 0, 2}, manual : {TRUE}, stepped : {TRUE}]

MCConfigs == MCDrifts \cup MCLimits

(* The exchange. *)
MCNode == {a, b}
MCPeer == (a :> b) @@ (b :> a)
MCSteps == {-3, 3}   \* larger than the delay of a quick packet

\* A client or peer of a host that does not know it, two peers, a client of a
\* peer, two clients of each other.
MCPairs == {(a :> m) @@ (b :> "none") : m \in {"MODE_CLIENT", "MODE_ACTIVE"}} \cup
           {(a :> m) @@ (b :> "MODE_ACTIVE") : m \in {"MODE_CLIENT", "MODE_ACTIVE"}} \cup
           {(a :> "MODE_CLIENT") @@ (b :> "MODE_CLIENT")}
=============================================================================

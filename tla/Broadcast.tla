----------------------------- MODULE Broadcast -----------------------------
(***************************************************************************)
(* The broadcast server (broadcast.c): the destinations are kept in an     *)
(* array that grows by blocks, and the timeout of each points into it.     *)
(***************************************************************************)
EXTENDS Integers, FiniteSets

CONSTANTS
  Block,            \* destinations that are made room for at once
  MaxDestinations   \* bound: broadcast directives

BlockAssumption == Block \in Nat \ {0} /\ MaxDestinations \in Nat

VARIABLES
  n_destinations, max_destinations,
  array,            \* the array: which allocation it is
  timeouts,         \* pointers of the timeouts: allocation and index
  sent              \* a packet: the destination it was sent to, 0 for none

vars == <<n_destinations, max_destinations, array, timeouts, sent>>

Init == n_destinations = 0 /\ max_destinations = 0 /\ array = 0 /\ timeouts = {} /\ sent = 0

ThePlace(n) == n

\* BRD_AddDestination, before the main loop; ReallocArray may move the array.
AddDestination ==
  LET full == max_destinations = n_destinations
  IN /\ sent = 0 /\ n_destinations < MaxDestinations
     /\ max_destinations' = IF full THEN max_destinations + Block ELSE max_destinations
     /\ array' \in IF full THEN {array, array + 1} ELSE {array}
     /\ n_destinations' = n_destinations + 1
     /\ timeouts' = timeouts \cup {[array |-> array', index |-> ThePlace(n_destinations)]}
     /\ UNCHANGED sent

\* timeout_handler: it sends to the destination and queues its timeout again.
TimeoutHandler(t) ==
  /\ sent' = t.index + 1
  /\ UNCHANGED <<n_destinations, max_destinations, array, timeouts>>

Next == AddDestination \/ \E t \in timeouts : TimeoutHandler(t)

\* Each destination has one timeout, which points to it.  The pointers of more
\* than a block of destinations may point to an array that has been moved.
TimeoutsPoint ==
  /\ {t.index : t \in timeouts} = 0 .. n_destinations - 1
  /\ Cardinality(timeouts) = n_destinations
  /\ n_destinations <= Block => \A t \in timeouts : t.array = array
=============================================================================

----------------------------- MODULE ClientLog -----------------------------
(***************************************************************************)
(* The log of clients (clientlog.c): a tree of tables, with a node for     *)
(* each address that has sent something, and a list of the nodes in the    *)
(* order they were made.  When its memory reaches the limit no node and no *)
(* table is added any more.                                                *)
(*                                                                         *)
(* An address is a sequence of Levels digits; a table, the digits on the   *)
(* way to it.                                                              *)
(***************************************************************************)
EXTENDS Integers, Sequences, SequencesExt, FiniteSetsExt

CONSTANTS
  Client,           \* addresses
  Levels,
  SubnetSize, NodeSize, PointerSize,
  FirstNodes,       \* the size the list of nodes begins with
  Limit,            \* clientloglimit
  MaxHits           \* bound: accesses

LogAssumption ==
  /\ Levels \in Nat \ {0} /\ FirstNodes \in Nat \ {0} /\ Limit \in Nat \ {0}
  /\ SubnetSize \in Nat /\ NodeSize \in Nat /\ PointerSize \in Nat

VARIABLES
  subnets,          \* tables, other than the top one
  nodes,            \* the list: addresses, in the order of their indices
  max_nodes,
  hits,             \* of the nodes
  alloced, alloc_limit_reached,
  seen, lost        \* history: accesses, and those that found no node

vars == <<subnets, nodes, max_nodes, hits, alloced, alloc_limit_reached, seen, lost>>

\* CLG_Initialise
Init ==
  /\ subnets = {} /\ nodes = <<>> /\ max_nodes = 0
  /\ hits = [c \in Client |-> 0]
  /\ alloced = 0 /\ alloc_limit_reached = FALSE
  /\ seen = [c \in Client |-> 0] /\ lost = [c \in Client |-> 0]

Log == [subnets |-> subnets, nodes |-> nodes, max_nodes |-> max_nodes,
        alloced |-> alloced, reached |-> alloc_limit_reached]

\* check_alloc_limit
Allocated(log, size) ==
  [log EXCEPT !.alloced = @ + size, !.reached = @ \/ log.alloced + size >= Limit]

\* create_subnet
CreateSubnet(log, table) ==
  Allocated([log EXCEPT !.subnets = @ \cup {table}], SubnetSize)

\* create_node: the list doubles when it is full.
CreateNode(log, client) ==
  LET full == Len(log.nodes) = log.max_nodes
      max == IF ~full THEN log.max_nodes ELSE IF log.max_nodes = 0 THEN FirstNodes ELSE 2 * log.max_nodes
      list == IF full THEN PointerSize * (max - Len(log.nodes)) ELSE 0
  IN Allocated([log EXCEPT !.nodes = Append(@, client), !.max_nodes = max], NodeSize + list)

\* Fault: the tables are made all the same.
FoundAnyway(log, client) ==
  LET tables == {SubSeq(client, 1, n) : n \in 1 .. Levels - 1} \ log.subnets
      s == FoldSet(LAMBDA t, l : CreateSubnet(l, t), log, tables)
  IN IF s.reached \/ Contains(s.nodes, client) THEN s ELSE CreateNode(s, client)

\* find_subnet, from the top table down to the node.
Found(log, client) ==
  LET table(n) == SubSeq(client, 1, n)
      Open(l, n) == IF table(n) \in l.subnets \/ l.reached THEN l ELSE CreateSubnet(l, table(n))
      s == FoldLeft(Open, log, [n \in 1 .. Levels - 1 |-> n])
  IN IF s.reached \/ Contains(s.nodes, client) THEN s ELSE CreateNode(s, client)

\* CLG_LogNTPClientAccess, CLG_LogNTPPeerAccess, CLG_LogCommandAccess: an access
\* is counted in the node.
LogAccess(client) ==
  LET log == Found(Log, client)
      found == Contains(log.nodes, client)
  IN /\ FoldFunction(+, 0, seen) < MaxHits
     /\ subnets' = log.subnets /\ nodes' = log.nodes /\ max_nodes' = log.max_nodes
     /\ alloced' = log.alloced /\ alloc_limit_reached' = log.reached
     /\ seen' = [seen EXCEPT ![client] = @ + 1]
     /\ IF found THEN hits' = [hits EXCEPT ![client] = @ + 1] /\ UNCHANGED lost
        ELSE lost' = [lost EXCEPT ![client] = @ + 1] /\ UNCHANGED hits

Next == \E c \in Client : LogAccess(c)

Spec == Init /\ [][Next]_vars

-----------------------------------------------------------------------------

\* Only the accesses of clients that came too late for a node are lost, each
\* node is in the list once with the tables above it, and the memory passes the
\* limit by no more than the last thing that was added.
AccessesCounted ==
  /\ \A c \in Client :
       /\ hits[c] + lost[c] = seen[c]
       /\ Contains(nodes, c) => lost[c] = 0 /\ \A n \in 1 .. Levels - 1 : SubSeq(c, 1, n) \in subnets
       /\ lost[c] > 0 => alloc_limit_reached
  /\ IsInjective(nodes) /\ Len(nodes) <= max_nodes
  /\ alloced < Limit + Max({SubnetSize, NodeSize + PointerSize * max_nodes})
  /\ alloc_limit_reached = (alloced >= Limit)
=============================================================================

----------------------------- MODULE AddrFilter -----------------------------
(***************************************************************************)
(* The address filter (addrfilt.c) that says which clients are served: a   *)
(* tree whose levels stand for NBITS bits of an address.                   *)
(*                                                                         *)
(* An address is a sequence of Levels digits, a node the digits on the way *)
(* to it.  A subnet is an address with its length in bits; the bits past   *)
(* its length are 0, or the entries set would reach past their table.      *)
(***************************************************************************)
EXTENDS Integers, Sequences, SequencesExt, FiniteSetsExt

CONSTANTS
  NBITS, Levels,
  Subnet,           \* subnets of rules: ip and bits
  MaxRules          \* bound: rules

VARIABLES
  extended,         \* the nodes that have a table
  state,            \* of the nodes
  rules             \* history: the rules applied

vars == <<extended, state, rules>>

TABLE_SIZE == 2 ^ NBITS
Digit == 0 .. TABLE_SIZE - 1
Address == [1 .. Levels -> Digit]
Node == UNION {[1 .. n -> Digit] : n \in 0 .. Levels}
Root == <<>>

\* ADF_CreateTable.  A node that does not exist counts as one that has not been
\* set: open_node makes it so.
Init ==
  /\ extended = {} /\ rules = <<>>
  /\ state = [n \in Node |-> IF n = Root THEN "DENY" ELSE "AS_PARENT"]

First(s, n) == SubSeq(s, 1, n)
Below(node, top) == IsPrefix(top, node)

\* The nodes a subnet sets: one, or as many of one table as its last bits leave.
Targets(subnet) ==
  LET full == subnet.bits \div NBITS
      rest == subnet.bits % NBITS
      parent == First(subnet.ip, full)
  IN IF rest = 0 THEN {parent}
     ELSE {Append(parent, subnet.ip[full + 1] + j) : j \in 0 .. 2 ^ (NBITS - rest) - 1}

\* What set_subnet relies on: from the entry of ip on, all that it sets are of one table.
\* It is so when the bits of ip past the length are 0; the code does not clear them.
SubnetsAssumption ==
  /\ NBITS \in Nat \ {0} /\ Levels \in Nat
  /\ Subnet \subseteq [ip : Address, bits : 0 .. NBITS * Levels]
  /\ \A s \in Subnet : Targets(s) \subseteq Node

\* Fault: the nodes below are left by a rule for all.
NoneClosed(targets) == {}

\* close_node: what is below the nodes set is deleted.
Closed(targets) == {n \in Node : \E t \in targets : n # t /\ Below(n, t)}

\* set_subnet
SetSubnet(subnet, new_state, delete_children) ==
  LET targets == Targets(subnet)
      opened == UNION {{First(t, n) : n \in 0 .. Len(t) - 1} : t \in targets}
      closed == IF delete_children THEN Closed(targets) ELSE {}
  IN /\ Len(rules) < MaxRules
     /\ extended' = (extended \cup opened) \ IF delete_children THEN closed \cup targets ELSE {}
     /\ state' = [n \in Node |-> IF n \in targets THEN new_state
                                 ELSE IF n \in closed THEN "AS_PARENT" ELSE state[n]]
     /\ rules' = Append(rules, [subnet |-> subnet, state |-> new_state, all |-> delete_children])

\* ADF_Allow, ADF_Deny, ADF_AllowAll, ADF_DenyAll
Next == \E subnet \in Subnet, s \in {"ALLOW", "DENY"}, all \in BOOLEAN : SetSubnet(subnet, s, all)

Spec == Init /\ [][Next]_vars

\* check_ip_in_node: the last node on the way down that says something.
IsAllowed(ip) ==
  LET reached(n) == \A k \in 0 .. n - 1 : First(ip, k) \in extended
      says(n) == reached(n) /\ state[First(ip, n)] # "AS_PARENT"
  IN state[First(ip, Max({n \in 0 .. Levels : says(n)}))] = "ALLOW"

-----------------------------------------------------------------------------

\* Rule r is about ip.
Covers(r, ip) == \E t \in Targets(r.subnet) : Below(ip, t)

\* The level of the tree a rule sets.
LevelOf(r) == r.subnet.bits \div NBITS + (IF r.subnet.bits % NBITS = 0 THEN 0 ELSE 1)

\* What addrfilt.h says of the rules, which knows no tree.  The rules about ip that are
\* in force: a later rule for all of a subnet takes away those as specific or more.
InForce(ip) ==
  LET about == {i \in DOMAIN rules : Covers(rules[i], ip)}
      taken(i) == \E k \in about :
                    k > i /\ rules[k].all /\ rules[k].subnet.bits <= rules[i].subnet.bits
  IN {i \in about : ~taken(i)}

\* The most specific decides, the last of those for one subnet.
Decides(i, ip) ==
  \A k \in InForce(ip) : \/ rules[k].subnet.bits < rules[i].subnet.bits
                         \/ rules[k].subnet.bits = rules[i].subnet.bits /\ k <= i

Ruled(ip) == \E i \in InForce(ip) : Decides(i, ip) /\ rules[i].state = "ALLOW"

\* A less specific rule came after the one that decides and set the same entry of the
\* tree: a table keeps no lengths of the subnets that share its entries.
Overwritten(ip) ==
  \E i, k \in InForce(ip) : Decides(i, ip) /\ k > i /\ LevelOf(rules[k]) = LevelOf(rules[i])

\* The tree says of an address what the rules say, in whatever order subnets of all
\* lengths are allowed, denied and overridden, but for what is overwritten.
AllowedAsRuled == \A ip \in Address : ~Overwritten(ip) => IsAllowed(ip) = Ruled(ip)

\* "Allow anything in the supplied subnet, EXCEPT for any more specific subnets that are
\* already defined" (addrfilt.h:43), and "Deny" alike.
SpecificsKept == \A ip \in Address : IsAllowed(ip) = Ruled(ip)
=============================================================================

------------------------------ MODULE Services ------------------------------
(***************************************************************************)
(* What chronyd offers to others: the commands, the broadcasts, and the    *)
(* tables behind them: who may ask (AddrFilter), who has asked (ClientLog),*)
(* the keys of both (Keys) and the times an administrator has entered      *)
(* (Manual).  Each of these modules has its own state and is checked on    *)
(* its own: part says which one runs, and the others rest in their first   *)
(* state.                                                                  *)
(***************************************************************************)
EXTENDS CmdProtocol

CONSTANTS
  Block, MaxDestinations,                                       \* Broadcast
  NBITS, FilterLevels, Subnet, MaxRules,                        \* AddrFilter
  LogClient, LogLevels, SubnetSize, NodeSize, PointerSize, FirstNodes,
  Limit, MaxHits,                                               \* ClientLog
  KeyId, Secret, MaxKeys,                                       \* Keys
  MAX_SAMPLES, Mistakes, Corrections, MaxError, MaxEntries      \* Manual

VARIABLES
  part,
  n_destinations, max_destinations, array, timeouts, sent,
  extended, state, rules,
  subnets, nodes, max_nodes, hits, alloced, alloc_limit_reached, seen_hits, lost,
  keys, cache_valid, cache_key_id, cache_key_pos, key_answer,
  samples, enabled, err, entries

broadcastVars == <<n_destinations, max_destinations, array, timeouts, sent>>
filterVars == <<extended, state, rules>>
logVars == <<subnets, nodes, max_nodes, hits, alloced, alloc_limit_reached, seen_hits, lost>>
keyVars == <<keys, cache_valid, cache_key_id, cache_key_pos, key_answer>>
manualVars == <<samples, enabled, err, entries>>
serviceVars == <<part, vars, broadcastVars, filterVars, logVars, keyVars, manualVars>>

Brd == INSTANCE Broadcast
Adf == INSTANCE AddrFilter WITH Levels <- FilterLevels
Clg == INSTANCE ClientLog WITH Client <- LogClient, Levels <- LogLevels, seen <- seen_hits
Key == INSTANCE Keys WITH answer <- key_answer
Mnl == INSTANCE Manual

ASSUME FilterAssumption == Adf!SubnetsAssumption
ASSUME TablesAssumption ==
  Brd!BlockAssumption /\ Clg!LogAssumption /\ Key!KeysAssumption /\ Mnl!ManualAssumption

Part == {"commands", "broadcast", "filter", "clients", "keys", "manual"}

ServiceInit ==
  /\ part \in Part
  /\ Init /\ Brd!Init /\ Key!Init
  /\ IF part = "filter" THEN Adf!Init ELSE extended = {} /\ state = <<>> /\ rules = <<>>
  /\ IF part = "clients" THEN Clg!Init
     ELSE /\ subnets = {} /\ nodes = <<>> /\ hits = <<>> /\ seen_hits = <<>> /\ lost = <<>>
          /\ max_nodes = 0 /\ alloced = 0 /\ alloc_limit_reached = FALSE
  /\ Mnl!Init /\ (part # "manual" => enabled)

ServiceNext ==
  /\ UNCHANGED part
  /\ IF part = "commands" THEN Next ELSE UNCHANGED vars
  /\ IF part = "broadcast" THEN Brd!Next ELSE UNCHANGED broadcastVars
  /\ IF part = "filter" THEN Adf!Next ELSE UNCHANGED filterVars
  /\ IF part = "clients" THEN Clg!Next ELSE UNCHANGED logVars
  /\ IF part = "keys" THEN Key!Next ELSE UNCHANGED keyVars
  /\ IF part = "manual" THEN Mnl!Next ELSE UNCHANGED manualVars

ServiceSpec == ServiceInit /\ [][ServiceNext]_serviceVars

-----------------------------------------------------------------------------
(* Properties, besides those of CmdProtocol. *)

\* Access is what the rules say, in whatever order they came, except where a less
\* specific rule has overwritten the entry of the tree that the deciding one set.
AllowedAsRuled == part = "filter" => Adf!AllowedAsRuled

\* Access is what the rules say everywhere: the more specific subnets already defined are
\* kept (addrfilt.h:43), wherever the tree has put them.
SpecificsKept == part = "filter" => Adf!SpecificsKept

\* What the tables say stays true: no access is lost that found room, no key is
\* used that is not in the file, times entered stay what they were, and every
\* broadcast goes to its own destination.
TablesHold ==
  /\ part = "clients" => Clg!AccessesCounted
  /\ part = "keys" => Key!KeysAreCurrent
  /\ part = "manual" => Mnl!EntriesHold
  /\ part = "broadcast" => Brd!TimeoutsPoint
=============================================================================

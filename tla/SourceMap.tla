----------------------------- MODULE SourceMap -----------------------------
(***************************************************************************)
(* What ntp_sources.c promises to its callers: a map from addresses to the *)
(* ports of the sources at them, with at most one source per address and   *)
(* room for MAX_SOURCES.  Module NtpSources implements it with a hash      *)
(* table.                                                                  *)
(***************************************************************************)
EXTENDS Integers, FiniteSets

CONSTANTS
  Address, Port,
  Unspecified,      \* an address of neither family
  MAX_SOURCES

VARIABLES
  port_of,          \* the port of the source at each address that has one
  result            \* the last call: address, port and answer

vars == <<port_of, result>>

Stored == DOMAIN port_of
Full == Cardinality(Stored) = MAX_SOURCES

Init == port_of = <<>> /\ result = <<>>

AddSource(ip, port) ==
  \/ /\ result' = <<ip, port, "NSR_AlreadyInUse">>
     /\ ip \in Stored /\ UNCHANGED port_of
  \/ /\ result' = <<ip, port, "NSR_TooManySources">>
     /\ ip \notin Stored /\ Full /\ UNCHANGED port_of
  \/ /\ result' = <<ip, port, "NSR_InvalidAF">>
     /\ ip \notin Stored /\ ~Full /\ ip = Unspecified /\ UNCHANGED port_of
  \/ /\ result' = <<ip, port, "NSR_Success">>
     /\ ip \notin Stored /\ ~Full /\ ip # Unspecified
     /\ port_of' = [a \in Stored \cup {ip} |-> IF a = ip THEN port ELSE port_of[a]]

RemoveSource(ip) ==
  \/ /\ result' = <<ip, 0, "NSR_Success">>
     /\ ip \in Stored
     /\ port_of' = [a \in Stored \ {ip} |-> port_of[a]]
  \/ /\ result' = <<ip, 0, "NSR_NoSuchSource">>
     /\ ip \notin Stored /\ UNCHANGED port_of

\* A packet is that of a known source when both the address and the port match.
ProcessReceive(ip, port) ==
  \/ /\ result' = <<ip, port, "NCR_ProcessKnown">>
     /\ ip \in Stored /\ port_of[ip] = port /\ UNCHANGED port_of
  \/ /\ result' = <<ip, port, "NCR_ProcessUnknown">>
     /\ ip \in Stored => port_of[ip] # port
     /\ UNCHANGED port_of

\* Sources whose names were resolved are added while there is room.
Resolve ==
  /\ UNCHANGED result
  /\ \E S \in SUBSET Address :
       /\ Stored \subseteq S /\ Cardinality(S) <= MAX_SOURCES
       /\ port_of' \in [S -> Port]
  /\ \A a \in Stored : port_of'[a] = port_of[a]

Next ==
  \/ \E ip \in Address \cup {Unspecified} :
       \/ RemoveSource(ip)
       \/ \E port \in Port : AddSource(ip, port) \/ ProcessReceive(ip, port)
  \/ Resolve

Spec == Init /\ [][Next]_vars
=============================================================================

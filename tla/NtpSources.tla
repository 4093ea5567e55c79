----------------------------- MODULE NtpSources -----------------------------
(***************************************************************************)
(* The table of NTP sources (ntp_sources.c): a hash table with linear      *)
(* probing that is rebuilt when a source is removed, and the list of       *)
(* sources whose names the resolver has not answered for yet, retried from *)
(* a timeout of their own.                                                 *)
(*                                                                         *)
(* A record keeps what this module or its callers tell apart: address,     *)
(* port and whether the association was last put online (its protocol is   *)
(* module NtpAssociation).  Sources are named in the configuration only;   *)
(* commands give addresses.                                                *)
(***************************************************************************)
EXTENDS Integers, FiniteSets, Sequences, SequencesExt

CONSTANTS
  Address, Port,
  Unspecified,      \* an address of neither family
  Hash,             \* hash of each address, from the bytes of the address in the code
  Name,             \* host names of the configuration
  Configs,          \* what the configuration may list: sequences of [name, online]
  Online,           \* values the option online may have in an add command
  Commands,         \* commands given: subset of {"online", "offline"}
  N_RECORDS, MAX_SOURCES,
  MaxInterval,      \* limit of resolving_interval, 9 in the code
  Free              \* a slot whose remote_addr is NULL

ASSUME TableAssumption == 
  /\ N_RECORDS \in Nat /\ MAX_SOURCES \in Nat /\ MAX_SOURCES < N_RECORDS
  /\ Hash \in [Address -> 0 .. N_RECORDS - 1]
  /\ Unspecified \notin Address
ASSUME IntervalAssumption == MaxInterval \in Nat /\ MaxInterval >= 2

Slot == 0 .. N_RECORDS - 1
Record == [ip : Address, port : Port, online : BOOLEAN]
Entry == [name : Name, online : BOOLEAN]

ASSUME KindsAssumption ==
  /\ Port # {} /\ Free \notin Record /\ Name \cap Address = {}
  /\ Configs \subseteq Seq(Entry) /\ Online \subseteq BOOLEAN

VARIABLES
  records,          \* the table
  n_sources,
  unresolved,       \* unresolved_sources: a sequence of [name, online]
  resolving_interval,
  resolve_timers,   \* scheduler: queued resolve_sources timeouts
  configured,       \* CNF_AddSources has run
  dns_up,           \* the resolver no longer answers "try again"
  result,           \* history: the last call: address, port and answer
  blanket,          \* history: the last online or offline command to all sources
  since             \* history: addresses and names added or commanded on their own since it

vars == <<records, n_sources, unresolved, resolving_interval, resolve_timers,
          configured, dns_up, result, blanket, since>>
resolver == <<unresolved, resolving_interval, resolve_timers>>
history == <<blanket, since>>

\* Before a command to all sources there is nothing to remember.
Since(S) == IF blanket = "none" THEN {} ELSE S

Init ==
  /\ records = [i \in Slot |-> Free] /\ n_sources = 0
  /\ unresolved = <<>> /\ resolving_interval = 0 /\ resolve_timers = 0
  /\ configured = FALSE /\ dns_up = FALSE
  /\ result = <<>> /\ blanket = "none" /\ since = {}

-----------------------------------------------------------------------------
(* The hash table. *)

Used(r) == {i \in Slot : r[i] # Free}

\* The slots in the order they are probed.
ProbeAt(ip, k) == (Hash[ip] + k) % N_RECORDS

\* find_slot: the first slot that is free or holds the address.
FindSlot(r, ip) ==
  LET stops == {k \in Slot : LET i == ProbeAt(ip, k) IN r[i] = Free \/ r[i].ip = ip}
  IN ProbeAt(ip, Min(stops))

\* Fault: the port is not compared.
FoundAnyPort(r, ip, port) ==
  IF ip = Unspecified THEN 0 ELSE IF r[FindSlot(r, ip)] = Free THEN 0 ELSE 2

\* find_slot's found: 0 for an empty slot, 1 when the address matches, 2 when
\* the port does too.  An address of neither family is never found.
Found(r, ip, port) ==
  IF ip = Unspecified THEN 0
  ELSE LET rec == r[FindSlot(r, ip)] IN
       IF rec = Free THEN 0 ELSE IF rec.port = port THEN 2 ELSE 1

Insert(r, rec) == [r EXCEPT ![FindSlot(r, rec.ip)] = rec]

\* The records put back one by one, from the first slot on, into an empty table.
Rehash(r) ==
  FoldLeft(LAMBDA t, i : IF r[i - 1] = Free THEN t ELSE Insert(t, r[i - 1]),
           [i \in Slot |-> Free], [i \in 1 .. N_RECORDS |-> i])

\* The answer of NSR_AddSource.
Add(r, n, ip, port) ==
  IF Found(r, ip, port) # 0 THEN "NSR_AlreadyInUse"
  ELSE IF n = MAX_SOURCES THEN "NSR_TooManySources"
  ELSE IF ip = Unspecified THEN "NSR_InvalidAF" ELSE "NSR_Success"

-----------------------------------------------------------------------------
(* The resolver. *)

\* Answers of DNS_Name2IPAddress.
Answer == Address \cup {"DNS_Failure"} \cup (IF dns_up THEN {} ELSE {"DNS_TryAgain"})

\* A resolved name becomes a source on the port of its directive.
SourceAt(ip, online) == [ip |-> ip, port |-> CHOOSE p \in Port : TRUE, online |-> online]

\* The state of the loop of resolve_sources after one more name was answered.
Resolved(t, entry, answer) ==
  IF answer = "DNS_TryAgain" THEN [t EXCEPT !.left = Append(@, entry)]
  ELSE IF answer \in Address /\ Add(t.records, t.n, answer, 0) = "NSR_Success"
    THEN [records |-> Insert(t.records, SourceAt(answer, entry.online)), n |-> t.n + 1,
          left |-> t.left,
          since |-> IF entry.name \in t.since THEN t.since \cup {answer} ELSE t.since \ {answer}]
  ELSE t

\* What resolve_sources may leave of the table and of the list us, one name after
\* the other.
Passes(us, exempt) ==
  LET start == [records |-> records, n |-> n_sources, left |-> <<>>, since |-> exempt]
      answered(T, entry) == {Resolved(t, entry, answer) : t \in T, answer \in Answer}
  IN FoldLeft(answered, {start}, us)

\* Fault: what is left is not tried again.
RearmNever(left, interval, timers) ==
  /\ resolving_interval' = IF left = <<>> THEN 0 ELSE Min({interval + 1, MaxInterval})
  /\ resolve_timers' = timers

\* The end of resolve_sources: another try is queued while names are left.
Rearm(left, interval, timers) ==
  /\ resolving_interval' = IF left = <<>> THEN 0 ELSE Min({interval + 1, MaxInterval})
  /\ resolve_timers' = IF left = <<>> THEN timers ELSE timers + 1

\* Fault: the timeout that would retry is left queued.
CancelledNot(timers) == timers

\* SCH_RemoveTimeout(resolving_id).
Cancelled(timers) == timers - 1

\* The effect of NSR_ResolveSources on its list us and the timeout queued with
\* interval; t is the pass it makes, if it makes one.
ResolveNow(us, interval, timers, exempt, t) ==
  IF interval = 0
    THEN /\ t = [records |-> records, n |-> n_sources, left |-> us, since |-> exempt]
         /\ resolving_interval' = 0 /\ resolve_timers' = timers
    ELSE Rearm(t.left, interval - 1, Cancelled(timers))

SetOnline(r, S, on) ==
  [i \in Slot |-> IF r[i] # Free /\ r[i].ip \in S THEN [r[i] EXCEPT !.online = on] ELSE r[i]]

\* Fault: an offline or online command to all sources skips the names.
SetNamesNothing(us, on) == us

\* The options of the names not yet resolved.
SetNames(us, on) == [i \in 1 .. Len(us) |-> [us[i] EXCEPT !.online = on]]

-----------------------------------------------------------------------------
(* Operations. *)

NSR_AddSource(ip, port, online) ==
  /\ result' = <<ip, port, Add(records, n_sources, ip, port)>>
  /\ IF result'[3] = "NSR_Success"
       THEN /\ records' = Insert(records, [ip |-> ip, port |-> port, online |-> online])
            /\ n_sources' = n_sources + 1
            /\ since' = Since(since \cup {ip})
       ELSE UNCHANGED <<records, n_sources, since>>
  /\ UNCHANGED <<resolver, configured, dns_up, blanket>>

NSR_RemoveSource(ip) ==
  /\ IF Found(records, ip, 0) = 0
       THEN result' = <<ip, 0, "NSR_NoSuchSource">> /\ UNCHANGED <<records, n_sources, since>>
       ELSE /\ result' = <<ip, 0, "NSR_Success">>
            /\ records' = Rehash([records EXCEPT ![FindSlot(records, ip)] = Free])
            /\ n_sources' = n_sources - 1
            /\ since' = since \ {ip}
  /\ UNCHANGED <<resolver, configured, dns_up, blanket>>

NSR_ProcessReceive(ip, port) ==
  /\ result' = <<ip, port, IF Found(records, ip, port) = 2
                            THEN "NCR_ProcessKnown" ELSE "NCR_ProcessUnknown">>
  /\ UNCHANGED <<records, n_sources, resolver, configured, dns_up, history>>

\* NSR_AddUnresolvedSource for every source of the configuration, then
\* NSR_ResolveSources; this happens once.
CNF_AddSources ==
  /\ ~configured /\ configured' = TRUE
  /\ \E us \in Configs :
       LET exempt == Since(since \cup {us[i].name : i \in 1 .. Len(us)})
           starts == us # <<>>
       IN \E t \in Passes(us, exempt) :
            /\ ResolveNow(us, IF starts THEN 2 ELSE 0, IF starts THEN 1 ELSE 0, exempt, t)
            /\ records' = t.records /\ n_sources' = t.n
            /\ unresolved' = t.left /\ since' = t.since
  /\ UNCHANGED <<dns_up, result, blanket>>

\* The scheduler dispatches resolve_sources.
ResolveTimeout ==
  /\ resolve_timers > 0
  /\ UNCHANGED <<configured, dns_up, result, blanket>>
  /\ \E t \in Passes(unresolved, since) :
       /\ Rearm(t.left, resolving_interval, resolve_timers - 1)
       /\ records' = t.records /\ n_sources' = t.n
       /\ unresolved' = t.left /\ since' = t.since

\* The sources a command is for: those at an address, or all of them.
Targets(ip) == IF ip = Unspecified THEN Address ELSE {ip}

\* The names are tried again before any source is taken online.
NSR_TakeSourcesOnline(ip) ==
  /\ \E t \in Passes(unresolved, since) :
       /\ ResolveNow(unresolved, resolving_interval, resolve_timers, since, t)
       /\ records' = SetOnline(t.records, Targets(ip), TRUE)
       /\ n_sources' = t.n
       /\ unresolved' = IF ip = Unspecified THEN SetNames(t.left, TRUE) ELSE t.left
       /\ since' = IF ip = Unspecified THEN {} ELSE Since(t.since \cup {ip})
  /\ blanket' = IF ip = Unspecified THEN "online" ELSE blanket
  /\ UNCHANGED <<configured, dns_up, result>>

NSR_TakeSourcesOffline(ip) ==
  /\ records' = SetOnline(records, Targets(ip), FALSE)
  /\ unresolved' = IF ip = Unspecified THEN SetNames(unresolved, FALSE) ELSE unresolved
  /\ since' = IF ip = Unspecified THEN {} ELSE Since(since \cup {ip})
  /\ blanket' = IF ip = Unspecified THEN "offline" ELSE blanket
  /\ UNCHANGED <<n_sources, resolving_interval, resolve_timers, configured, dns_up, result>>

\* The resolver starts to answer.
DnsRecovers ==
  /\ ~dns_up /\ dns_up' = TRUE
  /\ UNCHANGED <<records, n_sources, resolver, configured, result, history>>

Next ==
  \/ \E ip \in Address \cup {Unspecified}, port \in Port :
       \/ \E online \in Online : NSR_AddSource(ip, port, online)
       \/ NSR_ProcessReceive(ip, port)
  \/ \E ip \in Address \cup {Unspecified} : NSR_RemoveSource(ip)
  \/ CNF_AddSources
  \/ ResolveTimeout
  \/ \E ip \in Address \cup {Unspecified} :
       \/ "online" \in Commands /\ NSR_TakeSourcesOnline(ip)
       \/ "offline" \in Commands /\ NSR_TakeSourcesOffline(ip)
  \/ DnsRecovers

Spec == Init /\ [][Next]_vars

\* The scheduler dispatches the queued retry once its time has come.
FairSpec == Spec /\ WF_vars(ResolveTimeout)

-----------------------------------------------------------------------------
(* Properties. *)

\* A retry is queued, one only, exactly while names are unresolved, whichever
\* of the timeout and the online commands tried them last.
RetryWhileUnresolved ==
  /\ resolve_timers = IF unresolved = <<>> THEN 0 ELSE 1
  /\ resolving_interval = 0 <=> unresolved = <<>>

\* An online or offline command to all sources holds for the names too: a
\* source that enters the table after it, from a name known before it, is in
\* the mode the command asked for.
CommandReachesNames ==
  blanket # "none" =>
    /\ \A i \in Used(records) : records[i].ip \notin since =>
         (records[i].online <=> blanket = "online")
    /\ \A i \in 1 .. Len(unresolved) : unresolved[i].name \notin since =>
         (unresolved[i].online <=> blanket = "online")

\* Once the resolver answers, every name is resolved or given up.
NamesResolved == dns_up /\ unresolved # <<>> ~> unresolved = <<>>

\* The map the hash table stands for.
Map == INSTANCE SourceMap WITH
  port_of <- [a \in {records[i].ip : i \in Used(records)} |->
               records[CHOOSE i \in Used(records) : records[i].ip = a].port]

\* The hash table, its probing, its rehash and its limit implement the map of
\* module SourceMap: every call answers, and every packet is dispatched, as if
\* there were no slots.
MapSpec == Map!Spec
=============================================================================

---------------------------- MODULE NtpExchange ----------------------------
(***************************************************************************)
(* Two hosts that run chronyd exchange NTP packets over a network that     *)
(* loses, delays, reorders and duplicates them (ntp_core.c: transmit_packet,*)
(* the timestamp tests of receive_packet, NCR_ProcessKnown and             *)
(* NCR_ProcessUnknown), while either host steps its clock.                 *)
(*                                                                         *)
(* now is true time.  Host n's clock reads now + off[n].  A transmit       *)
(* timestamp is both an identity, which its random low bits make unique,   *)
(* and a reading: a packet carries the identity as xmt (and org), which is *)
(* the true time of sending, and the reading as tx.  Zero is the unknown   *)
(* timestamp.  The association's own timer, modes and polls are module     *)
(* NtpAssociation: here a probe may leave at any time.                     *)
(***************************************************************************)
EXTENDS Integers

CONSTANTS
  Node,       \* the two hosts
  Peer,       \* the other host
  Pairs,      \* what the hosts may be configured as, a function of Node each
  Steps,      \* steps the operator or the selection applies to a clock
  Offsets,    \* bound: offsets a clock may have
  MaxTime     \* bound: number of events

Modes == {"none", "MODE_CLIENT", "MODE_ACTIVE"}

ASSUME PeerAssumption == Peer \in [Node -> Node] /\ \A n \in Node : Peer[n] # n /\ Peer[Peer[n]] = n
ASSUME PairsAssumption == Pairs \subseteq [Node -> Modes]
\* Clocks read times after the epoch, the origin of now.
ASSUME ClockAssumption == Steps \subseteq Int /\ Offsets \subseteq Nat /\ 0 \in Offsets /\ MaxTime \in Nat

VARIABLES
  now,          \* true time; the next event has this time
  off,          \* per host: error of its clock
  mode,         \* per host: its association with the other host, "none" if it has none
  remote_orig,  \* per association: transmit timestamp of the last packet received
  local_rx,     \* reading of the clock when it was received
  local_tx,     \* reading of the clock when the last packet was sent
  local_ntp_tx, \* transmit timestamp of that packet
  msgs,         \* packets sent: each may arrive any number of times, in any order, or never
  sample,       \* the last sample the association accumulated
  probe,        \* history: transmit timestamp of the last probe the timer sent
  received      \* history: transmit timestamps of the packets the association was given

instance == <<remote_orig, local_rx, local_tx, local_ntp_tx>>
exchangeHistory == <<sample, probe, received>>
exchangeVars == <<now, off, mode, instance, msgs, exchangeHistory>>

Packet == [to : Node, mode : {"MODE_CLIENT", "MODE_ACTIVE", "MODE_SERVER", "MODE_PASSIVE"},
           org : Nat, rec : Int, xmt : Nat, tx : Int]

\* theta is kept doubled; err is the error of the remote clock relative to the
\* local one, also doubled: what theta ought to be.
Sample == [org : Nat, xmt : Nat, at : Nat, theta : Int, delta : Int, err : Int]
NoSample == [org |-> 0, xmt |-> 0, at |-> 0, theta |-> 0, delta |-> 0, err |-> 0]

Reading(n) == now + off[n]

ExchangeInit ==
  /\ now = 1
  /\ off = [n \in Node |-> 0]
  /\ mode \in Pairs
  /\ remote_orig = [n \in Node |-> 0] /\ local_rx = [n \in Node |-> 0]
  /\ local_tx = [n \in Node |-> 0] /\ local_ntp_tx = [n \in Node |-> 0]
  /\ msgs = {}
  /\ sample = [n \in Node |-> NoSample]
  /\ probe = [n \in Node |-> 0]
  /\ received = [n \in Node |-> {}]

Tick == now < MaxTime /\ now' = now + 1

-----------------------------------------------------------------------------
(* transmit_packet. *)

PacketFrom(n, my_mode, orig_ts, rx) ==
  [to |-> Peer[n], mode |-> my_mode, org |-> orig_ts, rec |-> rx, xmt |-> now, tx |-> Reading(n)]

\* The packet leaves, and its time of sending is kept.
TransmitKept(n, my_mode, orig_ts, rx) ==
  /\ msgs' = msgs \cup {PacketFrom(n, my_mode, orig_ts, rx)}
  /\ local_tx' = [local_tx EXCEPT ![n] = Reading(n)]
  /\ local_ntp_tx' = [local_ntp_tx EXCEPT ![n] = now]

\* local_tx and local_ntp_tx are NULL: the packet leaves, nothing is kept.
TransmitForgotten(n, my_mode, orig_ts, rx) ==
  /\ msgs' = msgs \cup {PacketFrom(n, my_mode, orig_ts, rx)}
  /\ UNCHANGED <<local_tx, local_ntp_tx>>

\* Fault: the time of sending of a probe is not kept.
TransmitProbeForgotten(n) ==
  /\ Tick
  /\ mode[n] # "none"
  /\ TransmitForgotten(n, mode[n], remote_orig[n], local_rx[n])
  /\ probe' = [probe EXCEPT ![n] = now]
  /\ UNCHANGED <<off, mode, remote_orig, local_rx, sample, received>>

\* transmit_timeout: a probe, which also answers the last packet received.
TransmitProbe(n) ==
  /\ Tick
  /\ mode[n] # "none"
  /\ TransmitKept(n, mode[n], remote_orig[n], local_rx[n])
  /\ probe' = [probe EXCEPT ![n] = now]
  /\ UNCHANGED <<off, mode, remote_orig, local_rx, sample, received>>

-----------------------------------------------------------------------------
(* receive_packet. *)

Test1(n, m) == m.xmt # remote_orig[n]
Test2(n, m) == m.org = local_ntp_tx[n]
Test3(n, m) == m.org # 0 /\ m.rec # 0

\* Fault: an answer to any earlier packet will do.
AnyAnswerPasses(n, m) == Test1(n, m) /\ Test3(n, m)

TimestampsPass(n, m) == Test1(n, m) /\ Test2(n, m) /\ Test3(n, m)

\* theta, delta and the sample they make.
Measure(n, m) ==
  [org |-> m.org, xmt |-> m.xmt, at |-> now,
   theta |-> (m.rec + m.tx) - (local_tx[n] + Reading(n)),
   delta |-> (Reading(n) - local_tx[n]) - (m.tx - m.rec),
   err |-> 2 * ((m.tx - m.xmt) - off[n])]

\* The tests that do not compare timestamps may fail a packet too.
ReceiveAndMeasure(n, m) ==
  /\ \/ TimestampsPass(n, m) /\ sample' = [sample EXCEPT ![n] = Measure(n, m)]
     \/ UNCHANGED sample
  /\ remote_orig' = [remote_orig EXCEPT ![n] = m.xmt]
  /\ local_rx' = [local_rx EXCEPT ![n] = Reading(n)]
  /\ received' = [received EXCEPT ![n] = @ \cup {m.xmt}]
  /\ UNCHANGED <<local_tx, local_ntp_tx, msgs>>

\* NCR_ProcessKnown: a client is answered whatever it is to us.
ProcessKnown(n, m) ==
  /\ mode[n] # "none"
  /\ \/ /\ m.mode = "MODE_CLIENT"
        /\ TransmitKept(n, "MODE_SERVER", m.xmt, Reading(n))
        /\ UNCHANGED <<remote_orig, local_rx, sample, received>>
     \/ /\ m.mode # "MODE_CLIENT"
        /\ ReceiveAndMeasure(n, m)

\* NCR_ProcessUnknown: a client or an active peer is answered and forgotten.
ProcessUnknown(n, m) ==
  /\ mode[n] = "none"
  /\ \/ /\ m.mode = "MODE_CLIENT"
        /\ TransmitForgotten(n, "MODE_SERVER", m.xmt, Reading(n))
     \/ /\ m.mode = "MODE_ACTIVE"
        /\ TransmitForgotten(n, "MODE_PASSIVE", m.xmt, Reading(n))
  /\ UNCHANGED <<remote_orig, local_rx, sample, received>>

ProcessReceive(n, m) ==
  /\ Tick
  /\ m.to = n
  /\ ProcessKnown(n, m) \/ ProcessUnknown(n, m)
  /\ UNCHANGED <<off, mode, probe>>

-----------------------------------------------------------------------------
(* Clock steps, and an association that is deleted and added again. *)

\* Fault: local_rx keeps its reading.
SlewTransmitOnly(n, d) ==
  /\ local_tx' = [local_tx EXCEPT ![n] = @ + d]
  /\ UNCHANGED local_rx

\* NCR_SlewTimes: both readings are moved, whether they are known or not.
SlewTimes(n, d) ==
  /\ local_rx' = [local_rx EXCEPT ![n] = @ + d]
  /\ local_tx' = [local_tx EXCEPT ![n] = @ + d]

\* The parameter-change handler of ntp_sources.c.
StepClock(n, d) ==
  /\ Tick
  /\ off[n] + d \in Offsets
  /\ off' = [off EXCEPT ![n] = @ + d]
  /\ IF mode[n] = "none" THEN UNCHANGED <<local_rx, local_tx>> ELSE SlewTimes(n, d)
  /\ UNCHANGED <<mode, remote_orig, local_ntp_tx, msgs, exchangeHistory>>

\* NCR_DestroyInstance, then NCR_GetInstance for the same address.
Readd(n) ==
  /\ Tick
  /\ mode[n] # "none"
  /\ remote_orig' = [remote_orig EXCEPT ![n] = 0]
  /\ local_rx' = [local_rx EXCEPT ![n] = 0]
  /\ local_tx' = [local_tx EXCEPT ![n] = 0]
  /\ local_ntp_tx' = [local_ntp_tx EXCEPT ![n] = 0]
  /\ probe' = [probe EXCEPT ![n] = 0]
  /\ received' = [received EXCEPT ![n] = {}]
  /\ UNCHANGED <<off, mode, msgs, sample>>

ExchangeNext ==
  \E n \in Node :
    \/ TransmitProbe(n)
    \/ \E m \in msgs : ProcessReceive(n, m)
    \/ \E d \in Steps : StepClock(n, d)
    \/ Readd(n)

ExchangeSpec == ExchangeInit /\ [][ExchangeNext]_exchangeVars

-----------------------------------------------------------------------------
(* What holds between the packets, the saved times and the clocks: the parts of *)
(* the inductive invariant of NtpProofs.                                        *)

\* A packet says it was sent before now, and that the packet it answers was
\* received after it was sent, all by the clock of its sender when it left.
PacketsCausal ==
  \A m \in msgs :
    /\ 0 < m.xmt /\ m.xmt < now /\ m.xmt <= m.tx
    /\ m.org # 0 => m.rec - (m.tx - m.xmt) >= m.org

\* The saved readings follow the clock, and no sample is newer than the last
\* packet sent.
SavedCausal ==
  \A n \in Node :
    /\ off[n] \in Offsets
    /\ remote_orig[n] # 0 => local_rx[n] - off[n] >= remote_orig[n]
    /\ local_ntp_tx[n] # 0 => local_tx[n] - off[n] = local_ntp_tx[n]
    /\ local_ntp_tx[n] < now /\ sample[n].org < now
    /\ local_ntp_tx[n] # 0 => sample[n].org <= local_ntp_tx[n]
    /\ mode[n] = "none" => remote_orig[n] = 0 /\ local_ntp_tx[n] = 0

\* Who sends packets of which mode, and when the last packet sent is not a probe.
RolesAgree ==
  /\ \A m \in msgs :
       LET sender == Peer[m.to] IN
         /\ m.mode = "MODE_CLIENT" => mode[sender] = "MODE_CLIENT"
         /\ m.mode = "MODE_ACTIVE" => mode[sender] = "MODE_ACTIVE"
         /\ m.mode = "MODE_PASSIVE" => mode[sender] = "none"
         /\ m.mode = "MODE_SERVER" => mode[m.to] = "MODE_CLIENT"
  /\ \A n \in Node :
       /\ local_ntp_tx[n] # probe[n] => mode[Peer[n]] = "MODE_CLIENT"
       /\ remote_orig[n] \in received[n] \cup {0}

-----------------------------------------------------------------------------
(* Properties. *)

\* Types; the round trip delay of a sample is never negative, however the clocks
\* were stepped between the request and the reply.
TypeOK ==
  /\ now \in Nat
  /\ off \in [Node -> Int]
  /\ mode \in [Node -> Modes]
  /\ remote_orig \in [Node -> Nat] /\ local_ntp_tx \in [Node -> Nat]
  /\ local_rx \in [Node -> Int] /\ local_tx \in [Node -> Int]
  /\ msgs \subseteq Packet
  /\ sample \in [Node -> Sample]
  /\ \A n \in Node : sample[n].delta >= 0
  /\ probe \in [Node -> Nat]
  /\ received \in [Node -> SUBSET Nat]

\* The error of the remote clock, as it was when the packet left, lies within half
\* the delay of the measured offset: the interval the selection gives this sample
\* contains the truth.  It has to survive clock steps of either host while packets
\* are under way, peers that answer a packet minutes after it came (local_rx), the
\* answer to a client query that replaces local_tx, and duplicates of old packets.
SampleBoundsOffset ==
  \A n \in Node :
    LET s == sample[n] IN s.theta - s.err <= s.delta /\ s.err - s.theta <= s.delta

\* A sample never rests on an older request than the sample before it, across the
\* deletion and re-addition of the source: late replies are not used.
SamplesAdvance ==
  [][\A n \in Node : sample'[n] # sample[n] => sample'[n].org >= sample[n].org]_exchangeVars

\* Two hosts that are clients of each other.
Mutual(n) == mode[n] = "MODE_CLIENT" /\ mode[Peer[n]] = "MODE_CLIENT"

\* An answer to the last probe that has not arrived yet will pass the timestamp
\* tests when it does.  (Not so for two hosts that are clients of each other: the
\* reply to the other's query takes the place of the probe in local_ntp_tx.)
FreshAnswerPasses ==
  \A m \in msgs :
    /\ m.mode # "MODE_CLIENT" /\ ~Mutual(m.to)
    /\ m.org # 0 /\ m.org = probe[m.to]
    /\ m.xmt \notin received[m.to]
    => TimestampsPass(m.to, m)
=============================================================================

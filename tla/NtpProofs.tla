------------------------------ MODULE NtpProofs ------------------------------
(***************************************************************************)
(* Proofs about the packets that two hosts exchange (NtpExchange), for     *)
(* every pair of configurations, every set of clock steps and every number *)
(* of events, whatever the network does; about the table that says whose   *)
(* packet it is (NtpSources), for every hash, size and configuration; and  *)
(* about one association (NtpAssociation), for every set of timeouts,      *)
(* every source option, every burst size and every bound.                  *)
(***************************************************************************)
EXTENDS NtpAssociation, NtpExchange, NtpSources,
        FiniteSetTheorems, SequenceTheorems, WellFoundedInduction, TLAPS

-----------------------------------------------------------------------------
(* The exchange of packets. *)

ExchangeInv == TypeOK /\ PacketsCausal /\ SavedCausal /\ SampleBoundsOffset

-----------------------------------------------------------------------------
(* Facts about single definitions. *)

\* The two hosts are each other's peer.
LEMMA PeerType == \A n \in Node : Peer[n] \in Node /\ Peer[n] # n /\ Peer[Peer[n]] = n
BY PeerAssumption DEF PeerAssumption

\* A packet that leaves is well typed and causal, if the reading it carries is.
LEMMA PacketFromType ==
  ASSUME TypeOK, NEW n \in Node, NEW o \in Nat, NEW r \in Int, Reading(n) \in Int,
         NEW w \in {"MODE_CLIENT", "MODE_ACTIVE", "MODE_SERVER", "MODE_PASSIVE"}
  PROVE  PacketFrom(n, w, o, r) \in Packet
BY PeerType DEF PacketFrom, Packet, TypeOK

\* A reading is a number.
LEMMA ReadingType == ASSUME TypeOK, NEW n \in Node PROVE Reading(n) \in Int
BY DEF TypeOK, Reading

\* The heart of the matter: a packet that passes the tests makes a sample whose
\* delay is not negative and bounds the error of its offset.
LEMMA MeasureBounds ==
  ASSUME ExchangeInv, NEW n \in Node, NEW m \in msgs, TimestampsPass(n, m)
  PROVE  /\ Measure(n, m) \in Sample
         /\ Measure(n, m).delta >= 0
         /\ Measure(n, m).theta - Measure(n, m).err <= Measure(n, m).delta
         /\ Measure(n, m).err - Measure(n, m).theta <= Measure(n, m).delta
         /\ Measure(n, m).org = local_ntp_tx[n]
<1>1. /\ m.org \in Nat /\ m.xmt \in Nat /\ m.rec \in Int /\ m.tx \in Int
      /\ now \in Nat /\ off[n] \in Int /\ local_tx[n] \in Int
  BY DEF ExchangeInv, TypeOK, Packet
<1>2. m.org = local_ntp_tx[n] /\ m.org # 0
  BY DEF TimestampsPass, Test2, Test3
<1>3. m.rec - (m.tx - m.xmt) >= local_tx[n] - off[n] /\ m.xmt < now
  BY <1>1, <1>2 DEF ExchangeInv, PacketsCausal, SavedCausal
<1> QED
  BY <1>1, <1>2, <1>3 DEF Measure, Reading, Sample

-----------------------------------------------------------------------------
(* The inductive invariant. *)

\* ExchangeInit establishes it.
LEMMA ExchangeInvInit == ExchangeInit => ExchangeInv
<1> SUFFICES ASSUME ExchangeInit PROVE ExchangeInv
  OBVIOUS
<1>1. NoSample \in Sample /\ NoSample.org = 0 /\ NoSample.delta = 0 /\ NoSample.theta = 0 /\ NoSample.err = 0
  BY DEF NoSample, Sample
<1>2. mode \in [Node -> Modes]
  BY PairsAssumption DEF ExchangeInit, PairsAssumption
<1>3. TypeOK
  BY <1>1, <1>2 DEF ExchangeInit, TypeOK
<1>4. PacketsCausal /\ SavedCausal /\ SampleBoundsOffset
  BY <1>1, ClockAssumption DEF ExchangeInit, PacketsCausal, SavedCausal, SampleBoundsOffset, ClockAssumption
<1> QED BY <1>3, <1>4 DEF ExchangeInv

\* A packet sent by n with an identity and a reading that are causal joins the others.
LEMMA SentCausal ==
  ASSUME ExchangeInv, Tick, NEW n \in Node, NEW o \in Nat, NEW r \in Int,
         NEW w \in {"MODE_CLIENT", "MODE_ACTIVE", "MODE_SERVER", "MODE_PASSIVE"},
         o # 0 => r - off[n] >= o,
         msgs' = msgs \cup {PacketFrom(n, w, o, r)}
  PROVE  msgs' \subseteq Packet /\ PacketsCausal' /\ now' \in Nat /\ now' = now + 1 /\ now > 0
<1>1. now \in Nat /\ now > 0 /\ now' = now + 1 /\ off[n] \in Nat
  <2>1. now \in Nat /\ off[n] \in Nat /\ local_ntp_tx[n] \in Nat /\ local_ntp_tx[n] < now
    BY ClockAssumption DEF ExchangeInv, TypeOK, SavedCausal, ClockAssumption
  <2> QED BY <2>1 DEF Tick
<1>2. PacketFrom(n, w, o, r) \in Packet
  BY PacketFromType, ReadingType DEF ExchangeInv
<1>3. ASSUME NEW m \in msgs
      PROVE  0 < m.xmt /\ m.xmt < now' /\ m.xmt <= m.tx /\ (m.org # 0 => m.rec - (m.tx - m.xmt) >= m.org)
  <2>1. m.xmt \in Nat
    BY DEF ExchangeInv, TypeOK, Packet
  <2> QED BY <1>1, <2>1 DEF ExchangeInv, PacketsCausal
<1>4. ASSUME NEW m, m = PacketFrom(n, w, o, r)
      PROVE  0 < m.xmt /\ m.xmt < now' /\ m.xmt <= m.tx /\ (m.org # 0 => m.rec - (m.tx - m.xmt) >= m.org)
  BY <1>1, <1>4 DEF PacketFrom, Reading
<1> QED
  BY <1>1, <1>2, <1>3, <1>4 DEF ExchangeInv, TypeOK, PacketsCausal

\* A step that sends nothing leaves the packets causal.
LEMMA SilentCausal ==
  ASSUME ExchangeInv, Tick, UNCHANGED msgs
  PROVE  msgs' \subseteq Packet /\ PacketsCausal' /\ now' \in Nat /\ now' = now + 1
<1>1. now \in Nat /\ now' = now + 1
  BY DEF ExchangeInv, TypeOK, Tick
<1>2. \A m \in msgs : m.xmt \in Nat
  BY DEF ExchangeInv, TypeOK, Packet
<1> QED
  BY <1>1, <1>2 DEF ExchangeInv, TypeOK, PacketsCausal

\* A probe preserves it.
LEMMA ExchangeInvProbe == ASSUME ExchangeInv, NEW n \in Node, TransmitProbe(n) PROVE ExchangeInv'
<1>1. /\ mode[n] \in {"MODE_CLIENT", "MODE_ACTIVE"} /\ remote_orig[n] \in Nat /\ local_rx[n] \in Int
      /\ Reading(n) \in Int /\ now \in Nat
  BY ReadingType DEF ExchangeInv, TypeOK, Modes, TransmitProbe
<1>2. remote_orig[n] # 0 => local_rx[n] - off[n] >= remote_orig[n]
  BY DEF ExchangeInv, SavedCausal
<1>3. msgs' \subseteq Packet /\ PacketsCausal' /\ now' \in Nat /\ now' = now + 1 /\ now > 0
  BY <1>1, <1>2, SentCausal DEF TransmitProbe, TransmitKept
<1>4. TypeOK'
  BY <1>1, <1>3 DEF ExchangeInv, TypeOK, TransmitProbe, TransmitKept
<1>5. SavedCausal'
  BY <1>1, <1>3 DEF ExchangeInv, TypeOK, SavedCausal, TransmitProbe, TransmitKept, Reading, Sample
<1>6. SampleBoundsOffset'
  BY DEF ExchangeInv, SampleBoundsOffset, TransmitProbe
<1> QED BY <1>3, <1>4, <1>5, <1>6 DEF ExchangeInv

\* A packet for receive_packet preserves it: the accepted sample is a measure.
LEMMA ExchangeInvReceivePacket ==
  ASSUME ExchangeInv, Tick, NEW n \in Node, NEW m \in msgs, mode[n] # "none",
         ReceiveAndMeasure(n, m), UNCHANGED <<off, mode, probe>>
  PROVE  ExchangeInv'
<1>1. msgs' \subseteq Packet /\ PacketsCausal' /\ now' \in Nat /\ now' = now + 1
  BY SilentCausal DEF ReceiveAndMeasure
<1>2. /\ m.xmt \in Nat /\ m.xmt < now /\ now \in Nat
      /\ Reading(n) \in Int /\ Reading(n) - off[n] = now
  BY ReadingType DEF ExchangeInv, TypeOK, Packet, PacketsCausal, Reading
<1>3. /\ sample' \in [Node -> Sample]
      /\ \A k \in Node : /\ sample'[k].delta >= 0
                         /\ sample'[k].theta - sample'[k].err <= sample'[k].delta
                         /\ sample'[k].err - sample'[k].theta <= sample'[k].delta
                         /\ sample'[k].org = sample[k].org \/ sample'[k].org = local_ntp_tx[k]
  <2>1. CASE TimestampsPass(n, m) /\ sample' = [sample EXCEPT ![n] = Measure(n, m)]
    BY <2>1, MeasureBounds DEF ExchangeInv, TypeOK, SampleBoundsOffset
  <2>2. CASE UNCHANGED sample
    BY <2>2 DEF ExchangeInv, TypeOK, SampleBoundsOffset
  <2> QED BY <2>1, <2>2 DEF ReceiveAndMeasure
<1>4. TypeOK'
  BY <1>1, <1>2, <1>3 DEF ExchangeInv, TypeOK, ReceiveAndMeasure
<1>5. SavedCausal'
  BY <1>1, <1>2, <1>3 DEF ExchangeInv, TypeOK, SavedCausal, ReceiveAndMeasure, Sample
<1>6. SampleBoundsOffset'
  BY <1>3 DEF SampleBoundsOffset
<1> QED BY <1>1, <1>4, <1>5, <1>6 DEF ExchangeInv

\* An arriving packet preserves it.
LEMMA ExchangeInvReceive == ASSUME ExchangeInv, NEW n \in Node, NEW m \in msgs, ProcessReceive(n, m) PROVE ExchangeInv'
<1>1. /\ m.xmt \in Nat /\ m.xmt < now /\ now \in Nat /\ off[n] \in Int
      /\ Reading(n) \in Int /\ Reading(n) - off[n] = now
  BY ReadingType DEF ExchangeInv, TypeOK, Packet, PacketsCausal, Reading
<1>2. Tick /\ UNCHANGED <<off, mode, probe>>
  BY DEF ProcessReceive
<1>3. CASE mode[n] # "none" /\ TransmitKept(n, "MODE_SERVER", m.xmt, Reading(n))
           /\ UNCHANGED <<remote_orig, local_rx, sample, received>>
  <2>1. msgs' \subseteq Packet /\ PacketsCausal' /\ now' \in Nat /\ now' = now + 1 /\ now > 0
    BY <1>1, <1>2, <1>3, SentCausal DEF TransmitKept
  <2>2. TypeOK'
    BY <1>1, <1>2, <1>3, <2>1 DEF ExchangeInv, TypeOK, TransmitKept
  <2>3. SavedCausal'
    BY <1>1, <1>2, <1>3, <2>1 DEF ExchangeInv, TypeOK, SavedCausal, TransmitKept, Reading, Sample
  <2>4. SampleBoundsOffset'
    BY <1>3 DEF ExchangeInv, SampleBoundsOffset
  <2> QED BY <2>1, <2>2, <2>3, <2>4 DEF ExchangeInv
<1>4. CASE mode[n] # "none" /\ ReceiveAndMeasure(n, m)
  BY <1>2, <1>4, ExchangeInvReceivePacket
<1>5. ASSUME NEW w \in {"MODE_SERVER", "MODE_PASSIVE"}, TransmitForgotten(n, w, m.xmt, Reading(n)),
             UNCHANGED <<remote_orig, local_rx, sample, received>>
      PROVE  ExchangeInv'
  <2>1. msgs' \subseteq Packet /\ PacketsCausal' /\ now' \in Nat /\ now' = now + 1
    BY <1>1, <1>2, <1>5, SentCausal DEF TransmitForgotten
  <2>2. TypeOK'
    BY <1>2, <1>5, <2>1 DEF ExchangeInv, TypeOK, TransmitForgotten
  <2>3. SavedCausal'
    BY <1>1, <1>2, <1>5, <2>1 DEF ExchangeInv, TypeOK, SavedCausal, TransmitForgotten, Sample
  <2>4. SampleBoundsOffset'
    BY <1>5 DEF ExchangeInv, SampleBoundsOffset
  <2> QED BY <2>1, <2>2, <2>3, <2>4 DEF ExchangeInv
<1> QED
  BY <1>3, <1>4, <1>5 DEF ProcessReceive, ProcessKnown, ProcessUnknown

\* A clock step preserves it: the saved readings move with the clock.
LEMMA ExchangeInvStep == ASSUME ExchangeInv, NEW n \in Node, NEW d \in Steps, StepClock(n, d) PROVE ExchangeInv'
<1>1. msgs' \subseteq Packet /\ PacketsCausal' /\ now' \in Nat /\ now' = now + 1
  BY SilentCausal DEF StepClock
<1>2. d \in Int /\ off[n] \in Int /\ now \in Nat
  BY ClockAssumption DEF ExchangeInv, TypeOK, ClockAssumption
<1>3. TypeOK'
  BY <1>1, <1>2 DEF ExchangeInv, TypeOK, StepClock, SlewTimes, exchangeHistory
<1>4. SavedCausal'
  <2> SUFFICES ASSUME NEW k \in Node
               PROVE  /\ off'[k] \in Offsets
                      /\ remote_orig'[k] # 0 => local_rx'[k] - off'[k] >= remote_orig'[k]
                      /\ local_ntp_tx'[k] # 0 => local_tx'[k] - off'[k] = local_ntp_tx'[k]
                      /\ local_ntp_tx'[k] < now' /\ sample'[k].org < now'
                      /\ local_ntp_tx'[k] # 0 => sample'[k].org <= local_ntp_tx'[k]
                      /\ mode'[k] = "none" => remote_orig'[k] = 0 /\ local_ntp_tx'[k] = 0
    BY DEF SavedCausal
  <2>1. /\ local_ntp_tx[k] \in Nat /\ remote_orig[k] \in Nat /\ sample[k].org \in Nat
        /\ local_rx[k] \in Int /\ local_tx[k] \in Int /\ off[k] \in Int
    BY DEF ExchangeInv, TypeOK, Sample
  <2>2. UNCHANGED <<mode, remote_orig, local_ntp_tx, sample>>
    BY DEF StepClock, exchangeHistory
  <2>3. CASE k # n
    <3>1. off'[k] = off[k] /\ local_rx'[k] = local_rx[k] /\ local_tx'[k] = local_tx[k]
      BY <2>3 DEF ExchangeInv, TypeOK, StepClock, SlewTimes
    <3> QED BY <1>1, <1>2, <2>1, <2>2, <3>1 DEF ExchangeInv, SavedCausal
  <2>4. CASE k = n /\ mode[n] = "none"
    <3>1. off'[k] \in Offsets
      BY <2>4 DEF ExchangeInv, TypeOK, StepClock
    <3> QED BY <1>1, <1>2, <2>1, <2>2, <2>4, <3>1 DEF ExchangeInv, SavedCausal
  <2>5. CASE k = n /\ mode[n] # "none"
    <3>1. /\ off'[k] = off[k] + d /\ off'[k] \in Offsets
          /\ local_rx'[k] = local_rx[k] + d /\ local_tx'[k] = local_tx[k] + d
      BY <2>5 DEF ExchangeInv, TypeOK, StepClock, SlewTimes
    <3> QED BY <1>1, <1>2, <2>1, <2>2, <3>1 DEF ExchangeInv, SavedCausal
  <2> QED BY <2>3, <2>4, <2>5
<1>5. SampleBoundsOffset'
  BY DEF ExchangeInv, SampleBoundsOffset, StepClock, exchangeHistory
<1> QED BY <1>1, <1>3, <1>4, <1>5 DEF ExchangeInv

\* Deleting the association and adding it again preserves it.
LEMMA ExchangeInvReadd == ASSUME ExchangeInv, NEW n \in Node, Readd(n) PROVE ExchangeInv'
<1>1. msgs' \subseteq Packet /\ PacketsCausal' /\ now' \in Nat /\ now' = now + 1
  BY SilentCausal DEF Readd
<1>2. TypeOK'
  BY <1>1 DEF ExchangeInv, TypeOK, Readd
<1>3. SavedCausal'
  BY <1>1 DEF ExchangeInv, TypeOK, SavedCausal, Readd, Sample
<1>4. SampleBoundsOffset'
  BY DEF ExchangeInv, SampleBoundsOffset, Readd
<1> QED BY <1>1, <1>2, <1>3, <1>4 DEF ExchangeInv

\* Every step preserves it.
LEMMA ExchangeInvStable == ExchangeInv /\ [ExchangeNext]_exchangeVars => ExchangeInv'
<1> SUFFICES ASSUME ExchangeInv, [ExchangeNext]_exchangeVars PROVE ExchangeInv'
  OBVIOUS
<1>1. CASE UNCHANGED exchangeVars
  BY <1>1 DEF exchangeVars, instance, exchangeHistory, ExchangeInv, TypeOK, PacketsCausal, SavedCausal, SampleBoundsOffset
<1> QED
  BY <1>1, ExchangeInvProbe, ExchangeInvReceive, ExchangeInvStep, ExchangeInvReadd DEF ExchangeNext

\* The invariant holds throughout.
LEMMA ExchangeInvariant == ExchangeSpec => []ExchangeInv
BY ExchangeInvInit, ExchangeInvStable, PTL DEF ExchangeSpec

-----------------------------------------------------------------------------
(* The theorems. *)

\* The state is well typed and no sample has a negative delay (transmit_packet,
\* receive_packet and NCR_SlewTimes between them).
THEOREM TypeCorrect == ExchangeSpec => []TypeOK
<1>1. ExchangeInv => TypeOK
  BY DEF ExchangeInv
<1> QED BY <1>1, ExchangeInvariant, PTL

\* Every sample accumulated bounds the true error of the remote clock, for every
\* schedule of probes, losses, duplicates, reorderings, clock steps and re-added
\* sources (receive_packet).
THEOREM SamplesBound == ExchangeSpec => []SampleBoundsOffset
<1>1. ExchangeInv => SampleBoundsOffset
  BY DEF ExchangeInv
<1> QED BY <1>1, ExchangeInvariant, PTL

\* No sample rests on an older request than the one before it (test 2).
THEOREM NoOlderSample == ExchangeSpec => SamplesAdvance
<1>1. ASSUME ExchangeInv, [ExchangeNext]_exchangeVars
      PROVE  [\A n \in Node : sample'[n] # sample[n] => sample'[n].org >= sample[n].org]_exchangeVars
  <2> SUFFICES ASSUME ExchangeNext, NEW n \in Node, sample'[n] # sample[n]
               PROVE  sample'[n].org >= sample[n].org
    BY <1>1
  <2>1. PICK k \in Node, m \in msgs : ProcessReceive(k, m) /\ sample' # sample
    BY DEF ExchangeNext, TransmitProbe, StepClock, exchangeHistory, Readd
  <2>2. TimestampsPass(k, m) /\ sample' = [sample EXCEPT ![k] = Measure(k, m)]
    BY <2>1 DEF ProcessReceive, ProcessKnown, ProcessUnknown, ReceiveAndMeasure
  <2>3. k = n /\ sample'[n] = Measure(n, m) /\ TimestampsPass(n, m)
    BY <1>1, <2>2 DEF ExchangeInv, TypeOK
  <2>4. sample'[n].org = local_ntp_tx[n] /\ local_ntp_tx[n] # 0
    BY <1>1, <2>3, MeasureBounds DEF TimestampsPass, Test2, Test3
  <2> QED BY <1>1, <2>4 DEF ExchangeInv, SavedCausal, TypeOK, Sample
<1> QED BY <1>1, ExchangeInvariant, PTL DEF ExchangeSpec, SamplesAdvance

-----------------------------------------------------------------------------
(* Answers to the last probe. *)

FInv == ExchangeInv /\ RolesAgree

\* ExchangeInit establishes who sends what.
LEMMA FInvInit == ExchangeInit => FInv
BY ExchangeInvInit DEF ExchangeInit, FInv, RolesAgree

\* A packet added to the others agrees with the configuration if it does itself.
LEMMA RolesSent ==
  ASSUME TypeOK, RolesAgree, UNCHANGED mode, NEW n \in Node, NEW o, NEW r,
         NEW w \in {"MODE_CLIENT", "MODE_ACTIVE", "MODE_SERVER", "MODE_PASSIVE"},
         msgs' = msgs \cup {PacketFrom(n, w, o, r)},
         w = "MODE_CLIENT" => mode[n] = "MODE_CLIENT",
         w = "MODE_ACTIVE" => mode[n] = "MODE_ACTIVE",
         w = "MODE_PASSIVE" => mode[n] = "none",
         w = "MODE_SERVER" => mode[Peer[n]] = "MODE_CLIENT"
  PROVE  \A m \in msgs' :
           /\ m.mode = "MODE_CLIENT" => mode'[Peer[m.to]] = "MODE_CLIENT"
           /\ m.mode = "MODE_ACTIVE" => mode'[Peer[m.to]] = "MODE_ACTIVE"
           /\ m.mode = "MODE_PASSIVE" => mode'[Peer[m.to]] = "none"
           /\ m.mode = "MODE_SERVER" => mode'[m.to] = "MODE_CLIENT"
<1>1. PacketFrom(n, w, o, r).to = Peer[n] /\ PacketFrom(n, w, o, r).mode = w /\ Peer[Peer[n]] = n
  BY PeerType DEF PacketFrom
<1> QED BY <1>1 DEF RolesAgree

\* A probe keeps the roles.
LEMMA RolesProbe == ASSUME TypeOK, RolesAgree, NEW n \in Node, TransmitProbe(n) PROVE RolesAgree'
<1>1. mode[n] \in {"MODE_CLIENT", "MODE_ACTIVE"} /\ UNCHANGED mode
      /\ msgs' = msgs \cup {PacketFrom(n, mode[n], remote_orig[n], local_rx[n])}
  BY DEF TypeOK, Modes, TransmitProbe, TransmitKept
<1>2. \A k \in Node : /\ local_ntp_tx'[k] # probe'[k] => mode'[Peer[k]] = "MODE_CLIENT"
                      /\ remote_orig'[k] \in received'[k] \cup {0}
  BY DEF TypeOK, RolesAgree, TransmitProbe, TransmitKept
<1>3. \A m \in msgs' :
           /\ m.mode = "MODE_CLIENT" => mode'[Peer[m.to]] = "MODE_CLIENT"
           /\ m.mode = "MODE_ACTIVE" => mode'[Peer[m.to]] = "MODE_ACTIVE"
           /\ m.mode = "MODE_PASSIVE" => mode'[Peer[m.to]] = "none"
           /\ m.mode = "MODE_SERVER" => mode'[m.to] = "MODE_CLIENT"
  BY <1>1, RolesSent
<1> QED BY <1>2, <1>3 DEF RolesAgree

\* An arriving packet keeps the roles: only a client's query takes the place of a probe.
LEMMA RolesReceive ==
  ASSUME TypeOK, RolesAgree, NEW n \in Node, NEW m \in msgs, ProcessReceive(n, m) PROVE RolesAgree'
<1>1. m.to = n /\ UNCHANGED <<mode, probe>> /\ m.xmt \in Nat /\ n \in Node
      /\ Peer[n] \in Node /\ Peer[Peer[n]] = n
  BY PeerType DEF ProcessReceive, TypeOK, Packet
<1>2. CASE m.mode = "MODE_CLIENT" /\ TransmitKept(n, "MODE_SERVER", m.xmt, Reading(n))
           /\ UNCHANGED <<remote_orig, local_rx, sample, received>>
  <2>1. mode[Peer[n]] = "MODE_CLIENT"
    BY <1>1, <1>2 DEF RolesAgree
  <2>2. \A p \in msgs' :
           /\ p.mode = "MODE_CLIENT" => mode'[Peer[p.to]] = "MODE_CLIENT"
           /\ p.mode = "MODE_ACTIVE" => mode'[Peer[p.to]] = "MODE_ACTIVE"
           /\ p.mode = "MODE_PASSIVE" => mode'[Peer[p.to]] = "none"
           /\ p.mode = "MODE_SERVER" => mode'[p.to] = "MODE_CLIENT"
    BY <1>1, <1>2, <2>1, RolesSent DEF TransmitKept
  <2>3. \A k \in Node : /\ local_ntp_tx'[k] # probe'[k] => mode'[Peer[k]] = "MODE_CLIENT"
                        /\ remote_orig'[k] \in received'[k] \cup {0}
    BY <1>1, <1>2, <2>1 DEF TypeOK, RolesAgree, TransmitKept
  <2> QED BY <2>2, <2>3 DEF RolesAgree
<1>3. CASE ReceiveAndMeasure(n, m)
  BY <1>1, <1>3 DEF TypeOK, RolesAgree, ReceiveAndMeasure
<1>4. CASE ProcessUnknown(n, m)
  <2>1. PICK w \in {"MODE_SERVER", "MODE_PASSIVE"} :
          /\ msgs' = msgs \cup {PacketFrom(n, w, m.xmt, Reading(n))}
          /\ w = "MODE_SERVER" => m.mode = "MODE_CLIENT"
          /\ UNCHANGED <<local_ntp_tx, remote_orig, received>>
          /\ mode[n] = "none"
    BY <1>4 DEF ProcessUnknown, TransmitForgotten
  <2>2. w = "MODE_SERVER" => mode[Peer[n]] = "MODE_CLIENT"
    BY <1>1, <2>1 DEF RolesAgree
  <2>3. \A p \in msgs' :
           /\ p.mode = "MODE_CLIENT" => mode'[Peer[p.to]] = "MODE_CLIENT"
           /\ p.mode = "MODE_ACTIVE" => mode'[Peer[p.to]] = "MODE_ACTIVE"
           /\ p.mode = "MODE_PASSIVE" => mode'[Peer[p.to]] = "none"
           /\ p.mode = "MODE_SERVER" => mode'[p.to] = "MODE_CLIENT"
    BY <1>1, <2>1, <2>2, RolesSent
  <2> QED BY <1>1, <2>1, <2>3 DEF RolesAgree
<1> QED
  BY <1>2, <1>3, <1>4 DEF ProcessReceive, ProcessKnown

\* Every step preserves the invariant.
LEMMA FInvStable == FInv /\ [ExchangeNext]_exchangeVars => FInv'
<1> SUFFICES ASSUME FInv, [ExchangeNext]_exchangeVars PROVE FInv'
  OBVIOUS
<1>1. ExchangeInv'
  BY ExchangeInvStable DEF FInv
<1>2. RolesAgree'
  <2>1. CASE UNCHANGED exchangeVars
    BY <2>1 DEF FInv, RolesAgree, exchangeVars, instance, exchangeHistory
  <2>2. ASSUME NEW n \in Node, NEW d \in Steps, StepClock(n, d) PROVE RolesAgree'
    BY <2>2 DEF FInv, RolesAgree, StepClock, exchangeHistory
  <2>3. ASSUME NEW n \in Node, Readd(n) PROVE RolesAgree'
    BY <2>3 DEF FInv, ExchangeInv, TypeOK, RolesAgree, Readd
  <2> QED
    BY <2>1, <2>2, <2>3, RolesProbe, RolesReceive DEF ExchangeNext, FInv, ExchangeInv
<1> QED BY <1>1, <1>2 DEF FInv

\* An answer to the last probe that has not arrived yet passes the timestamp tests,
\* unless both hosts are clients of each other (transmit_packet, receive_packet,
\* NCR_ProcessKnown).
THEOREM FreshAnswers == ExchangeSpec => []FreshAnswerPasses
<1>1. FInv => FreshAnswerPasses
  <2> SUFFICES ASSUME FInv, NEW m \in msgs, m.mode # "MODE_CLIENT", m.org # 0,
                      ~Mutual(m.to), m.org = probe[m.to],
                      m.xmt \notin received[m.to]
               PROVE  TimestampsPass(m.to, m)
    BY DEF FreshAnswerPasses
  <2>1. /\ m.to \in Node /\ m.xmt \in Nat /\ m.org \in Nat /\ m.rec \in Int /\ m.tx \in Int
        /\ m.mode \in {"MODE_ACTIVE", "MODE_SERVER", "MODE_PASSIVE"}
    BY DEF FInv, ExchangeInv, TypeOK, Packet
  <2>2. Test1(m.to, m)
    BY <2>1 DEF Test1, FInv, RolesAgree, ExchangeInv, PacketsCausal
  <2>3. Test2(m.to, m)
    <3> SUFFICES ASSUME local_ntp_tx[m.to] # probe[m.to] PROVE FALSE
      BY DEF Test2
    <3>1. mode[Peer[m.to]] = "MODE_CLIENT"
      BY <2>1 DEF FInv, RolesAgree
    <3>2. mode[m.to] = "MODE_CLIENT"
      BY <2>1, <3>1 DEF FInv, RolesAgree
    <3> QED BY <3>1, <3>2 DEF Mutual
  <2>4. Test3(m.to, m)
    BY <2>1 DEF Test3, FInv, ExchangeInv, PacketsCausal
  <2> QED BY <2>2, <2>3, <2>4 DEF TimestampsPass
<1> QED BY <1>1, FInvInit, FInvStable, PTL DEF ExchangeSpec


-----------------------------------------------------------------------------
(* Numbers. *)

LEMMA MinInSet ==
  ASSUME NEW S \in SUBSET Nat, S # {}
  PROVE  Min(S) \in S /\ \A y \in S : Min(S) <= y
<1>1. PICK x \in S : \A y \in S : ~(<<y, x>> \in OpToRel(<, Nat))
  BY NatLessThanWellFounded, WFMin, Zenon
<1>2. \A y \in S : <<y, x>> \notin {p \in Nat \X Nat : p[1] < p[2]}
  BY <1>1 DEF OpToRel
<1>3. ASSUME NEW y \in S PROVE x <= y
  <2>1. <<y, x>> \in Nat \X Nat /\ x \in Nat /\ y \in Nat
    OBVIOUS
  <2>2. ~(<<y, x>>[1] < <<y, x>>[2])
    BY <1>2, <2>1
  <2> QED BY <2>1, <2>2
<1> QED BY <1>3 DEF Min

LEMMA MaxInSet ==
  ASSUME NEW N \in Nat, NEW S \in SUBSET (0 .. N), S # {}
  PROVE  Max(S) \in S /\ \A y \in S : Max(S) >= y
<1> DEFINE T == {N - x : x \in S}
<1>1. T \in SUBSET Nat /\ T # {}
  <2>1. \A x \in S : N - x \in Nat
    OBVIOUS
  <2> QED BY <2>1
<1>2. Min(T) \in T /\ \A y \in T : Min(T) <= y
  BY <1>1, MinInSet
<1>3. PICK x \in S : Min(T) = N - x
  BY <1>2
<1>4. \A y \in S : x >= y
  <2> TAKE y \in S
  <2>1. N - y \in T
    OBVIOUS
  <2>2. N - x <= N - y
    BY <1>2, <1>3, <2>1
  <2> QED BY <2>2
<1> HIDE DEF T
<1> QED BY <1>4 DEF Max

LEMMA DivMod ==
  ASSUME NEW x \in Int, NEW b \in Nat \ {0}
  PROVE  x = b * (x \div b) + (x % b) /\ x % b \in 0 .. b - 1 /\ x \div b \in Int
OBVIOUS

LEMMA SmallMultiple ==
  ASSUME NEW z \in Int, NEW b \in Nat \ {0}, b * z < b, -b < b * z
  PROVE  z = 0
<1>1. CASE z >= 1
  <2>1. b * z >= b
    BY <1>1
  <2> QED BY <2>1
<1>2. CASE z <= -1
  <2>1. b * z <= -b
    BY <1>2
  <2> QED BY <2>1
<1> QED BY <1>1, <1>2

\* The remainder is the one number below b that differs by a multiple of it.
LEMMA Remainder ==
  ASSUME NEW b \in Nat \ {0}, NEW y \in 0 .. b - 1, NEW k \in Int, NEW x \in Int, x = y + b * k
  PROVE  x % b = y
<1> DEFINE d == x \div b
           e == x % b
<1>1. x = b * d + e /\ e \in 0 .. b - 1 /\ d \in Int
  BY DivMod
<1> HIDE DEF d, e
<1>2. b * (d - k) = b * d - b * k
  BY <1>1
<1>3. b * (d - k) = y - e
  BY <1>1, <1>2
<1>4. d - k = 0
  BY <1>1, <1>3, SmallMultiple
<1>5. y = e
  BY <1>1, <1>3, <1>4
<1> QED BY <1>5 DEF e

-----------------------------------------------------------------------------
(* Folds from the left, of a function and not of an operator, which a lemma *)
(* can be about: the sets 1 .. k are what is left of the sequence to fold.   *)

\* What is left to fold without its last.
Rest(s) == s \ {Max(s)}

\* step, folded over the numbers 1 .. N, is a function of the sets of them.
StepsOf(T, N) == [T \X (1 .. N) -> T]
Folds(T, N, base, step) ==
  {f \in [SUBSET (1 .. N) -> T] :
     \A s \in SUBSET (1 .. N) : f[s] = IF s = {} THEN base ELSE step[<<f[Rest(s)], Max(s)>>]}

LEMMA FoldExists ==
  ASSUME NEW N \in Nat, NEW T, NEW base \in T, NEW step \in StepsOf(T, N)
  PROVE  Folds(T, N, base, step) # {}
<1> DEFINE Is(f, k) ==
             /\ f \in [SUBSET (1 .. k) -> T]
             /\ f = [s \in SUBSET (1 .. k) |-> IF s = {} THEN base ELSE step[<<f[Rest(s)], Max(s)>>]]
           Bad == {k \in 0 .. N : ~\E f : Is(f, k)}
<1> step \in [T \X (1 .. N) -> T]
  BY DEF StepsOf
<1>0. \A k \in 0 .. N : \A s \in SUBSET (1 .. k) :
         s # {} => Max(s) \in s /\ Rest(s) \in SUBSET (1 .. k) /\ (\A y \in s : y <= Max(s))
  <2> TAKE k \in 0 .. N
  <2> SUFFICES ASSUME NEW s \in SUBSET (1 .. k), s # {}
               PROVE  Max(s) \in s /\ Rest(s) \in SUBSET (1 .. k) /\ (\A y \in s : y <= Max(s))
    OBVIOUS
  <2>1. s \in SUBSET (0 .. k) /\ k \in Nat
    OBVIOUS
  <2>2. Max(s) \in s /\ \A y \in s : Max(s) >= y
    BY <2>1, MaxInSet
  <2>3. \A y \in s : y \in Nat
    BY <2>1
  <2> QED BY <2>2, <2>3 DEF Rest
<1>1. Is([s \in SUBSET (1 .. 0) |-> base], 0)
  BY DEF Rest
<1>2. ASSUME NEW k \in 1 .. N, NEW f, Is(f, k - 1)
      PROVE  \E g : Is(g, k)
  <2> DEFINE g == [s \in SUBSET (1 .. k) |->
                     IF s = {} THEN base ELSE IF k \in s THEN step[<<f[s \ {k}], k>>] ELSE f[s]]
  <2>1. k - 1 \in 0 .. N /\ k \in 0 .. N /\ 1 .. k - 1 \subseteq 1 .. k
    OBVIOUS
  <2>2. \A s \in SUBSET (1 .. k) : k \notin s => s \in SUBSET (1 .. k - 1)
    OBVIOUS
  <2>3. \A s \in SUBSET (1 .. k) : s \ {k} \in SUBSET (1 .. k - 1)
    OBVIOUS
  <2>4. \A s \in SUBSET (1 .. k - 1) : g[s] = f[s]
    <3> TAKE s \in SUBSET (1 .. k - 1)
    <3>1. s \in SUBSET (1 .. k) /\ k \notin s
      BY <2>1
    <3>2. s = {} => f[s] = base
      BY <1>2
    <3> QED BY <3>1, <3>2
  <2>5. \A s \in SUBSET (1 .. k) : g[s] \in T
    <3> TAKE s \in SUBSET (1 .. k)
    <3>1. CASE k \in s
      <4>1. f[s \ {k}] \in T
        BY <1>2, <2>3
      <4> QED BY <3>1, <4>1
    <3>2. CASE k \notin s
      BY <1>2, <2>2, <3>2
    <3> QED BY <3>1, <3>2
  <2>6. ASSUME NEW s \in SUBSET (1 .. k), s # {}
        PROVE  g[s] = step[<<g[Rest(s)], Max(s)>>]
    <3>0. Max(s) \in s /\ \A y \in s : y <= Max(s)
      BY <1>0, <2>1, <2>6
    <3>1. CASE k \in s
      <4>1. Max(s) = k
        <5>1. Max(s) \in 1 .. k /\ k <= Max(s)
          BY <3>0, <3>1
        <5> QED BY <5>1
      <4>2. Rest(s) = s \ {k} /\ Rest(s) \in SUBSET (1 .. k - 1)
        BY <2>3, <4>1 DEF Rest
      <4>3. g[Rest(s)] = f[s \ {k}]
        BY <2>4, <4>2
      <4>4. g[s] = step[<<f[s \ {k}], k>>]
        BY <3>1
      <4> QED BY <4>1, <4>3, <4>4
    <3>2. CASE k \notin s
      <4>1. s \in SUBSET (1 .. k - 1)
        BY <2>2, <3>2
      <4>2. Rest(s) \in SUBSET (1 .. k - 1)
        BY <1>0, <2>1, <2>6, <4>1
      <4>3. g[s] = f[s] /\ g[Rest(s)] = f[Rest(s)]
        BY <2>4, <4>1, <4>2
      <4>4. f[s] = step[<<f[Rest(s)], Max(s)>>]
        BY <1>2, <2>6, <4>1
      <4> QED BY <4>3, <4>4
    <3> QED BY <3>1, <3>2
  <2>7. g[{}] = base /\ g = [s \in SUBSET (1 .. k) |-> g[s]]
    OBVIOUS
  <2> HIDE DEF g
  <2>8. g \in [SUBSET (1 .. k) -> T]
    BY <2>5, <2>7
  <2>9. [s \in SUBSET (1 .. k) |-> g[s]]
          = [s \in SUBSET (1 .. k) |-> IF s = {} THEN base ELSE step[<<g[Rest(s)], Max(s)>>]]
    BY <2>6, <2>7
  <2>10. Is(g, k)
    BY <2>7, <2>8, <2>9
  <2> QED BY <2>10
<1> HIDE DEF Is
<1>3. Bad = {}
  <2> SUFFICES ASSUME Bad # {} PROVE FALSE
    OBVIOUS
  <2>1. Bad \in SUBSET Nat
    OBVIOUS
  <2>2. Min(Bad) \in Bad /\ \A y \in Bad : Min(Bad) <= y
    BY <2>1, MinInSet
  <2> DEFINE k == Min(Bad)
  <2>3. k \in 0 .. N /\ (~\E f : Is(f, k)) /\ \A y \in Bad : k <= y
    BY <2>2
  <2> HIDE DEF k
  <2>4. k # 0
    BY <1>1, <2>3
  <2>5. k - 1 \notin Bad
    BY <2>3
  <2>6. k \in 1 .. N /\ k - 1 \in 0 .. N
    BY <2>3, <2>4
  <2>7. \E f : Is(f, k - 1)
    BY <2>5, <2>6
  <2> QED BY <1>2, <2>3, <2>6, <2>7
<1>4. N \in 0 .. N
  OBVIOUS
<1>5. PICK f : Is(f, N)
  BY <1>3, <1>4
<1>6. f \in Folds(T, N, base, step)
  BY <1>5 DEF Is, Folds
<1> QED BY <1>6

\* What holds before the first and is kept by each holds after the last.
LEMMA FoldStays ==
  ASSUME NEW N \in Nat, NEW P, NEW g, g[1 .. 0] \in P[0],
         \A k \in 1 .. N : g[1 .. k - 1] \in P[k - 1] => g[1 .. k] \in P[k]
  PROVE  g[1 .. N] \in P[N]
<1> DEFINE Bad == {k \in 0 .. N : g[1 .. k] \notin P[k]}
<1>1. Bad = {}
  <2> SUFFICES ASSUME Bad # {} PROVE FALSE
    OBVIOUS
  <2>1. Bad \in SUBSET Nat
    OBVIOUS
  <2>2. Min(Bad) \in Bad /\ \A y \in Bad : Min(Bad) <= y
    BY <2>1, MinInSet
  <2> DEFINE k == Min(Bad)
  <2>3. k \in 0 .. N /\ g[1 .. k] \notin P[k] /\ \A y \in Bad : k <= y
    BY <2>2
  <2> HIDE DEF k
  <2>4. k # 0
    BY <2>3
  <2>5. k \in 1 .. N /\ k - 1 \in 0 .. N /\ k - 1 \notin Bad
    BY <2>3, <2>4
  <2>6. g[1 .. k - 1] \in P[k - 1]
    BY <2>5
  <2> QED BY <2>3, <2>5, <2>6
<1>2. N \in 0 .. N
  OBVIOUS
<1> QED BY <1>1, <1>2

LEMMA RangeRest ==
  ASSUME NEW k \in Nat, k > 0
  PROVE  1 .. k # {} /\ Max(1 .. k) = k /\ Rest(1 .. k) = 1 .. k - 1
<1>1. 1 .. k # {} /\ 1 .. k \in SUBSET (0 .. k) /\ k \in 1 .. k
  OBVIOUS
<1>2. Max(1 .. k) \in 1 .. k /\ Max(1 .. k) >= k
  BY <1>1, MaxInSet
<1>3. Max(1 .. k) = k
  BY <1>2
<1> QED BY <1>1, <1>3 DEF Rest

-----------------------------------------------------------------------------
(* The hash table. *)

Table == [Slot -> Record \cup {Free}]
Recs(r) == {r[i] : i \in Used(r)}
Ips(r) == {r[i].ip : i \in Used(r)}

\* Every record is where find_slot looks for it.
Placed(r) == r \in Table /\ \A i \in Used(r) : FindSlot(r, r[i].ip) = i

\* There is a free slot.
Room(r) == Used(r) # Slot

LEMMA Numbers ==
  /\ N_RECORDS \in Nat \ {0} /\ MAX_SOURCES \in Nat /\ MAX_SOURCES < N_RECORDS
  /\ \A ip \in Address : Hash[ip] \in Slot
BY TableAssumption DEF Slot

LEMMA ProbeIs ==
  ASSUME NEW ip \in Address, NEW k \in Slot
  PROVE  /\ ProbeAt(ip, k) = IF Hash[ip] + k < N_RECORDS THEN Hash[ip] + k ELSE Hash[ip] + k - N_RECORDS
         /\ ProbeAt(ip, k) \in Slot
<1> DEFINE h == Hash[ip]
<1>1. h \in 0 .. N_RECORDS - 1 /\ k \in 0 .. N_RECORDS - 1 /\ N_RECORDS \in Nat \ {0}
  BY Numbers DEF Slot
<1> HIDE DEF h
<1>2. CASE h + k < N_RECORDS
  <2>1. h + k \in 0 .. N_RECORDS - 1 /\ 0 \in Int /\ h + k \in Int /\ h + k = (h + k) + N_RECORDS * 0
    BY <1>1, <1>2
  <2>2. (h + k) % N_RECORDS = h + k
    BY <1>1, <2>1, Remainder
  <2> QED BY <1>2, <2>1, <2>2 DEF ProbeAt, Slot, h
<1>3. CASE ~(h + k < N_RECORDS)
  <2>1. /\ h + k - N_RECORDS \in 0 .. N_RECORDS - 1 /\ 1 \in Int /\ h + k \in Int
        /\ h + k = (h + k - N_RECORDS) + N_RECORDS * 1
    BY <1>1, <1>3
  <2>2. (h + k) % N_RECORDS = h + k - N_RECORDS
    BY <1>1, <2>1, Remainder
  <2> QED BY <1>3, <2>1, <2>2 DEF ProbeAt, Slot, h
<1> QED BY <1>2, <1>3

\* The probes reach every slot.
LEMMA ProbeReaches ==
  ASSUME NEW ip \in Address, NEW i \in Slot
  PROVE  \E k \in Slot : ProbeAt(ip, k) = i
<1> DEFINE h == Hash[ip]
           k == IF i >= h THEN i - h ELSE i - h + N_RECORDS
<1>1. h \in 0 .. N_RECORDS - 1 /\ i \in 0 .. N_RECORDS - 1 /\ N_RECORDS \in Nat \ {0}
  BY Numbers DEF Slot
<1>2. k \in Slot
  BY <1>1 DEF Slot
<1>3. ProbeAt(ip, k) = IF h + k < N_RECORDS THEN h + k ELSE h + k - N_RECORDS
  BY <1>2, ProbeIs
<1>4. ProbeAt(ip, k) = i
  BY <1>1, <1>3
<1> QED BY <1>2, <1>4

\* The k-th probe is where the search for ip in r ends.
Stop(r, ip, k) == r[ProbeAt(ip, k)] = Free \/ r[ProbeAt(ip, k)].ip = ip
FirstStop(r, ip, k) == k \in Slot /\ Stop(r, ip, k) /\ \A j \in Slot : j < k => ~Stop(r, ip, j)

LEMMA FindSlotAt ==
  ASSUME NEW r, NEW ip, NEW k, FirstStop(r, ip, k)
  PROVE  FindSlot(r, ip) = ProbeAt(ip, k)
<1> DEFINE stops == {j \in Slot : LET i == ProbeAt(ip, j) IN r[i] = Free \/ r[i].ip = ip}
<1>1. stops = {j \in Slot : Stop(r, ip, j)}
  BY DEF Stop
<1>2. stops \in SUBSET Nat /\ k \in stops
  BY <1>1 DEF FirstStop, Slot
<1>3. Min(stops) \in stops /\ Min(stops) <= k
  BY <1>2, MinInSet
<1>4. Min(stops) = k
  <2>1. Min(stops) \in Nat /\ k \in Nat
    BY <1>2, <1>3
  <2> QED BY <1>1, <1>3, <2>1 DEF FirstStop
<1> QED BY <1>4 DEF FindSlot

LEMMA FirstStopExists ==
  ASSUME NEW r, NEW ip, NEW k \in Slot, Stop(r, ip, k)
  PROVE  \E j : FirstStop(r, ip, j)
<1> DEFINE stops == {j \in Slot : Stop(r, ip, j)}
<1>1. stops \in SUBSET Nat /\ k \in stops
  BY DEF Slot
<1>2. Min(stops) \in stops /\ \A j \in stops : Min(stops) <= j
  BY <1>1, MinInSet
<1>3. \A j \in Slot : j < Min(stops) => ~Stop(r, ip, j)
  <2> SUFFICES ASSUME NEW j \in Slot, j < Min(stops), Stop(r, ip, j) PROVE FALSE
    OBVIOUS
  <2>1. Min(stops) <= j /\ j \in Nat /\ Min(stops) \in Nat
    BY <1>1, <1>2
  <2> QED BY <2>1
<1> QED BY <1>2, <1>3 DEF FirstStop

LEMMA UsedIs ==
  ASSUME NEW r \in Table
  PROVE  /\ Used(r) \subseteq Slot /\ \A i \in Used(r) : r[i] \in Record /\ r[i].ip \in Address
         /\ \A i \in Slot : i \notin Used(r) <=> r[i] = Free
         /\ Recs(r) \subseteq Record /\ Ips(r) \subseteq Address
BY KindsAssumption DEF Used, Table, Record, Recs, Ips

\* In a table with room the search ends, on a free slot exactly for an address
\* that is not in it.
LEMMA FindSlotIs ==
  ASSUME NEW r, Placed(r), Room(r), NEW ip \in Address
  PROVE  LET i == FindSlot(r, ip) IN
         /\ i \in Slot /\ \E k : FirstStop(r, ip, k) /\ ProbeAt(ip, k) = i
         /\ ip \in Ips(r) => r[i] \in Record /\ r[i].ip = ip /\ i \in Used(r)
         /\ ip \notin Ips(r) => r[i] = Free /\ i \notin Used(r)
<1>1. r \in Table
  BY DEF Placed
<1>2. PICK f \in Slot : r[f] = Free
  BY <1>1 DEF Room, Used
<1>3. PICK m \in Slot : ProbeAt(ip, m) = f
  BY ProbeReaches
<1>4. PICK k : FirstStop(r, ip, k)
  BY <1>2, <1>3, FirstStopExists DEF Stop
<1> DEFINE i == FindSlot(r, ip)
<1>5. i = ProbeAt(ip, k) /\ i \in Slot
  BY <1>4, FindSlotAt, ProbeIs DEF FirstStop
<1>6. r[i] = Free \/ r[i].ip = ip
  BY <1>4, <1>5 DEF FirstStop, Stop
<1>7. ASSUME ip \in Ips(r) PROVE i \in Used(r) /\ r[i] \in Record /\ r[i].ip = ip
  <2>1. PICK j \in Used(r) : r[j].ip = ip
    BY <1>7 DEF Ips
  <2>2. i = j
    BY <2>1 DEF Placed
  <2> QED BY <1>1, <2>1, <2>2, UsedIs
<1>8. ASSUME ip \notin Ips(r) PROVE r[i] = Free /\ i \notin Used(r)
  <2>1. i \notin Used(r)
    <3> SUFFICES ASSUME i \in Used(r) PROVE FALSE
      OBVIOUS
    <3>1. r[i] # Free
      BY DEF Used
    <3> QED BY <1>6, <1>8, <3>1 DEF Ips
  <2> QED BY <1>1, <1>5, <2>1, UsedIs
<1> QED BY <1>4, <1>5, <1>7, <1>8

\* Of two records no two have one address.
LEMMA PlacedOnce ==
  ASSUME NEW r, Placed(r), NEW i \in Used(r), NEW j \in Used(r), r[i].ip = r[j].ip
  PROVE  i = j
BY DEF Placed

LEMMA FoundIs ==
  ASSUME NEW r, Placed(r), Room(r), NEW ip \in Address \cup {Unspecified}, NEW port
  PROVE  /\ Found(r, ip, port) = 0 <=> ip \notin Ips(r)
         /\ Found(r, ip, port) = 2 <=> \E rec \in Recs(r) : rec.ip = ip /\ rec.port = port
<1>1. Unspecified \notin Address /\ Ips(r) \subseteq Address
  BY TableAssumption, UsedIs DEF Placed
<1>2. CASE ip = Unspecified
  <2>1. ip \notin Ips(r) /\ \A rec \in Recs(r) : rec.ip # ip
    BY <1>1, <1>2 DEF Recs, Ips
  <2>2. Found(r, ip, port) = 0
    BY <1>2 DEF Found
  <2> QED BY <2>1, <2>2
<1>3. CASE ip \in Address
  <2> DEFINE i == FindSlot(r, ip)
  <2>0. /\ ip \in Ips(r) => r[i] \in Record /\ r[i].ip = ip /\ i \in Used(r)
        /\ ip \notin Ips(r) => r[i] = Free
    BY <1>3, FindSlotIs
  <2> HIDE DEF i
  <2>1. Found(r, ip, port) = IF r[i] = Free THEN 0 ELSE IF r[i].port = port THEN 2 ELSE 1
    BY <1>1, <1>3 DEF Found, i
  <2>2. CASE ip \in Ips(r)
    <3>1. r[i] \in Record /\ r[i].ip = ip /\ i \in Used(r) /\ r[i] # Free
      BY <2>0, <2>2, KindsAssumption
    <3>2. \A rec \in Recs(r) : rec.ip = ip => rec = r[i]
      BY <3>1, PlacedOnce DEF Recs
    <3>3. r[i] \in Recs(r)
      BY <3>1 DEF Recs
    <3> QED BY <2>1, <2>2, <3>1, <3>2, <3>3
  <2>3. CASE ip \notin Ips(r)
    <3>1. \A rec \in Recs(r) : rec.ip # ip
      BY <2>3 DEF Recs, Ips
    <3> QED BY <2>0, <2>1, <2>3, <3>1
  <2> QED BY <2>2, <2>3
<1> QED BY <1>2, <1>3

LEMMA SlotsFinite ==
  /\ IsFiniteSet(Slot) /\ Cardinality(Slot) = N_RECORDS
  /\ \A r : IsFiniteSet(Used(r)) /\ Cardinality(Used(r)) \in Nat /\ Cardinality(Used(r)) <= N_RECORDS
<1>1. IsFiniteSet(Slot) /\ Cardinality(Slot) = N_RECORDS
  <2>1. 0 \in Int /\ N_RECORDS - 1 \in Int /\ ~(0 > N_RECORDS - 1) /\ (N_RECORDS - 1) - 0 + 1 = N_RECORDS
    BY Numbers
  <2> QED BY <2>1, FS_Interval DEF Slot
<1>2. ASSUME NEW r
      PROVE  IsFiniteSet(Used(r)) /\ Cardinality(Used(r)) \in Nat /\ Cardinality(Used(r)) <= N_RECORDS
  <2>1. Used(r) \subseteq Slot
    BY DEF Used
  <2> QED BY <1>1, <2>1, FS_Subset, FS_CardinalityType
<1> QED BY <1>1, <1>2

\* Fewer records than slots leave room.
LEMMA FewerHaveRoom == ASSUME NEW r, Cardinality(Used(r)) < N_RECORDS PROVE Room(r)
BY SlotsFinite, Numbers DEF Room

\* A record of a new address can be put in: all others stay where they are found.
LEMMA InsertIs ==
  ASSUME NEW r, Placed(r), Room(r), NEW rec \in Record, rec.ip \notin Ips(r)
  PROVE  /\ Placed(Insert(r, rec))
         /\ Recs(Insert(r, rec)) = Recs(r) \cup {rec} /\ Ips(Insert(r, rec)) = Ips(r) \cup {rec.ip}
         /\ Cardinality(Used(Insert(r, rec))) = Cardinality(Used(r)) + 1
<1> DEFINE s == FindSlot(r, rec.ip)
           t == Insert(r, rec)
<1>1. rec.ip \in Address /\ rec # Free /\ r \in Table
  BY KindsAssumption DEF Record, Placed
<1>2. s \in Slot /\ r[s] = Free /\ s \notin Used(r) /\ \E k : FirstStop(r, rec.ip, k) /\ ProbeAt(rec.ip, k) = s
  BY <1>1, FindSlotIs
<1>3. t = [r EXCEPT ![s] = rec]
  BY DEF Insert
<1> HIDE DEF s, t
<1>4. t \in Table /\ t[s] = rec /\ \A i \in Slot : i # s => t[i] = r[i]
  BY <1>1, <1>2, <1>3 DEF Table
<1>5. Used(t) = Used(r) \cup {s}
  BY <1>1, <1>2, <1>4 DEF Used
<1>6. Recs(t) = Recs(r) \cup {rec} /\ Ips(t) = Ips(r) \cup {rec.ip}
  <2>1. \A i \in Used(r) : t[i] = r[i]
    BY <1>1, <1>2, <1>4, UsedIs
  <2> QED BY <1>4, <1>5, <2>1 DEF Recs, Ips
<1>7. ASSUME NEW i \in Used(t) PROVE FindSlot(t, t[i].ip) = i
  <2>1. CASE i = s
    <3>1. PICK k : FirstStop(r, rec.ip, k) /\ ProbeAt(rec.ip, k) = s
      BY <1>2
    <3>2. \A j \in Slot : ProbeAt(rec.ip, j) \in Slot
      BY <1>1, ProbeIs
    <3>3. k \in Slot /\ Stop(t, rec.ip, k)
      BY <1>4, <3>1 DEF FirstStop, Stop
    <3>4. ASSUME NEW j \in Slot, j < k PROVE ~Stop(t, rec.ip, j)
      <4>1. ~Stop(r, rec.ip, j)
        BY <3>1, <3>4 DEF FirstStop
      <4>2. ProbeAt(rec.ip, j) # s
        BY <1>2, <4>1 DEF Stop
      <4> QED BY <1>4, <3>2, <4>1, <4>2 DEF Stop
    <3>5. FirstStop(t, rec.ip, k)
      BY <3>3, <3>4 DEF FirstStop
    <3> QED BY <1>4, <2>1, <3>1, <3>5, FindSlotAt
  <2>2. CASE i # s
    <3> DEFINE ip == r[i].ip
    <3>1. i \in Used(r) /\ i \in Slot /\ t[i] = r[i] /\ ip \in Address /\ ip \in Ips(r) /\ FindSlot(r, ip) = i
      <4>1. i \in Used(r) /\ i \in Slot
        BY <1>1, <1>2, <1>5, <2>2, UsedIs
      <4> QED BY <1>1, <1>4, <2>2, <4>1, UsedIs DEF Placed, Ips
    <3> HIDE DEF ip
    <3>2. PICK k : FirstStop(r, ip, k) /\ ProbeAt(ip, k) = i
      BY <3>1, FindSlotIs
    <3>3. \A j \in Slot : ProbeAt(ip, j) \in Slot
      BY <3>1, ProbeIs
    <3>4. k \in Slot /\ Stop(t, ip, k)
      BY <3>1, <3>2 DEF FirstStop, Stop
    <3>5. ASSUME NEW j \in Slot, j < k PROVE ~Stop(t, ip, j)
      <4>1. ~Stop(r, ip, j)
        BY <3>2, <3>5 DEF FirstStop
      <4>2. ProbeAt(ip, j) # s
        BY <1>2, <4>1 DEF Stop
      <4> QED BY <1>4, <3>3, <4>1, <4>2 DEF Stop
    <3>6. FirstStop(t, ip, k)
      BY <3>4, <3>5 DEF FirstStop
    <3>7. t[i].ip = ip
      BY <3>1 DEF ip
    <3> QED BY <3>2, <3>6, <3>7, FindSlotAt
  <2> QED BY <2>1, <2>2
<1>8. Cardinality(Used(t)) = Cardinality(Used(r)) + 1
  BY <1>2, <1>5, SlotsFinite, FS_AddElement
<1> QED BY <1>4, <1>6, <1>7, <1>8 DEF Placed, t

-----------------------------------------------------------------------------
(* The rehash. *)

Empty == [i \in Slot |-> Free]

LEMMA EmptyIs ==
  Placed(Empty) /\ Recs(Empty) = {} /\ Used(Empty) = {} /\ Cardinality(Used(Empty)) = 0
<1>1. Used(Empty) = {}
  BY DEF Used, Empty
<1> QED BY <1>1, FS_EmptySet DEF Placed, Recs, Empty, Table

\* The slots before the k-th.
Below(k) == {i \in Slot : i < k}

\* What the first k slots of r may have been put into.
Rehashed(r, k) ==
  {t \in Table : /\ Placed(t) /\ Recs(t) = {r[i] : i \in Used(r) \cap Below(k)}
                 /\ Cardinality(Used(t)) = Cardinality(Used(r) \cap Below(k))}

PutBack(r, t, k) == IF r[k - 1] = Free THEN t ELSE Insert(t, r[k - 1])

LEMMA PutBackStep ==
  ASSUME NEW r \in Table, \A i, j \in Used(r) : r[i].ip = r[j].ip => i = j,
         NEW k \in 1 .. N_RECORDS, NEW t \in Rehashed(r, k - 1)
  PROVE  PutBack(r, t, k) \in Rehashed(r, k)
<1> DEFINE before == Used(r) \cap Below(k - 1)
           after == Used(r) \cap Below(k)
<1>1. k - 1 \in Slot /\ k \in Nat /\ k - 1 \in Nat
  BY Numbers DEF Slot
<1>2. /\ t \in Table /\ Placed(t) /\ Recs(t) = {r[i] : i \in before}
      /\ Cardinality(Used(t)) = Cardinality(before)
  BY DEF Rehashed
<1>3. \A i \in Slot : i < k <=> i < k - 1 \/ i = k - 1
  BY <1>1 DEF Slot
<1>4. CASE r[k - 1] = Free
  <2>1. after = before
    BY <1>3, <1>4 DEF Below, Used
  <2>2. t \in Rehashed(r, k)
    BY <1>2, <2>1 DEF Rehashed
  <2> QED BY <1>4, <2>2 DEF PutBack
<1>5. CASE r[k - 1] # Free
  <2> DEFINE rec == r[k - 1]
             u == Insert(t, rec)
  <2>1. k - 1 \in Used(r) /\ rec \in Record
    BY <1>1, <1>5, UsedIs DEF Used
  <2>2. after = before \cup {k - 1} /\ k - 1 \notin before
    BY <1>1, <1>3, <2>1 DEF Below
  <2>3. rec.ip \notin Ips(t)
    <3> SUFFICES ASSUME rec.ip \in Ips(t) PROVE FALSE
      OBVIOUS
    <3>1. PICK i \in Used(t) : t[i].ip = rec.ip
      BY DEF Ips
    <3>2. PICK j \in before : t[i] = r[j]
      BY <1>2, <3>1 DEF Recs
    <3>3. j = k - 1
      BY <2>1, <3>1, <3>2
    <3> QED BY <2>2, <3>2, <3>3
  <2>4. IsFiniteSet(before) /\ Cardinality(before) <= k - 1 /\ Cardinality(before) \in Nat
    <3>1. Below(k - 1) = 0 .. k - 2
      BY <1>1, Numbers DEF Below, Slot
    <3>2. IsFiniteSet(Below(k - 1)) /\ Cardinality(Below(k - 1)) = k - 1
      <4>1. CASE k = 1
        <5>1. Below(k - 1) = {}
          BY <4>1 DEF Below, Slot
        <5> QED BY <4>1, <5>1, FS_EmptySet
      <4>2. CASE k # 1
        <5>1. 0 \in Int /\ k - 2 \in Int /\ ~(0 > k - 2) /\ (k - 2) - 0 + 1 = k - 1
          BY <1>1, <4>2
        <5> QED BY <3>1, <5>1, FS_Interval
      <4> QED BY <4>1, <4>2
    <3>3. before \subseteq Below(k - 1)
      OBVIOUS
    <3> QED BY <3>2, <3>3, FS_Subset, FS_CardinalityType
  <2>5. Room(t)
    BY <1>1, <1>2, <2>4, FewerHaveRoom, Numbers
  <2>6. /\ Placed(u) /\ Recs(u) = Recs(t) \cup {rec}
        /\ Cardinality(Used(u)) = Cardinality(Used(t)) + 1
    BY <1>2, <2>1, <2>3, <2>5, InsertIs
  <2>7. Cardinality(after) = Cardinality(before) + 1
    BY <2>2, <2>4, FS_AddElement
  <2>8. Recs(u) = {r[i] : i \in after}
    BY <1>2, <2>2, <2>6
  <2> HIDE DEF u
  <2>9. u \in Rehashed(r, k)
    BY <1>2, <2>6, <2>7, <2>8 DEF Rehashed, Placed
  <2> QED BY <1>5, <2>9 DEF PutBack, u
<1> QED BY <1>4, <1>5

LEMMA PutBackType ==
  ASSUME NEW r \in Table, NEW t \in Table, NEW k \in 1 .. N_RECORDS
  PROVE  PutBack(r, t, k) \in Table
<1>1. k - 1 \in Slot
  BY Numbers DEF Slot
<1>2. r[k - 1] # Free => r[k - 1] \in Record
  BY <1>1 DEF Table
<1> QED BY <1>2 DEF PutBack, Insert, Table

\* The table of a rehash holds the same records, each where it is found.
LEMMA RehashIs ==
  ASSUME NEW r \in Table, \A i, j \in Used(r) : r[i].ip = r[j].ip => i = j
  PROVE  /\ Placed(Rehash(r)) /\ Recs(Rehash(r)) = Recs(r)
         /\ Cardinality(Used(Rehash(r))) = Cardinality(Used(r))
<1> DEFINE N == N_RECORDS
           numbers == [n \in 1 .. N |-> n]
           Is(f) == f = [s \in SUBSET (1 .. N) |->
                           IF s = {} THEN [i \in Slot |-> Free]
                           ELSE PutBack(r, f[s \ {Max(s)}], numbers[Max(s)])]
           g == CHOOSE f : Is(f)
           P == [k \in 0 .. N |-> Rehashed(r, k)]
           step == [p \in Table \X (1 .. N) |-> PutBack(r, p[1], p[2])]
<1>1. N \in Nat /\ DOMAIN numbers = 1 .. N
  BY Numbers
<1>2. Rehash(r) = g[1 .. N]
  BY <1>1 DEF Rehash, FoldLeft, MapThenFoldSet, PutBack
<1>3. \E f : Is(f)
  <2>1. step \in [Table \X (1 .. N) -> Table]
    BY PutBackType
  <2>2. \A t \in Table, n \in 1 .. N : step[<<t, n>>] = PutBack(r, t, n)
    OBVIOUS
  <2>3. Empty \in Table
    BY EmptyIs DEF Placed
  <2> HIDE DEF step, N
  <2>4. PICK f : f \in Folds(Table, N, Empty, step)
    <3>1. N \in Nat /\ Empty \in Table /\ step \in StepsOf(Table, N)
      BY <1>1, <2>1, <2>3 DEF StepsOf
    <3>2. Folds(Table, N, Empty, step) # {}
      BY ONLY <3>1, FoldExists
    <3> QED BY <3>2
  <2>5. /\ f \in [SUBSET (1 .. N) -> Table]
        /\ \A s \in SUBSET (1 .. N) : f[s] = IF s = {} THEN Empty ELSE step[<<f[Rest(s)], Max(s)>>]
    BY <2>4 DEF Folds
  <2>6. ASSUME NEW s \in SUBSET (1 .. N), s # {}
        PROVE  step[<<f[Rest(s)], Max(s)>>] = PutBack(r, f[s \ {Max(s)}], numbers[Max(s)])
    <3>1. s \in SUBSET (0 .. N)
      BY <1>1
    <3>2. Max(s) \in 1 .. N
      BY <1>1, <2>6, <3>1, MaxInSet
    <3>3. Rest(s) \in SUBSET (1 .. N) /\ Rest(s) = s \ {Max(s)}
      BY DEF Rest
    <3>4. f[Rest(s)] \in Table /\ numbers[Max(s)] = Max(s)
      BY <2>5, <3>2, <3>3
    <3> QED BY <2>2, <3>2, <3>3, <3>4
  <2>7. [s \in SUBSET (1 .. N) |-> f[s]]
          = [s \in SUBSET (1 .. N) |->
               IF s = {} THEN Empty ELSE PutBack(r, f[s \ {Max(s)}], numbers[Max(s)])]
    BY <2>5, <2>6
  <2>8. f = [s \in SUBSET (1 .. N) |-> f[s]]
    BY <2>5
  <2> QED BY <2>7, <2>8 DEF Empty
<1>4. Is(g)
  BY <1>3
<1> HIDE DEF g
<1>5. g[1 .. 0] = Empty
  <2>1. {} \in SUBSET (1 .. N) /\ 1 .. 0 = {}
    OBVIOUS
  <2> QED BY <1>4, <2>1 DEF Empty
<1>6. ASSUME NEW k \in 1 .. N
      PROVE  g[1 .. k] = PutBack(r, g[1 .. k - 1], k)
  <2>1. 1 .. k \in SUBSET (1 .. N) /\ k \in Nat /\ k > 0
    BY <1>1
  <2>2. 1 .. k # {} /\ Max(1 .. k) = k /\ (1 .. k) \ {k} = 1 .. k - 1
    BY <2>1, RangeRest DEF Rest
  <2>3. g[1 .. k] = PutBack(r, g[(1 .. k) \ {Max(1 .. k)}], numbers[Max(1 .. k)])
    BY <1>4, <2>1, <2>2
  <2> QED BY <2>2, <2>3
<1>7. /\ P[0] = Rehashed(r, 0)
      /\ \A k \in 1 .. N : P[k - 1] = Rehashed(r, k - 1) /\ P[k] = Rehashed(r, k)
  BY <1>1
<1>8. Empty \in Rehashed(r, 0)
  <2>1. Used(r) \cap Below(0) = {}
    BY DEF Below, Slot
  <2> QED BY <2>1, EmptyIs, FS_EmptySet DEF Rehashed, Placed
<1>9. \A k \in 1 .. N : g[1 .. k - 1] \in P[k - 1] => g[1 .. k] \in P[k]
  <2> TAKE k \in 1 .. N
  <2> HAVE g[1 .. k - 1] \in P[k - 1]
  <2>1. g[1 .. k - 1] \in Rehashed(r, k - 1)
    BY <1>7
  <2>2. PutBack(r, g[1 .. k - 1], k) \in Rehashed(r, k)
    BY <2>1, PutBackStep
  <2>3. g[1 .. k] = PutBack(r, g[1 .. k - 1], k)
    BY <1>6
  <2>4. P[k] = Rehashed(r, k)
    BY <1>7
  <2> QED BY <2>2, <2>3, <2>4
<1> HIDE DEF P
<1>10. g[1 .. N] \in P[N]
  BY <1>1, <1>5, <1>7, <1>8, <1>9, FoldStays
<1>11. P[N] = Rehashed(r, N)
  BY <1>1 DEF P
<1>12. Used(r) \cap Below(N) = Used(r)
  BY Numbers DEF Below, Used, Slot
<1>13. Rehash(r) \in Rehashed(r, N)
  BY <1>2, <1>10, <1>11
<1> QED BY <1>12, <1>13 DEF Rehashed, Recs

-----------------------------------------------------------------------------
(* The passes of the resolver. *)

Pass == [records : Table, n : Nat, left : Seq(Entry), since : SUBSET (Address \cup Name)]

\* A source or a name is in the mode the last command to all asked for, unless it is excepted.
RecsObey(R, S) == blanket # "none" => \A rec \in R : rec.ip \notin S => (rec.online <=> blanket = "online")
NamesObey(us, S) ==
  blanket # "none" => \A i \in 1 .. Len(us) : us[i].name \notin S => (us[i].online <=> blanket = "online")

\* What a pass over names may leave of the sources and the exceptions at its start.
GoodPass(exempt) ==
  {t \in Pass :
     /\ Placed(t.records) /\ t.n = Cardinality(Used(t.records)) /\ t.n <= MAX_SOURCES
     /\ Recs(records) \subseteq Recs(t.records)
     /\ RecsObey(Recs(t.records), t.since) /\ NamesObey(t.left, t.since)
     /\ t.since \cap Name = exempt \cap Name}

LEMMA NamesAreNot == \A e \in Entry : e.name \in Name /\ e.name \notin Address
BY KindsAssumption DEF Entry

LEMMA NamesObeyAlike ==
  ASSUME NEW us \in Seq(Entry), NEW S, NEW T, S \cap Name = T \cap Name, NamesObey(us, S)
  PROVE  NamesObey(us, T)
<1>1. \A i \in 1 .. Len(us) : us[i] \in Entry
  OBVIOUS
<1> QED BY <1>1, NamesAreNot DEF NamesObey

LEMMA ResolvedStep ==
  ASSUME NEW exempt, NEW t \in GoodPass(exempt), NEW entry \in Entry, NEW answer \in Answer,
         blanket # "none" /\ entry.name \notin exempt => (entry.online <=> blanket = "online")
  PROVE  Resolved(t, entry, answer) \in GoodPass(exempt)
<1>1. /\ t \in Pass /\ Placed(t.records) /\ t.n = Cardinality(Used(t.records)) /\ t.n <= MAX_SOURCES
      /\ Recs(records) \subseteq Recs(t.records)
      /\ RecsObey(Recs(t.records), t.since) /\ NamesObey(t.left, t.since)
      /\ t.since \cap Name = exempt \cap Name
  BY DEF GoodPass
<1>2. /\ t.records \in Table /\ t.n \in Nat /\ t.left \in Seq(Entry) /\ t.since \subseteq Address \cup Name
  BY <1>1 DEF Pass
<1>3. entry.name \in Name /\ (entry.name \in t.since <=> entry.name \in exempt)
  BY <1>1, NamesAreNot
<1>4. CASE answer = "DNS_TryAgain"
  <2> DEFINE left == Append(t.left, entry)
             u == [t EXCEPT !.left = left]
  <2>1. left \in Seq(Entry) /\ Len(left) = Len(t.left) + 1 /\ left[Len(t.left) + 1] = entry
        /\ Len(t.left) \in Nat /\ \A i \in 1 .. Len(t.left) : left[i] = t.left[i]
    BY <1>2
  <2>2. NamesObey(left, t.since)
    <3> SUFFICES ASSUME blanket # "none", NEW i \in 1 .. Len(left), left[i].name \notin t.since
                 PROVE  left[i].online <=> blanket = "online"
      BY DEF NamesObey
    <3>1. CASE i = Len(t.left) + 1
      BY <1>3, <2>1, <3>1
    <3>2. CASE i # Len(t.left) + 1
      <4>1. i \in 1 .. Len(t.left)
        BY <2>1, <3>2
      <4> QED BY <1>1, <2>1, <4>1 DEF NamesObey
    <3> QED BY <3>1, <3>2
  <2>3. Resolved(t, entry, answer) = u
    BY <1>4 DEF Resolved
  <2> HIDE DEF left
  <2>4. /\ u \in Pass /\ u.records = t.records /\ u.n = t.n /\ u.left = left /\ u.since = t.since
    BY <1>1, <2>1 DEF Pass
  <2> HIDE DEF u
  <2>5. u \in GoodPass(exempt)
    BY <1>1, <2>2, <2>4 DEF GoodPass
  <2> QED BY <2>3, <2>5
<1>5. CASE answer # "DNS_TryAgain" /\ answer \in Address /\ Add(t.records, t.n, answer, 0) = "NSR_Success"
  <2> DEFINE rec == SourceAt(answer, entry.online)
             r == Insert(t.records, rec)
             n == t.n + 1
             S == IF entry.name \in t.since THEN t.since \cup {answer} ELSE t.since \ {answer}
             u == [records |-> r, n |-> n, left |-> t.left, since |-> S]
  <2>1. rec \in Record /\ rec.ip = answer /\ rec.online = entry.online
    <3>1. (CHOOSE p \in Port : TRUE) \in Port
      BY KindsAssumption
    <3>2. entry.online \in BOOLEAN
      BY DEF Entry
    <3> QED BY <1>5, <3>1, <3>2, Zenon DEF SourceAt, Record
  <2>2. t.n # MAX_SOURCES /\ Found(t.records, answer, 0) = 0
    BY <1>5 DEF Add
  <2>3. Room(t.records)
    BY <1>1, <1>2, FewerHaveRoom, Numbers
  <2>4. answer \notin Ips(t.records)
    BY <1>1, <1>5, <2>2, <2>3, FoundIs
  <2>5. /\ Placed(r) /\ Recs(r) = Recs(t.records) \cup {rec}
        /\ Cardinality(Used(r)) = Cardinality(Used(t.records)) + 1
    BY <1>1, <2>1, <2>3, <2>4, InsertIs
  <2>6. n \in Nat /\ n <= MAX_SOURCES /\ n = Cardinality(Used(r)) /\ r \in Table
    BY <1>1, <1>2, <2>2, <2>5, Numbers DEF Placed
  <2>7. S \subseteq Address \cup Name /\ S \cap Name = t.since \cap Name
    BY <1>2, <1>5, KindsAssumption
  <2>8. RecsObey(Recs(r), S)
    <3> SUFFICES ASSUME blanket # "none", NEW x \in Recs(r), x.ip \notin S
                 PROVE  x.online <=> blanket = "online"
      BY DEF RecsObey
    <3>1. CASE x = rec
      <4>1. entry.name \notin t.since
        BY <2>1, <3>1
      <4> QED BY <1>3, <2>1, <3>1, <4>1
    <3>2. CASE x # rec
      <4>1. x \in Recs(t.records) /\ x.ip # answer
        BY <2>4, <2>5, <3>2 DEF Recs, Ips
      <4>2. x.ip \notin t.since
        BY <4>1
      <4> QED BY <1>1, <4>1, <4>2 DEF RecsObey
    <3> QED BY <3>1, <3>2
  <2>9. NamesObey(t.left, S)
    BY <1>1, <1>2, <2>7, NamesObeyAlike
  <2>10. Resolved(t, entry, answer) = u
    BY <1>5 DEF Resolved
  <2> HIDE DEF r, n, S
  <2>11. u \in Pass /\ u.records = r /\ u.n = n /\ u.left = t.left /\ u.since = S
    BY <1>2, <2>6, <2>7 DEF Pass
  <2> HIDE DEF u
  <2>12. u \in GoodPass(exempt)
    BY <1>1, <2>5, <2>6, <2>7, <2>8, <2>9, <2>11 DEF GoodPass
  <2> QED BY <2>10, <2>12
<1>6. CASE answer # "DNS_TryAgain" /\ ~(answer \in Address /\ Add(t.records, t.n, answer, 0) = "NSR_Success")
  BY <1>6 DEF Resolved
<1> QED BY <1>4, <1>5, <1>6

LEMMA ResolvedType ==
  ASSUME NEW t \in Pass, NEW entry \in Entry, NEW answer \in Answer
  PROVE  Resolved(t, entry, answer) \in Pass
<1>1. t.records \in Table /\ t.n \in Nat /\ t.left \in Seq(Entry) /\ t.since \subseteq Address \cup Name
  BY DEF Pass
<1>2. CASE answer = "DNS_TryAgain"
  <2> DEFINE left == Append(t.left, entry)
  <2>1. left \in Seq(Entry) /\ Resolved(t, entry, answer) = [t EXCEPT !.left = left]
    BY <1>1, <1>2 DEF Resolved
  <2> HIDE DEF left
  <2> QED BY <2>1 DEF Pass
<1>3. CASE answer # "DNS_TryAgain" /\ answer \in Address /\ Add(t.records, t.n, answer, 0) = "NSR_Success"
  <2> DEFINE rec == SourceAt(answer, entry.online)
             r == Insert(t.records, rec)
             n == t.n + 1
             S == IF entry.name \in t.since THEN t.since \cup {answer} ELSE t.since \ {answer}
  <2>1. rec \in Record
    <3>1. (CHOOSE p \in Port : TRUE) \in Port
      BY KindsAssumption
    <3>2. entry.online \in BOOLEAN
      BY DEF Entry
    <3> QED BY <1>3, <3>1, <3>2, Zenon DEF SourceAt, Record
  <2> HIDE DEF rec
  <2>2. r \in Table
    BY <1>1, <2>1 DEF Insert, Table
  <2>3. n \in Nat /\ S \subseteq Address \cup Name
    BY <1>1, <1>3
  <2>4. Resolved(t, entry, answer) = [records |-> r, n |-> n, left |-> t.left, since |-> S]
    BY <1>3 DEF Resolved, rec
  <2> HIDE DEF r, n, S
  <2> QED BY <1>1, <2>2, <2>3, <2>4 DEF Pass
<1>4. CASE answer # "DNS_TryAgain" /\ ~(answer \in Address /\ Add(t.records, t.n, answer, 0) = "NSR_Success")
  BY <1>4 DEF Resolved
<1> QED BY <1>2, <1>3, <1>4

\* One more name answered, for all that the names before may have left.
AllResolved(T, entry) == {Resolved(t, entry, answer) : t \in T, answer \in Answer}

\* What a pass leaves is sound, however the names are answered.
LEMMA PassesAre ==
  ASSUME NEW us \in Seq(Entry), NEW exempt \in SUBSET (Address \cup Name),
         Placed(records), n_sources = Cardinality(Used(records)), n_sources <= MAX_SOURCES,
         RecsObey(Recs(records), exempt), NamesObey(us, exempt)
  PROVE  Passes(us, exempt) \subseteq GoodPass(exempt)
<1> DEFINE N == Len(us)
           start == [records |-> records, n |-> n_sources, left |-> <<>>, since |-> exempt]
           Is(f) == f = [s \in SUBSET (1 .. N) |->
                           IF s = {} THEN {start} ELSE AllResolved(f[s \ {Max(s)}], us[Max(s)])]
           g == CHOOSE f : Is(f)
           P == [k \in 0 .. N |-> SUBSET GoodPass(exempt)]
           step == [p \in (SUBSET Pass) \X (1 .. N) |-> AllResolved(p[1], us[p[2]])]
<1>1. N \in Nat /\ DOMAIN us = 1 .. N /\ \A k \in 1 .. N : us[k] \in Entry
  OBVIOUS
<1>2. Passes(us, exempt) = g[1 .. N]
  BY <1>1 DEF Passes, FoldLeft, MapThenFoldSet, AllResolved
<1>3. start \in GoodPass(exempt) /\ start \in Pass
  <2>1. n_sources \in Nat /\ records \in Table
    BY SlotsFinite DEF Placed
  <2>2. <<>> \in Seq(Entry) /\ NamesObey(<<>>, exempt)
    BY DEF NamesObey
  <2>3. start \in Pass
    BY <2>1, <2>2 DEF Pass
  <2> QED BY <2>2, <2>3 DEF GoodPass
<1> HIDE DEF start
<1>4. \E f : Is(f)
  <2>1. step \in [(SUBSET Pass) \X (1 .. N) -> SUBSET Pass]
    <3>1. ASSUME NEW T \in SUBSET Pass, NEW k \in 1 .. N PROVE AllResolved(T, us[k]) \in SUBSET Pass
      BY <1>1, ResolvedType DEF AllResolved
    <3> QED BY <3>1
  <2>2. \A T \in SUBSET Pass, n \in 1 .. N : step[<<T, n>>] = AllResolved(T, us[n])
    OBVIOUS
  <2> HIDE DEF step, N
  <2>3. PICK f : f \in Folds(SUBSET Pass, N, {start}, step)
    <3>1. N \in Nat /\ {start} \in SUBSET Pass /\ step \in StepsOf(SUBSET Pass, N)
      BY <1>1, <1>3, <2>1 DEF StepsOf
    <3>2. Folds(SUBSET Pass, N, {start}, step) # {}
      BY ONLY <3>1, FoldExists
    <3> QED BY <3>2
  <2>4. /\ f \in [SUBSET (1 .. N) -> SUBSET Pass]
        /\ \A s \in SUBSET (1 .. N) : f[s] = IF s = {} THEN {start} ELSE step[<<f[Rest(s)], Max(s)>>]
    BY <2>3 DEF Folds
  <2>5. ASSUME NEW s \in SUBSET (1 .. N), s # {}
        PROVE  step[<<f[Rest(s)], Max(s)>>] = AllResolved(f[s \ {Max(s)}], us[Max(s)])
    <3>1. s \in SUBSET (0 .. N)
      BY <1>1
    <3>2. Max(s) \in 1 .. N
      BY <1>1, <2>5, <3>1, MaxInSet
    <3>3. Rest(s) \in SUBSET (1 .. N) /\ Rest(s) = s \ {Max(s)}
      BY DEF Rest
    <3>4. f[Rest(s)] \in SUBSET Pass
      BY <2>4, <3>3
    <3> QED BY <2>2, <3>2, <3>3, <3>4
  <2>6. [s \in SUBSET (1 .. N) |-> f[s]]
          = [s \in SUBSET (1 .. N) |->
               IF s = {} THEN {start} ELSE AllResolved(f[s \ {Max(s)}], us[Max(s)])]
    BY <2>4, <2>5
  <2>7. f = [s \in SUBSET (1 .. N) |-> f[s]]
    BY <2>4
  <2> QED BY <2>6, <2>7
<1>5. Is(g)
  BY <1>4
<1> HIDE DEF g
<1>6. g[1 .. 0] = {start}
  <2>1. {} \in SUBSET (1 .. N) /\ 1 .. 0 = {}
    OBVIOUS
  <2> QED BY <1>5, <2>1
<1>7. ASSUME NEW k \in 1 .. N
      PROVE  g[1 .. k] = AllResolved(g[1 .. k - 1], us[k])
  <2>1. 1 .. k \in SUBSET (1 .. N) /\ k \in Nat /\ k > 0
    BY <1>1
  <2>2. 1 .. k # {} /\ Max(1 .. k) = k /\ (1 .. k) \ {k} = 1 .. k - 1
    BY <2>1, RangeRest DEF Rest
  <2>3. g[1 .. k] = AllResolved(g[(1 .. k) \ {Max(1 .. k)}], us[Max(1 .. k)])
    BY <1>5, <2>1, <2>2
  <2> QED BY <2>2, <2>3
<1>8. P[0] = SUBSET GoodPass(exempt) /\ \A k \in 1 .. N : P[k - 1] = SUBSET GoodPass(exempt) /\ P[k] = SUBSET GoodPass(exempt)
  BY <1>1
<1>9. \A k \in 1 .. N : g[1 .. k - 1] \in P[k - 1] => g[1 .. k] \in P[k]
  <2> TAKE k \in 1 .. N
  <2> HAVE g[1 .. k - 1] \in P[k - 1]
  <2>1. g[1 .. k - 1] \subseteq GoodPass(exempt)
    BY <1>8
  <2>2. us[k] \in Entry /\ (blanket # "none" /\ us[k].name \notin exempt => (us[k].online <=> blanket = "online"))
    BY <1>1 DEF NamesObey
  <2>3. AllResolved(g[1 .. k - 1], us[k]) \subseteq GoodPass(exempt)
    BY <2>1, <2>2, ResolvedStep DEF AllResolved
  <2>4. P[k] = SUBSET GoodPass(exempt) /\ g[1 .. k] = AllResolved(g[1 .. k - 1], us[k])
    BY <1>7, <1>8
  <2> QED BY <2>3, <2>4
<1> HIDE DEF P
<1>10. g[1 .. N] \in P[N]
  BY <1>1, <1>3, <1>6, <1>8, <1>9, FoldStays
<1>11. P[N] = SUBSET GoodPass(exempt)
  BY <1>1 DEF P
<1> QED BY <1>2, <1>10, <1>11

-----------------------------------------------------------------------------
(* Commands to sources and names. *)

\* t is r with the records at the addresses S in mode on.
Moded(r, S, on, t) ==
  /\ Placed(t) /\ Used(t) = Used(r)
  /\ \A i \in Used(r) :
       /\ t[i].ip = r[i].ip /\ t[i].port = r[i].port
       /\ r[i].ip \in S => (t[i].online <=> on)
       /\ r[i].ip \notin S => t[i] = r[i]

\* A command changes modes only: no record moves.
LEMMA SetOnlineIs ==
  ASSUME NEW r, Placed(r), NEW S, NEW on \in BOOLEAN
  PROVE  Moded(r, S, on, SetOnline(r, S, on))
<1> DEFINE t == SetOnline(r, S, on)
<1>1. r \in Table
  BY DEF Placed
<1>2. \A i \in Slot : t[i] = IF r[i] # Free /\ r[i].ip \in S THEN [r[i] EXCEPT !.online = on] ELSE r[i]
  BY DEF SetOnline
<1>3. DOMAIN t = Slot /\ t = [i \in Slot |-> t[i]]
  BY DEF SetOnline
<1> HIDE DEF t
<1>4. ASSUME NEW i \in Used(r)
      PROVE  /\ t[i] \in Record /\ t[i].ip = r[i].ip /\ t[i].port = r[i].port
             /\ r[i].ip \in S => (t[i].online <=> on)
             /\ r[i].ip \notin S => t[i] = r[i]
  <2>1. i \in Slot /\ r[i] # Free /\ r[i] \in Record
    BY <1>1, UsedIs DEF Used
  <2>2. CASE r[i].ip \in S
    <3>1. t[i] = [r[i] EXCEPT !.online = on]
      BY <1>2, <2>1, <2>2
    <3> QED BY <2>1, <2>2, <3>1 DEF Record
  <2>3. CASE r[i].ip \notin S
    BY <1>2, <2>1, <2>3
  <2> QED BY <2>2, <2>3
<1>5. \A i \in Slot : i \notin Used(r) => r[i] = Free /\ t[i] = Free
  BY <1>1, <1>2, UsedIs
<1>6. t \in Table
  <2>1. \A i \in Slot : t[i] \in Record \cup {Free}
    BY <1>4, <1>5
  <2> QED BY <1>3, <2>1 DEF Table
<1>7. Used(t) = Used(r)
  <2>1. \A i \in Used(r) : t[i] # Free
    BY <1>4, KindsAssumption
  <2> QED BY <1>5, <2>1 DEF Used
<1>8. ASSUME NEW ip \in Address, NEW k \in Slot PROVE Stop(t, ip, k) <=> Stop(r, ip, k)
  <2>1. ProbeAt(ip, k) \in Slot
    BY <1>8, ProbeIs
  <2>2. CASE ProbeAt(ip, k) \in Used(r)
    BY <1>4, <1>7, <2>2 DEF Stop, Used
  <2>3. CASE ProbeAt(ip, k) \notin Used(r)
    BY <1>5, <2>1, <2>3 DEF Stop
  <2> QED BY <2>2, <2>3
<1>9. ASSUME NEW ip \in Address PROVE FindSlot(t, ip) = FindSlot(r, ip)
  <2>1. {k \in Slot : Stop(t, ip, k)} = {k \in Slot : Stop(r, ip, k)}
    BY <1>8, <1>9
  <2>2. /\ FindSlot(t, ip) = ProbeAt(ip, Min({k \in Slot : Stop(t, ip, k)}))
        /\ FindSlot(r, ip) = ProbeAt(ip, Min({k \in Slot : Stop(r, ip, k)}))
    BY DEF FindSlot, Stop
  <2> QED BY <2>1, <2>2
<1>10. Placed(t)
  <2> SUFFICES ASSUME NEW i \in Used(t) PROVE FindSlot(t, t[i].ip) = i
    BY <1>6 DEF Placed
  <2>1. i \in Used(r) /\ t[i].ip = r[i].ip /\ r[i].ip \in Address
    BY <1>1, <1>4, <1>7, UsedIs
  <2> QED BY <1>9, <2>1 DEF Placed
<1> QED BY <1>4, <1>7, <1>10 DEF t, Moded

LEMMA SetNamesIs ==
  ASSUME NEW us \in Seq(Entry), NEW on \in BOOLEAN
  PROVE  LET vs == SetNames(us, on) IN
         /\ vs \in Seq(Entry) /\ Len(vs) = Len(us) /\ (vs = <<>> <=> us = <<>>)
         /\ \A i \in 1 .. Len(vs) : vs[i].online = on
<1> DEFINE vs == SetNames(us, on)
           n == Len(us)
<1>1. n \in Nat /\ \A i \in 1 .. n : us[i] \in Entry
  OBVIOUS
<1>2. \A i \in 1 .. n : [us[i] EXCEPT !.online = on] \in Entry /\ [us[i] EXCEPT !.online = on].online = on
  <2> TAKE i \in 1 .. n
  <2>1. us[i] \in Entry
    BY <1>1
  <2> QED BY <2>1 DEF Entry
<1>3. vs = [i \in 1 .. n |-> [us[i] EXCEPT !.online = on]]
  BY DEF SetNames
<1> DEFINE x(i) == [us[i] EXCEPT !.online = on]
<1>4. vs = [i \in 1 .. n |-> x(i)] /\ \A i \in 1 .. n : x(i) \in Entry /\ x(i).online = on
  BY <1>2, <1>3
<1> HIDE DEF x, vs, n
<1>5. vs \in Seq(Entry) /\ Len(vs) = n /\ \A i \in 1 .. n : vs[i] = x(i)
  BY <1>1, <1>4
<1>6. vs = <<>> <=> us = <<>>
  <2>1. vs = <<>> <=> Len(vs) = 0
    BY <1>5
  <2>2. us = <<>> <=> Len(us) = 0
    OBVIOUS
  <2> QED BY <1>5, <2>1, <2>2 DEF n
<1> QED BY <1>4, <1>5, <1>6 DEF vs, n

-----------------------------------------------------------------------------
(* The invariant. *)

TableGood == Placed(records) /\ n_sources = Cardinality(Used(records)) /\ n_sources <= MAX_SOURCES
ResolverTyped ==
  /\ unresolved \in Seq(Entry) /\ resolving_interval \in Nat /\ resolve_timers \in Nat
  /\ since \subseteq Address \cup Name /\ blanket \in {"none", "online", "offline"}
Obeyed == RecsObey(Recs(records), since) /\ NamesObey(unresolved, since)

SourcesInv == TableGood /\ ResolverTyped /\ RetryWhileUnresolved /\ Obeyed

LEMMA SourcesInvImplies == SourcesInv => RetryWhileUnresolved /\ CommandReachesNames
BY DEF SourcesInv, Obeyed, RecsObey, NamesObey, CommandReachesNames, Recs

LEMMA InitStep == Init => SourcesInv
<1> SUFFICES ASSUME Init PROVE SourcesInv
  OBVIOUS
<1>1. records = Empty
  BY DEF Init, Empty
<1>2. TableGood
  <2>1. Placed(records) /\ Cardinality(Used(records)) = 0 /\ n_sources = 0
    BY <1>1, EmptyIs DEF Init
  <2> QED BY <2>1, Numbers DEF TableGood
<1>3. ResolverTyped /\ RetryWhileUnresolved /\ Obeyed
  BY DEF Init, ResolverTyped, RetryWhileUnresolved, Obeyed, RecsObey, NamesObey
<1> QED BY <1>2, <1>3 DEF SourcesInv

LEMMA MinOfTwo ==
  ASSUME NEW a \in Nat, NEW b \in Nat, a >= 1, b >= 1
  PROVE  Min({a, b}) \in Nat /\ Min({a, b}) >= 1
<1>1. {a, b} \in SUBSET Nat /\ {a, b} # {}
  OBVIOUS
<1>2. Min({a, b}) \in {a, b}
  BY <1>1, MinInSet
<1> QED BY <1>2

\* After a pass one retry is queued exactly when it left names.
LEMMA RearmIs ==
  ASSUME NEW left, NEW interval \in Nat, Rearm(left, interval, 0)
  PROVE  /\ resolving_interval' \in Nat /\ resolve_timers' \in Nat
         /\ resolve_timers' = IF left = <<>> THEN 0 ELSE 1
         /\ resolving_interval' = 0 <=> left = <<>>
<1>1. interval + 1 \in Nat /\ interval + 1 >= 1 /\ MaxInterval \in Nat /\ MaxInterval >= 1
  BY IntervalAssumption
<1>2. Min({interval + 1, MaxInterval}) \in Nat /\ Min({interval + 1, MaxInterval}) >= 1
  BY <1>1, MinOfTwo
<1> QED BY <1>2 DEF Rearm

\* The same of a command that tries the names before their time.
LEMMA ResolveNowIs ==
  ASSUME NEW us, NEW interval \in Nat, NEW timers \in Nat, NEW exempt, NEW t,
         timers = IF us = <<>> THEN 0 ELSE 1, interval = 0 <=> us = <<>>,
         ResolveNow(us, interval, timers, exempt, t)
  PROVE  /\ resolving_interval' \in Nat /\ resolve_timers' \in Nat
         /\ resolve_timers' = IF t.left = <<>> THEN 0 ELSE 1
         /\ resolving_interval' = 0 <=> t.left = <<>>
<1>1. CASE interval = 0
  BY <1>1 DEF ResolveNow
<1>2. CASE interval # 0
  <2>1. interval - 1 \in Nat /\ timers = 1 /\ Rearm(t.left, interval - 1, 0)
    BY <1>2 DEF ResolveNow, Cancelled
  <2> QED BY <2>1, RearmIs
<1> QED BY <1>1, <1>2

-----------------------------------------------------------------------------
(* The map the table stands for. *)

PortsOf(r) == [a \in {r[i].ip : i \in Used(r)} |-> r[CHOOSE i \in Used(r) : r[i].ip = a].port]

\* The expression that stands for port_of, as written in NtpSources.
thePorts ==
  [a \in {records[i].ip : i \in Used(records)} |->
    records[CHOOSE i \in Used(records) : records[i].ip = a].port]

LEMMA ThePortsAre == thePorts = PortsOf(records) /\ thePorts' = PortsOf(records')
BY DEF thePorts, PortsOf, Used

LEMMA MapCardinality == \A S : Map!Cardinality(S) = Cardinality(S)
BY DEF Map!Cardinality, Cardinality

LEMMA PortsAre ==
  ASSUME NEW r, Placed(r)
  PROVE  /\ DOMAIN PortsOf(r) = Ips(r) /\ PortsOf(r) \in [Ips(r) -> Port]
         /\ \A rec \in Recs(r) : rec.ip \in Ips(r) /\ PortsOf(r)[rec.ip] = rec.port
         /\ \A a \in Ips(r) : \E rec \in Recs(r) : rec.ip = a
         /\ IsFiniteSet(Ips(r)) /\ Cardinality(Ips(r)) = Cardinality(Used(r))
<1>1. r \in Table
  BY DEF Placed
<1>2. ASSUME NEW i \in Used(r)
      PROVE  r[i].ip \in Ips(r) /\ PortsOf(r)[r[i].ip] = r[i].port /\ r[i].port \in Port
  <2> DEFINE j == CHOOSE j \in Used(r) : r[j].ip = r[i].ip
  <2>1. j \in Used(r) /\ r[j].ip = r[i].ip
    OBVIOUS
  <2>2. j = i
    BY <2>1, PlacedOnce
  <2>3. r[i] \in Record
    BY <1>1, UsedIs
  <2>4. PortsOf(r)[r[i].ip] = r[j].port
    BY DEF PortsOf
  <2> QED BY <2>2, <2>3, <2>4 DEF Ips, Record
<1>3. DOMAIN PortsOf(r) = Ips(r)
  BY DEF PortsOf, Ips
<1>4. PortsOf(r) \in [Ips(r) -> Port]
  <2>1. \A a \in Ips(r) : PortsOf(r)[a] \in Port
    BY <1>2 DEF Ips
  <2>2. PortsOf(r) = [a \in Ips(r) |-> PortsOf(r)[a]]
    BY <1>3 DEF PortsOf, Ips
  <2> QED BY <2>1, <2>2
<1>5. Cardinality(Ips(r)) = Cardinality(Used(r)) /\ IsFiniteSet(Ips(r))
  <2> DEFINE f == [i \in Used(r) |-> r[i].ip]
  <2>1. f \in [Used(r) -> Ips(r)]
    BY DEF Ips
  <2>2. \A i, j \in Used(r) : f[i] = f[j] => i = j
    BY PlacedOnce
  <2>3. \A a \in Ips(r) : \E i \in Used(r) : f[i] = a
    BY DEF Ips
  <2> HIDE DEF f
  <2>4. f \in Bijection(Used(r), Ips(r))
    BY <2>1, <2>2, <2>3 DEF Bijection, Injection, Surjection, IsInjective
  <2>5. ExistsBijection(Used(r), Ips(r))
    BY <2>4 DEF ExistsBijection
  <2> QED BY <2>5, SlotsFinite, FS_Bijection
<1> QED BY <1>2, <1>3, <1>4, <1>5 DEF Recs, Ips

\* The map is determined by the records.
LEMMA PortsOnly ==
  ASSUME NEW r, Placed(r), NEW f, f = [a \in Ips(r) |-> f[a]],
         \A rec \in Recs(r) : f[rec.ip] = rec.port
  PROVE  f = PortsOf(r)
<1>1. \A a \in Ips(r) : f[a] = PortsOf(r)[a]
  BY PortsAre
<1>2. PortsOf(r) = [a \in Ips(r) |-> PortsOf(r)[a]]
  BY DEF PortsOf, Ips
<1> QED BY <1>1, <1>2

LEMMA IpsOfRecs == \A r : Ips(r) = {rec.ip : rec \in Recs(r)}
BY DEF Ips, Recs

\* The map with one more address, and with one less.
LEMMA PortsWith ==
  ASSUME NEW r, NEW t, Placed(r), Placed(t), NEW rec, rec.ip \notin Ips(r), Recs(t) = Recs(r) \cup {rec}
  PROVE  PortsOf(t) = [a \in Ips(r) \cup {rec.ip} |-> IF a = rec.ip THEN rec.port ELSE PortsOf(r)[a]]
<1> DEFINE f == [a \in Ips(r) \cup {rec.ip} |-> IF a = rec.ip THEN rec.port ELSE PortsOf(r)[a]]
<1>1. Ips(t) = Ips(r) \cup {rec.ip}
  BY IpsOfRecs
<1>2. f = [a \in Ips(t) |-> f[a]]
  BY <1>1
<1>3. \A x \in Recs(t) : f[x.ip] = x.port
  <2> TAKE x \in Recs(t)
  <2>1. CASE x = rec
    BY <2>1
  <2>2. CASE x # rec
    <3>1. x \in Recs(r) /\ x.ip \in Ips(r) /\ x.ip # rec.ip
      BY <2>2, IpsOfRecs
    <3> QED BY <3>1, PortsAre
  <2> QED BY <2>1, <2>2
<1> HIDE DEF f
<1>4. f = PortsOf(t)
  BY <1>2, <1>3, PortsOnly
<1> QED BY <1>4 DEF f

\* t has the records of r that are not at ip.
Without(r, t, ip) == \A rec : rec \in Recs(t) <=> rec \in Recs(r) /\ rec.ip # ip

LEMMA PortsWithout ==
  ASSUME NEW r, NEW t, Placed(r), Placed(t), NEW ip, Without(r, t, ip)
  PROVE  PortsOf(t) = [a \in Ips(r) \ {ip} |-> PortsOf(r)[a]]
<1> DEFINE f == [a \in Ips(r) \ {ip} |-> PortsOf(r)[a]]
<1>1. Ips(t) = Ips(r) \ {ip}
  BY IpsOfRecs DEF Without
<1>2. f = [a \in Ips(t) |-> f[a]]
  BY <1>1
<1>3. \A x \in Recs(t) : f[x.ip] = x.port
  BY PortsAre DEF Without
<1> HIDE DEF f
<1>4. f = PortsOf(t)
  BY <1>2, <1>3, PortsOnly
<1> QED BY <1>4 DEF f

\* A change of modes leaves it.
LEMMA PortsSame ==
  ASSUME NEW r, Placed(r), NEW S, NEW on \in BOOLEAN
  PROVE  PortsOf(SetOnline(r, S, on)) = PortsOf(r)
<1> DEFINE t == SetOnline(r, S, on)
<1>1. /\ Placed(t) /\ Used(t) = Used(r)
      /\ \A i \in Used(r) : t[i].ip = r[i].ip /\ t[i].port = r[i].port
  BY SetOnlineIs DEF Moded
<1> HIDE DEF t
<1>2. Ips(t) = Ips(r)
  BY <1>1 DEF Ips
<1>3. PortsOf(r) = [a \in Ips(t) |-> PortsOf(r)[a]]
  <2>1. PortsOf(r) = [a \in Ips(r) |-> PortsOf(r)[a]]
    BY DEF PortsOf, Ips
  <2> QED BY <1>2, <2>1
<1>4. \A rec \in Recs(t) : PortsOf(r)[rec.ip] = rec.port
  <2> TAKE rec \in Recs(t)
  <2>1. PICK i \in Used(r) : rec = t[i]
    BY <1>1 DEF Recs
  <2>2. r[i] \in Recs(r) /\ rec.ip = r[i].ip /\ rec.port = r[i].port
    BY <1>1, <2>1 DEF Recs
  <2> QED BY <2>2, PortsAre
<1>5. PortsOf(r) = PortsOf(t)
  BY <1>1, <1>3, <1>4, PortsOnly
<1> QED BY <1>5 DEF t

-----------------------------------------------------------------------------
(* The steps. *)

\* The map of a table before a step.
LEMMA MapIs ==
  ASSUME SourcesInv
  PROVE  /\ thePorts = PortsOf(records) /\ Map!Stored = Ips(records)
         /\ Map!Full <=> n_sources = MAX_SOURCES
         /\ Placed(records) /\ Room(records) /\ records \in Table /\ n_sources \in Nat
         /\ since \subseteq Address \cup Name /\ unresolved \in Seq(Entry)
         /\ blanket \in {"none", "online", "offline"}
<1>1. TableGood /\ ResolverTyped
  BY DEF SourcesInv
<1>2. Placed(records) /\ records \in Table
  BY <1>1 DEF TableGood, Placed
<1>3. Room(records) /\ n_sources \in Nat
  BY <1>1, SlotsFinite, FewerHaveRoom, Numbers DEF TableGood
<1>4. Map!Stored = DOMAIN thePorts
  BY Zenon DEF Map!Stored, thePorts
<1>5. Map!Stored = Ips(records)
  BY <1>2, <1>4, ThePortsAre, PortsAre
<1>6. Map!Full <=> Map!Cardinality(Ips(records)) = MAX_SOURCES
  BY <1>5, Zenon DEF Map!Full
<1>7. Cardinality(Ips(records)) = n_sources
  BY <1>1, <1>2, PortsAre DEF TableGood
<1> QED BY <1>1, <1>2, <1>3, <1>5, <1>6, <1>7, ThePortsAre, MapCardinality DEF ResolverTyped

LEMMA AddStep ==
  ASSUME SourcesInv, NEW ip \in Address \cup {Unspecified}, NEW port \in Port, NEW online \in Online,
         NSR_AddSource(ip, port, online)
  PROVE  SourcesInv' /\ Map!AddSource(ip, port)
<1>0. /\ thePorts = PortsOf(records) /\ Map!Stored = Ips(records)
      /\ Map!Full <=> n_sources = MAX_SOURCES
      /\ Placed(records) /\ Room(records) /\ n_sources \in Nat /\ since \subseteq Address \cup Name
  BY MapIs
<1>1. TableGood /\ ResolverTyped /\ RetryWhileUnresolved /\ Obeyed
  BY DEF SourcesInv
<1> DEFINE answer == Add(records, n_sources, ip, port)
<1>2. result' = <<ip, port, answer>> /\ result'[3] = answer /\ UNCHANGED <<resolver, blanket>>
  BY DEF NSR_AddSource
<1>3. Found(records, ip, port) = 0 <=> ip \notin Ips(records)
  BY <1>0, FoundIs
<1>4. online \in BOOLEAN /\ Unspecified \notin Address
  BY KindsAssumption, TableAssumption
<1>5. CASE answer # "NSR_Success"
  <2>1. UNCHANGED <<records, n_sources, since>>
    BY <1>2, <1>5 DEF NSR_AddSource
  <2>2. SourcesInv'
    BY <1>1, <1>2, <2>1 DEF SourcesInv, TableGood, ResolverTyped, RetryWhileUnresolved, Obeyed,
       resolver, Recs, Used, RecsObey, NamesObey
  <2>3. thePorts' = thePorts
    BY <2>1, ThePortsAre
  <2>4. \/ answer = "NSR_AlreadyInUse" /\ ip \in Map!Stored
        \/ answer = "NSR_TooManySources" /\ ip \notin Map!Stored /\ Map!Full
        \/ answer = "NSR_InvalidAF" /\ ip \notin Map!Stored /\ ~Map!Full /\ ip = Unspecified
    BY <1>0, <1>3, <1>5 DEF Add
  <2> HIDE DEF answer
  <2>5. Map!AddSource(ip, port)
    BY <1>2, <2>3, <2>4, Zenon DEF Map!AddSource, thePorts
  <2> QED BY <2>2, <2>5
<1>6. CASE answer = "NSR_Success"
  <2> DEFINE rec == [ip |-> ip, port |-> port, online |-> online]
  <2>1. /\ records' = Insert(records, rec) /\ n_sources' = n_sources + 1
        /\ since' = Since(since \cup {ip})
    BY <1>2, <1>6 DEF NSR_AddSource
  <2>2. ip \notin Ips(records) /\ n_sources # MAX_SOURCES /\ ip # Unspecified /\ ip \in Address
    BY <1>3, <1>6 DEF Add
  <2>3. rec \in Record /\ rec.ip = ip /\ rec.port = port
    BY <1>4, <2>2 DEF Record
  <2> HIDE DEF rec
  <2>4. /\ Placed(records') /\ Recs(records') = Recs(records) \cup {rec}
        /\ Cardinality(Used(records')) = Cardinality(Used(records)) + 1
    BY <1>0, <2>1, <2>2, <2>3, InsertIs
  <2>5. TableGood'
    <3>1. n_sources + 1 <= MAX_SOURCES
      BY <1>0, <1>1, <2>2, Numbers DEF TableGood
    <3>2. n_sources' = Cardinality(Used(records'))
      BY <1>1, <2>1, <2>4 DEF TableGood
    <3> QED BY <2>1, <2>4, <3>1, <3>2 DEF TableGood, Used
  <2>6. ResolverTyped' /\ RetryWhileUnresolved'
    <3>1. since' \subseteq Address \cup Name
      BY <1>0, <2>1, <2>2 DEF Since
    <3> QED BY <1>1, <1>2, <3>1 DEF ResolverTyped, RetryWhileUnresolved, resolver
  <2>7. Obeyed'
    <3>1. CASE blanket = "none"
      BY <1>2, <3>1 DEF Obeyed, RecsObey, NamesObey
    <3>2. CASE blanket # "none"
      <4>1. since' = since \cup {ip}
        BY <2>1, <3>2 DEF Since
      <4>2. RecsObey(Recs(records'), since')
        BY <1>1, <2>3, <2>4, <4>1 DEF RecsObey, Obeyed
      <4>3. NamesObey(unresolved, since')
        BY <1>1, <4>1 DEF NamesObey, Obeyed
      <4> QED BY <1>2, <4>2, <4>3 DEF Obeyed, RecsObey, NamesObey, resolver, Recs, Used
    <3> QED BY <3>1, <3>2
  <2>8. thePorts' = [a \in Map!Stored \cup {ip} |-> IF a = ip THEN port ELSE thePorts[a]]
    <3>1. PortsOf(records') = [a \in Ips(records) \cup {ip} |-> IF a = ip THEN port ELSE PortsOf(records)[a]]
      BY <1>0, <2>2, <2>3, <2>4, PortsWith
    <3> QED BY <1>0, <3>1, ThePortsAre
  <2>9. result' = <<ip, port, "NSR_Success">> /\ ip \notin Map!Stored /\ ~Map!Full /\ ip # Unspecified
    BY <1>0, <1>2, <1>6, <2>2
  <2>10. Map!AddSource(ip, port)
    BY <2>8, <2>9, Zenon DEF Map!AddSource, thePorts
  <2> QED BY <2>5, <2>6, <2>7, <2>10 DEF SourcesInv
<1> QED BY <1>5, <1>6

LEMMA RemoveStep ==
  ASSUME SourcesInv, NEW ip \in Address \cup {Unspecified}, NSR_RemoveSource(ip)
  PROVE  SourcesInv' /\ Map!RemoveSource(ip)
<1>0. /\ thePorts = PortsOf(records) /\ Map!Stored = Ips(records)
      /\ Placed(records) /\ Room(records) /\ n_sources \in Nat /\ since \subseteq Address \cup Name
      /\ records \in Table /\ Ips(records) \subseteq Address
  BY MapIs, UsedIs
<1>1. TableGood /\ ResolverTyped /\ RetryWhileUnresolved /\ Obeyed
  BY DEF SourcesInv
<1>2. UNCHANGED <<resolver, blanket>>
  BY DEF NSR_RemoveSource
<1>3. Found(records, ip, 0) = 0 <=> ip \notin Ips(records)
  BY <1>0, FoundIs
<1>4. CASE ip \notin Ips(records)
  <2>1. UNCHANGED <<records, n_sources, since>> /\ result' = <<ip, 0, "NSR_NoSuchSource">>
    BY <1>3, <1>4 DEF NSR_RemoveSource
  <2>2. SourcesInv'
    BY <1>1, <1>2, <2>1 DEF SourcesInv, TableGood, ResolverTyped, RetryWhileUnresolved, Obeyed,
       resolver, Recs, Used, RecsObey, NamesObey
  <2>3. thePorts' = thePorts /\ ip \notin Map!Stored
    BY <1>0, <1>4, <2>1, ThePortsAre
  <2>4. Map!RemoveSource(ip)
    BY <2>1, <2>3, Zenon DEF Map!RemoveSource, thePorts
  <2> QED BY <2>2, <2>4
<1>5. CASE ip \in Ips(records)
  <2> DEFINE s == FindSlot(records, ip)
             r == [records EXCEPT ![s] = Free]
             left == {rec \in Recs(records) : rec.ip # ip}
  <2>1. /\ result' = <<ip, 0, "NSR_Success">> /\ records' = Rehash(r)
        /\ n_sources' = n_sources - 1 /\ since' = since \ {ip}
    BY <1>3, <1>5 DEF NSR_RemoveSource
  <2>2. ip \in Address /\ s \in Slot /\ s \in Used(records) /\ records[s].ip = ip
    <3>1. ip \in Address
      BY <1>0, <1>5
    <3> QED BY <1>0, <1>5, <3>1, FindSlotIs
  <2> HIDE DEF s
  <2>3. r \in Table /\ r[s] = Free /\ \A i \in Slot : i # s => r[i] = records[i]
    BY <1>0, <2>2 DEF Table
  <2> HIDE DEF r
  <2>4. Used(r) = Used(records) \ {s} /\ \A i \in Used(r) : r[i] = records[i]
    BY <2>3 DEF Used
  <2>5. \A i, j \in Used(r) : r[i].ip = r[j].ip => i = j
    BY <1>0, <2>4, PlacedOnce
  <2>6. Recs(r) = left
    <3>1. \A i \in Used(records) : records[i].ip = ip => i = s
      BY <1>0, <2>2, PlacedOnce
    <3> QED BY <2>2, <2>4, <3>1 DEF Recs
  <2>7. /\ Placed(records') /\ Recs(records') = left
        /\ Cardinality(Used(records')) = Cardinality(Used(r))
    BY <2>1, <2>3, <2>5, <2>6, RehashIs
  <2>8. Cardinality(Used(r)) = Cardinality(Used(records)) - 1
    BY <2>2, <2>4, SlotsFinite, FS_RemoveElement
  <2>9. TableGood'
    <3>1. n_sources' = Cardinality(Used(records')) /\ n_sources' <= MAX_SOURCES
      BY <1>0, <1>1, <2>1, <2>7, <2>8, Numbers DEF TableGood
    <3> QED BY <2>7, <3>1 DEF TableGood, Used
  <2>10. ResolverTyped' /\ RetryWhileUnresolved'
    <3>1. since' \subseteq Address \cup Name
      BY <1>0, <2>1
    <3> QED BY <1>1, <1>2, <3>1 DEF ResolverTyped, RetryWhileUnresolved, resolver
  <2>11. Obeyed'
    <3>1. RecsObey(left, since')
      BY <1>1, <2>1 DEF RecsObey, Obeyed
    <3>2. since \cap Name = since' \cap Name
      BY <2>1, <2>2, KindsAssumption
    <3>3. NamesObey(unresolved, since')
      BY <1>1, <3>2, NamesObeyAlike DEF Obeyed, ResolverTyped
    <3> QED BY <1>2, <2>7, <3>1, <3>3 DEF Obeyed, RecsObey, NamesObey, resolver, Recs, Used
  <2>12. thePorts' = [a \in Map!Stored \ {ip} |-> thePorts[a]]
    <3>1. PortsOf(records') = [a \in Ips(records) \ {ip} |-> PortsOf(records)[a]]
      <4>1. Without(records, records', ip) /\ Placed(records) /\ Placed(records')
        BY <1>0, <2>7 DEF Without
      <4> QED BY <4>1, PortsWithout
    <3> QED BY <1>0, <3>1, ThePortsAre
  <2>13. ip \in Map!Stored
    BY <1>0, <1>5
  <2>14. Map!RemoveSource(ip)
    BY <2>1, <2>12, <2>13, Zenon DEF Map!RemoveSource, thePorts
  <2> QED BY <2>9, <2>10, <2>11, <2>14 DEF SourcesInv
<1> QED BY <1>4, <1>5

LEMMA ReceiveStep ==
  ASSUME SourcesInv, NEW ip \in Address \cup {Unspecified}, NEW port \in Port, NSR_ProcessReceive(ip, port)
  PROVE  SourcesInv' /\ Map!ProcessReceive(ip, port)
<1>0. /\ thePorts = PortsOf(records) /\ Map!Stored = Ips(records)
      /\ Placed(records) /\ Room(records)
  BY MapIs
<1>1. UNCHANGED <<records, n_sources, resolver, history>>
  BY DEF NSR_ProcessReceive
<1>2. SourcesInv'
  BY <1>1 DEF SourcesInv, TableGood, ResolverTyped, RetryWhileUnresolved, Obeyed,
     resolver, history, Recs, Used, RecsObey, NamesObey
<1>3. thePorts' = thePorts
  BY <1>1, ThePortsAre
<1>4. Found(records, ip, port) = 2 <=> ip \in Map!Stored /\ thePorts[ip] = port
  <2>1. Found(records, ip, port) = 2 <=> \E rec \in Recs(records) : rec.ip = ip /\ rec.port = port
    BY <1>0, FoundIs
  <2> QED BY <1>0, <2>1, PortsAre
<1>5. CASE Found(records, ip, port) = 2
  <2>1. result' = <<ip, port, "NCR_ProcessKnown">>
    BY <1>5 DEF NSR_ProcessReceive
  <2> QED BY <1>2, <1>3, <1>4, <1>5, <2>1, Zenon DEF Map!ProcessReceive, thePorts
<1>6. CASE Found(records, ip, port) # 2
  <2>1. result' = <<ip, port, "NCR_ProcessUnknown">>
    BY <1>6 DEF NSR_ProcessReceive
  <2> QED BY <1>2, <1>3, <1>4, <1>6, <2>1, Zenon DEF Map!ProcessReceive, thePorts
<1> QED BY <1>5, <1>6

\* What a pass of the resolver leaves.
LEMMA PassIs ==
  ASSUME SourcesInv, NEW us \in Seq(Entry), NEW exempt \in SUBSET (Address \cup Name),
         NamesObey(us, exempt), RecsObey(Recs(records), exempt), NEW t \in Passes(us, exempt)
  PROVE  /\ t \in Pass /\ Placed(t.records) /\ t.records \in Table /\ t.left \in Seq(Entry) /\ t.n \in Nat
         /\ t.n = Cardinality(Used(t.records)) /\ t.n <= MAX_SOURCES
         /\ t.since \subseteq Address \cup Name /\ Recs(records) \subseteq Recs(t.records)
         /\ RecsObey(Recs(t.records), t.since) /\ NamesObey(t.left, t.since)
<1>1. Placed(records) /\ n_sources = Cardinality(Used(records)) /\ n_sources <= MAX_SOURCES
  BY DEF SourcesInv, TableGood
<1>2. t \in GoodPass(exempt)
  BY <1>1, PassesAre
<1> QED BY <1>2 DEF GoodPass, Pass

\* A pass, and commands after it, are a Resolve of the map.
LEMMA PassResolves ==
  ASSUME SourcesInv, NEW t, Placed(t), Recs(records) \subseteq Recs(t), Cardinality(Used(t)) <= MAX_SOURCES,
         PortsOf(records') = PortsOf(t), UNCHANGED result
  PROVE  Map!Resolve
<1>1. /\ thePorts = PortsOf(records) /\ Map!Stored = Ips(records) /\ Placed(records)
  BY MapIs
<1>2. Ips(t) \in SUBSET Address
  BY UsedIs DEF Placed
<1>3. Map!Stored \subseteq Ips(t)
  BY <1>1, IpsOfRecs
<1>4. Map!Cardinality(Ips(t)) <= MAX_SOURCES
  BY PortsAre, MapCardinality
<1>5. thePorts' = PortsOf(t)
  BY ThePortsAre
<1>6. thePorts' \in [Ips(t) -> Port]
  BY <1>5, PortsAre
<1>7. \A a \in Map!Stored : thePorts'[a] = thePorts[a]
  <2> TAKE a \in Map!Stored
  <2>1. PICK rec \in Recs(records) : rec.ip = a
    BY <1>1, PortsAre
  <2>2. PortsOf(records)[a] = rec.port /\ PortsOf(t)[a] = rec.port
    BY <1>1, <2>1, PortsAre
  <2> QED BY <1>1, <1>5, <2>2
<1>8. \E S \in SUBSET Address :
        Map!Stored \subseteq S /\ Map!Cardinality(S) <= MAX_SOURCES /\ thePorts' \in [S -> Port]
  BY <1>2, <1>3, <1>4, <1>6, Zenon
<1> QED BY <1>7, <1>8, Zenon DEF Map!Resolve, thePorts

LEMMA ConfigStep == SourcesInv /\ CNF_AddSources => SourcesInv' /\ Map!Resolve
<1> SUFFICES ASSUME SourcesInv, CNF_AddSources PROVE SourcesInv' /\ Map!Resolve
  OBVIOUS
<1> DEFINE Exempt(us) == Since(since \cup {us[i].name : i \in 1 .. Len(us)})
<1>1. PICK us \in Configs : \E t \in Passes(us, Exempt(us)) :
        /\ ResolveNow(us, IF us # <<>> THEN 2 ELSE 0, IF us # <<>> THEN 1 ELSE 0, Exempt(us), t)
        /\ records' = t.records /\ n_sources' = t.n
        /\ unresolved' = t.left /\ since' = t.since
  BY DEF CNF_AddSources
<1> DEFINE exempt == Exempt(us)
<1>2. PICK t \in Passes(us, exempt) :
        /\ ResolveNow(us, IF us # <<>> THEN 2 ELSE 0, IF us # <<>> THEN 1 ELSE 0, exempt, t)
        /\ records' = t.records /\ n_sources' = t.n
        /\ unresolved' = t.left /\ since' = t.since
  BY <1>1
<1>3. UNCHANGED <<result, blanket>>
  BY DEF CNF_AddSources
<1>4. us \in Seq(Entry) /\ \A i \in 1 .. Len(us) : us[i].name \in Name
  <2>1. us \in Seq(Entry)
    BY KindsAssumption
  <2>2. \A i \in 1 .. Len(us) : us[i] \in Entry
    BY <2>1
  <2> QED BY <2>1, <2>2 DEF Entry
<1>5. /\ since \subseteq Address \cup Name /\ blanket \in {"none", "online", "offline"}
      /\ RecsObey(Recs(records), since)
  BY DEF SourcesInv, ResolverTyped, Obeyed
<1>6. exempt \in SUBSET (Address \cup Name)
  BY <1>4, <1>5 DEF Since
<1>7. NamesObey(us, exempt) /\ RecsObey(Recs(records), exempt)
  <2>1. CASE blanket = "none"
    BY <2>1 DEF NamesObey, RecsObey
  <2>2. CASE blanket # "none"
    <3>1. exempt = since \cup {us[i].name : i \in 1 .. Len(us)}
      BY <2>2 DEF Since
    <3> HIDE DEF exempt
    <3>2. \A i \in 1 .. Len(us) : us[i].name \in exempt
      BY <3>1
    <3> QED BY <1>5, <3>1, <3>2 DEF NamesObey, RecsObey
  <2> QED BY <2>1, <2>2
<1> HIDE DEF exempt
<1>8. /\ Placed(t.records) /\ t.left \in Seq(Entry) /\ t.n \in Nat
      /\ t.n = Cardinality(Used(t.records)) /\ t.n <= MAX_SOURCES
      /\ t.since \subseteq Address \cup Name /\ Recs(records) \subseteq Recs(t.records)
      /\ RecsObey(Recs(t.records), t.since) /\ NamesObey(t.left, t.since)
  BY <1>4, <1>6, <1>7, PassIs
<1>9. /\ resolving_interval' \in Nat /\ resolve_timers' \in Nat
      /\ resolve_timers' = IF t.left = <<>> THEN 0 ELSE 1
      /\ resolving_interval' = 0 <=> t.left = <<>>
  <2> DEFINE interval == IF us # <<>> THEN 2 ELSE 0
             timers == IF us # <<>> THEN 1 ELSE 0
  <2>1. interval \in Nat /\ timers \in Nat /\ timers = (IF us = <<>> THEN 0 ELSE 1) /\ (interval = 0 <=> us = <<>>)
    OBVIOUS
  <2>2. ResolveNow(us, interval, timers, exempt, t)
    BY <1>2
  <2> HIDE DEF interval, timers
  <2> QED BY <2>1, <2>2, ResolveNowIs
<1>10. SourcesInv'
  <2>1. TableGood'
    BY <1>2, <1>8 DEF TableGood, Placed, Used
  <2>2. ResolverTyped' /\ RetryWhileUnresolved'
    BY <1>2, <1>3, <1>5, <1>8, <1>9 DEF ResolverTyped, RetryWhileUnresolved
  <2>3. Obeyed'
    BY <1>2, <1>3, <1>8 DEF Obeyed, RecsObey, NamesObey, Recs, Used
  <2> QED BY <2>1, <2>2, <2>3 DEF SourcesInv
<1>11. Map!Resolve
  <2>1. PortsOf(records') = PortsOf(t.records) /\ UNCHANGED result
    BY <1>2, <1>3
  <2> QED BY <1>8, <2>1, PassResolves
<1> QED BY <1>10, <1>11

LEMMA TimeoutStep == SourcesInv /\ ResolveTimeout => SourcesInv' /\ Map!Resolve
<1> SUFFICES ASSUME SourcesInv, ResolveTimeout PROVE SourcesInv' /\ Map!Resolve
  OBVIOUS
<1>1. PICK t \in Passes(unresolved, since) :
        /\ Rearm(t.left, resolving_interval, resolve_timers - 1)
        /\ records' = t.records /\ n_sources' = t.n
        /\ unresolved' = t.left /\ since' = t.since
  BY DEF ResolveTimeout
<1>2. UNCHANGED <<result, blanket>> /\ resolve_timers > 0
  BY DEF ResolveTimeout
<1>3. ResolverTyped /\ RetryWhileUnresolved /\ Obeyed
  BY DEF SourcesInv
<1>4. unresolved \in Seq(Entry) /\ since \in SUBSET (Address \cup Name)
  BY <1>3 DEF ResolverTyped
<1>5. /\ Placed(t.records) /\ t.left \in Seq(Entry) /\ t.n \in Nat
      /\ t.n = Cardinality(Used(t.records)) /\ t.n <= MAX_SOURCES
      /\ t.since \subseteq Address \cup Name /\ Recs(records) \subseteq Recs(t.records)
      /\ RecsObey(Recs(t.records), t.since) /\ NamesObey(t.left, t.since)
  BY <1>3, <1>4, PassIs DEF Obeyed
<1>6. /\ resolving_interval' \in Nat /\ resolve_timers' \in Nat
      /\ resolve_timers' = IF t.left = <<>> THEN 0 ELSE 1
      /\ resolving_interval' = 0 <=> t.left = <<>>
  <2>1. resolve_timers - 1 = 0 /\ resolving_interval \in Nat
    BY <1>2, <1>3 DEF RetryWhileUnresolved, ResolverTyped
  <2>2. Rearm(t.left, resolving_interval, 0)
    BY <1>1, <2>1
  <2> QED BY <2>1, <2>2, RearmIs
<1>7. SourcesInv'
  <2>1. TableGood'
    BY <1>1, <1>5 DEF TableGood, Placed, Used
  <2>2. ResolverTyped' /\ RetryWhileUnresolved'
    BY <1>1, <1>2, <1>3, <1>5, <1>6 DEF ResolverTyped, RetryWhileUnresolved
  <2>3. Obeyed'
    BY <1>1, <1>2, <1>5 DEF Obeyed, RecsObey, NamesObey, Recs, Used
  <2> QED BY <2>1, <2>2, <2>3 DEF SourcesInv
<1>8. Map!Resolve
  <2>1. PortsOf(records') = PortsOf(t.records) /\ UNCHANGED result
    BY <1>1, <1>2
  <2> QED BY <1>5, <2>1, PassResolves
<1> QED BY <1>7, <1>8

LEMMA OnlineStep ==
  ASSUME SourcesInv, NEW ip \in Address \cup {Unspecified}, NSR_TakeSourcesOnline(ip)
  PROVE  SourcesInv' /\ Map!Resolve
<1>1. PICK t \in Passes(unresolved, since) :
        /\ ResolveNow(unresolved, resolving_interval, resolve_timers, since, t)
        /\ records' = SetOnline(t.records, Targets(ip), TRUE)
        /\ n_sources' = t.n
        /\ unresolved' = IF ip = Unspecified THEN SetNames(t.left, TRUE) ELSE t.left
        /\ since' = IF ip = Unspecified THEN {} ELSE Since(t.since \cup {ip})
  BY DEF NSR_TakeSourcesOnline
<1>2. UNCHANGED result /\ blanket' = IF ip = Unspecified THEN "online" ELSE blanket
  BY DEF NSR_TakeSourcesOnline
<1>3. ResolverTyped /\ RetryWhileUnresolved /\ Obeyed
  BY DEF SourcesInv
<1>4. unresolved \in Seq(Entry) /\ since \in SUBSET (Address \cup Name) /\ blanket \in {"none", "online", "offline"}
  BY <1>3 DEF ResolverTyped
<1>5. /\ Placed(t.records) /\ t.left \in Seq(Entry) /\ t.n \in Nat
      /\ t.n = Cardinality(Used(t.records)) /\ t.n <= MAX_SOURCES
      /\ t.since \subseteq Address \cup Name /\ Recs(records) \subseteq Recs(t.records)
      /\ RecsObey(Recs(t.records), t.since) /\ NamesObey(t.left, t.since)
  BY <1>3, <1>4, PassIs DEF Obeyed
<1> DEFINE r == t.records
           left == t.left
           s == SetOnline(r, Targets(ip), TRUE)
           names == SetNames(left, TRUE)
<1>6. /\ resolving_interval' \in Nat /\ resolve_timers' \in Nat
      /\ resolve_timers' = IF left = <<>> THEN 0 ELSE 1
      /\ resolving_interval' = 0 <=> left = <<>>
  BY <1>1, <1>3, ResolveNowIs DEF RetryWhileUnresolved, ResolverTyped
<1>7. /\ Placed(s) /\ Used(s) = Used(r)
      /\ \A i \in Used(r) :
           /\ s[i].ip = r[i].ip
           /\ r[i].ip \in Targets(ip) => s[i].online
           /\ r[i].ip \notin Targets(ip) => s[i] = r[i]
  <2>1. Moded(r, Targets(ip), TRUE, s)
    BY <1>5, SetOnlineIs, Zenon
  <2> HIDE DEF s
  <2> QED BY <2>1 DEF Moded
<1>8. /\ names \in Seq(Entry) /\ (names = <<>> <=> left = <<>>)
      /\ \A i \in 1 .. Len(names) : names[i].online
  BY <1>5, SetNamesIs
<1>9. r \in Table /\ \A i \in Used(r) : r[i].ip \in Address /\ r[i] \in Recs(r)
  BY <1>5, UsedIs DEF Placed, Recs
<1>10. Map!Resolve
  <2>1. PortsOf(records') = PortsOf(r)
    BY <1>1, <1>5, PortsSame
  <2> QED BY <1>2, <1>5, <2>1, PassResolves
<1> HIDE DEF s, names, left
<1>11. TableGood'
  BY <1>1, <1>5, <1>7 DEF TableGood, Placed, Used, s
<1>12. CASE ip = Unspecified
  <2>1. unresolved' = names /\ since' = {} /\ blanket' = "online" /\ Targets(ip) = Address /\ records' = s
    BY <1>1, <1>2, <1>12 DEF Targets, names, left, s
  <2>2. ResolverTyped' /\ RetryWhileUnresolved'
    BY <1>6, <1>8, <2>1 DEF ResolverTyped, RetryWhileUnresolved
  <2>3. \A i \in Used(s) : s[i].online
    BY <1>7, <1>9, <2>1
  <2>4. Obeyed'
    BY <1>8, <2>1, <2>3 DEF Obeyed, RecsObey, NamesObey, Recs, Used
  <2> QED BY <1>10, <1>11, <2>2, <2>4 DEF SourcesInv
<1>13. CASE ip # Unspecified
  <2>1. unresolved' = left /\ since' = Since(t.since \cup {ip}) /\ blanket' = blanket
        /\ Targets(ip) = {ip} /\ records' = s /\ ip \in Address
    BY <1>1, <1>2, <1>13 DEF Targets, left, s
  <2>2. since' \subseteq Address \cup Name
    BY <1>5, <2>1 DEF Since
  <2>3. ResolverTyped' /\ RetryWhileUnresolved'
    BY <1>4, <1>5, <1>6, <2>1, <2>2 DEF ResolverTyped, RetryWhileUnresolved, left
  <2>4. Obeyed'
    <3>1. CASE blanket = "none"
      BY <2>1, <3>1 DEF Obeyed, RecsObey, NamesObey
    <3>2. CASE blanket # "none"
      <4>1. since' = t.since \cup {ip}
        BY <2>1, <3>2 DEF Since
      <4>2. \A i \in Used(s) : s[i].ip \notin since' => (s[i].online <=> blanket = "online")
        <5> TAKE i \in Used(s)
        <5> HAVE s[i].ip \notin since'
        <5>1. s[i] = r[i] /\ r[i].ip \notin t.since /\ r[i] \in Recs(r)
          BY <1>7, <1>9, <2>1, <4>1
        <5> QED BY <1>5, <3>2, <5>1 DEF RecsObey
      <4>3. RecsObey(Recs(s), since') /\ NamesObey(left, since')
        BY <1>5, <4>1, <4>2 DEF RecsObey, NamesObey, Recs, left
      <4> QED BY <2>1, <4>3 DEF Obeyed, RecsObey, NamesObey, Recs, Used
    <3> QED BY <3>1, <3>2
  <2> QED BY <1>10, <1>11, <2>3, <2>4 DEF SourcesInv
<1> QED BY <1>12, <1>13

LEMMA OfflineStep ==
  ASSUME SourcesInv, NEW ip \in Address \cup {Unspecified}, NSR_TakeSourcesOffline(ip)
  PROVE  SourcesInv' /\ UNCHANGED <<thePorts, result>>
<1> DEFINE s == SetOnline(records, Targets(ip), FALSE)
           names == SetNames(unresolved, FALSE)
<1>1. /\ records' = s
      /\ unresolved' = IF ip = Unspecified THEN names ELSE unresolved
      /\ since' = IF ip = Unspecified THEN {} ELSE Since(since \cup {ip})
      /\ blanket' = IF ip = Unspecified THEN "offline" ELSE blanket
      /\ UNCHANGED <<n_sources, resolving_interval, resolve_timers, result>>
  BY DEF NSR_TakeSourcesOffline
<1>2. TableGood /\ ResolverTyped /\ RetryWhileUnresolved /\ Obeyed
  BY DEF SourcesInv
<1>3. Placed(records) /\ records \in Table /\ since \subseteq Address \cup Name
      /\ \A i \in Used(records) : records[i].ip \in Address /\ records[i] \in Recs(records)
  BY <1>2, UsedIs DEF TableGood, Placed, ResolverTyped, Recs
<1>4. /\ Placed(s) /\ Used(s) = Used(records)
      /\ \A i \in Used(records) :
           /\ s[i].ip = records[i].ip
           /\ records[i].ip \in Targets(ip) => (~s[i].online)
           /\ records[i].ip \notin Targets(ip) => s[i] = records[i]
  <2>1. Moded(records, Targets(ip), FALSE, s)
    BY <1>3, SetOnlineIs, Zenon
  <2> HIDE DEF s
  <2> QED BY <2>1 DEF Moded
<1>5. /\ names \in Seq(Entry) /\ (names = <<>> <=> unresolved = <<>>)
      /\ \A i \in 1 .. Len(names) : ~names[i].online
  BY <1>2, SetNamesIs DEF ResolverTyped
<1>6. UNCHANGED <<thePorts, result>>
  <2>1. PortsOf(s) = PortsOf(records)
    BY <1>3, PortsSame
  <2> HIDE DEF s
  <2> QED BY <1>1, <2>1, ThePortsAre
<1> HIDE DEF s, names
<1>7. TableGood'
  BY <1>1, <1>2, <1>4 DEF TableGood, Placed, Used
<1>8. CASE ip = Unspecified
  <2>1. unresolved' = names /\ since' = {} /\ blanket' = "offline" /\ Targets(ip) = Address
    BY <1>1, <1>8 DEF Targets
  <2>2. ResolverTyped' /\ RetryWhileUnresolved'
    BY <1>1, <1>2, <1>5, <2>1 DEF ResolverTyped, RetryWhileUnresolved
  <2>3. \A i \in Used(s) : (~s[i].online)
    BY <1>3, <1>4, <2>1
  <2>4. Obeyed'
    BY <1>1, <1>5, <2>1, <2>3 DEF Obeyed, RecsObey, NamesObey, Recs, Used
  <2> QED BY <1>6, <1>7, <2>2, <2>4 DEF SourcesInv
<1>9. CASE ip # Unspecified
  <2>1. unresolved' = unresolved /\ since' = Since(since \cup {ip}) /\ blanket' = blanket
        /\ Targets(ip) = {ip} /\ ip \in Address
    BY <1>1, <1>9 DEF Targets
  <2>2. since' \subseteq Address \cup Name
    BY <1>3, <2>1 DEF Since
  <2>3. ResolverTyped' /\ RetryWhileUnresolved'
    BY <1>1, <1>2, <2>1, <2>2 DEF ResolverTyped, RetryWhileUnresolved
  <2>4. Obeyed'
    <3>1. CASE blanket = "none"
      BY <2>1, <3>1 DEF Obeyed, RecsObey, NamesObey
    <3>2. CASE blanket # "none"
      <4>1. since' = since \cup {ip}
        BY <2>1, <3>2 DEF Since
      <4>2. \A i \in Used(s) : s[i].ip \notin since' => (s[i].online <=> blanket = "online")
        <5> TAKE i \in Used(s)
        <5> HAVE s[i].ip \notin since'
        <5>1. s[i] = records[i] /\ records[i].ip \notin since /\ records[i] \in Recs(records)
          BY <1>3, <1>4, <2>1, <4>1
        <5> QED BY <1>2, <3>2, <5>1 DEF RecsObey, Obeyed
      <4>3. RecsObey(Recs(s), since') /\ NamesObey(unresolved, since')
        BY <1>2, <4>1, <4>2 DEF RecsObey, NamesObey, Recs, Obeyed
      <4> QED BY <1>1, <2>1, <4>3 DEF Obeyed, RecsObey, NamesObey, Recs, Used
    <3> QED BY <3>1, <3>2
  <2> QED BY <1>6, <1>7, <2>3, <2>4 DEF SourcesInv
<1> QED BY <1>8, <1>9

LEMMA OtherStep ==
  ASSUME SourcesInv, DnsRecovers \/ UNCHANGED vars
  PROVE  SourcesInv' /\ UNCHANGED <<thePorts, result>>
<1>1. UNCHANGED <<records, n_sources, unresolved, resolving_interval, resolve_timers, result, blanket, since>>
  BY DEF DnsRecovers, vars, resolver, history
<1>2. SourcesInv'
  BY <1>1 DEF SourcesInv, TableGood, ResolverTyped, RetryWhileUnresolved, Obeyed, Recs, Used, RecsObey, NamesObey
<1> QED BY <1>1, <1>2, ThePortsAre

LEMMA NextStep == SourcesInv /\ [Next]_vars => SourcesInv' /\ [Map!Next]_<<thePorts, result>>
<1> SUFFICES ASSUME SourcesInv, [Next]_vars PROVE SourcesInv' /\ [Map!Next]_<<thePorts, result>>
  OBVIOUS
<1>1. ASSUME NEW ip \in Address \cup {Unspecified}, NEW port \in Port, NEW online \in Online,
             NSR_AddSource(ip, port, online)
      PROVE  SourcesInv' /\ Map!Next
  BY <1>1, AddStep, Zenon DEF Map!Next
<1>2. ASSUME NEW ip \in Address \cup {Unspecified}, NEW port \in Port, NSR_ProcessReceive(ip, port)
      PROVE  SourcesInv' /\ Map!Next
  BY <1>2, ReceiveStep, Zenon DEF Map!Next
<1>3. ASSUME NEW ip \in Address \cup {Unspecified}, NSR_RemoveSource(ip)
      PROVE  SourcesInv' /\ Map!Next
  BY <1>3, RemoveStep, Zenon DEF Map!Next
<1>4. ASSUME CNF_AddSources \/ ResolveTimeout PROVE SourcesInv' /\ Map!Next
  BY <1>4, ConfigStep, TimeoutStep, Zenon DEF Map!Next
<1>5. ASSUME NEW ip \in Address \cup {Unspecified}, NSR_TakeSourcesOnline(ip)
      PROVE  SourcesInv' /\ Map!Next
  BY <1>5, OnlineStep, Zenon DEF Map!Next
<1>6. ASSUME NEW ip \in Address \cup {Unspecified}, NSR_TakeSourcesOffline(ip)
      PROVE  SourcesInv' /\ UNCHANGED <<thePorts, result>>
  BY <1>6, OfflineStep
<1>7. ASSUME DnsRecovers \/ UNCHANGED vars PROVE SourcesInv' /\ UNCHANGED <<thePorts, result>>
  BY <1>7, OtherStep
<1> QED BY <1>1, <1>2, <1>3, <1>4, <1>5, <1>6, <1>7, Zenon DEF Next

LEMMA MapInit == Init => Map!Init
<1> SUFFICES ASSUME Init PROVE Map!Init
  OBVIOUS
<1>1. records = Empty /\ result = <<>>
  BY DEF Init, Empty
<1>2. thePorts = <<>>
  <2>1. Ips(records) = {} /\ Placed(records)
    BY <1>1, EmptyIs DEF Ips
  <2>2. thePorts = [a \in {} |-> PortsOf(records)[a]]
    BY <2>1, ThePortsAre DEF PortsOf, Ips
  <2> QED BY <2>2
<1> QED BY <1>1, <1>2, Zenon DEF Map!Init, thePorts

\* The inductive invariant.
THEOREM SourcesIInv == Spec => []SourcesInv
BY InitStep, NextStep, PTL DEF Spec

\* While names are unresolved one retry is queued, and none otherwise, however
\* the timeout and the online commands interleave (ntp_sources.c,
\* resolve_sources, NSR_ResolveSources, NSR_TakeSourcesOnline).
THEOREM SourcesRetryWhileUnresolved == Spec => []RetryWhileUnresolved
BY SourcesIInv, SourcesInvImplies, PTL

\* A command to all sources holds for the sources that names known before it
\* become after it (ntp_sources.c, NSR_TakeSourcesOnline, NSR_TakeSourcesOffline,
\* resolve_sources).
THEOREM SourcesCommandReachesNames == Spec => []CommandReachesNames
BY SourcesIInv, SourcesInvImplies, PTL

\* The hash table implements the map of SourceMap: every answer of NSR_AddSource,
\* NSR_RemoveSource and NSR_ProcessReceive is that of a map from addresses to
\* ports, however the probes collide and wherever the rehash puts the records.
THEOREM SourcesImplementMap == Spec => MapSpec
<1>1. SourcesInv /\ [Next]_vars => [Map!Next]_<<thePorts, result>>
  BY NextStep
<1> QED BY <1>1, MapInit, SourcesIInv, PTL DEF Spec, MapSpec, Map!Spec, Map!vars, thePorts

-----------------------------------------------------------------------------
(* The association: facts about the helpers. *)

\* The cap of the transmit count is a natural number no less than 3.
LEMMA TxCapType == TxCap \in Nat /\ TxCap >= 3
BY ReachAssumption DEF ReachAssumption, TxCap

\* The saturated transmit count stays within its range.
LEMMA CapTxType ==
  ASSUME NEW n \in 0 .. TxCap PROVE CapTx(n + 1) \in 0 .. TxCap
BY TxCapType DEF CapTx

\* A bit shifted into the reachability register leaves it within its width.
LEMMA ShiftReachType ==
  ASSUME reachability \in Nat, NEW bit \in {0, 1}
  PROVE ShiftReach(bit) \in 0 .. REACH_SIZE - 1
BY ReachAssumption DEF ReachAssumption, ShiftReach

\* adjust_poll leaves a natural number.
LEMMA AdjustPollType ==
  ASSUME local_poll \in Nat, minpoll \in Nat, maxpoll \in Nat,
         NEW steps \in SUBSET Int, AdjustPoll(steps)
  PROVE  local_poll' \in Nat
BY DEF AdjustPoll, Clamp

\* The mode changes of offline and of a burst step stay within the modes.
LEMMA ModeTypes ==
  ASSUME NEW m \in OperatingMode, NEW n \in Int
  PROVE  OfflineMode(m) \in OperatingMode /\ AfterBurstStep(m, n) \in OperatingMode
BY DEF OfflineMode, AfterBurstStep, Revert, OperatingMode, Burst

-----------------------------------------------------------------------------
(* The types of an association. *)

\* AssociationInit establishes the types.
LEMMA TypeInit == AssociationInit => AssociationTypeOK
<1> SUFFICES ASSUME AssociationInit PROVE AssociationTypeOK
  OBVIOUS
<1>1. conf \in SourceOption
  BY DEF AssociationInit, NoConf, SourceOption
<1>2. 0 \in 0 .. TxCap /\ 0 \in 0 .. REACH_SIZE - 1 /\ 0 \in 0 .. MaxInFlight
  BY TxCapType, ReachAssumption, BoundsAssumption DEF ReachAssumption, BoundsAssumption
<1>3. opmode \in OperatingMode /\ delay \in Delay
  BY DEF AssociationInit, OperatingMode, Delay
<1>4. Flags
  BY Zenon DEF AssociationInit, Flags
<1> QED
  BY <1>1, <1>2, <1>3, <1>4 DEF AssociationInit, AssociationTypeOK

\* Every step leaves the flags Boolean.
LEMMA FlagsStep == Flags /\ [AssociationNext]_associationVars => Flags'
<1> SUFFICES ASSUME Flags, [AssociationNext]_associationVars PROVE Flags'
  OBVIOUS
<1>1. CASE GetInstance
  BY <1>1, Zenon DEF GetInstance, Flags, Arm, Enqueue, Disarm
<1>2. CASE DestroyInstance
  BY <1>2, Zenon DEF DestroyInstance, Flags, Disarm
<1>3. ASSUME NEW id \in queue, SendEcho(id) PROVE Flags'
  BY <1>3, Zenon DEF SendEcho, Flags, Arm, Enqueue, source
<1>4. ASSUME NEW id \in queue, SendProbe(id) PROVE Flags'
  BY <1>4, Zenon DEF SendProbe, Flags, Arm, Enqueue, Disarm
<1>5. ASSUME NEW v \in Verdicts, NEW p \in MinPolls, ReceivePacket(v, p) PROVE Flags'
  BY <1>5, Zenon DEF ReceivePacket, Verdicts, Flags, Enqueue, Disarm, timer
<1>6. CASE TakeSourceOnline
  BY <1>6, Zenon DEF TakeSourceOnline, Flags, Arm, Enqueue, source, timer
<1>7. CASE TakeSourceOffline
  BY <1>7, Zenon DEF TakeSourceOffline, Flags, Disarm, source, timer
<1>8. ASSUME NEW b \in Bursts, InitiateSampleBurst(b) PROVE Flags'
  BY <1>8, Zenon DEF InitiateSampleBurst, Flags, Arm, Enqueue, source
<1>9. ASSUME NEW p \in MinPolls, ModifyMinpoll(p) PROVE Flags'
  BY <1>9, Zenon DEF ModifyMinpoll, Flags, timer, source
<1>10. ASSUME NEW p \in MaxPolls, ModifyMaxpoll(p) PROVE Flags'
  BY <1>10, Zenon DEF ModifyMaxpoll, Flags, timer, source
<1>11. CASE UNCHANGED associationVars
  BY <1>11, Zenon DEF associationVars, Flags, timer, source
<1> QED
  BY <1>1, <1>2, <1>3, <1>4, <1>5, <1>6, <1>7, <1>8, <1>9, <1>10, <1>11, Zenon
     DEF AssociationNext, Timeout, TransmitTimeout, Receive

\* A probe keeps the types.
LEMMA TypeSendProbe ==
  ASSUME AssociationTypeOK, Flags', NEW id \in queue, SendProbe(id) PROVE AssociationTypeOK'
<1>1. tx_count' \in 0 .. TxCap
  BY CapTxType DEF SendProbe, AssociationTypeOK
<1>2. local_poll' \in Nat
  <2>1. CASE tx_count' >= 2
    BY <2>1, AdjustPollType DEF SendProbe, AssociationTypeOK, Slower
  <2>2. CASE ~(tx_count' >= 2)
    BY <2>2 DEF SendProbe, AssociationTypeOK
  <2> QED BY <2>1, <2>2
<1>3. reachability' \in 0 .. REACH_SIZE - 1
  BY ShiftReachType, ReachAssumption DEF SendProbe, AssociationTypeOK, ReachAssumption
<1>4. opmode' \in OperatingMode /\ burst_total_samples_to_go' \in Int /\ burst_sent' \in Nat
  <2> DEFINE newmode == IF conf.auto_offline /\ tx_count' >= 3 THEN OfflineMode(opmode) ELSE opmode
             total == burst_total_samples_to_go - (IF newmode \in Burst THEN 1 ELSE 0)
  <2>1. newmode \in OperatingMode /\ total \in Int
    BY ModeTypes DEF AssociationTypeOK
  <2>2. /\ opmode' = AfterBurstStep(newmode, total)
        /\ burst_total_samples_to_go' = total
        /\ burst_sent' = IF newmode \in Burst THEN burst_sent + 1 ELSE burst_sent
    BY DEF SendProbe
  <2>3. burst_sent \in Nat
    BY DEF AssociationTypeOK
  <2> HIDE DEF newmode, total
  <2>4. AfterBurstStep(newmode, total) \in OperatingMode
    BY <2>1, ModeTypes
  <2> QED BY <2>1, <2>2, <2>3, <2>4
<1>5. inflight' \in 0 .. MaxInFlight
  BY BoundsAssumption DEF SendProbe, AssociationTypeOK, Answered, BoundsAssumption
<1>6. timeout_id' \in TimeoutID /\ queue' \subseteq TimeoutID /\ delay' \in Delay
  BY DEF SendProbe, AssociationTypeOK, Arm, Enqueue, Disarm, Delay
<1>7. /\ conf' = conf /\ minpoll' = minpoll /\ maxpoll' = maxpoll /\ asked' = asked
      /\ burst_good_samples_to_go' = burst_good_samples_to_go /\ desired' = desired
  BY DEF SendProbe
<1> QED
  BY <1>1, <1>2, <1>3, <1>4, <1>5, <1>6, <1>7 DEF AssociationTypeOK

\* A received packet keeps the types.
LEMMA TypeReceivePacket ==
  ASSUME AssociationTypeOK, Flags', NEW v \in Verdicts, NEW p \in MinPolls, ReceivePacket(v, p)
  PROVE  AssociationTypeOK'
<1>1. tx_count' \in 0 .. TxCap /\ reachability' \in 0 .. REACH_SIZE - 1
  <2>1. reachability \in Nat /\ 0 \in 0 .. TxCap
    BY TxCapType, ReachAssumption DEF AssociationTypeOK, ReachAssumption
  <2>2. ShiftReach(1) \in 0 .. REACH_SIZE - 1
    BY <2>1, ShiftReachType
  <2> QED BY <2>1, <2>2 DEF ReceivePacket, AssociationTypeOK
<1>2. local_poll' \in Nat /\ minpoll' \in Nat /\ maxpoll' \in Nat
  <2>1. CASE v.kod /\ p > minpoll
    BY <2>1, PollsAssumption DEF ReceivePacket, AssociationTypeOK, PollsAssumption
  <2>2. CASE ~(v.kod /\ p > minpoll)
    BY <2>2, AdjustPollType DEF ReceivePacket, PollOnReceive, AssociationTypeOK, Slower, AnyWay
  <2> QED BY <2>1, <2>2
<1>3. opmode' \in OperatingMode /\ burst_good_samples_to_go' \in Int
  <2> DEFINE left == IF opmode \in Burst /\ v.kod THEN 0 ELSE burst_good_samples_to_go
             good == IF opmode \in Burst /\ v.valid_data THEN left - 1 ELSE left
  <2>1. good \in Int
    BY DEF AssociationTypeOK
  <2>2. opmode' = AfterBurstStep(opmode, good) /\ burst_good_samples_to_go' = good
    BY DEF ReceivePacket
  <2>3. opmode \in OperatingMode
    BY DEF AssociationTypeOK
  <2> HIDE DEF good
  <2> QED BY <2>1, <2>2, <2>3, ModeTypes
<1>4. timeout_id' \in TimeoutID /\ queue' \subseteq TimeoutID /\ delay' \in Delay
  BY DEF ReceivePacket, AssociationTypeOK, Enqueue, Disarm, Delay, timer
<1>5. inflight' \in 0 .. MaxInFlight
  BY BoundsAssumption DEF ReceivePacket, AssociationTypeOK, BoundsAssumption
<1>6. /\ conf' = conf /\ asked' = asked /\ burst_sent' = burst_sent /\ desired' = desired
      /\ burst_total_samples_to_go' = burst_total_samples_to_go
  BY DEF ReceivePacket
<1> QED
  BY <1>1, <1>2, <1>3, <1>4, <1>5, <1>6 DEF AssociationTypeOK

\* Every step keeps the types.
LEMMA TypeStep == AssociationTypeOK /\ [AssociationNext]_associationVars => AssociationTypeOK'
<1> SUFFICES ASSUME AssociationTypeOK, [AssociationNext]_associationVars PROVE AssociationTypeOK'
  OBVIOUS
<1>0. Flags'
  BY FlagsStep DEF AssociationTypeOK
<1> DEFINE Zero == 0 \in 0 .. TxCap /\ 0 \in 0 .. REACH_SIZE - 1 /\ 0 \in 0 .. MaxInFlight
<1>z. Zero
  BY TxCapType, ReachAssumption, BoundsAssumption DEF ReachAssumption, BoundsAssumption
<1>1. CASE GetInstance
  BY <1>0, <1>1, <1>z, PollsAssumption, BurstsAssumption, ParamsAssumption
     DEF GetInstance, AssociationTypeOK, OperatingMode, Burst, Delay, Arm, Enqueue, Disarm,
         PollsAssumption, BurstsAssumption, ParamsAssumption
<1>2. CASE DestroyInstance
  <2>1. NoConf \in SourceOption
    BY DEF NoConf, SourceOption
  <2> QED
    BY <1>0, <1>2, <1>z, <2>1 DEF DestroyInstance, AssociationTypeOK, OperatingMode, Delay, Disarm
<1>3. ASSUME NEW id \in queue, SendEcho(id) PROVE AssociationTypeOK'
  BY <1>0, <1>3 DEF SendEcho, AssociationTypeOK, Delay, Arm, Enqueue, burst, polls, source
<1>4. ASSUME NEW id \in queue, SendProbe(id) PROVE AssociationTypeOK'
  BY <1>0, <1>4, TypeSendProbe
<1>5. ASSUME NEW v \in Verdicts, NEW p \in MinPolls, ReceivePacket(v, p) PROVE AssociationTypeOK'
  BY <1>0, <1>5, TypeReceivePacket
<1>6. CASE TakeSourceOnline
  BY <1>0, <1>6, <1>z DEF TakeSourceOnline, AssociationTypeOK, OperatingMode, Burst, Delay, Arm, Enqueue,
                          burst, source, timer
<1>7. CASE TakeSourceOffline
  <2>1. opmode' \in OperatingMode
    BY <1>7, ModeTypes DEF TakeSourceOffline, AssociationTypeOK
  <2> QED
    BY <1>0, <1>7, <2>1 DEF TakeSourceOffline, AssociationTypeOK, Delay, Disarm, polls, burst, source, timer
<1>8. ASSUME NEW b \in Bursts, InitiateSampleBurst(b) PROVE AssociationTypeOK'
  BY <1>0, <1>8, BurstsAssumption
     DEF InitiateSampleBurst, AssociationTypeOK, OperatingMode, Burst, Delay, Arm, Enqueue,
         polls, source, BurstsAssumption
<1>9. ASSUME NEW p \in MinPolls, ModifyMinpoll(p) PROVE AssociationTypeOK'
  BY <1>0, <1>9, PollsAssumption DEF ModifyMinpoll, AssociationTypeOK, timer, burst, source, PollsAssumption
<1>10. ASSUME NEW p \in MaxPolls, ModifyMaxpoll(p) PROVE AssociationTypeOK'
  BY <1>0, <1>10, PollsAssumption DEF ModifyMaxpoll, AssociationTypeOK, timer, burst, source, PollsAssumption
<1>11. CASE UNCHANGED associationVars
  BY <1>0, <1>11 DEF associationVars, AssociationTypeOK, timer, burst, polls, source
<1> QED
  BY <1>1, <1>2, <1>3, <1>4, <1>5, <1>6, <1>7, <1>8, <1>9, <1>10, <1>11
     DEF AssociationNext, Timeout, TransmitTimeout, Receive

\* The association record is always well typed.
THEOREM AssociationTypeCorrect == AssociationSpec => []AssociationTypeOK
BY TypeInit, TypeStep, PTL DEF AssociationSpec

-----------------------------------------------------------------------------
(* The timer and the mode. *)

\* Arming an empty queue leaves exactly the timeout the instance names.
LEMMA ArmEmpty ==
  ASSUME NEW kind, Arm({}, kind) PROVE timer_running' /\ queue' = {timeout_id'}
BY DEF Arm, Enqueue

\* Disarming with an empty queue leaves no timeout.
LEMMA DisarmEmpty == Disarm({}) => ~timer_running' /\ queue' = {}
BY DEF Disarm

\* Every step keeps one queued timeout for a sampled source and none otherwise.
LEMMA TimerStep == AssociationTypeOK /\ TimerMatchesMode /\ [AssociationNext]_associationVars => TimerMatchesMode'
<1> SUFFICES ASSUME AssociationTypeOK, TimerMatchesMode, [AssociationNext]_associationVars PROVE TimerMatchesMode'
  OBVIOUS
<1>m. /\ "MD_ONLINE" # "MD_OFFLINE" /\ "MD_BURST_WAS_ONLINE" # "MD_OFFLINE"
      /\ "MD_BURST_WAS_OFFLINE" # "MD_OFFLINE"
  OBVIOUS
<1>1. CASE GetInstance
  <2>1. queue = {}
    BY <1>1 DEF GetInstance, TimerMatchesMode
  <2>2. alive'
    BY <1>1 DEF GetInstance
  <2>3. \/ opmode' # "MD_OFFLINE" /\ Arm({}, "initial")
        \/ opmode' = "MD_OFFLINE" /\ Disarm({})
    BY <1>1, <2>1 DEF GetInstance
  <2> QED
    BY <2>2, <2>3, ArmEmpty, DisarmEmpty DEF TimerMatchesMode
<1>2. CASE DestroyInstance
  <2>1. opmode' = "MD_OFFLINE" /\ Disarm({})
    BY <1>2 DEF DestroyInstance, TimerMatchesMode
  <2> QED
    BY <2>1, DisarmEmpty DEF TimerMatchesMode
<1>3. ASSUME NEW id \in queue, SendEcho(id) PROVE TimerMatchesMode'
  <2>1. queue \ {id} = {} /\ opmode' = opmode /\ opmode # "MD_OFFLINE" /\ alive'
    BY <1>3 DEF SendEcho, TimerMatchesMode
  <2>2. Arm({}, "warm_up")
    BY <1>3, <2>1 DEF SendEcho
  <2> QED
    BY <2>1, <2>2, ArmEmpty DEF TimerMatchesMode
<1>4. ASSUME NEW id \in queue, SendProbe(id) PROVE TimerMatchesMode'
  <2>1. queue \ {id} = {} /\ queue \ {id, timeout_id} = {}
    BY <1>4 DEF TimerMatchesMode
  <2>2. alive'
    BY <1>4 DEF SendProbe
  <2>3. \/ opmode' = "MD_OFFLINE" /\ Disarm({})
        \/ opmode' # "MD_OFFLINE" /\ \E kind \in Delay : Arm({}, kind)
    BY <1>4, <2>1 DEF SendProbe, Delay
  <2> QED
    BY <2>2, <2>3, ArmEmpty, DisarmEmpty DEF TimerMatchesMode
<1>5. ASSUME NEW v \in Verdicts, NEW p \in MinPolls, ReceivePacket(v, p)
      PROVE  TimerMatchesMode'
  <2>1. alive'
    BY <1>5 DEF ReceivePacket
  <2>2. queue \ {timeout_id} = {}
    BY DEF TimerMatchesMode
  <2>3. opmode' # "MD_OFFLINE" => opmode # "MD_OFFLINE"
    BY <1>5 DEF ReceivePacket, AfterBurstStep, Burst
  <2>4. CASE opmode' # "MD_OFFLINE"
    <3>1. (\E kind \in Delay : Enqueue({}, kind)) /\ (timer_running' <=> timer_running)
      BY <1>5, <2>2, <2>4 DEF ReceivePacket, Delay
    <3> QED
      BY <2>1, <2>3, <2>4, <3>1 DEF Enqueue, TimerMatchesMode
  <2>5. CASE opmode' = "MD_OFFLINE" /\ opmode \in Burst
    <3>1. Disarm({})
      BY <1>5, <2>2, <2>5 DEF ReceivePacket, TimerMatchesMode
    <3> QED
      BY <2>1, <2>5, <3>1, DisarmEmpty DEF TimerMatchesMode
  <2>6. CASE opmode' = "MD_OFFLINE" /\ opmode \notin Burst
    <3>1. opmode' = opmode /\ UNCHANGED timer
      BY <1>5, <2>6 DEF ReceivePacket, AfterBurstStep
    <3> QED
      BY <2>1, <2>6, <3>1 DEF TimerMatchesMode, timer
  <2> QED
    BY <2>4, <2>5, <2>6
<1>6. CASE TakeSourceOnline
  <2>1. CASE opmode = "MD_OFFLINE" /\ ~timer_running
    <3>1. opmode' = "MD_ONLINE" /\ alive' /\ Arm({}, "initial")
      BY <1>6, <2>1 DEF TakeSourceOnline, TimerMatchesMode
    <3> QED
      BY <3>1, ArmEmpty DEF TimerMatchesMode
  <2>2. CASE ~(opmode = "MD_OFFLINE" /\ ~timer_running)
    BY <1>6, <2>2 DEF TakeSourceOnline, TimerMatchesMode, timer
  <2> QED
    BY <2>1, <2>2
<1>7. CASE TakeSourceOffline
  <2>1. CASE opmode = "MD_ONLINE" /\ timer_running
    <3>1. opmode' = "MD_OFFLINE" /\ Disarm({})
      BY <1>7, <2>1 DEF TakeSourceOffline, OfflineMode, TimerMatchesMode
    <3> QED
      BY <3>1, DisarmEmpty DEF TimerMatchesMode
  <2>2. CASE ~(opmode = "MD_ONLINE" /\ timer_running)
    BY <1>7, <2>2 DEF TakeSourceOffline, OfflineMode, TimerMatchesMode, timer
  <2> QED
    BY <2>1, <2>2
<1>8. ASSUME NEW b \in Bursts, InitiateSampleBurst(b) PROVE TimerMatchesMode'
  <2>1. opmode' # "MD_OFFLINE" /\ alive' /\ Arm({}, "initial")
    BY <1>8 DEF InitiateSampleBurst, TimerMatchesMode
  <2> QED
    BY <2>1, ArmEmpty DEF TimerMatchesMode
<1>9. ASSUME NEW p \in MinPolls, ModifyMinpoll(p) PROVE TimerMatchesMode'
  BY <1>9 DEF ModifyMinpoll, TimerMatchesMode, timer
<1>10. ASSUME NEW p \in MaxPolls, ModifyMaxpoll(p) PROVE TimerMatchesMode'
  BY <1>10 DEF ModifyMaxpoll, TimerMatchesMode, timer
<1>11. CASE UNCHANGED associationVars
  BY <1>11 DEF associationVars, TimerMatchesMode, timer
<1> QED
  BY <1>1, <1>2, <1>3, <1>4, <1>5, <1>6, <1>7, <1>8, <1>9, <1>10, <1>11
     DEF AssociationNext, Timeout, TransmitTimeout, Receive

\* A live source that is being sampled owns exactly one queued timeout; an
\* offline or destroyed one owns none.
THEOREM OneTimer == AssociationSpec => []TimerMatchesMode
<1>1. AssociationInit => AssociationTypeOK /\ TimerMatchesMode
  BY TypeInit DEF AssociationInit, TimerMatchesMode
<1>2. (AssociationTypeOK /\ TimerMatchesMode) /\ [AssociationNext]_associationVars => (AssociationTypeOK /\ TimerMatchesMode)'
  BY TypeStep, TimerStep
<1> QED
  BY <1>1, <1>2, PTL DEF AssociationSpec

-----------------------------------------------------------------------------
(* The operator's wish, the budget of a burst, and the pacing of probes. *)

\* What the mode helpers do to the modes that agree with the operator.
LEMMA ModeAgreement ==
  ASSUME NEW m \in OperatingMode, NEW n \in Int
  PROVE  /\ m \in {"MD_ONLINE", "MD_BURST_WAS_ONLINE"} =>
              AfterBurstStep(m, n) \in {"MD_ONLINE", "MD_BURST_WAS_ONLINE"}
         /\ m \in {"MD_OFFLINE", "MD_BURST_WAS_OFFLINE"} =>
              /\ AfterBurstStep(m, n) \in {"MD_OFFLINE", "MD_BURST_WAS_OFFLINE"}
              /\ OfflineMode(m) \in {"MD_OFFLINE", "MD_BURST_WAS_OFFLINE"}
         /\ (m = "MD_ONLINE" => timer_running) =>
              OfflineMode(m) \in {"MD_OFFLINE", "MD_BURST_WAS_OFFLINE"}
BY DEF OfflineMode, AfterBurstStep, Revert, OperatingMode, Burst

\* Every step leaves the mode the operator asked for.
LEMMA ModeStep ==
  AssociationTypeOK /\ TimerMatchesMode /\ ModeFollowsOperator /\ [AssociationNext]_associationVars => ModeFollowsOperator'
<1> SUFFICES ASSUME AssociationTypeOK, TimerMatchesMode, ModeFollowsOperator, [AssociationNext]_associationVars
             PROVE  ModeFollowsOperator'
  OBVIOUS
<1>t. /\ opmode \in OperatingMode
      /\ desired \in {"online", "offline"}
      /\ burst_good_samples_to_go \in Int
      /\ burst_total_samples_to_go \in Int
  BY DEF AssociationTypeOK
<1>1. CASE GetInstance
  BY <1>1 DEF GetInstance, ModeFollowsOperator
<1>2. CASE DestroyInstance
  BY <1>2 DEF DestroyInstance, ModeFollowsOperator
<1>3. ASSUME NEW id \in queue, SendEcho(id) PROVE ModeFollowsOperator'
  BY <1>3 DEF SendEcho, ModeFollowsOperator
<1>4. ASSUME NEW id \in queue, SendProbe(id) PROVE ModeFollowsOperator'
  <2> DEFINE lost == conf.auto_offline /\ tx_count' >= 3
             after == IF lost THEN OfflineMode(opmode) ELSE opmode
             total == burst_total_samples_to_go - (IF after \in Burst THEN 1 ELSE 0)
  <2>1. opmode' = AfterBurstStep(after, total) /\ conf' = conf /\ desired' = desired
    BY <1>4 DEF SendProbe
  <2>2. after \in OperatingMode /\ total \in Int
    BY <1>t, ModeTypes
  <2>3. desired = "offline" => after \in {"MD_OFFLINE", "MD_BURST_WAS_OFFLINE"}
    BY <1>t, ModeAgreement DEF ModeFollowsOperator
  <2>4. desired = "online" /\ ~conf.auto_offline =>
          after \in {"MD_ONLINE", "MD_BURST_WAS_ONLINE"}
    BY DEF ModeFollowsOperator
  <2> HIDE DEF after, total
  <2> QED
    BY <2>1, <2>2, <2>3, <2>4, ModeAgreement DEF ModeFollowsOperator
<1>5. ASSUME NEW v \in Verdicts, NEW p \in MinPolls, ReceivePacket(v, p)
      PROVE  ModeFollowsOperator'
  <2>1. PICK n \in Int : opmode' = AfterBurstStep(opmode, n)
    BY <1>5, <1>t DEF ReceivePacket
  <2>2. conf' = conf /\ desired' = desired
    BY <1>5 DEF ReceivePacket
  <2> QED
    BY <1>t, <2>1, <2>2, ModeAgreement DEF ModeFollowsOperator
<1>6. CASE TakeSourceOnline
  BY <1>6, <1>t DEF TakeSourceOnline, ModeFollowsOperator, TimerMatchesMode, OperatingMode, Burst
<1>7. CASE TakeSourceOffline
  BY <1>7, <1>t DEF TakeSourceOffline, OfflineMode, ModeFollowsOperator, TimerMatchesMode,
                    OperatingMode, Burst
<1>8. ASSUME NEW b \in Bursts, InitiateSampleBurst(b) PROVE ModeFollowsOperator'
  BY <1>8, <1>t DEF InitiateSampleBurst, ModeFollowsOperator, OperatingMode, Burst
<1>9. ASSUME NEW p \in MinPolls, ModifyMinpoll(p) PROVE ModeFollowsOperator'
  BY <1>9 DEF ModifyMinpoll, ModeFollowsOperator
<1>10. ASSUME NEW p \in MaxPolls, ModifyMaxpoll(p) PROVE ModeFollowsOperator'
  BY <1>10 DEF ModifyMaxpoll, ModeFollowsOperator
<1>11. CASE UNCHANGED associationVars
  BY <1>11 DEF associationVars, ModeFollowsOperator
<1> QED
  BY <1>1, <1>2, <1>3, <1>4, <1>5, <1>6, <1>7, <1>8, <1>9, <1>10, <1>11
     DEF AssociationNext, Timeout, TransmitTimeout, Receive

\* A burst just started is within its budget.
LEMMA FreshBurst ==
  ASSUME NEW b \in Int \X Int, burst_sent' = 0, asked' = b,
         burst_good_samples_to_go' = b[1], burst_total_samples_to_go' = b[2]
  PROVE  BurstBudget'
BY DEF BurstBudget

\* Every step keeps a burst within its budget.
LEMMA BudgetStep == AssociationTypeOK /\ BurstBudget /\ [AssociationNext]_associationVars => BurstBudget'
<1> SUFFICES ASSUME AssociationTypeOK, BurstBudget, [AssociationNext]_associationVars PROVE BurstBudget'
  OBVIOUS
<1>t. /\ opmode \in OperatingMode /\ asked \in Int \X Int /\ burst_sent \in Nat
      /\ burst_good_samples_to_go \in Int /\ burst_total_samples_to_go \in Int
  BY DEF AssociationTypeOK
<1>1. CASE GetInstance
  <2>1. CASE opmode' \in Burst
    BY <1>1, <2>1, BurstsAssumption, FreshBurst DEF GetInstance, Burst, BurstsAssumption
  <2>2. CASE opmode' \notin Burst
    <3>1. burst_sent' = 0 /\ asked' \in Int \X Int
      BY <1>1, BurstsAssumption DEF GetInstance, BurstsAssumption
    <3> QED
      BY <2>2, <3>1 DEF BurstBudget
  <2> QED
    BY <2>1, <2>2
<1>2. CASE DestroyInstance
  BY <1>2 DEF DestroyInstance, BurstBudget, Burst
<1>3. ASSUME NEW id \in queue, SendEcho(id) PROVE BurstBudget'
  BY <1>3 DEF SendEcho, BurstBudget, burst
<1>4. ASSUME NEW id \in queue, SendProbe(id) PROVE BurstBudget'
  <2> DEFINE after == IF conf.auto_offline /\ tx_count' >= 3 THEN OfflineMode(opmode) ELSE opmode
             total == burst_total_samples_to_go - (IF after \in Burst THEN 1 ELSE 0)
  <2>1. after \in Burst <=> opmode \in Burst
    BY DEF OfflineMode, Burst
  <2>2. /\ opmode' = AfterBurstStep(after, total)
        /\ burst_total_samples_to_go' = total
        /\ burst_sent' = IF after \in Burst THEN burst_sent + 1 ELSE burst_sent
        /\ burst_good_samples_to_go' = burst_good_samples_to_go /\ asked' = asked
    BY <1>4 DEF SendProbe
  <2>3. opmode' \in Burst => opmode \in Burst /\ total > 0
    BY <1>t, <2>1, <2>2 DEF AfterBurstStep, Revert, Burst
  <2>4. /\ opmode \in Burst =>
             burst_sent' = burst_sent + 1
             /\ burst_total_samples_to_go' = burst_total_samples_to_go - 1
        /\ opmode \notin Burst => burst_sent' = burst_sent
    BY <2>1, <2>2
  <2> HIDE DEF after, total
  <2> QED
    BY <1>t, <2>2, <2>3, <2>4 DEF BurstBudget
<1>5. ASSUME NEW v \in Verdicts, NEW p \in MinPolls, ReceivePacket(v, p) PROVE BurstBudget'
  <2>1. PICK good \in Int :
          opmode' = AfterBurstStep(opmode, good) /\ burst_good_samples_to_go' = good
    BY <1>5, <1>t DEF ReceivePacket
  <2>2. /\ asked' = asked /\ burst_sent' = burst_sent
        /\ burst_total_samples_to_go' = burst_total_samples_to_go
    BY <1>5 DEF ReceivePacket
  <2>3. opmode' \in Burst => opmode \in Burst /\ good > 0
    BY <2>1 DEF AfterBurstStep, Revert, Burst
  <2> QED
    BY <1>t, <2>1, <2>2, <2>3 DEF BurstBudget
<1>6. CASE TakeSourceOnline
  BY <1>6 DEF TakeSourceOnline, BurstBudget, Burst, burst
<1>7. CASE TakeSourceOffline
  BY <1>7 DEF TakeSourceOffline, OfflineMode, BurstBudget, Burst, burst
<1>8. ASSUME NEW b \in Bursts, InitiateSampleBurst(b) PROVE BurstBudget'
  BY <1>8, BurstsAssumption, FreshBurst DEF InitiateSampleBurst, BurstsAssumption
<1>9. ASSUME NEW p \in MinPolls, ModifyMinpoll(p) PROVE BurstBudget'
  BY <1>9 DEF ModifyMinpoll, BurstBudget, burst
<1>10. ASSUME NEW p \in MaxPolls, ModifyMaxpoll(p) PROVE BurstBudget'
  BY <1>10 DEF ModifyMaxpoll, BurstBudget, burst
<1>11. CASE UNCHANGED associationVars
  BY <1>11 DEF associationVars, BurstBudget, burst
<1> QED
  BY <1>1, <1>2, <1>3, <1>4, <1>5, <1>6, <1>7, <1>8, <1>9, <1>10, <1>11
     DEF AssociationNext, Timeout, TransmitTimeout, Receive

\* Every step keeps the pending delay of the kind the mode calls for.
LEMMA PacingStep ==
  AssociationTypeOK /\ TimerMatchesMode /\ PacingMatchesMode /\ [AssociationNext]_associationVars => PacingMatchesMode'
<1> SUFFICES ASSUME AssociationTypeOK, TimerMatchesMode, PacingMatchesMode, [AssociationNext]_associationVars
             PROVE  PacingMatchesMode'
  OBVIOUS
<1>t. opmode \in OperatingMode
  BY DEF AssociationTypeOK
<1>1. CASE GetInstance
  BY <1>1 DEF GetInstance, Arm, Enqueue, Disarm, PacingMatchesMode, Burst
<1>2. CASE DestroyInstance
  BY <1>2 DEF DestroyInstance, Disarm, PacingMatchesMode, Burst
<1>3. ASSUME NEW id \in queue, SendEcho(id) PROVE PacingMatchesMode'
  BY <1>3 DEF SendEcho, Arm, Enqueue, PacingMatchesMode, TimerMatchesMode
<1>4. ASSUME NEW id \in queue, SendProbe(id) PROVE PacingMatchesMode'
  <2>1. \/ opmode' = "MD_OFFLINE" /\ delay' = "none"
        \/ /\ opmode' # "MD_OFFLINE"
           /\ delay' = IF opmode' \in Burst THEN "burst_timeout" ELSE "poll"
    BY <1>4 DEF SendProbe, Arm, Enqueue, Disarm
  <2> QED
    BY <2>1 DEF PacingMatchesMode, Burst
<1>5. ASSUME NEW v \in Verdicts, NEW p \in MinPolls, ReceivePacket(v, p)
      PROVE  PacingMatchesMode'
  <2>1. \/ /\ opmode' # "MD_OFFLINE"
           /\ delay' = IF opmode' \in Burst THEN "burst_interval" ELSE "poll"
        \/ opmode' = "MD_OFFLINE" /\ delay' = "none"
        \/ opmode' = "MD_OFFLINE" /\ opmode \notin Burst /\ delay' = delay
    BY <1>5 DEF ReceivePacket, Enqueue, Disarm, timer
  <2>2. opmode' = "MD_OFFLINE" /\ opmode \notin Burst => opmode = "MD_OFFLINE"
    BY <1>5 DEF ReceivePacket, AfterBurstStep
  <2> QED
    BY <2>1, <2>2 DEF PacingMatchesMode, Burst
<1>6. CASE TakeSourceOnline
  BY <1>6, <1>t DEF TakeSourceOnline, Arm, Enqueue, PacingMatchesMode, Burst, timer,
                    OperatingMode
<1>7. CASE TakeSourceOffline
  BY <1>7, <1>t DEF TakeSourceOffline, OfflineMode, Disarm, PacingMatchesMode,
                    TimerMatchesMode, Burst, timer, OperatingMode
<1>8. ASSUME NEW b \in Bursts, InitiateSampleBurst(b) PROVE PacingMatchesMode'
  BY <1>8 DEF InitiateSampleBurst, Arm, Enqueue, PacingMatchesMode, Burst
<1>9. ASSUME NEW p \in MinPolls, ModifyMinpoll(p) PROVE PacingMatchesMode'
  BY <1>9 DEF ModifyMinpoll, PacingMatchesMode, timer
<1>10. ASSUME NEW p \in MaxPolls, ModifyMaxpoll(p) PROVE PacingMatchesMode'
  BY <1>10 DEF ModifyMaxpoll, PacingMatchesMode, timer
<1>11. CASE UNCHANGED associationVars
  BY <1>11 DEF associationVars, PacingMatchesMode, timer
<1> QED
  BY <1>1, <1>2, <1>3, <1>4, <1>5, <1>6, <1>7, <1>8, <1>9, <1>10, <1>11
     DEF AssociationNext, Timeout, TransmitTimeout, Receive

\* What the operator asked for holds outside bursts, and takes effect when a
\* burst ends; auto_offline alone may overrule an online.
THEOREM OperatorObeyed == AssociationSpec => []ModeFollowsOperator
<1> DEFINE IInv == AssociationTypeOK /\ TimerMatchesMode /\ ModeFollowsOperator
<1>1. AssociationInit => IInv
  BY TypeInit DEF AssociationInit, TimerMatchesMode, ModeFollowsOperator
<1>2. IInv /\ [AssociationNext]_associationVars => IInv'
  BY TypeStep, TimerStep, ModeStep
<1> QED
  BY <1>1, <1>2, PTL DEF AssociationSpec

\* No burst sends more probes than it was given, and none goes on after the
\* good samples it was asked for.
THEOREM BurstBounded == AssociationSpec => []BurstBudget
<1>1. AssociationInit => AssociationTypeOK /\ BurstBudget
  BY TypeInit DEF AssociationInit, BurstBudget, Burst
<1>2. (AssociationTypeOK /\ BurstBudget) /\ [AssociationNext]_associationVars => (AssociationTypeOK /\ BurstBudget)'
  BY TypeStep, BudgetStep
<1> QED
  BY <1>1, <1>2, PTL DEF AssociationSpec

\* Burst spacing is used in bursts and the polling interval outside them.
THEOREM PacingCorrect == AssociationSpec => []PacingMatchesMode
<1> DEFINE IInv == AssociationTypeOK /\ TimerMatchesMode /\ PacingMatchesMode
<1>1. AssociationInit => IInv
  BY TypeInit DEF AssociationInit, TimerMatchesMode, PacingMatchesMode, Burst
<1>2. IInv /\ [AssociationNext]_associationVars => IInv'
  BY TypeStep, TimerStep, PacingStep
<1> QED
  BY <1>1, <1>2, PTL DEF AssociationSpec

-----------------------------------------------------------------------------
(* The reachability register. *)

\* A multiple leaves no remainder, and what leaves none is a multiple.
LEMMA DivExact == ASSUME NEW x \in Int, NEW b \in Nat \ {0} PROVE (x * b) \div b = x
OBVIOUS

LEMMA NoRemainder ==
  ASSUME NEW x \in Int, NEW b \in Nat \ {0}
  PROVE  (x * b) % b = 0
<1> DEFINE y == x * b
<1>1. y \in Int /\ y \div b = x
  BY DivExact
<1> HIDE DEF y
<1>2. y = b * (y \div b) + (y % b) /\ y % b \in Int
  BY <1>1, DivMod
<1>3. y = b * x /\ b * x \in Int
  BY DEF y
<1> QED BY <1>1, <1>2, <1>3 DEF y

LEMMA Multiple ==
  ASSUME NEW x \in Int, NEW b \in Nat \ {0}, x % b = 0
  PROVE  \E q \in Int : x = q * b
<1>1. x = b * (x \div b) + (x % b) /\ x \div b \in Int
  BY DivMod
<1>2. x = (x \div b) * b
  BY <1>1
<1> QED BY <1>1, <1>2

LEMMA Quotient ==
  ASSUME NEW x \in Int, NEW b \in Nat \ {0}
  PROVE  \E k \in Int : x % b = x - k * b
<1>1. x = b * (x \div b) + (x % b) /\ x \div b \in Int /\ x % b \in Int
  BY DivMod
<1>2. x % b = x - (x \div b) * b
  BY <1>1
<1> QED BY <1>1, <1>2

\* The register is as wide as some power of 2 times each smaller one.
LEMMA SizeIsMultiple ==
  ASSUME NEW n \in 0 .. REACH_BITS
  PROVE  \E m \in Int : REACH_SIZE = m * 2 ^ n
<1> DEFINE Wrong == {k \in 0 .. REACH_BITS : ~\E m \in Int : REACH_SIZE = m * 2 ^ (REACH_BITS - k)}
<1>1. Wrong = {}
  <2> SUFFICES ASSUME Wrong # {} PROVE FALSE
    OBVIOUS
  <2>1. PICK k \in Wrong : \A j \in Wrong : ~(<<j, k>> \in OpToRel(<, Nat))
    <3>1. Wrong \in SUBSET Nat
      BY ReachAssumption
    <3> HIDE DEF Wrong
    <3> QED BY <3>1, NatLessThanWellFounded, WFMin, Zenon
  <2>2. k \in 0 .. REACH_BITS /\ REACH_BITS \in Nat /\ \A m \in Int : REACH_SIZE # m * 2 ^ (REACH_BITS - k)
    BY ReachAssumption
  <2>3. k # 0
    <3>1. REACH_SIZE = 1 * 2 ^ (REACH_BITS - 0) /\ 1 \in Int
      BY ReachAssumption
    <3> QED BY <2>2, <3>1, Zenon
  <2>4. k - 1 \notin Wrong
    <3>1. k - 1 \in Nat /\ k \in Nat /\ k - 1 < k
      BY <2>2, <2>3
    <3>2. <<k - 1, k>> \in OpToRel(<, Nat)
      BY <3>1 DEF OpToRel
    <3> QED BY <2>1, <3>2
  <2>5. PICK m \in Int : REACH_SIZE = m * 2 ^ (REACH_BITS - (k - 1))
    BY <2>2, <2>3, <2>4
  <2> DEFINE e == REACH_BITS - (k - 1)
  <2>6. e \in 1 .. REACH_BITS /\ e - 1 = REACH_BITS - k
    BY <2>2, <2>3
  <2>7. 2 ^ e = 2 * 2 ^ (e - 1) /\ 2 ^ (e - 1) \in Int
    BY <2>6, PowerAssumption
  <2>8. REACH_SIZE = (m * 2) * 2 ^ (REACH_BITS - k) /\ m * 2 \in Int
    BY <2>5, <2>6, <2>7
  <2> QED BY <2>2, <2>8, Zenon
<1>2. REACH_BITS - n \in 0 .. REACH_BITS /\ REACH_BITS - (REACH_BITS - n) = n
  BY ReachAssumption
<1>3. REACH_BITS - n \notin Wrong
  BY <1>1
<1> QED BY <1>2, <1>3

\* The bits of the register that a count of unanswered probes clears.
ClearBits(c) == IF c - 1 > REACH_BITS THEN REACH_BITS ELSE c - 1

\* A loss shifted in clears one more bit, up to the width of the register.
LEMMA ShiftClears ==
  ASSUME AssociationTypeOK, UnansweredMeansUnreachable, NEW c, c = CapTx(tx_count + 1), c >= 2
  PROVE  ShiftReach(0) % (2 ^ ClearBits(c)) = 0
<1> DEFINE n == ClearBits(tx_count)
           p == 2 ^ n
           wide == 2 ^ ClearBits(c)
<1>1. tx_count \in 0 .. TxCap /\ reachability \in 0 .. REACH_SIZE - 1 /\ REACH_BITS \in Nat \ {0} /\ REACH_SIZE \in Nat \ {0}
  BY ReachAssumption DEF AssociationTypeOK
<1>2. tx_count >= 1 /\ n \in 0 .. REACH_BITS
  BY <1>1 DEF CapTx, TxCap, ClearBits
<1>3. ClearBits(c) = IF n = REACH_BITS THEN n ELSE n + 1
  BY <1>1, <1>2 DEF CapTx, TxCap, ClearBits
<1>4. p \in Nat \ {0} /\ reachability % p = 0
  <2>1. CASE n = 0
    BY <1>1, <2>1, PowerAssumption
  <2>2. CASE n # 0
    <3>1. n \in 1 .. REACH_BITS /\ n > 0
      BY <1>1, <1>2, <2>2
    <3>2. p \in Nat \ {0}
      BY <3>1, PowerAssumption
    <3>3. reachability % 2 ^ n = 0
      BY <3>1, Zenon DEF UnansweredMeansUnreachable, ClearBits
    <3> QED BY <3>2, <3>3
  <2> QED BY <2>1, <2>2
<1>5. PICK q \in Int : reachability = q * p
  <2>1. reachability \in Int
    BY <1>1
  <2> HIDE DEF p
  <2> QED BY <1>4, <2>1, Multiple
<1>6. PICK k \in Int : ShiftReach(0) = 2 * reachability - k * REACH_SIZE
  <2>1. ShiftReach(0) = (2 * reachability) % REACH_SIZE /\ 2 * reachability \in Int
    BY <1>1 DEF ShiftReach
  <2> QED BY <1>1, <2>1, Quotient
<1>7. ClearBits(c) \in 0 .. REACH_BITS /\ wide \in Nat \ {0}
  BY <1>1, <1>2, <1>3, PowerAssumption
<1>8. PICK m \in Int : REACH_SIZE = m * wide
  BY <1>7, SizeIsMultiple
<1>9. PICK r \in Int : 2 * reachability = r * wide
  <2>1. CASE n # REACH_BITS
    <3>1. wide = 2 * p
      <4>1. n + 1 \in 1 .. REACH_BITS /\ (n + 1) - 1 = n
        BY <1>1, <1>2, <2>1
      <4>2. 2 ^ (n + 1) = 2 * 2 ^ n
        BY <4>1, PowerAssumption
      <4> QED BY <1>3, <2>1, <4>2
    <3>2. 2 * reachability = q * wide
      BY <1>4, <1>5, <3>1
    <3> QED BY <3>2
  <2>2. CASE n = REACH_BITS
    <3>1. wide = p
      BY <1>3, <2>2
    <3>2. 2 * reachability = (2 * q) * wide /\ 2 * q \in Int
      BY <1>4, <1>5, <3>1
    <3> QED BY <3>2, Zenon
  <2> QED BY <2>1, <2>2
<1> HIDE DEF n, p, wide
<1>10. ShiftReach(0) = (r - k * m) * wide /\ r - k * m \in Int
  BY <1>6, <1>7, <1>8, <1>9
<1>11. ((r - k * m) * wide) % wide = 0
  BY <1>7, <1>10, NoRemainder
<1> QED BY <1>10, <1>11 DEF wide

\* Every step leaves the bits of the probes that were not answered clear.
LEMMA ReachStep ==
  AssociationTypeOK /\ UnansweredMeansUnreachable /\ [AssociationNext]_associationVars => UnansweredMeansUnreachable'
<1> SUFFICES ASSUME AssociationTypeOK, UnansweredMeansUnreachable, [AssociationNext]_associationVars
             PROVE  UnansweredMeansUnreachable'
  OBVIOUS
<1>a. tx_count' \in {0, 1} => UnansweredMeansUnreachable'
  <2> SUFFICES ASSUME tx_count' \in {0, 1} PROVE UnansweredMeansUnreachable'
    OBVIOUS
  <2>1. ~(ClearBits(tx_count') > 0)
    <3>1. ASSUME NEW c \in {0, 1} PROVE ~(ClearBits(c) > 0)
      BY ReachAssumption DEF ClearBits
    <3> QED BY <3>1
  <2> QED BY <2>1, Zenon DEF UnansweredMeansUnreachable, ClearBits
<1>b. tx_count' = tx_count /\ reachability' = reachability => UnansweredMeansUnreachable'
  BY DEF UnansweredMeansUnreachable
<1>1. CASE GetInstance
  BY <1>1, <1>a DEF GetInstance
<1>2. CASE DestroyInstance
  BY <1>2, <1>a DEF DestroyInstance
<1>3. ASSUME NEW id \in queue, SendEcho(id) PROVE UnansweredMeansUnreachable'
  BY <1>3, <1>b DEF SendEcho, source
<1>4. ASSUME NEW id \in queue, SendProbe(id) PROVE UnansweredMeansUnreachable'
  <2>1. tx_count' = CapTx(tx_count + 1) /\ tx_count' \in 0 .. TxCap
    BY <1>4, CapTxType DEF SendProbe, AssociationTypeOK
  <2>2. CASE tx_count' >= 2
    <3>1. reachability' = ShiftReach(0)
      BY <1>4, <2>2 DEF SendProbe
    <3>2. ShiftReach(0) % (2 ^ ClearBits(tx_count')) = 0
      BY <2>1, <2>2, ShiftClears
    <3> QED BY <3>1, <3>2, Zenon DEF UnansweredMeansUnreachable, ClearBits
  <2>3. CASE ~(tx_count' >= 2)
    <3>1. tx_count' \in {0, 1}
      BY <2>1, <2>3, TxCapType
    <3> QED BY <1>a, <3>1
  <2> QED BY <2>2, <2>3
<1>5. ASSUME NEW v \in Verdicts, NEW p \in MinPolls, ReceivePacket(v, p)
      PROVE  UnansweredMeansUnreachable'
  BY <1>5, <1>a, <1>b DEF ReceivePacket
<1>6. CASE TakeSourceOnline
  BY <1>6, <1>a, <1>b DEF TakeSourceOnline, source
<1>7. CASE TakeSourceOffline
  BY <1>7, <1>b DEF TakeSourceOffline, source
<1>8. ASSUME NEW b \in Bursts, InitiateSampleBurst(b) PROVE UnansweredMeansUnreachable'
  BY <1>8, <1>b DEF InitiateSampleBurst, source
<1>9. ASSUME NEW p \in MinPolls, ModifyMinpoll(p) PROVE UnansweredMeansUnreachable'
  BY <1>9, <1>b DEF ModifyMinpoll, source
<1>10. ASSUME NEW p \in MaxPolls, ModifyMaxpoll(p) PROVE UnansweredMeansUnreachable'
  BY <1>10, <1>b DEF ModifyMaxpoll, source
<1>11. CASE UNCHANGED associationVars
  BY <1>11, <1>b DEF associationVars, source
<1> QED
  BY <1>1, <1>2, <1>3, <1>4, <1>5, <1>6, <1>7, <1>8, <1>9, <1>10, <1>11
     DEF AssociationNext, Timeout, TransmitTimeout, Receive

\* SRC_UpdateReachability and the transmit count agree: a source that has not
\* answered for the width of its register is not reachable, for any width.
THEOREM LossesClearReach == AssociationSpec => []UnansweredMeansUnreachable
<1>1. AssociationInit => AssociationTypeOK /\ UnansweredMeansUnreachable
  BY TypeInit, ReachAssumption DEF AssociationInit, UnansweredMeansUnreachable
<1>2. (AssociationTypeOK /\ UnansweredMeansUnreachable) /\ [AssociationNext]_associationVars => (AssociationTypeOK /\ UnansweredMeansUnreachable)'
  BY TypeStep, ReachStep
<1> QED
  BY <1>1, <1>2, PTL DEF AssociationSpec
=============================================================================

--------------------------- MODULE NtpAssociation ---------------------------
(***************************************************************************)
(* The protocol machine chronyd keeps for one configured NTP source        *)
(* (ntp_core.c, struct NCR_Instance_Record): the operating mode, the one   *)
(* transmit timer it owns in the scheduler, burst sampling, the echo sent  *)
(* to warm up a link, the poll interval and its limits, and the            *)
(* reachability register and selectable flag it maintains in sources.c.    *)
(*                                                                         *)
(* chronyd is a single-threaded event loop, so every handler is one action.*)
(* Timers expire in any order relative to packets and commands: the model  *)
(* keeps the KIND of delay a timer was armed with, not its length.  The    *)
(* outcome of the packet tests of receive_packet is an input (the tests    *)
(* that compare timestamps are the subject of module NtpExchange).         *)
(***************************************************************************)
EXTENDS Integers, FiniteSets

CONSTANTS
  TimeoutID,        \* identifiers the scheduler hands out
  MinPolls,         \* values minpoll may be given
  MaxPolls,         \* values maxpoll may be given
  Params,           \* source options: mode, online, iburst, auto_offline, presend_minpoll
  Bursts,           \* <<n_good, n_total>> pairs a burst command may carry
  IBurst,           \* the pair used for the iburst option, <<4, 8>> in the code
  REACH_BITS,       \* width of the reachability register, 8 in the code
  REACH_SIZE,       \* 2 ^ REACH_BITS
  MaxInFlight       \* bound: packets the network may still deliver

\* The options of a server or peer directive (SourceParameters) that matter here.
SourceOption == [mode : {"MODE_CLIENT", "MODE_ACTIVE"}, online : BOOLEAN, iburst : BOOLEAN,
                 auto_offline : BOOLEAN, presend_minpoll : Nat]

ASSUME PollsAssumption == MinPolls \subseteq Nat /\ MaxPolls \subseteq Nat
ASSUME BurstsAssumption == Bursts \subseteq Int \X Int /\ IBurst \in Int \X Int
ASSUME ParamsAssumption == Params \subseteq SourceOption
ASSUME ReachAssumption ==
  REACH_BITS \in Nat \ {0} /\ REACH_SIZE \in Nat \ {0} /\ REACH_SIZE = 2 ^ REACH_BITS
\* The powers of 2 behind the bits of the register.
ASSUME PowerAssumption ==
  2 ^ 0 = 1 /\ \A n \in 1 .. REACH_BITS : 2 ^ n \in Nat \ {0} /\ 2 ^ n = 2 * 2 ^ (n - 1)
ASSUME BoundsAssumption == MaxInFlight \in Nat

Burst == {"MD_BURST_WAS_OFFLINE", "MD_BURST_WAS_ONLINE"}
OperatingMode == {"MD_OFFLINE", "MD_ONLINE"} \cup Burst

\* What a pending transmit_timeout was armed with; "none" when it is not armed.
Delay == {"none", "initial", "warm_up", "poll", "burst_interval", "burst_timeout"}

\* tx_count is compared with 2 and 3 only; the reachability invariant looks
\* REACH_BITS + 1 losses back.  Larger counts behave like this one.
TxCap == IF REACH_BITS + 1 > 3 THEN REACH_BITS + 1 ELSE 3

VARIABLES
  alive,            \* the instance exists
  conf,             \* its source options
  opmode, timer_running, timeout_id, tx_count, presend_done,
  local_poll, minpoll, maxpoll,
  burst_good_samples_to_go, burst_total_samples_to_go,
  reachability,     \* source record: reachability register
  selectable,       \* source record: SRC_SetSelectable/SRC_UnsetSelectable
  queue,            \* scheduler: queued timeouts that call transmit_timeout on this instance
  delay,            \* kind of delay the timer was last armed with
  inflight,         \* packets of the source the network may still deliver
  desired,          \* history: what the operator last asked for
  asked,            \* history: <<n_good, n_total>> of the burst in progress
  burst_sent        \* history: probes sent for that burst

timer == <<timer_running, timeout_id, queue, delay>>
burst == <<burst_good_samples_to_go, burst_total_samples_to_go, asked, burst_sent>>
polls == <<local_poll, minpoll, maxpoll>>
source == <<reachability, selectable>>
associationVars == <<alive, conf, opmode, tx_count, presend_done, timer, burst, polls, source,
          inflight, desired>>

-----------------------------------------------------------------------------
(* The scheduler, as this instance uses it. *)

\* SCH_AddTimeoutInClass: a queued timeout with an identifier no queued one has.
Enqueue(q, kind) ==
  \E id \in TimeoutID \ q :
    /\ queue' = q \cup {id}
    /\ timeout_id' = id
    /\ delay' = kind

Arm(q, kind) == Enqueue(q, kind) /\ timer_running' = TRUE

\* Fault: the timeout is removed and timer_running left set.
DisarmForgetsFlag(q) ==
  /\ queue' = q
  /\ delay' = "none"
  /\ UNCHANGED <<timeout_id, timer_running>>

\* The timer is no longer queued.
Disarm(q) ==
  /\ queue' = q
  /\ timer_running' = FALSE
  /\ delay' = "none"
  /\ UNCHANGED timeout_id

-----------------------------------------------------------------------------
(* Helpers. *)

Clamp(p) == IF p < minpoll THEN minpoll ELSE IF p > maxpoll THEN maxpoll ELSE p

\* adjust_poll: the score moves the poll by some whole number of steps, then
\* the poll is clamped.
AdjustPoll(steps) == \E d \in steps : local_poll' = Clamp(local_poll + d)
Slower == {0, 1}
AnyWay == {-1, 0, 1}

\* Faults: the ninth bit is not masked off; the register shifts the wrong way.
ShiftReachUnmasked(bit) == 2 * reachability + bit
ShiftReachRight(bit) == (reachability \div 2) + bit * (REACH_SIZE \div 2)

\* SRC_UpdateReachability.
ShiftReach(bit) == (2 * reachability + bit) % REACH_SIZE

\* Fault: offline during a burst is forgotten.
OfflineModeNotInBurst(m) == IF m = "MD_ONLINE" /\ timer_running THEN "MD_OFFLINE" ELSE m

\* The mode change of NCR_TakeSourceOffline.
OfflineMode(m) ==
  IF m = "MD_ONLINE" /\ timer_running THEN "MD_OFFLINE"
  ELSE IF m = "MD_BURST_WAS_ONLINE" THEN "MD_BURST_WAS_OFFLINE" ELSE m

\* The mode a finished burst returns to.
Revert(m) == IF m = "MD_BURST_WAS_ONLINE" THEN "MD_ONLINE" ELSE "MD_OFFLINE"

\* Fault: one probe too many.
BurstEndsOneLate(m, to_go) == IF m \in Burst /\ to_go < 0 THEN Revert(m) ELSE m

\* The mode after to_go, a count of a burst, has changed.
AfterBurstStep(m, to_go) == IF m \in Burst /\ to_go <= 0 THEN Revert(m) ELSE m

CapTx(n) == IF n > TxCap THEN TxCap ELSE n

\* Packets one probe may bring back (a reply and a duplicate of it).
Answered(n) == IF n + 2 > MaxInFlight THEN MaxInFlight ELSE n + 2

-----------------------------------------------------------------------------
NoConf == [mode |-> "MODE_CLIENT", online |-> FALSE, iburst |-> FALSE,
           auto_offline |-> FALSE, presend_minpoll |-> 0]

AssociationInit ==
  /\ alive = FALSE /\ conf = NoConf
  /\ opmode = "MD_OFFLINE" /\ tx_count = 0 /\ presend_done = FALSE
  /\ timer_running = FALSE /\ timeout_id \in TimeoutID /\ queue = {} /\ delay = "none"
  /\ local_poll = 0 /\ minpoll = 0 /\ maxpoll = 0
  /\ burst_good_samples_to_go = 0 /\ burst_total_samples_to_go = 0
  /\ asked = <<0, 0>> /\ burst_sent = 0
  /\ reachability = 0 /\ selectable = FALSE
  /\ inflight = 0 /\ desired = "offline"

\* NCR_GetInstance, with the burst it starts for iburst.
GetInstance ==
  /\ ~alive /\ alive' = TRUE
  /\ \E p \in Params, lo \in MinPolls, hi \in MaxPolls :
       /\ conf' = p /\ minpoll' = lo /\ maxpoll' = hi /\ local_poll' = lo
       /\ desired' = IF p.online THEN "online" ELSE "offline"
       /\ LET bursting == p.iburst /\ p.mode = "MODE_CLIENT"
              on == IF bursting THEN "MD_BURST_WAS_ONLINE" ELSE "MD_ONLINE"
              off == IF bursting THEN "MD_BURST_WAS_OFFLINE" ELSE "MD_OFFLINE"
          IN /\ opmode' = IF p.online THEN on ELSE off
             /\ IF p.online \/ bursting THEN Arm(queue, "initial") ELSE Disarm(queue)
             /\ asked' = IF bursting THEN IBurst ELSE <<0, 0>>
             /\ burst_good_samples_to_go' = IF bursting THEN IBurst[1] ELSE 0
             /\ burst_total_samples_to_go' = IF bursting THEN IBurst[2] ELSE 0
             /\ burst_sent' = 0
  /\ tx_count' = 0 /\ presend_done' = FALSE
  /\ reachability' = 0 /\ selectable' = FALSE
  /\ UNCHANGED inflight

\* NCR_DestroyInstance: the source record goes, the timer is removed, the
\* memory is freed.
DestroyInstance ==
  /\ alive
  /\ Disarm(IF timer_running THEN queue \ {timeout_id} ELSE queue)
  /\ alive' = FALSE /\ conf' = NoConf
  /\ opmode' = "MD_OFFLINE" /\ tx_count' = 0 /\ presend_done' = FALSE
  /\ local_poll' = 0 /\ minpoll' = 0 /\ maxpoll' = 0
  /\ burst_good_samples_to_go' = 0 /\ burst_total_samples_to_go' = 0
  /\ asked' = <<0, 0>> /\ burst_sent' = 0
  /\ reachability' = 0 /\ selectable' = FALSE
  /\ inflight' = 0 /\ desired' = "offline"

-----------------------------------------------------------------------------
(* transmit_timeout: the scheduler has removed the entry it dispatches. *)

EchoDue == /\ conf.presend_minpoll > 0
           /\ conf.presend_minpoll <= local_poll
           /\ ~presend_done

SendEcho(id) ==
  /\ alive /\ id \in queue
  /\ EchoDue
  /\ presend_done' = TRUE
  /\ Arm(queue \ {id}, "warm_up")
  /\ UNCHANGED <<alive, conf, opmode, tx_count, burst, polls, source, inflight, desired>>

SendProbe(id) ==
  /\ alive /\ id \in queue
  /\ ~EchoDue
  /\ presend_done' = FALSE
  /\ tx_count' = CapTx(tx_count + 1)
  /\ IF tx_count' >= 2
       THEN AdjustPoll(Slower) /\ reachability' = ShiftReach(0)
       ELSE UNCHANGED <<local_poll, reachability>>
  /\ LET lost == conf.auto_offline /\ tx_count' >= 3
         mode == IF lost THEN OfflineMode(opmode) ELSE opmode
         q == IF mode # opmode /\ mode = "MD_OFFLINE"
                THEN queue \ {id, timeout_id} ELSE queue \ {id}
         bursting == mode \in Burst
         total == burst_total_samples_to_go - (IF bursting THEN 1 ELSE 0)
         next == AfterBurstStep(mode, total)
     IN /\ opmode' = next
        /\ burst_total_samples_to_go' = total
        /\ burst_sent' = IF bursting THEN burst_sent + 1 ELSE burst_sent
        /\ inflight' = IF mode = "MD_OFFLINE" THEN inflight ELSE Answered(inflight)
        /\ \/ next = "MD_OFFLINE" /\ Disarm(q)
           \/ next # "MD_OFFLINE" /\ Arm(q, IF next \in Burst THEN "burst_timeout" ELSE "poll")
  /\ UNCHANGED <<alive, conf, minpoll, maxpoll, selectable, burst_good_samples_to_go,
                 asked, desired>>

TransmitTimeout(id) == SendEcho(id) \/ SendProbe(id)

-----------------------------------------------------------------------------
(* receive_packet, for a packet whose mode NCR_ProcessKnown passes to it. *)

\* What the packet tests can conclude together.  A kiss-of-death has an invalid
\* stratum, so it never has a valid header.
Verdicts ==
  {v \in [valid_data : BOOLEAN, good_data : BOOLEAN, valid_header : BOOLEAN,
          good_header : BOOLEAN, kod : BOOLEAN] :
     /\ v.good_data => v.valid_data
     /\ v.good_header => v.valid_header
     /\ v.kod => ~v.valid_header}

\* The poll after a sample (good data) or a valid packet without one.
PollOnReceive(v) ==
  IF v.valid_header /\ v.valid_data
    THEN AdjustPoll(IF v.good_data THEN AnyWay ELSE Slower)
    ELSE UNCHANGED local_poll

ReceivePacket(v, remote_poll) ==
  /\ alive
  /\ inflight > 0 \/ conf.mode = "MODE_ACTIVE"
  /\ inflight' = IF inflight > 0 THEN inflight - 1 ELSE 0
  /\ IF v.valid_header /\ v.valid_data
       THEN /\ tx_count' = 0
            /\ reachability' = ShiftReach(1)
            /\ selectable' = IF ~v.good_header THEN FALSE ELSE (selectable \/ v.good_data)
       ELSE UNCHANGED <<tx_count, reachability, selectable>>
  /\ IF v.kod /\ remote_poll > minpoll
       THEN /\ minpoll' = remote_poll
            /\ maxpoll' = IF remote_poll > maxpoll THEN remote_poll ELSE maxpoll
            /\ local_poll' = IF remote_poll > local_poll THEN remote_poll ELSE local_poll
       ELSE UNCHANGED <<minpoll, maxpoll>> /\ PollOnReceive(v)
  /\ LET bursting == opmode \in Burst
         left == IF bursting /\ v.kod THEN 0 ELSE burst_good_samples_to_go
         good == IF bursting /\ v.valid_data THEN left - 1 ELSE left
         next == AfterBurstStep(opmode, good)
     IN /\ burst_good_samples_to_go' = good
        /\ opmode' = next
        /\ \/ /\ next # "MD_OFFLINE"
              /\ Enqueue(queue \ {timeout_id}, IF next \in Burst THEN "burst_interval" ELSE "poll")
              /\ UNCHANGED timer_running
           \/ /\ next = "MD_OFFLINE" /\ bursting
              /\ Disarm(IF timer_running THEN queue \ {timeout_id} ELSE queue)
           \/ /\ next = "MD_OFFLINE" /\ ~bursting
              /\ UNCHANGED timer
  /\ UNCHANGED <<alive, conf, presend_done, burst_total_samples_to_go, asked, burst_sent,
                 desired>>

-----------------------------------------------------------------------------
(* Commands. *)

TakeSourceOnline ==
  /\ alive
  /\ desired' = "online"
  /\ IF opmode = "MD_OFFLINE" /\ ~timer_running
       THEN /\ tx_count' = 0 /\ local_poll' = minpoll
            /\ opmode' = "MD_ONLINE"
            /\ Arm(queue, "initial")
       ELSE /\ opmode' = IF opmode = "MD_BURST_WAS_OFFLINE"
                           THEN "MD_BURST_WAS_ONLINE" ELSE opmode
            /\ UNCHANGED <<tx_count, local_poll, timer>>
  /\ UNCHANGED <<alive, conf, presend_done, minpoll, maxpoll, burst, source, inflight>>

TakeSourceOffline ==
  /\ alive
  /\ desired' = "offline"
  /\ opmode' = OfflineMode(opmode)
  /\ IF opmode = "MD_ONLINE" /\ timer_running
       THEN Disarm(queue \ {timeout_id})
       ELSE UNCHANGED timer
  /\ UNCHANGED <<alive, conf, tx_count, presend_done, polls, burst, source, inflight>>

\* Fault: a burst that starts on an online source keeps the polling timer.
InitiateSampleBurstKeepsTimer(b) ==
  /\ alive
  /\ conf.mode = "MODE_CLIENT" /\ opmode \notin Burst
  /\ opmode' = IF opmode = "MD_ONLINE" THEN "MD_BURST_WAS_ONLINE" ELSE "MD_BURST_WAS_OFFLINE"
  /\ burst_good_samples_to_go' = b[1] /\ burst_total_samples_to_go' = b[2]
  /\ asked' = b /\ burst_sent' = 0
  /\ IF timer_running THEN UNCHANGED timer ELSE Arm(queue, "initial")
  /\ UNCHANGED <<alive, conf, tx_count, presend_done, polls, source, inflight, desired>>

\* Fault: a burst in progress is started again.
InitiateSampleBurstAgain(b) ==
  /\ alive
  /\ conf.mode = "MODE_CLIENT"
  /\ opmode' = IF opmode \in {"MD_ONLINE", "MD_BURST_WAS_ONLINE"}
                 THEN "MD_BURST_WAS_ONLINE" ELSE "MD_BURST_WAS_OFFLINE"
  /\ burst_good_samples_to_go' = b[1] /\ burst_total_samples_to_go' = b[2]
  /\ asked' = b /\ burst_sent' = 0
  /\ Arm(IF timer_running THEN queue \ {timeout_id} ELSE queue, "initial")
  /\ UNCHANGED <<alive, conf, tx_count, presend_done, polls, source, inflight, desired>>

\* NCR_InitiateSampleBurst; only for client/server sources not already bursting.
InitiateSampleBurst(b) ==
  /\ alive
  /\ conf.mode = "MODE_CLIENT" /\ opmode \notin Burst
  /\ opmode' = IF opmode = "MD_ONLINE" THEN "MD_BURST_WAS_ONLINE" ELSE "MD_BURST_WAS_OFFLINE"
  /\ burst_good_samples_to_go' = b[1] /\ burst_total_samples_to_go' = b[2]
  /\ asked' = b /\ burst_sent' = 0
  /\ Arm(IF timer_running THEN queue \ {timeout_id} ELSE queue, "initial")
  /\ UNCHANGED <<alive, conf, tx_count, presend_done, polls, source, inflight, desired>>

ModifyMinpoll(new_minpoll) ==
  /\ alive
  /\ minpoll' = new_minpoll
  /\ UNCHANGED <<alive, conf, opmode, tx_count, presend_done, timer, burst, local_poll,
                 maxpoll, source, inflight, desired>>

ModifyMaxpoll(new_maxpoll) ==
  /\ alive
  /\ maxpoll' = new_maxpoll
  /\ UNCHANGED <<alive, conf, opmode, tx_count, presend_done, timer, burst, local_poll,
                 minpoll, source, inflight, desired>>

-----------------------------------------------------------------------------
Timeout == \E id \in queue : TransmitTimeout(id)

Receive == \E v \in Verdicts, p \in MinPolls : ReceivePacket(v, p)

AssociationNext ==
  \/ GetInstance
  \/ DestroyInstance
  \/ Timeout
  \/ Receive
  \/ TakeSourceOnline
  \/ TakeSourceOffline
  \/ \E b \in Bursts : InitiateSampleBurst(b)
  \/ \E p \in MinPolls : ModifyMinpoll(p)
  \/ \E p \in MaxPolls : ModifyMaxpoll(p)

AssociationSpec == AssociationInit /\ [][AssociationNext]_associationVars

\* The scheduler dispatches a queued timeout once its time has come; between
\* two probes the network delivers finitely many packets (inflight), so the
\* timer is not postponed for ever.
FairAssociation == AssociationSpec /\ WF_associationVars(Timeout)

-----------------------------------------------------------------------------
(* Properties. *)

Flags == /\ alive \in BOOLEAN /\ timer_running \in BOOLEAN
         /\ presend_done \in BOOLEAN /\ selectable \in BOOLEAN

\* Every field of the instance record keeps its type; the counters of a burst
\* are integers because a command may ask for zero samples.
AssociationTypeOK ==
  /\ Flags
  /\ conf \in SourceOption
  /\ opmode \in OperatingMode
  /\ timeout_id \in TimeoutID
  /\ queue \subseteq TimeoutID
  /\ delay \in Delay
  /\ tx_count \in 0 .. TxCap
  /\ local_poll \in Nat /\ minpoll \in Nat /\ maxpoll \in Nat
  /\ burst_good_samples_to_go \in Int /\ burst_total_samples_to_go \in Int
  /\ burst_sent \in Nat /\ asked \in Int \X Int
  /\ reachability \in 0 .. REACH_SIZE - 1
  /\ inflight \in 0 .. MaxInFlight
  /\ desired \in {"online", "offline"}

\* Between handlers the instance owns exactly one queued timeout, the one its
\* timeout_id names, when it is being sampled, and none when it is offline or
\* has been destroyed: no second chain of probes, no source that falls silent,
\* no timeout that fires on freed memory.
TimerMatchesMode ==
  /\ timer_running <=> opmode # "MD_OFFLINE"
  /\ queue = IF timer_running THEN {timeout_id} ELSE {}
  /\ ~alive => opmode = "MD_OFFLINE"

\* The mode is the one the operator last asked for, a burst in progress and
\* auto_offline apart: offline and online given in the middle of a burst take
\* effect when it ends.
ModeFollowsOperator ==
  /\ desired = "offline" => opmode \in {"MD_OFFLINE", "MD_BURST_WAS_OFFLINE"}
  /\ desired = "online" /\ ~conf.auto_offline =>
       opmode \in {"MD_ONLINE", "MD_BURST_WAS_ONLINE"}

\* A burst sends at most the probes it was given (at least one is always sent)
\* and stops when it has the good samples asked for, whatever mix of timeouts,
\* replies, kiss-of-death packets, online and offline commands it meets.
BurstBudget ==
  LET limit == IF asked[2] > 1 THEN asked[2] ELSE 1 IN
  /\ burst_sent <= limit
  /\ opmode \in Burst =>
       /\ burst_sent + burst_total_samples_to_go = asked[2]
       /\ burst_sent < limit
       /\ asked[1] > 0 => burst_good_samples_to_go > 0

\* Outside a burst the pending probe is never at burst spacing, and inside one
\* it is never a whole polling interval away.
PacingMatchesMode ==
  /\ opmode = "MD_ONLINE" => delay \in {"initial", "warm_up", "poll"}
  /\ opmode \in Burst => delay \in {"initial", "warm_up", "burst_interval", "burst_timeout"}
  /\ opmode = "MD_OFFLINE" => delay = "none"

\* Once n + 1 probes have gone without a valid answer the newest n bits of the
\* reachability register are clear: a source cannot look reachable on answers
\* older than its register.
UnansweredMeansUnreachable ==
  LET n == IF tx_count - 1 > REACH_BITS THEN REACH_BITS ELSE tx_count - 1 IN
  n > 0 => reachability % (2 ^ n) = 0

\* A burst ends, even when nothing answers it or its answers are never good.
BurstEnds == (alive /\ opmode \in Burst) ~> (~alive \/ opmode \notin Burst)
=============================================================================

------------------------------ MODULE RtcLinux ------------------------------
(***************************************************************************)
(* The real time clock of chronyd on Linux (rtc_linux.c behind rtc.c) and  *)
(* the part of main.c that waits for it: with -s the daemon first corrects *)
(* the system clock from eight readings of the RTC, then calls the hook    *)
(* that goes on with the start (initstepslew, then the sources).  After    *)
(* that the RTC is measured at intervals: a timeout turns the update       *)
(* interrupt on, the first interrupt is skipped, the second is read, and   *)
(* the interrupt is turned off until the next timeout.  trimrtc sets the   *)
(* RTC and locks on to it again with eight readings.                       *)
(*                                                                         *)
(* A sample is a unit, and of the coefficients only their validity and     *)
(* whether the RTC is more than a second fast or slow are kept.            *)
(***************************************************************************)
EXTENDS Integers, FiniteSets

CONSTANTS
  TimeoutID,
  Starts,           \* ways to start: rtc (-s given), step (initstepslew configured)
  Faults,           \* what the device may do wrong: "open", "read", "time", and refuse
                    \* to turn its interrupt "on" or "off"
  MaxRefusals,      \* bound: refusals to turn it off
  INITIAL_SAMPLES,  \* readings of an initial trim or a relock, 8 in the code
  MAX_SAMPLES,      \* 64 in the code
  NEW_FIRST_WHEN_FULL, \* 4 in the code
  MIN_SAMPLES_FOR_REGRESS \* 3 in the code

Start == [rtc : BOOLEAN, step : BOOLEAN]

StartsAssumption == Starts \subseteq Start
FaultsAssumption == 
  Faults \subseteq {"open", "read", "time", "on", "off"} /\ MaxRefusals \in Nat
SamplesAssumption ==
  /\ INITIAL_SAMPLES \in Nat /\ MAX_SAMPLES \in Nat /\ NEW_FIRST_WHEN_FULL \in Nat
  /\ MIN_SAMPLES_FOR_REGRESS \in Nat
  /\ 2 <= INITIAL_SAMPLES /\ INITIAL_SAMPLES <= MAX_SAMPLES
  /\ 0 < NEW_FIRST_WHEN_FULL /\ NEW_FIRST_WHEN_FULL < MAX_SAMPLES

VARIABLES
  start,            \* how the daemon was started
  running,          \* main loop: "no", "yes" or "exited"
  fd,               \* the device is open and its handler registered
  operating_mode,
  meas,             \* update interrupt, skip_interrupts, timeout_running, timeout_id,
                    \* the queued measurement timeouts; history: whether the device
                    \* refused to turn the interrupt on since a timeout was last queued,
                    \* and how often to turn it off
  n_samples, n_samples_since_regression,
  coefs_valid,
  far,              \* fabs(coef_seconds_fast) > 1.0
  file,             \* the RTC file describes the RTC as it is now set ("current"),
                    \* as it was before it was trimmed ("stale"), or is "garbage"
  hook_calls,       \* history: calls of after_init_hook
  acquiring,        \* initstepslew is in progress
  sources_started   \* post_acquire_hook has run

samples == <<n_samples, n_samples_since_regression, coefs_valid, far>>
startup == <<hook_calls, acquiring, sources_started>>
vars == <<start, running, fd, operating_mode, meas, samples, file, startup>>

Init ==
  /\ start \in Starts /\ running = "no" /\ fd = FALSE
  /\ operating_mode = "OM_NORMAL"
  /\ \E id \in TimeoutID :
       meas = [uie |-> FALSE, skip |-> 0, timeout_running |-> FALSE, timeout_id |-> id,
               queued |-> {}, refused |-> FALSE, refusals |-> 0]
  /\ n_samples = 0 /\ n_samples_since_regression = 0
  /\ coefs_valid = FALSE /\ far = FALSE /\ file = "current"
  /\ hook_calls = 0 /\ acquiring = FALSE /\ sources_started = FALSE

-----------------------------------------------------------------------------
(* Interrupts and the measurement timeout. *)

(* An operator is the set of what may come of it.                              *)

\* switch_interrupts(1): the ioctl fails on a closed device, and may on an open one.
SwitchOn(m, open) ==
  IF ~open THEN {m}
  ELSE {[m EXCEPT !.uie = TRUE, !.skip = 1, !.refused = FALSE]}
       \cup IF "on" \in Faults THEN {[m EXCEPT !.refused = TRUE]} ELSE {}

\* switch_interrupts(0)
SwitchOff(m) ==
  {[m EXCEPT !.uie = FALSE]}
  \cup IF "off" \in Faults /\ m.refusals < MaxRefusals THEN {[m EXCEPT !.refusals = @ + 1]} ELSE {}

\* RTC_StartMeasurements: timeout_running = 0, then measurement_timeout(NULL).
StartMeasurements(m, open) == SwitchOn([m EXCEPT !.timeout_running = FALSE], open)

\* Fault: the interrupt is turned off and no timeout is queued.
RequeueNothing(m, id) == SwitchOff(m)

\* The interrupt is off until the next timeout.
Requeue(m, id) ==
  {[n EXCEPT !.timeout_running = TRUE, !.timeout_id = id, !.queued = @ \cup {id}, !.refused = FALSE] :
     n \in SwitchOff(m)}

\* RTC_Linux_Trim cancels the timeout it knows of.
CancelTimeout(m) ==
  IF m.timeout_running
    THEN [m EXCEPT !.timeout_running = FALSE, !.queued = @ \ {m.timeout_id}] ELSE m

-----------------------------------------------------------------------------
(* The rest of the start. *)

\* post_init_rtc_hook, and post_acquire_hook unless initstepslew comes first.
Hook == acquiring' = start.step /\ sources_started' = ~start.step
HookMeas(m, open) == IF start.step THEN {m} ELSE StartMeasurements(m, open)

\* main: RTC_Initialise, then RTC_TimeInit with -s; the hook is called at once
\* when the driver could not be initialised.
Main ==
  /\ running = "no" /\ running' = "yes"
  /\ \E open \in {TRUE} \cup (IF "open" \in Faults THEN {FALSE} ELSE {}) :
       /\ fd' = open
       /\ IF start.rtc /\ open
            THEN /\ operating_mode' = "OM_INITIAL"
                 /\ meas' \in SwitchOn(meas, open)
                 /\ UNCHANGED startup
            ELSE /\ Hook
                 /\ meas' \in HookMeas(meas, open)
                 /\ hook_calls' = IF start.rtc THEN 1 ELSE 0
                 /\ UNCHANGED operating_mode
  /\ UNCHANGED <<start, samples, file>>

\* ACQ_StartAcquisition calls post_acquire_hook when it is done.
AcquisitionDone ==
  /\ running = "yes" /\ acquiring
  /\ acquiring' = FALSE /\ sources_started' = TRUE
  /\ meas' \in StartMeasurements(meas, fd)
  /\ UNCHANGED <<start, running, fd, operating_mode, samples, file, hook_calls>>

\* measurement_timeout.
MeasurementTimeout ==
  /\ running = "yes"
  /\ \E id \in meas.queued :
       meas' \in SwitchOn([meas EXCEPT !.queued = @ \ {id}, !.timeout_running = FALSE], fd)
  /\ UNCHANGED <<start, running, fd, operating_mode, samples, file, startup>>

-----------------------------------------------------------------------------
(* A reading of the device. *)

\* Samples stored and counted after accumulate_sample; n_samples is -1 for the
\* one reading after the initial trim that is not stored.
Accumulated ==
  (IF n_samples = MAX_SAMPLES THEN MAX_SAMPLES - NEW_FIRST_WHEN_FULL ELSE n_samples) + 1
Counted == n_samples_since_regression + (IF n_samples >= 0 THEN 1 ELSE 0)

\* RGR_FindBestRobustRegression needs two points; the samples it leaves.
CanRegress(n) == n >= 2
Left(n) == IF n < MIN_SAMPLES_FOR_REGRESS THEN {n} ELSE MIN_SAMPLES_FOR_REGRESS .. n

\* process_reading in OM_NORMAL.
TrackReading ==
  /\ UNCHANGED <<operating_mode, file>>
  /\ IF Counted >= 1 /\ CanRegress(Accumulated)
       THEN n_samples' \in Left(Accumulated) /\ coefs_valid' = TRUE /\ far' \in BOOLEAN
       ELSE n_samples' = Accumulated /\ UNCHANGED <<coefs_valid, far>>
  /\ n_samples_since_regression' = IF Counted >= 1 THEN 0 ELSE Counted

\* A reading of the rapid sampling that is not the last one.
CountReading ==
  /\ Counted < INITIAL_SAMPLES
  /\ n_samples' = Accumulated /\ n_samples_since_regression' = Counted
  /\ UNCHANGED <<operating_mode, coefs_valid, far, file>>

\* handle_initial_trim, the call of the hook apart.
InitialTrim ==
  /\ Counted >= INITIAL_SAMPLES
  /\ IF CanRegress(Accumulated) THEN far' \in BOOLEAN ELSE UNCHANGED far
  /\ n_samples' = -1 /\ n_samples_since_regression' = 0
  /\ coefs_valid' = FALSE
  /\ operating_mode' = "OM_NORMAL"
  /\ UNCHANGED file

\* handle_relock_after_trim: the flag it tests is not initialised, and stays so
\* when the regression fails.
RelockAfterTrim ==
  /\ Counted >= INITIAL_SAMPLES
  /\ file' \in IF CanRegress(Accumulated) THEN {"current"} ELSE {file, "garbage"}
  /\ n_samples' = 0 /\ n_samples_since_regression' = 0
  /\ coefs_valid' = FALSE
  /\ operating_mode' = "OM_NORMAL"
  /\ UNCHANGED far

\* The interrupt may be bogus the first time.
SkipInterrupt ==
  /\ running = "yes" /\ fd /\ meas.uie /\ meas.skip > 0
  /\ meas' = [meas EXCEPT !.skip = @ - 1]
  /\ UNCHANGED <<start, running, fd, operating_mode, samples, file, startup>>

\* read() fails: the device is given up; its interrupts end when it is closed.
ReadFails ==
  /\ "read" \in Faults
  /\ running = "yes" /\ fd /\ meas.uie
  /\ fd' = FALSE
  /\ meas' = [meas EXCEPT !.uie = FALSE]
  /\ UNCHANGED <<start, running, operating_mode, samples, file, startup>>

Interrupted == running = "yes" /\ fd /\ meas.uie /\ meas.skip = 0

\* The hook, called from a reading in OM_INITIAL, and the timeout after it.
EndInitial(id) ==
  /\ hook_calls' = hook_calls + 1
  /\ Hook
  /\ meas' \in UNION {Requeue(m, id) : m \in HookMeas(meas, fd)}

\* read_from_device on an update interrupt.
Reading(id) ==
  /\ Interrupted
  /\ \/ /\ operating_mode = "OM_NORMAL"
        /\ TrackReading /\ meas' \in Requeue(meas, id) /\ UNCHANGED startup
     \/ /\ operating_mode \in {"OM_INITIAL", "OM_AFTERTRIM"}
        /\ CountReading /\ UNCHANGED <<meas, startup>>
     \/ /\ operating_mode = "OM_INITIAL"
        /\ InitialTrim /\ EndInitial(id)
     \/ /\ operating_mode = "OM_AFTERTRIM"
        /\ RelockAfterTrim /\ meas' \in Requeue(meas, id) /\ UNCHANGED startup
  /\ UNCHANGED <<start, running, fd>>

\* An error ends the rapid sampling.
GiveUp(id) ==
  /\ operating_mode' = "OM_NORMAL"
  /\ IF operating_mode = "OM_INITIAL"
       THEN EndInitial(id) ELSE meas' \in Requeue(meas, id) /\ UNCHANGED startup

\* read_from_device when the RTC cannot be read, or its time not converted.
ReadingFails(id) ==
  /\ "time" \in Faults
  /\ Interrupted
  /\ GiveUp(id)
  /\ UNCHANGED <<start, running, fd, samples, file>>

\* read_from_device on an interrupt that is not an update interrupt.
OtherInterrupt(id) ==
  /\ Interrupted /\ operating_mode = "OM_NORMAL"
  /\ meas' \in Requeue(meas, id)
  /\ UNCHANGED <<start, running, fd, operating_mode, samples, file, startup>>

ReadFromDevice ==
  \/ SkipInterrupt
  \/ \E id \in TimeoutID \ meas.queued : Reading(id)

-----------------------------------------------------------------------------
(* Commands, clock steps, exit. *)

\* Rapid sampling starts: the timeout is cancelled and the interrupt turned on.
TrimMeas(m, open) == SwitchOn(CancelTimeout(m), open)

\* RTC_Linux_Trim has no effect unless the RTC is far off.
Trim ==
  /\ running = "yes" /\ far
  /\ far' = FALSE /\ file' = "stale"
  /\ n_samples' = 0
  /\ operating_mode' = "OM_AFTERTRIM"
  /\ meas' \in TrimMeas(meas, fd)
  /\ UNCHANGED <<start, running, fd, n_samples_since_regression, coefs_valid, startup>>

\* slew_samples: the system clock is stepped or slewed.
SlewSamples ==
  /\ running = "yes" /\ coefs_valid
  /\ far' = ~far
  /\ UNCHANGED <<start, running, fd, operating_mode, meas, n_samples,
                 n_samples_since_regression, coefs_valid, file, startup>>

WriteParameters ==
  /\ running = "yes" /\ fd /\ coefs_valid
  /\ file' = "current"
  /\ UNCHANGED <<start, running, fd, operating_mode, meas, samples, startup>>

\* RTC_Linux_Finalise.
Finalise ==
  /\ running = "yes" /\ running' = "exited"
  /\ meas' = CancelTimeout(meas)
  /\ file' = IF fd /\ coefs_valid THEN "current" ELSE file
  /\ UNCHANGED <<start, fd, operating_mode, samples, startup>>

Next ==
  \/ Main
  \/ AcquisitionDone
  \/ MeasurementTimeout
  \/ ReadFromDevice
  \/ ReadFails
  \/ \E id \in TimeoutID \ meas.queued : ReadingFails(id) \/ OtherInterrupt(id)
  \/ Trim
  \/ SlewSamples
  \/ WriteParameters
  \/ Finalise

Spec == Init /\ [][Next]_vars

\* main() runs, the scheduler dispatches timeouts, and an update interrupt that
\* is on comes once a second.
FairSpec ==
  Spec /\ WF_vars(Main) /\ WF_vars(MeasurementTimeout) /\ WF_vars(ReadFromDevice)

-----------------------------------------------------------------------------
(* Properties. *)

TypeOK ==
  /\ start \in Starts /\ running \in {"no", "yes", "exited"}
  /\ {fd, coefs_valid, far, acquiring, sources_started} \subseteq BOOLEAN
  /\ operating_mode \in {"OM_NORMAL", "OM_INITIAL", "OM_AFTERTRIM"}
  /\ meas \in [uie : BOOLEAN, skip : 0 .. 1, timeout_running : BOOLEAN, timeout_id : TimeoutID,
               queued : SUBSET TimeoutID, refused : BOOLEAN, refusals : 0 .. MaxRefusals]
  /\ n_samples \in -1 .. MAX_SAMPLES
  /\ n_samples_since_regression \in 0 .. INITIAL_SAMPLES - 1
  /\ file \in {"current", "stale", "garbage"}
  /\ hook_calls \in Nat

(* The daemon goes on with its start once: whatever readings, errors and       *)
(* commands come, the hook is called at most once, and only from a start that  *)
(* asked for the RTC (a second call would add every source twice).             *)
HookOnce ==
  /\ hook_calls <= (IF start.rtc THEN 1 ELSE 0)
  /\ operating_mode = "OM_INITIAL" => hook_calls = 0

(* The measuring never stops by itself: on an open device an interrupt is on   *)
(* or a timeout is queued to turn it on, and while samples are taken rapidly   *)
(* the interrupt is on, unless the device refused to turn it on, which the     *)
(* code logs and does not try again.                                           *)
NeverStalls ==
  running = "yes" /\ fd /\ ~meas.refused =>
    /\ sources_started => meas.uie \/ meas.queued # {}
    /\ operating_mode # "OM_NORMAL" => meas.uie

(* At most one measurement timeout is queued, and it is the one that           *)
(* timeout_running and timeout_id tell of, so that a trim and the exit cancel  *)
(* it and the measurements keep their period.  (Not so with -s and             *)
(* initstepslew: the end of the acquisition starts the measurements while the  *)
(* timeout that follows the initial trim is queued.  Nor when the device has   *)
(* refused to turn the interrupt off: each further interrupt queues another.)  *)
OneMeasurementTimer ==
  ~(start.rtc /\ start.step) /\ meas.refusals = 0 =>
    meas.queued = IF meas.timeout_running THEN {meas.timeout_id} ELSE {}

(* In any case measurements do not multiply: what takes the next ones, timeouts *)
(* and the interrupt, is one, one more for each refusal to turn the interrupt   *)
(* off, and one more with -s and initstepslew.                                  *)
FewMeasurements ==
  Cardinality(meas.queued) + (IF meas.uie THEN 1 ELSE 0)
    <= 1 + meas.refusals + (IF start.rtc /\ start.step THEN 1 ELSE 0)

(* A start that waits for the RTC does not wait for ever, whatever readings    *)
(* come, except when read() fails, upon which the device is given up, or when  *)
(* the device refuses to turn the interrupt on: both without a call of the     *)
(* hook.                                                                       *)
HookCalled ==
  start.rtc ~> \/ hook_calls > 0 \/ running = "exited"
               \/ running = "yes" /\ (~fd \/ meas.refused)

(* "We also call this [the hook] if we cannot do the initialisation" (rtc.c).  *)
HookCalledAnyway == start.rtc ~> hook_calls > 0 \/ running = "exited"
=============================================================================

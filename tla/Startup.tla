------------------------------ MODULE Startup ------------------------------
(***************************************************************************)
(* The two steps of a start that may set the clock before the daemon does  *)
(* its work: the initial trim from the real time clock (RtcLinux) and the  *)
(* initial step from time servers (Acquire).  Each ends with a call of the *)
(* rest of the start, and each is checked on its own: step says which.     *)
(***************************************************************************)
EXTENDS Acquire

CONSTANTS
  TimeoutID, Starts, Faults, MaxRefusals,
  INITIAL_SAMPLES, MAX_RTC_SAMPLES, NEW_FIRST_WHEN_FULL, MIN_SAMPLES_FOR_REGRESS

VARIABLES
  step,
  start, running, fd, operating_mode, meas,
  rtc_samples, n_samples_since_regression, coefs_valid, far, file,
  rtc_hook_calls, acquiring, sources_started

Rtc == INSTANCE RtcLinux WITH
  n_samples <- rtc_samples, hook_calls <- rtc_hook_calls, MAX_SAMPLES <- MAX_RTC_SAMPLES

ASSUME RtcAssumption == Rtc!StartsAssumption /\ Rtc!FaultsAssumption /\ Rtc!SamplesAssumption

rtcVars == <<start, running, fd, operating_mode, meas, rtc_samples, n_samples_since_regression,
             coefs_valid, far, file, rtc_hook_calls, acquiring, sources_started>>
startupVars == <<step, vars, rtcVars>>

\* main.c, run_daemon... : one of the steps; the other part rests in one state.
StartupInit ==
  /\ step \in {"rtc", "acquire"}
  /\ Init /\ (step = "rtc" => network = "timely")
  /\ Rtc!Init /\ (step = "acquire" => ~start.rtc /\ ~start.step /\ meas.timeout_id = CHOOSE t \in TimeoutID : TRUE)

AcquireNext == step = "acquire" /\ Next /\ UNCHANGED <<step, rtcVars>>
RtcNext == step = "rtc" /\ Rtc!Next /\ UNCHANGED <<step, vars>>
StartupNext == AcquireNext \/ RtcNext

\* The fairness of the two parts.
StartupSpec ==
  /\ StartupInit /\ [][StartupNext]_startupVars
  /\ WF_startupVars(step = "acquire" /\ Timeout /\ UNCHANGED <<step, rtcVars>>)
  /\ WF_startupVars(step = "rtc" /\ Rtc!Main /\ UNCHANGED <<step, vars>>)
  /\ WF_startupVars(step = "rtc" /\ Rtc!MeasurementTimeout /\ UNCHANGED <<step, vars>>)
  /\ WF_startupVars(step = "rtc" /\ Rtc!ReadFromDevice /\ UNCHANGED <<step, vars>>)

-----------------------------------------------------------------------------
(* Properties, besides those of Acquire. *)

\* The trim from the real time clock is sound whatever readings, errors and commands come: the
\* rest of the start is called once at most (a second call would add every source twice); on an
\* open device an interrupt or one timeout is due, the one a trim and the exit will cancel, unless
\* the device has refused to turn the interrupt on or off, and then too measurements do not
\* multiply; and the array of samples is never indexed outside of it, though the count is set
\* back by the initial trim, the regression and a full array.
RtcSound ==
  /\ Rtc!HookOnce
  /\ Rtc!NeverStalls /\ Rtc!OneMeasurementTimer /\ Rtc!FewMeasurements
  /\ rtc_samples \in -1 .. MAX_RTC_SAMPLES

\* The daemon does start: one that waits for the RTC (unless read() fails or the device refuses
\* to turn its interrupt on) or for the initial step from servers does not wait for ever.
StartGoesOn == (step = "rtc" => Rtc!HookCalled) /\ (step = "acquire" => HookCalled)

\* rtc.c:131 of the hook that goes on with the start: "We also call this if we cannot do the
\* initialisation."
HookCalledAnyway == step = "rtc" => Rtc!HookCalledAnyway
=============================================================================

------------------------------ MODULE Reference ------------------------------
(***************************************************************************)
(* The local reference of chronyd (reference.c): what the daemon says of   *)
(* its own synchronisation.  The selection sets it on every update from    *)
(* the selected source and unsets it when no source is selectable, settime *)
(* sets it by hand.  With fallbackdrift the clock, once unsynchronised, is *)
(* set to longer and longer averages of its frequency, by a timeout that   *)
(* each of them schedules for the next.  makestep and maxchange limit what *)
(* the updates do, and the leap second is armed in the kernel on the day.  *)
(*                                                                         *)
(* Time is the age of the last update, 0 also for a clock that went back   *)
(* since; a frequency is a number or NaN; the lengths of the averages are  *)
(* kept in half seconds, up to the length at which they count.             *)
(***************************************************************************)
EXTENDS Integers, FiniteSetsExt

CONSTANTS
  Configs,                    \* configurations and what initstepslew did
  MaxAge,                     \* bound: the longest time between updates, in seconds
  Forever                     \* the time since 1970

\* The directives: a fallback drift of 0 means none, a negative limit no limit.
Config == [fb_drift_min : Nat, fb_drift_max : Nat,  \* fallbackdrift
           make_step : Int,                         \* makestep: updates that may step
           offset_delay : Int, offset_ignore : Int, \* maxchange: updates before the check, refusals
           manual : BOOLEAN,                        \* manual: settime is accepted
           stepped : BOOLEAN]                       \* initstepslew stepped the clock

ASSUME ConfigAssumption == Configs \subseteq Config
ASSUME AgeAssumption == MaxAge \in Nat \ {0} /\ Forever \in Nat /\ MaxAge < Forever

\* The powers of 2 that the fallback drifts use are positive and grow.
ASSUME PowerAssumption ==
  \A c \in Configs : \A i, j \in 0 .. c.fb_drift_max + 1 : 2 ^ i > 0 /\ (i < j => 2 ^ i < 2 ^ j)

NoTimeout == -1
LeapStatus == {"LEAP_Normal", "LEAP_InsertSecond", "LEAP_DeleteSecond", "LEAP_Unsynchronised"}
Date == {"other", "leap_month", "leap_day"}

VARIABLES
  conf,               \* the configuration
  in_main_loop,       \* main loop: "yes", "quitting" or "exited"
  are_we_synchronised,
  our_leap_status, our_leap_sec,
  kernel_leap,        \* the leap second armed with LCL_SetLeap
  date,
  updated,            \* last_ref_update.tv_sec is not 0
  age,                \* cooked time since last_ref_update
  last_ref_update_interval,
  instant,            \* history: an update came with an interval of 0
  fb_drifts,          \* length of each average, and whether it is NaN
  next_fb_drift,
  timeout,            \* seconds to fb_drift_timeout, or NoTimeout
  freq_nan,           \* the frequency given to the driver is NaN
  used,               \* history: the fallback drift the clock runs at, or 0
  make_step_limit, max_offset_delay, max_offset_ignore,
  hist                \* history: updates, references among them, the last ones
                      \* that stepped and that had a large offset, refusals

leap == <<our_leap_status, our_leap_sec, kernel_leap>>
times == <<updated, age, last_ref_update_interval, instant>>
fallback == <<fb_drifts, next_fb_drift, timeout, freq_nan, used>>
limits == <<make_step_limit, max_offset_delay, max_offset_ignore, hist>>
referenceVars == <<conf, in_main_loop, are_we_synchronised, leap, date, times, fallback, limits>>

Drifts == IF conf.fb_drift_min > 0 THEN conf.fb_drift_min .. conf.fb_drift_max ELSE {}
Secs(i) == 2 ^ i
HalfSecs(i) == 2 ^ (i + 1)

\* Bounds: the age is read by the fallback drifts only, each count is compared
\* with its limit only.
AgeBound == IF Drifts = {} THEN 1 ELSE MaxAge
Count(n, limit) == IF n <= limit THEN n + 1 ELSE n

\* REF_Initialise; initstepslew may step the clock before the first update.
ReferenceInit ==
  /\ conf \in Configs
  /\ in_main_loop = "yes" /\ are_we_synchronised = FALSE
  /\ our_leap_status = "LEAP_Unsynchronised" /\ our_leap_sec = 0 /\ kernel_leap = 0
  /\ date \in Date
  /\ updated = conf.stepped /\ age = Forever /\ last_ref_update_interval = 0 /\ instant = FALSE
  /\ fb_drifts = [i \in Drifts |-> [secs |-> 0, nan |-> FALSE]]
  /\ next_fb_drift = 0 /\ timeout = NoTimeout /\ freq_nan = FALSE /\ used = 0
  /\ make_step_limit = conf.make_step
  /\ max_offset_delay = conf.offset_delay /\ max_offset_ignore = conf.offset_ignore
  /\ hist = [updates |-> 0, references |-> 0, stepped |-> 0, large |-> 0, refused |-> 0]

-----------------------------------------------------------------------------
(* The leap second. *)

LeapSec(l) ==
  IF date # "leap_day" THEN 0
  ELSE IF l = "LEAP_InsertSecond" THEN 1 ELSE IF l = "LEAP_DeleteSecond" THEN -1 ELSE 0

\* Fault: a leap second that is armed is left alone.
UpdateLeapStatusArmed(l) ==
  /\ our_leap_sec' = LeapSec(l)
  /\ kernel_leap' = IF LeapSec(l) = 0 THEN kernel_leap ELSE LeapSec(l)
  /\ our_leap_status' =
       IF date = "other" /\ l # "LEAP_Unsynchronised" THEN "LEAP_Normal" ELSE l

\* update_leap_status: announcements count in June and December only.
UpdateLeapStatus(l) ==
  /\ our_leap_sec' = LeapSec(l)
  /\ kernel_leap' = IF LeapSec(l) # our_leap_sec THEN LeapSec(l) ELSE kernel_leap
  /\ our_leap_status' =
       IF date = "other" /\ l # "LEAP_Unsynchronised" THEN "LEAP_Normal" ELSE l

-----------------------------------------------------------------------------
(* The fallback drifts. *)

\* The interval an update comes with: 0 for the first, for one at the same time as the last and
\* for one before it.
UpdateInterval == IF updated THEN age ELSE 0

Averaged(interval) == interval <= last_ref_update_interval * 4

\* One average, after a frequency no more than 10 ppm away ("close") or more.
\* The first term of a new average is 0 / 0 when the interval is 0.
AverageOf(i, interval, close, nan) ==
  LET d == fb_drifts[i]
      secs == IF close \/ d.nan \/ nan THEN d.secs ELSE 0
  IN [secs |-> IF secs + interval < HalfSecs(i) THEN secs + interval ELSE HalfSecs(i),
      nan |-> d.nan \/ nan \/ (secs = 0 /\ interval = 0)]

\* Fault: a fallback that was scheduled stays scheduled.
CancelFallbackNot == next_fb_drift' = 0 /\ UNCHANGED timeout

CancelFallback == next_fb_drift' = 0 /\ timeout' = NoTimeout

\* update_fb_drifts, at a new absolute frequency.
UpdateFallbackDrifts(interval, nan) ==
  IF Drifts = {} THEN UNCHANGED <<fb_drifts, next_fb_drift, timeout>>
  ELSE /\ CancelFallback
       /\ IF Averaged(interval)
            THEN \E close \in [Drifts -> BOOLEAN] :
                   fb_drifts' = [i \in Drifts |-> AverageOf(i, interval, close[i], nan)]
            ELSE UNCHANGED fb_drifts

Qualified == {i \in Drifts : fb_drifts[i].secs >= HalfSecs(i)}

TooEarly(i, next) == age < Secs(i) /\ i > next

\* The loop of schedule_fb_drift: the last drift reached, and the one to wait for.
Waiting(next) == {i \in Qualified : TooEarly(i, next)}
Reached(next) == {i \in Qualified : \A j \in Waiting(next) : i < j}
LastReached(next) == Max(Reached(next) \cup {0})

\* schedule_fb_drift when nothing is scheduled, for a clock that runs at the
\* fallback drift "drift" or at none.
Schedule(next, drift, nan) ==
  LET c == LastReached(next) IN
  /\ used' = IF c > next THEN c ELSE drift
  /\ freq_nan' = IF c > next THEN fb_drifts[c].nan ELSE nan
  /\ IF Waiting(next) = {}
       THEN next_fb_drift' = Max({next, c}) /\ timeout' = NoTimeout
       ELSE next_fb_drift' = Min(Waiting(next)) /\ timeout' = Secs(next_fb_drift') - age

\* Fault: the next drift is not scheduled from the timeout.
ScheduleOnce ==
  used' = next_fb_drift /\ timeout' = NoTimeout /\ UNCHANGED <<next_fb_drift, freq_nan>>

\* fb_drift_timeout.
ScheduleNext == Schedule(next_fb_drift, next_fb_drift, fb_drifts[next_fb_drift].nan)

ScheduleFallbackDrift ==
  IF Drifts = {} \/ timeout # NoTimeout
    THEN UNCHANGED <<next_fb_drift, timeout, freq_nan, used>>
    ELSE Schedule(next_fb_drift, used, freq_nan)

-----------------------------------------------------------------------------
(* The limits of the updates. *)

\* maybe_make_step: "step" if the remaining correction is above the threshold.
MaybeMakeStep(step) ==
  /\ step => make_step_limit # 0
  /\ make_step_limit' = IF make_step_limit > 0 THEN make_step_limit - 1 ELSE make_step_limit

\* is_offset_ok, for an offset that is larger than max_offset or not.
OffsetOk(large) == max_offset_delay # 0 \/ ~large
CountOffset ==
  max_offset_delay' = IF max_offset_delay > 0 THEN max_offset_delay - 1 ELSE max_offset_delay

\* Fault: the refusals are not counted.
RefuseUncounted ==
  /\ in_main_loop' = IF max_offset_ignore = 0 THEN "quitting" ELSE in_main_loop
  /\ UNCHANGED <<max_offset_delay, max_offset_ignore>>

Refuse ==
  /\ in_main_loop' = IF max_offset_ignore = 0 THEN "quitting" ELSE in_main_loop
  /\ max_offset_ignore' = IF max_offset_ignore > 0 THEN max_offset_ignore - 1 ELSE max_offset_ignore
  /\ UNCHANGED max_offset_delay

-----------------------------------------------------------------------------
(* The operations. *)

\* REF_SetReference with an offset that is refused.
RefuseReference ==
  /\ in_main_loop # "exited"
  /\ ~OffsetOk(TRUE)
  /\ Refuse
  /\ hist' = [hist EXCEPT !.refused = Count(@, conf.offset_ignore)]
  /\ UNCHANGED <<conf, are_we_synchronised, leap, date, times, fallback, make_step_limit>>

\* REF_SetReference, from a source that announces a leap second or not.
SetReference ==
  /\ in_main_loop # "exited"
  /\ \E l \in LeapStatus \ {"LEAP_Unsynchronised"} : UpdateLeapStatus(l)
  /\ are_we_synchronised' = TRUE
  /\ updated' = TRUE /\ age' = 0 /\ last_ref_update_interval' = UpdateInterval
  /\ instant' = (instant \/ UpdateInterval = 0)
  /\ \E nan \in {FALSE, freq_nan} :
       freq_nan' = nan /\ UpdateFallbackDrifts(UpdateInterval, nan)
  /\ used' = 0
  /\ \E large \in BOOLEAN, step \in BOOLEAN :
       /\ OffsetOk(large) /\ CountOffset
       /\ MaybeMakeStep(step)
       /\ hist' = [hist EXCEPT !.updates = Count(@, conf.make_step),
                               !.references = Count(@, conf.offset_delay),
                               !.stepped = IF step THEN Count(hist.updates, conf.make_step) ELSE @,
                               !.large = IF large THEN Count(hist.references, conf.offset_delay) ELSE @]
  /\ UNCHANGED <<conf, in_main_loop, date, max_offset_ignore>>

\* REF_SetManualReference.
SetManualReference ==
  /\ in_main_loop # "exited" /\ conf.manual
  /\ are_we_synchronised' = FALSE
  /\ \E nan \in {FALSE, freq_nan} : freq_nan' = nan
  /\ used' = 0
  /\ \E step \in BOOLEAN :
       /\ MaybeMakeStep(step)
       /\ hist' = [hist EXCEPT !.updates = Count(@, conf.make_step),
                               !.stepped = IF step THEN Count(hist.updates, conf.make_step) ELSE @]
  /\ UNCHANGED <<conf, in_main_loop, leap, date, times, fb_drifts, next_fb_drift, timeout,
                 max_offset_delay, max_offset_ignore>>

\* REF_SetUnsynchronised.
SetUnsynchronised ==
  /\ in_main_loop # "exited"
  /\ ScheduleFallbackDrift
  /\ UpdateLeapStatus("LEAP_Unsynchronised")
  /\ are_we_synchronised' = FALSE
  /\ UNCHANGED <<conf, in_main_loop, date, times, fb_drifts, limits>>

\* fb_drift_timeout, which calls REF_SetUnsynchronised.
FallbackTimeout ==
  /\ in_main_loop # "exited" /\ timeout = 0
  /\ ScheduleNext
  /\ UpdateLeapStatus("LEAP_Unsynchronised")
  /\ are_we_synchronised' = FALSE
  /\ UNCHANGED <<conf, in_main_loop, date, times, fb_drifts, limits>>

\* handle_slew at a step: last_ref_update moves with the clock.
HandleStep ==
  /\ in_main_loop # "exited"
  /\ updated' = TRUE
  /\ UNCHANGED <<conf, in_main_loop, are_we_synchronised, leap, date, age, last_ref_update_interval,
                 instant, fallback, limits>>

\* A second passes; the timeouts that are due have been dispatched.
SecondPasses ==
  /\ in_main_loop = "yes" /\ timeout # 0
  /\ age < AgeBound \/ age = Forever
  /\ age' = IF age = Forever THEN age ELSE age + 1
  /\ timeout' = IF timeout = NoTimeout THEN timeout ELSE timeout - 1
  /\ UNCHANGED <<conf, in_main_loop, are_we_synchronised, leap, date, updated, last_ref_update_interval,
                 instant, fb_drifts, next_fb_drift, freq_nan, used, limits>>

NewDate ==
  /\ in_main_loop = "yes"
  /\ date' \in Date
  /\ UNCHANGED <<conf, in_main_loop, are_we_synchronised, leap, times, fallback, limits>>

\* REF_Finalise.
Finalise ==
  /\ in_main_loop # "exited" /\ in_main_loop' = "exited"
  /\ kernel_leap' = IF our_leap_sec # 0 THEN 0 ELSE kernel_leap
  /\ UNCHANGED <<conf, are_we_synchronised, our_leap_status, our_leap_sec, date, times, fallback, limits>>

ReferenceNext ==
  \/ RefuseReference \/ SetReference
  \/ SetManualReference \/ SetUnsynchronised
  \/ FallbackTimeout
  \/ HandleStep \/ SecondPasses \/ NewDate
  \/ Finalise

ReferenceSpec == ReferenceInit /\ [][ReferenceNext]_referenceVars

-----------------------------------------------------------------------------
(* Properties. *)

\* A count that starts at a limit: it stops at zero, and no limit stays none.
Within(limit) == IF limit < 0 THEN {limit} ELSE 0 .. limit

ReferenceTypeOK ==
  /\ conf \in Configs
  /\ in_main_loop \in {"yes", "quitting", "exited"}
  /\ {are_we_synchronised, updated, instant, freq_nan} \subseteq BOOLEAN
  /\ our_leap_status \in LeapStatus /\ {our_leap_sec, kernel_leap} \subseteq -1 .. 1
  /\ date \in Date
  /\ {age, last_ref_update_interval} \subseteq 0 .. MaxAge \cup {Forever}
  /\ DOMAIN fb_drifts = Drifts
  /\ \A i \in Drifts : fb_drifts[i].secs \in 0 .. HalfSecs(i) /\ fb_drifts[i].nan \in BOOLEAN
  /\ {next_fb_drift, used} \subseteq {0} \cup Drifts
  /\ timeout \in Nat \cup {NoTimeout}
  /\ make_step_limit \in Within(conf.make_step)
  /\ max_offset_delay \in Within(conf.offset_delay)
  /\ max_offset_ignore \in Within(conf.offset_ignore)

(* Whatever happened since a fallback was scheduled, the assertions of its     *)
(* timeout (reference.c:404) hold: the clock is not synchronised and the drift *)
(* it waits for is a configured one.  The clock runs at a fallback drift only  *)
(* after it has been unsynchronised for as long as the directive asks          *)
(* (chrony.texi:1613), and never while it is synchronised.  And a frequency    *)
(* that is NaN comes from an update with an interval of 0, never from averages *)
(* that were restarted or refused.                                             *)
FallbackSound ==
  /\ timeout # NoTimeout => ~are_we_synchronised /\ next_fb_drift \in Drifts
  /\ used # 0 => ~are_we_synchronised /\ age >= Secs(used)
  /\ freq_nan => instant

(* While the clock is unsynchronised no drift is forgotten: one that qualified *)
(* and has not been reached is still waited for.                               *)
LadderContinues ==
  our_leap_status = "LEAP_Unsynchronised" /\ ~are_we_synchronised =>
    \A i \in Qualified : i > used /\ age < Secs(i) => timeout # NoTimeout /\ next_fb_drift <= i

(* No frequency given to the driver is NaN: "nasty things will happen"         *)
(* (reference.c:702).                                                          *)
FrequencyIsNumber == ~freq_nan

(* makestep and maxchange, over any number of updates: none after the first     *)
(* conf.make_step ones steps the clock, none after conf.offset_delay ones is   *)
(* followed over a large offset, and the exit comes with the refusal after the *)
(* conf.offset_ignore ones to be ignored, not before and not later.            *)
LimitsRespected ==
  /\ conf.make_step >= 0 => hist.stepped <= conf.make_step
  /\ conf.offset_delay >= 0 => hist.large <= conf.offset_delay
  /\ in_main_loop = "quitting" => conf.offset_ignore >= 0 /\ hist.refused > conf.offset_ignore
  /\ conf.offset_ignore >= 0 /\ hist.refused > conf.offset_ignore => in_main_loop # "yes"

(* A leap second armed in the kernel is one the reference still announces, and *)
(* none is left armed at the exit.                                             *)
LeapDisarmed ==
  kernel_leap # 0 =>
    /\ in_main_loop # "exited"
    /\ our_leap_status = IF kernel_leap = 1 THEN "LEAP_InsertSecond" ELSE "LEAP_DeleteSecond"
=============================================================================

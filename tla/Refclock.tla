------------------------------ MODULE Refclock ------------------------------
(***************************************************************************)
(* The reference clocks (refclock.c): samples and pulses are collected in  *)
(* median filters and passed to the sources at the polls.  A pulse says    *)
(* when a second starts but not which: it is aligned to the last sample of *)
(* the clock it is locked to or, without one, to the local clock.          *)
(*                                                                         *)
(* The clock errs by err from true time; offsets are measured from it, so  *)
(* a right offset is -err.  A second has Second units.                     *)
(***************************************************************************)
EXTENDS MedianFilter

CONSTANTS
  Clock,            \* refclocks[], 0 is the first
  FilterLength,     \* of each clock
  Pps,              \* clocks with a pps_rate, here 1
  DriverPolls,      \* of each clock: driver polls in a poll, 0 if it is not polled
  Second,
  Noise,            \* errors of samples, below 4/5 of a second; pulses have none
  Precision,        \* dispersion of a sample
  Elapse,           \* times between two events, not 0
  Steps,            \* changes of the clock
  MaxError,         \* bound: err is within
  Events            \* bound: events

RefclockAssumption ==
  /\ Clock \subseteq Nat /\ 0 \in Clock /\ Pps \subseteq Clock
  /\ FilterLength \in [Clock -> Nat \ {0}] /\ DriverPolls \in [Clock -> Nat]
  /\ Second \in Nat \ {0} /\ Noise \subseteq Int /\ Precision \in Nat
  /\ \A a, b \in Noise : a .. b \subseteq Noise
  /\ \A e \in Noise : 5 * e <= 4 * Second /\ -5 * e <= 4 * Second
  /\ Elapse \subseteq Nat \ {0} /\ Steps \subseteq Int /\ MaxError \in Nat /\ Events \in Nat

VARIABLES
  filter,           \* of each clock
  lock_to,          \* the configured lock: a clock, or -1
  lock_ref,         \* the index it is looked up by
  driver_polled,
  started,
  now, err,         \* the local clock
  passed,           \* history: time of the newest sample passed to each source
  wrong,            \* history: a source was passed a wrong offset
  events            \* bounded

vars == <<filter, lock_to, lock_ref, driver_polled, started, now, err, passed, wrong, events>>

\* RCL_AddRefclock.  lock_ref holds the identifier configured, 0 for none, until
\* RCL_StartRefclocks.  Bound: a clock that is locked gets no pulse before, its
\* lock_ref is no index of a clock.
Init ==
  /\ filter = [c \in Clock |-> New(FilterLength[c])]
  /\ lock_to \in {l \in [Clock -> Clock \cup {-1}] : \A c \in Clock : IF c \in Pps THEN l[c] # c ELSE l[c] = -1}
  /\ lock_ref = [c \in Clock |-> 0]
  /\ driver_polled = [c \in Clock |-> 0]
  /\ started = FALSE /\ now = 0
  /\ err \in {0} \cup Steps
  /\ passed = [c \in Clock |-> <<>>] /\ wrong = FALSE /\ events = 0

\* The errors a sample may have.
Errors(c) == IF c \in Pps THEN {0} ELSE Noise

Absolute(x) == IF x < 0 THEN -x ELSE x

-----------------------------------------------------------------------------
(* What the drivers call, as functions of all filters. *)

Taken(offset, left) == [time |-> now, offset |-> offset, dispersion |-> Precision, left |-> left]

\* RCL_AddSample
AddSample(f, c, noise) == [f EXCEPT ![c] = Add(@, Taken(-err + noise, FALSE))]

\* The offset of a pulse, in half a second around 0.
PulseOffset == LET o == (-err) % Second IN IF 2 * o >= Second THEN o - Second ELSE o

\* To the second that is nearest to the reference; halves go away from 0.
Aligned(offset, ref) ==
  LET d == ref - offset
      n == (2 * Absolute(d) + Second) \div (2 * Second)
  IN offset + Second * (IF d < 0 THEN -n ELSE n)

\* RCL_AddPulse.  near says whether the daemon is synchronised to less than half
\* a second; it drops all pulses when an unlocked clock finds it is not.
AddPulse(f, c, near) ==
  LET r == f[lock_ref[c]]
      ref == LastSample(r)
      offset == Aligned(PulseOffset, ref.offset)
  IN IF lock_ref[c] = -1
     THEN [f EXCEPT ![c] = IF near THEN Add(@, Taken(PulseOffset, FALSE)) ELSE Reset(@)]
     ELSE IF /\ HasLast(r) /\ Absolute(now - ref.time) < 2 * Second
             /\ 5 * (Absolute(ref.offset - offset) + ref.dispersion + Precision) < Second
          THEN [f EXCEPT ![c] = Add(@, Taken(offset, ref.left))]
          ELSE f

\* A source of pulses may be called with samples too; the model's are not.
Received(c) ==
  IF c \in Pps
  THEN {AddPulse(filter, c, near) : near \in {b \in BOOLEAN : b => 2 * Absolute(err) < Second}}
  ELSE {AddSample(filter, c, noise) : noise \in Noise}

-----------------------------------------------------------------------------

Event(dt) == events < Events /\ events' = events + 1 /\ now' = now + dt

\* RCL_StartRefclocks
StartRefclocks ==
  /\ ~started /\ started' = TRUE
  /\ lock_ref' = lock_to
  /\ UNCHANGED <<filter, lock_to, driver_polled, now, err, passed, wrong, events>>

\* A driver that is not polled has read a sample or a pulse (refclock_sock.c).
DriverReads(c, dt) ==
  /\ Event(dt) /\ DriverPolls[c] = 0
  /\ started \/ c \notin Pps \/ lock_to[c] = -1
  /\ filter' \in Received(c)
  /\ driver_polled' = [driver_polled EXCEPT ![c] = IF filter' = filter THEN @ ELSE @ + 1]
  /\ UNCHANGED <<lock_to, lock_ref, started, err, passed, wrong>>

\* poll_timeout with the filters f that the driver has left.
Poll(c, f) ==
  LET polled == driver_polled[c] + IF DriverPolls[c] > 0 THEN 1 ELSE 0
      used == {f[c].samples[i] : i \in Used(f[c])}
  IN IF polled < DriverPolls[c]
     THEN filter' = f /\ driver_polled' = [driver_polled EXCEPT ![c] = polled] /\ UNCHANGED <<passed, wrong>>
     ELSE /\ driver_polled' = [driver_polled EXCEPT ![c] = 0]
          /\ IF Select(f[c]) = <<>> THEN filter' = f /\ UNCHANGED <<passed, wrong>>
             ELSE /\ filter' = [f EXCEPT ![c] = Reset(@)]
                  /\ passed' = [passed EXCEPT ![c] = <<Mean(f[c]).time>>]
                  /\ wrong' = (wrong \/ ((~\E s \in used : s.left) /\ Mean(f[c]).offset + err \notin Errors(c)))

PollTimeout(c, dt) ==
  /\ started /\ Event(dt)
  /\ \E f \in {filter} \cup IF DriverPolls[c] > 0 THEN Received(c) ELSE {} : Poll(c, f)
  /\ UNCHANGED <<lock_to, lock_ref, started, err>>

\* slew_samples, of a change by which the clock goes back doffset.  The register
\* of the source moves what was passed.
SlewSamples(doffset) ==
  /\ Event(-doffset) /\ err' = err - doffset /\ Absolute(err') <= MaxError
  /\ filter' = [c \in Clock |-> Slew(filter[c], doffset)]
  /\ passed' = [c \in Clock |-> [i \in DOMAIN passed[c] |-> passed[c][i] - doffset]]
  /\ UNCHANGED <<lock_to, lock_ref, driver_polled, started, wrong>>

\* add_dispersion
Dispersion(dispersion) ==
  /\ Event(0)
  /\ filter' = [c \in Clock |-> AddDispersion(filter[c], dispersion)]
  /\ UNCHANGED <<lock_to, lock_ref, driver_polled, started, err, passed, wrong>>

Next ==
  \/ StartRefclocks
  \/ \E c \in Clock, dt \in Elapse : DriverReads(c, dt) \/ PollTimeout(c, dt)
  \/ \E d \in Steps : SlewSamples(d)
  \/ Dispersion(1)

Spec == Init /\ [][Next]_vars

-----------------------------------------------------------------------------
(* Properties. *)

\* Every pulse is of the right second and every sample stays what it was when
\* the clock is changed, before the poll and in what is passed to the source.
\* Only what was aligned to a sample that a change left behind (a filter moves
\* the samples it will use, and its last one is still read by other clocks) may
\* be wrong.
RightSecond ==
  /\ \A c \in Clock, i \in 0 .. Events :
       i \in Used(filter[c]) /\ ~filter[c].samples[i].left =>
         filter[c].samples[i].offset + err \in Errors(c)
  /\ ~wrong

\* No sample is passed twice: those in a filter are newer than all that was
\* passed from it, so the source need not forget its samples.
PassedOnce ==
  \A c \in Clock, i \in 0 .. Events :
    i \in Used(filter[c]) /\ passed[c] # <<>> => filter[c].samples[i].time > passed[c][1]
=============================================================================

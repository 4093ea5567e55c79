------------------------------- MODULE Manual -------------------------------
(***************************************************************************)
(* Times entered by the administrator (manual.c): a register of samples;   *)
(* each new one sets the clock, and so does the deletion of one.           *)
(*                                                                         *)
(* The clock is fast by err; an entry is itself wrong by an error of the   *)
(* administrator, so its offset is err - error.  The regression (Regress)  *)
(* gives any offset; frequencies are 0.                                    *)
(***************************************************************************)
EXTENDS Integers, Sequences, SequencesExt, FiniteSetsExt

CONSTANTS
  MAX_SAMPLES,
  Mistakes,         \* errors of the administrator
  Corrections,      \* offsets that other parts of the daemon slew
  MaxError,         \* bound: err is within
  MaxEntries        \* bound: entries and deletions

ManualAssumption ==
  /\ MAX_SAMPLES \in Nat \ {0} /\ MaxError \in Nat
  /\ Mistakes \subseteq Int /\ Corrections \subseteq Int

VARIABLES
  samples,          \* oldest first: offset and, as history, mistake
  enabled,
  err,              \* the clock
  entries           \* bounded

vars == <<samples, enabled, err, entries>>

\* MNL_Initialise
Init == samples = <<>> /\ enabled \in BOOLEAN /\ err = 0 /\ entries = 0

Within(e) == e \in -MaxError .. MaxError

\* slew_samples
Slewed(s, doffset) == [i \in DOMAIN s |-> [s[i] EXCEPT !.offset = @ - doffset]]

\* estimate_and_set_system with the register s: REF_SetManualReference slews the
\* clock, which calls slew_samples before it returns.
SetSystem(s, slew_by) ==
  /\ samples' = Slewed(s, slew_by)
  /\ err' = err - slew_by /\ Within(err')

\* MNL_AcceptTimestamp; a full register loses its oldest sample.
AcceptTimestamp(mistake) ==
  LET kept == IF Len(samples) = MAX_SAMPLES THEN Tail(samples) ELSE samples
      offset == err - mistake
  IN /\ enabled /\ entries < MaxEntries /\ entries' = entries + 1
     /\ SetSystem(Append(kept, [offset |-> offset, mistake |-> mistake]), offset)
     /\ UNCHANGED enabled

\* The offset at the newest sample: none without samples or of a single one, the
\* newest of two, any with more (within the bound).
Intercepts(s) ==
  IF Len(s) < 2 THEN {0} ELSE IF Len(s) = 2 THEN {s[2].offset}
  ELSE {err - e : e \in -MaxError .. MaxError}

\* MNL_DeleteSample
DeleteSample(index) ==
  LET s == RemoveAt(samples, index)
  IN /\ index \in DOMAIN samples /\ entries < MaxEntries /\ entries' = entries + 1
     /\ \E slew_by \in Intercepts(s) : SetSystem(s, slew_by)
     /\ UNCHANGED enabled

\* MNL_Reset
ManualReset == samples' = <<>> /\ UNCHANGED <<enabled, err, entries>>

\* MNL_Enable, MNL_Disable
Enable(on) == enabled' = on /\ UNCHANGED <<samples, err, entries>>

\* Another part of the daemon changes the clock.
Slew(doffset) ==
  /\ err' = err - doffset /\ Within(err')
  /\ samples' = Slewed(samples, doffset)
  /\ UNCHANGED <<enabled, entries>>

Next ==
  \/ \E m \in Mistakes : AcceptTimestamp(m)
  \/ \E i \in 1 .. MAX_SAMPLES : DeleteSample(i)
  \/ ManualReset
  \/ \E on \in BOOLEAN : Enable(on)
  \/ \E d \in Corrections : Slew(d)

\* What the administrator has entered stays what it was while the clock is set by
\* it, and while it is slewed by anything else: the offset of each sample is what
\* the clock was fast by when it was entered, less what it was slewed since.
EntriesHold ==
  /\ Len(samples) <= MAX_SAMPLES
  /\ \A i \in DOMAIN samples : samples[i].offset = err - samples[i].mistake
=============================================================================

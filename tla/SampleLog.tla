----------------------------- MODULE SampleLog -----------------------------
(***************************************************************************)
(* What the sample register of a source promises: a sequence of samples,   *)
(* oldest first, to which newer ones are added, whose oldest are forgotten *)
(* and which moves as a whole when the local clock is stepped.             *)
(***************************************************************************)
EXTENDS Integers, Sequences

CONSTANTS Time, Offset, MaxLength

Sample == [time : Time, offset : Offset]

VARIABLES log, estimate, saved

Init == log = <<>> /\ estimate = <<>> /\ saved = <<>>

Shift(s, d) == [s EXCEPT !.time = @ - d, !.offset = @ - d]

\* The newest parts of a log.
Suffixes(l) == {SubSeq(l, k, Len(l)) : k \in 1 .. Len(l) + 1}
Newest(l) == l[Len(l)]

\* Three samples give an estimate, at the time of the newest.
Estimate(l, before) == IF Len(l) >= 3 THEN <<Newest(l)>> ELSE before

\* The new sample is kept with the newest of the old ones, or alone, and none
\* of them is as new as it is.
Add ==
  /\ log' # <<>> /\ Newest(log') \in Sample
  /\ log' \in Suffixes(Append(log, Newest(log'))) /\ Len(log') <= MaxLength
  /\ Len(log') > 1 => log'[Len(log') - 1].time < Newest(log').time
  /\ estimate' = Estimate(log', estimate) /\ saved' = <<>>

Step(d) ==
  /\ log' = [i \in DOMAIN log |-> Shift(log[i], d)]
  /\ estimate' = [i \in DOMAIN estimate |-> Shift(estimate[i], d)]
  /\ UNCHANGED saved

\* A new log, which may be given what was saved of the last one.
Restart ==
  /\ saved' \in Suffixes(log)
  /\ log' = <<>> /\ estimate' = <<>>
Load ==
  /\ log = <<>> /\ log' \in Suffixes(saved)
  /\ estimate' = Estimate(log', estimate) /\ saved' = <<>>

Next ==
  \/ Add
  \/ \E d \in Offset : Step(d)
  \/ Restart \/ Load

Spec == Init /\ [][Next]_<<log, estimate, saved>>
=============================================================================

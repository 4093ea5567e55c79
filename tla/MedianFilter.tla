---------------------------- MODULE MedianFilter ----------------------------
(***************************************************************************)
(* The median filter of a reference clock (refclock.c): a ring of samples  *)
(* of which those around the median, in the order they came, make one      *)
(* sample for the source.                                                  *)
(*                                                                         *)
(* A filter is a record; each function is an operator.  The regression     *)
(* that finds the dispersion of the result is left out.                    *)
(***************************************************************************)
EXTENDS Integers, Sequences, SequencesExt, FiniteSetsExt

Nothing == [time |-> 0, offset |-> 0, dispersion |-> 0, left |-> FALSE]

\* filter_init.  left is history: a change of the clock left the sample behind.
New(length) ==
  [length |-> length, index |-> -1, used |-> 0, last |-> -1,
   samples |-> [i \in 0 .. length - 1 |-> Nothing]]

\* filter_reset: the samples stay where they are and so does last.
Reset(f) == [f EXCEPT !.index = -1, !.used = 0]

\* filter_add_sample
Add(f, s) ==
  LET i == (f.index + 1) % f.length
  IN [f EXCEPT !.index = i, !.last = i, !.used = Min({@ + 1, f.length}), !.samples[i] = s]

Used(f) == 0 .. f.used - 1

\* filter_get_last_sample has something to return.
HasLast(f) == f.last >= 0
LastSample(f) == f.samples[f.last]

\* What a slew makes of a sample: the offset is measured from the clock.
Slewed(s, doffset) == [s EXCEPT !.time = @ - doffset, !.offset = @ + doffset]

\* Fault: the newest sample is not slewed.
SlewBefore(f, doffset) ==
  [f EXCEPT !.samples = [i \in DOMAIN @ |-> IF i \in 0 .. f.used - 2 THEN Slewed(@[i], doffset) ELSE @[i]]]

\* filter_slew_samples
Slew(f, doffset) ==
  [f EXCEPT !.samples = [i \in DOMAIN @ |->
     IF i \in Used(f) THEN Slewed(@[i], doffset)
     ELSE IF i = f.last THEN [@[i] EXCEPT !.left = TRUE] ELSE @[i]]]

Dispersed(s, dispersion) == [s EXCEPT !.dispersion = @ + dispersion]

\* filter_add_dispersion
AddDispersion(f, dispersion) ==
  [f EXCEPT !.samples = [i \in DOMAIN @ |-> IF i \in Used(f) THEN Dispersed(@[i], dispersion) ELSE @[i]]]

-----------------------------------------------------------------------------
(* filter_select_samples *)

\* Short filters must be full, longer ones hold four samples.
Enough(f) == f.used >= 1 /\ IF f.length < 4 THEN f.used = f.length ELSE f.used >= 4

\* The samples with a dispersion below 1.5 times the least, if these are four.
Good(f) ==
  LET d(i) == f.samples[i].dispersion
      good == {i \in Used(f) : \A k \in Used(f) : 2 * d(i) <= 3 * d(k)}
  IN IF f.used > 4 /\ Cardinality(good) >= 4 THEN good ELSE Used(f)

\* qsort by sample_compare; it may leave equal offsets in any order.
ByOffset(f, S) ==
  LET d(i) == f.samples[i].offset
      before(i) == {k \in S : d(k) < d(i) \/ (d(k) = d(i) /\ k < i)}
  IN [p \in 1 .. Cardinality(S) |-> CHOOSE i \in S : Cardinality(before(i)) = p - 1]

\* The part that is cut off at each end.
From(n) == IF n > 2 THEN Max({1, n \div 5}) ELSE 0

\* What makes a slot the age rank of its sample: the oldest is 0.
ToRank(f) == f.used - f.index - 1

\* Fault: what the slot holds is overwritten.
MoveOver(s) ==
  IF s.rank = -1 \/ s.sel[s.rank] = s.rank THEN s
  ELSE [sel |-> [s.sel EXCEPT ![s.rank] = s.rank], rank |-> -1]

\* The sort in place of ranks among -1s: the rank that is taken up is put into the
\* slot of its number, and what it finds there is taken up.
Move(s) ==
  IF s.rank = -1 \/ s.sel[s.rank] = s.rank THEN s
  ELSE [sel |-> [s.sel EXCEPT ![s.rank] = s.rank], rank |-> s.sel[s.rank]]

\* Begins with the rank in slot i.  A move settles a slot for good: no more moves
\* than slots are made.
Settle(f, sel, i) ==
  LET moved[n \in 0 .. f.used] ==
        IF n = 0 THEN [sel |-> [sel EXCEPT ![i] = -1], rank |-> sel[i]] ELSE Move(moved[n - 1])
  IN moved[f.used].sel

\* The slots of the ranks of a sorted sequence without its ends; -1s for the others.
Ranks(f, sorted) ==
  LET from == From(Len(sorted))
  IN [i \in Used(f) |-> IF i \in from .. Len(sorted) - from - 1 THEN (sorted[i + 1] + ToRank(f)) % f.used ELSE -1]

\* All of them in place.
Settled(f, sorted) ==
  LET from == From(Len(sorted))
      settled[n \in 0 .. Len(sorted) - 2 * from] ==
        IF n = 0 THEN Ranks(f, sorted) ELSE Settle(f, settled[n - 1], from + n - 1)
  IN settled[Len(sorted) - 2 * from]

\* The slots selected, from the oldest sample to the newest.
Select(f) ==
  LET settled == Settled(f, ByOffset(f, Good(f)))
      kept[n \in 0 .. f.used] ==
        IF n = 0 THEN <<>>
        ELSE IF settled[n - 1] = -1 THEN kept[n - 1]
        ELSE Append(kept[n - 1], (settled[n - 1] + f.used - ToRank(f)) % f.used)
  IN IF Enough(f) THEN kept[f.used] ELSE <<>>

\* filter_get_sample of a filter with a selection: the mean of the samples.
Mean(f) ==
  LET sel == Select(f)
      time[n \in 0 .. Len(sel)] == IF n = 0 THEN 0 ELSE time[n - 1] + f.samples[sel[n]].time
      offset[n \in 0 .. Len(sel)] == IF n = 0 THEN 0 ELSE offset[n - 1] + f.samples[sel[n]].offset
  IN [time |-> time[Len(sel)] \div Len(sel), offset |-> offset[Len(sel)] \div Len(sel)]

-----------------------------------------------------------------------------

\* What samples that come in the order of time make of a filter: it is filled from
\* its first slot on and then goes round, and an older sample has an earlier time.
IsFilter(f) ==
  /\ f \in [length : {f.length}, index : -1 .. f.length - 1, used : 0 .. f.length, last : -1 .. f.length - 1,
            samples : [0 .. f.length - 1 -> [time : Int, offset : Int, dispersion : Nat, left : BOOLEAN]]]
  /\ f.length \in Nat \ {0}
  /\ f.index = f.used - 1 \/ (f.used = f.length /\ f.index >= 0)
  /\ \A i, k \in Used(f) :
       (i + ToRank(f)) % f.used < (k + ToRank(f)) % f.used => f.samples[i].time < f.samples[k].time

\* The selection says what the code's comments promise: it is in the order of
\* time, and of the good samples a fifth (or one) is left out at each end: each
\* sample that is selected has as many of them on either side.
SelectionIsMiddle(f) ==
  LET sel == Select(f)
      s == f.samples
      good == Good(f)
      cut == From(Cardinality(good))
      rest == good \ Range(sel)
  IN Enough(f) =>
       /\ Range(sel) \subseteq good /\ Len(sel) = Cardinality(good) - 2 * cut
       /\ \A i \in Range(sel) :
            /\ Cardinality({k \in rest : s[k].offset <= s[i].offset}) >= cut
            /\ Cardinality({k \in rest : s[k].offset >= s[i].offset}) >= cut
       /\ \A i \in 1 .. Len(sel) - 1 : s[sel[i]].time < s[sel[i + 1]].time
=============================================================================

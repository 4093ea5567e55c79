---------------------------- MODULE SourceStats ----------------------------
(***************************************************************************)
(* The register of a source's samples (sourcestats.c): circular buffers of *)
(* two sizes, the indices into them, the samples kept only for the runs    *)
(* test of the regression, and the dump file.                              *)
(*                                                                         *)
(* The regression itself is module Regress; here it drops any number of    *)
(* the oldest samples it is allowed to drop, and its line passes through   *)
(* the newest sample.  Frequencies are 0.                                  *)
(***************************************************************************)
EXTENDS Integers, FiniteSets, Sequences, FiniteSetsExt

CONSTANTS
  MAX_SAMPLES,
  REGRESS_RUNS_RATIO,
  Delay,            \* round trip delays of samples
  Measured,         \* offsets measured
  Gap,              \* times of new samples after the newest one
  Skew,             \* skews a regression may find
  WorstSkew,        \* WORST_CASE_FREQ_BOUND, of a source without a regression
  Steps,            \* steps of the clock
  MaxTime,          \* bound: times of samples are 0 .. MaxTime
  MaxOffset,        \* bound: offsets are -MaxOffset .. MaxOffset
  MaxDispersion     \* bound

MIN_SAMPLES_FOR_REGRESS == 3

RunsSize == MAX_SAMPLES * REGRESS_RUNS_RATIO
Time == 0 .. MaxTime
Offset == -MaxOffset .. MaxOffset

ASSUME StatsAssumption ==
  /\ MAX_SAMPLES \in Nat /\ MAX_SAMPLES >= 3
  /\ REGRESS_RUNS_RATIO \in Nat \ {0}
  /\ Delay \subseteq Nat /\ Measured \subseteq Offset /\ Gap \subseteq Int
  /\ Skew \subseteq Nat /\ WorstSkew \in Nat /\ Steps \subseteq Offset
  /\ MaxTime \in Nat /\ MaxOffset \in Nat /\ MaxDispersion \in Nat

VARIABLES
  n_samples,
  runs_samples,     \* samples before the first, for the runs test only
  last_sample,
  sample,           \* sample_times and offsets
  delays,           \* peer_delays and root_delays, here the same
  dispersions,      \* root_dispersions
  regression_ok,
  skew,
  best_single_sample, min_delay_sample,
  estimate,         \* offset_time and estimated_offset; none before a regression
  file              \* the dump file: its rows, and whether it can be read to its end

vars == <<n_samples, runs_samples, last_sample, sample, delays, dispersions, regression_ok,
          skew, best_single_sample, min_delay_sample, estimate, file>>

NoFile == [rows |-> <<>>, whole |-> FALSE]

\* What a slot outside of the register holds.
Garbage == [time |-> 0, offset |-> 0]
Blank == [i \in 0 .. MAX_SAMPLES - 1 |-> 0]
BlankRuns == [i \in 0 .. RunsSize - 1 |-> Garbage]

\* SST_CreateInstance
Init ==
  /\ n_samples = 0 /\ runs_samples = 0 /\ last_sample = 0
  /\ sample = BlankRuns /\ delays = Blank /\ dispersions = Blank
  /\ regression_ok = FALSE /\ skew = WorstSkew
  /\ best_single_sample = 0 /\ min_delay_sample = 0 /\ estimate = <<>>
  /\ file = NoFile

-----------------------------------------------------------------------------
(* The buffers.  A register is a record of the indices. *)

Register == [n |-> n_samples, runs |-> runs_samples, last |-> last_sample]

\* get_runsbuf_index, get_buf_index: sample i of the register, i >= -runs in
\* the one, i >= 0 in the other.
RunsIndex(r, i) == (r.last + 2 * RunsSize - r.n + i + 1) % RunsSize
BufIndex(r, i) == (r.last + RunsSize - r.n + i + 1) % MAX_SAMPLES

\* prune_register without its last line.
Prune(r, k) ==
  LET n == r.n - k
  IN [r EXCEPT !.n = n, !.runs = Min({r.runs + k, n * (REGRESS_RUNS_RATIO - 1)})]

LeastDelay(r, d) ==
  Min({i \in 0 .. r.n - 1 : \A k \in 0 .. r.n - 1 : d[BufIndex(r, i)] <= d[BufIndex(r, k)]})

\* Fault: the place in the register is taken for the place in the buffer.
MinDelayPlace(r, d) == IF r.n = 0 THEN 0 ELSE LeastDelay(r, d)

\* find_min_delay_sample: the first of the smallest delays.
MinDelayIndex(r, d) == BufIndex(r, IF r.n = 0 THEN 0 ELSE LeastDelay(r, d))

\* SST_AccumulateSample: the oldest sample leaves a full register; all leave
\* when the new one is not newer than the last.
Room(s) ==
  LET r == IF n_samples = MAX_SAMPLES THEN Prune(Register, 1) ELSE Register
  IN IF r.n > 0 /\ sample[r.last].time >= s.time THEN Prune(r, r.n) ELSE r

Accumulated(s) == LET r == Room(s) IN [r EXCEPT !.n = @ + 1, !.last = (@ + 1) % RunsSize]

-----------------------------------------------------------------------------
(* SST_DoNewRegression *)

\* Buffers: samples, delays and dispersions.
Buffers == [sample |-> sample, delays |-> delays, dispersions |-> dispersions]

\* Root distance, twice, of the sample at j of the small buffers.
Distance(b, j, elapsed, sk) == 2 * b.dispersions[j] + 2 * elapsed * sk + b.delays[j]

\* Fault: the times are those of the samples before the dropped ones.
TimesBackStartZero(runs, start) == 0
TimesBackStart(runs, start) == runs + start

\* find_best_sample_index on the register r1 that is left of r; the ages are
\* read at `first` of a table that begins with the runs samples of r.
BestSample(b, r, r1, first, sk) ==
  LET elapsed(i) == b.sample[r.last].time - b.sample[RunsIndex(r, first + i - r.runs)].time
      distance(i) == Distance(b, BufIndex(r1, i), elapsed(i), sk)
  IN Min({i \in 0 .. r1.n - 1 : \A k \in 0 .. r1.n - 1 : distance(i) <= distance(k)})

\* The register and its buffers.  No operation reads what lies outside of the
\* register, so the model keeps nothing there.
Store(b, r) ==
  LET live == {BufIndex(r, i) : i \in 0 .. r.n - 1}
      liveRuns == {RunsIndex(r, i) : i \in -r.runs .. r.n - 1}
  IN /\ n_samples' = r.n /\ runs_samples' = r.runs /\ last_sample' = r.last
     /\ sample' = [i \in DOMAIN sample |-> IF i \in liveRuns THEN b.sample[i] ELSE Garbage]
     /\ delays' = [j \in DOMAIN delays |-> IF j \in live THEN b.delays[j] ELSE 0]
     /\ dispersions' = [j \in DOMAIN dispersions |-> IF j \in live THEN b.dispersions[j] ELSE 0]

\* With buffers b, register r and the smallest delay at m.
DoNewRegression(b, r, m) ==
  IF r.n < MIN_SAMPLES_FOR_REGRESS
  THEN /\ regression_ok' = FALSE /\ skew' = WorstSkew
       /\ Store(b, r) /\ min_delay_sample' = m
       /\ best_single_sample' = IF r.n = 0 THEN best_single_sample ELSE BestSample(b, r, r, 0, WorstSkew)
       /\ UNCHANGED estimate
  ELSE \E start \in 0 .. r.n - MIN_SAMPLES_FOR_REGRESS, sk \in Skew :
         LET r1 == IF start = 0 THEN r ELSE Prune(r, start)
         IN /\ regression_ok' = TRUE /\ skew' = sk
            /\ Store(b, r1)
            /\ min_delay_sample' = IF start = 0 THEN m ELSE MinDelayIndex(r1, b.delays)
            /\ best_single_sample' = BestSample(b, r, r1, TimesBackStart(r.runs, start), sk)
            /\ estimate' = <<b.sample[r.last]>>

-----------------------------------------------------------------------------
(* The operations. *)

\* SRC_AccumulateSample
AccumulateSample(s, delay) ==
  LET r0 == Room(s)
      r == Accumulated(s)
      m == r.last % MAX_SAMPLES
      m0 == IF r0 = Register THEN min_delay_sample ELSE MinDelayIndex(r0, delays)
      b == [sample |-> [sample EXCEPT ![r.last] = s],
            delays |-> [delays EXCEPT ![m] = delay],
            dispersions |-> [dispersions EXCEPT ![m] = 0]]
  IN /\ s.time \in Time
     /\ DoNewRegression(b, r, IF r0.n = 0 \/ delay < b.delays[m0] THEN m ELSE m0)
     /\ file' = NoFile

Moved(s, d) == [s EXCEPT !.time = @ - d, !.offset = @ - d]

\* Fault: the samples of the runs test stay where they are.
SlewedNoRuns == {RunsIndex(Register, i) : i \in 0 .. n_samples - 1}
Slewed == {RunsIndex(Register, i) : i \in -runs_samples .. n_samples - 1}

\* SST_SlewSamples: a step moves the times and the offsets alike.
SlewSamples(d) ==
  /\ n_samples > 0
  /\ sample' = [i \in DOMAIN sample |-> IF i \in Slewed THEN Moved(sample[i], d) ELSE sample[i]]
  /\ estimate' = [i \in DOMAIN estimate |-> Moved(estimate[i], d)]
  /\ \A i \in Slewed : sample'[i].time \in Time /\ sample'[i].offset \in Offset
  /\ \A i \in DOMAIN estimate : estimate'[i].time \in Time /\ estimate'[i].offset \in Offset
  /\ UNCHANGED <<n_samples, runs_samples, last_sample, delays, dispersions, regression_ok, skew,
                 best_single_sample, min_delay_sample, file>>

\* SST_AddDispersion
AddDispersion ==
  LET live == {BufIndex(Register, i) : i \in 0 .. n_samples - 1}
  IN /\ \A j \in live : dispersions[j] < MaxDispersion
     /\ dispersions' = [j \in DOMAIN dispersions |-> dispersions[j] + IF j \in live THEN 1 ELSE 0]
     /\ UNCHANGED <<n_samples, runs_samples, last_sample, sample, delays, regression_ok, skew,
                    best_single_sample, min_delay_sample, estimate, file>>

Row(k) == [s |-> sample[RunsIndex(Register, k)], delay |-> delays[BufIndex(Register, k)],
           dispersion |-> dispersions[BufIndex(Register, k)]]

\* The daemon ends and is started again with a new register.  It may have saved
\* the old one (SST_SaveToFile); a full disk leaves a file that ends early.
Restart ==
  /\ \/ \E whole \in BOOLEAN :
          file' = [rows |-> [k \in 1 .. n_samples |-> Row(k - 1)], whole |-> whole]
     \/ file' = NoFile
  /\ n_samples' = 0 /\ runs_samples' = 0 /\ last_sample' = 0
  /\ sample' = BlankRuns /\ delays' = Blank /\ dispersions' = Blank
  /\ regression_ok' = FALSE /\ skew' = WorstSkew
  /\ best_single_sample' = 0 /\ min_delay_sample' = 0 /\ estimate' = <<>>

LoadedLast(rows) == Len(rows) - 1

\* SST_LoadFromFile into a new register, with the regression of
\* SRC_ReloadSources.  Only the next start of the daemon loads a file: this
\* bounds the model.
Reload ==
  LET rows == file.rows
      r == [n |-> Len(rows), runs |-> 0, last |-> LoadedLast(rows)]
      At(i) == rows[IF i < r.n THEN i + 1 ELSE 1]
      b == [sample |-> [i \in DOMAIN sample |-> At(i).s],
            delays |-> [j \in DOMAIN delays |-> At(j).delay],
            dispersions |-> [j \in DOMAIN dispersions |-> At(j).dispersion]]
  IN /\ n_samples = 0 /\ file.whole
     /\ IF rows = <<>> THEN DoNewRegression(Buffers, r, 0)
        ELSE DoNewRegression(b, r, MinDelayIndex(r, b.delays))
     /\ file' = NoFile

\* SST_LoadFromFile of a file that ends early: the rows before its end were
\* written to the buffers, but outside of the register, which stays empty.
LoadAbandoned ==
  /\ n_samples = 0 /\ file # NoFile /\ ~file.whole
  /\ file' = NoFile
  /\ UNCHANGED <<n_samples, runs_samples, last_sample, sample, delays, dispersions, regression_ok,
                 skew, best_single_sample, min_delay_sample, estimate>>

Newest == IF n_samples = 0 THEN 0 ELSE sample[last_sample].time

Next ==
  \/ \E gap \in Gap, offset \in Measured, delay \in Delay :
       AccumulateSample([time |-> Newest + gap, offset |-> offset], delay)
  \/ \E d \in Steps : SlewSamples(d)
  \/ AddDispersion
  \/ Restart
  \/ Reload \/ LoadAbandoned

Spec == Init /\ [][Next]_vars

-----------------------------------------------------------------------------
SampleAt(i) == sample[RunsIndex(Register, i)]

(* What the rest of the daemon reads. *)

\* SST_GetReferenceData, of the sample that stands for the source.
ReferenceData(now) ==
  LET s == SampleAt(best_single_sample)
      j == BufIndex(Register, best_single_sample)
  IN [offset |-> s.offset, root_delay |-> delays[j],
      root_dispersion |-> dispersions[j] + (now - s.time) * skew]

\* SST_GetSelectionData
SelectionData(now) ==
  LET d == ReferenceData(now)
  IN [offset |-> d.offset, root_delay |-> d.root_delay,
      root_dispersion |-> d.root_dispersion, select_ok |-> regression_ok]

\* SST_GetTrackingData, of a source with an estimate.
TrackingData ==
  LET e == estimate[1] IN [ref_time |-> e.time, average_offset |-> e.offset,
                           root_delay |-> ReferenceData(e.time).root_delay,
                           root_dispersion |-> ReferenceData(e.time).root_dispersion]

\* SST_MinRoundTripDelay, of a register with samples.
MinRoundTripDelay == delays[min_delay_sample]

\* SST_PredictOffset
PredictOffset ==
  IF n_samples < MIN_SAMPLES_FOR_REGRESS
  THEN IF n_samples > 0 THEN sample[last_sample].offset ELSE 0
  ELSE estimate[1].offset

\* SST_DoSourceReport, SST_DoSourcestatsReport: the sample reported as the latest.
Latest == SampleAt(n_samples - 1)

-----------------------------------------------------------------------------
(* Properties. *)

Log == INSTANCE SampleLog WITH
  log <- [i \in 1 .. runs_samples + n_samples |-> SampleAt(i - 1 - runs_samples)],
  saved <- [i \in DOMAIN file.rows |-> file.rows[i].s],
  MaxLength <- RunsSize

\* The register keeps the promise of SampleLog: its samples, those of the runs
\* test included, are the newest ones in the order they came, moved alike by
\* every step; wrapping, pruning and a dump file never mix old ones in.
LogSpec == Log!Spec

\* The round trip delay new samples are measured against is the smallest of the
\* samples in the register.
MinDelayIsLeast ==
  n_samples > 0 => MinRoundTripDelay = Min({delays[BufIndex(Register, i)] : i \in 0 .. n_samples - 1})

\* What the source is selected and tracked by: the sample that stands for it has
\* the least root distance of the register (the ages it was chosen by are those
\* of the samples that are left), and the offset predicted is the newest one,
\* whatever has moved the clock since.
ReadsAreRight ==
  LET now == sample[last_sample].time
      best == SelectionData(now)
  IN n_samples > 0 =>
       /\ best_single_sample < n_samples
       /\ \A i \in 0 .. n_samples - 1 :
            2 * best.root_dispersion + best.root_delay
              <= Distance(Buffers, BufIndex(Register, i), now - SampleAt(i).time, skew)
       /\ PredictOffset = Latest.offset
       /\ best.select_ok => TrackingData.ref_time = Latest.time /\ TrackingData.root_delay = best.root_delay
=============================================================================

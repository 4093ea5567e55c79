---------------------------- MODULE Measurements ----------------------------
(***************************************************************************)
(* What a measurement goes through: the filter of a reference clock, the   *)
(* register of its source, the regression, the scan of the intervals of    *)
(* all sources and the selection of one.  Each of these modules has its    *)
(* own state and is checked on its own: part says which one runs, and the  *)
(* others rest in their first state.                                       *)
(*                                                                         *)
(* The selection is checked twice: with the sources and the registers of   *)
(* reachability of the constants, and of a pair with longer registers.     *)
(***************************************************************************)
EXTENDS SourceStats

CONSTANTS
  Arrays, Points, MAX_POINTS, Incr, Expansions,             \* Regress
  Source, Scanned, Option, Data, REACH_SIZE, stratum_weight, reselect_distance,
  NoMatch, Unsynchronised, ScanOffset,                      \* SourceSelect, IntervalScan
  Pair, PairOption, PAIR_REACH_SIZE,
  Clock, FilterLength, Pps, DriverPolls, Second, Noise, Precision, Elapse,
  ClockSteps, MaxError, Events,                             \* Refclock
  Filters                                                   \* MedianFilter

VARIABLES
  part,
  x, flags, find, x0, asked, reg, slope,
  sources, selected_source_index, sel_option, selectable, reachability, status,
  select_ok, sel_score, reference,
  I, sort_list, depth, best_depth, best_lo, best_hi,
  filter, lock_to, lock_ref, driver_polled, started, now, err, passed, wrong, events,
  full_filter

regressVars == <<x, flags, find, x0, asked, reg, slope>>
selectVars == <<sources, selected_source_index, sel_option, selectable, reachability, status,
                select_ok, sel_score, reference>>
scanVars == <<I, sort_list, depth, best_depth, best_lo, best_hi>>
clockVars == <<filter, lock_to, lock_ref, driver_polled, started, now, err, passed, wrong, events>>
measurementVars == <<part, vars, regressVars, selectVars, scanVars, clockVars, full_filter>>

Clocks == INSTANCE Refclock WITH Steps <- ClockSteps
Reg == INSTANCE Regress
Scan == INSTANCE IntervalScan
Select == INSTANCE SourceSelect WITH regression_ok <- select_ok
SelectPair == INSTANCE SourceSelect WITH
  regression_ok <- select_ok, Source <- Pair, Option <- PairOption, REACH_SIZE <- PAIR_REACH_SIZE

ASSUME MeasurementAssumption ==
  /\ Clocks!RefclockAssumption /\ Scan!OffsetAssumption /\ Reg!RegressAssumption
  /\ \A f \in Filters : Clocks!IsFilter(f)
  /\ Select!DataAssumption /\ Select!OptionAssumption /\ Select!SelectAssumption
  /\ SelectPair!OptionAssumption /\ SelectPair!SelectAssumption

Part == {"statistics", "refclock", "filter", "regression", "scan", "selection", "pair"}

\* The first states of each part; the parts that rest have one.
MeasurementInit ==
  /\ part \in Part
  /\ Init
  /\ IF part = "refclock" THEN Clocks!Init
     ELSE /\ filter = <<>> /\ lock_to = <<>> /\ lock_ref = <<>> /\ driver_polled = <<>> /\ passed = <<>>
          /\ started = FALSE /\ wrong = FALSE /\ now = 0 /\ err = 0 /\ events = 0
  /\ IF part = "filter" THEN full_filter \in Filters ELSE full_filter = <<>>
  /\ IF part = "regression" THEN Reg!Init
     ELSE /\ x = Reg!NoArray /\ x0 = x /\ flags = x /\ asked = <<>>
          /\ find = Reg!NoFind /\ reg = Reg!NoReg /\ slope = Reg!NoSlope
  /\ IF part = "scan" THEN Scan!ScanInit
     ELSE /\ I = <<>> /\ sort_list = {}
          /\ depth = 0 /\ best_depth = 0 /\ best_lo = 0 /\ best_hi = 0
  /\ IF part = "pair" THEN SelectPair!Init ELSE Select!Init

MeasurementNext ==
  /\ UNCHANGED <<part, full_filter>>
  /\ IF part = "statistics" THEN Next ELSE UNCHANGED vars
  /\ IF part = "refclock" THEN Clocks!Next ELSE UNCHANGED clockVars
  /\ IF part = "regression" THEN Reg!Next ELSE UNCHANGED regressVars
  /\ IF part = "scan" THEN Scan!ScanNext ELSE UNCHANGED scanVars
  /\ IF part = "selection" THEN Select!Next
     ELSE IF part = "pair" THEN SelectPair!Next ELSE UNCHANGED selectVars

MeasurementSpec == MeasurementInit /\ [][MeasurementNext]_measurementVars

-----------------------------------------------------------------------------
(* Properties, besides those of SourceStats. *)

\* A pulse is never taken for another second, a sample never passed twice, while
\* clocks are polled in every order around changes of the system clock.
PulsesHold == part = "refclock" => Clocks!RightSecond /\ Clocks!PassedOnce

\* The samples that a filter passes on are those in the middle, in order of time.
MiddleSelected ==
  /\ part = "filter" => Clocks!SelectionIsMiddle(full_filter)
  /\ part = "refclock" => \A c \in Clock : Clocks!SelectionIsMiddle(filter[c])

\* The regression stays within its tables, and its sorting finds what it looks for.
RegressionSound == part = "regression" => Reg!OrderedEntries /\ Reg!RegressionHolds

\* The scan finds the deepest intervals, and some source survives it; and exactly
\* the source selected has the status of it, is fit to be, and is the one that the
\* reference module follows.
SelectionSound ==
  /\ part = "scan" => Scan!ScanFindsDeepest /\ Scan!DeepestSurvive
  /\ part = "selection" => Select!SyncIsSelected /\ Select!ReferenceFollowsSelection
  /\ part = "pair" => SelectPair!SyncIsSelected /\ SelectPair!ReferenceFollowsSelection

\* A step that brings no sample never replaces a source that is a candidate.
NoHopWithoutSample == Select!NoHopWithoutSample /\ SelectPair!NoHopWithoutSample
=============================================================================

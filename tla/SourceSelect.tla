---------------------------- MODULE SourceSelect ----------------------------
(***************************************************************************)
(* The table of sources and the election of the synchronisation source     *)
(* (sources.c): creation and removal of sources with the index of the      *)
(* selected one, reachability and selectability, the passes of             *)
(* SRC_SelectSource, and what it tells the reference module.               *)
(*                                                                         *)
(* The statistics of a source are read afresh at each selection (they age, *)
(* and are slewed, between two of them), so each selection chooses them;   *)
(* whether there are enough samples changes with a new sample only.        *)
(* A score is a level: 2 when it is above SCORE_LIMIT, 1 when it is not.    *)
(* The vote on leap seconds is left out.                                   *)
(***************************************************************************)
EXTENDS Intervals, Sequences, SequencesExt

CONSTANTS
  Source,           \* source instances
  Option,           \* values sel_option may have: "normal", "prefer", "noselect"
  Data,             \* what SST_GetSelectionData may return: an interval and a stratum
  REACH_SIZE,       \* 2 ^ REACH_BITS
  stratum_weight,
  reselect_distance, \* added to the distance of every source here (all are of type NTP)
  NoMatch,          \* match_refid = 0
  Unsynchronised    \* the reference after REF_SetUnsynchronised

DataAssumption == 
  Data \subseteq {d \in [lo : Int, hi : Int, stratum : Nat] : d.lo <= d.hi}
OptionAssumption == "normal" \in Option /\ Option \subseteq {"normal", "prefer", "noselect"}
\* A distance is above zero; the register has one bit at least.
SelectAssumption ==
  /\ stratum_weight \in Nat /\ reselect_distance \in Nat \ {0}
  /\ REACH_SIZE \in Nat \ {0} /\ REACH_SIZE % 2 = 0
  /\ NoMatch \notin Source

INVALID_SOURCE == 0
Level == {1, 2}
Status == {"SRC_OK", "SRC_UNREACHABLE", "SRC_BAD_STATS", "SRC_FALSETICKER",
           "SRC_SELECTABLE", "SRC_SYNC"}

VARIABLES
  sources,          \* the table: a sequence of sources
  selected_source_index, \* an index of it, or INVALID_SOURCE
  sel_option, selectable, reachability, status,  \* fields of each source
  regression_ok,    \* statistics of each source: select_ok of SST_GetSelectionData
  sel_score,        \* level of the score of each source
  reference         \* the source REF_SetReference was last called for, or Unsynchronised

fields == <<sel_option, selectable, reachability, regression_ok>>
elected == <<selected_source_index, status, sel_score, reference>>
vars == <<sources, fields, elected>>

Init ==
  /\ sources = <<>> /\ selected_source_index = INVALID_SOURCE
  /\ sel_option = [s \in Source |-> "normal"]
  /\ selectable = [s \in Source |-> FALSE]
  /\ reachability = [s \in Source |-> 0]
  /\ regression_ok = [s \in Source |-> FALSE]
  /\ status = [s \in Source |-> "SRC_BAD_STATS"]
  /\ sel_score = [s \in Source |-> 1]
  /\ reference = Unsynchronised

-----------------------------------------------------------------------------
(* SRC_SelectSource, on the table and the fields the caller leaves. *)

Known == Range(sources)

\* Step 1: the sources that are looked at.
Looked == {s \in Known : selectable'[s] /\ reachability'[s] # 0 /\ sel_option[s] # "noselect"}

MaxReach(S) == Max({reachability'[s] : s \in S})

\* With no source selected, a source whose first samples are still to come is
\* waited for.
MustWait(cur, looked, ok) ==
  /\ looked # ok /\ ok # {} /\ cur = INVALID_SOURCE
  /\ MaxReach(ok) \div 2 = MaxReach(looked \ ok)

\* Statuses when the sources in good are candidates and those in bad are not.
Statuses(looked, ok, good, bad) ==
  [s \in Source |-> IF s \notin Known THEN status[s]
                    ELSE IF s \in good THEN "SRC_SELECTABLE"
                    ELSE IF s \in bad THEN "SRC_FALSETICKER"
                    ELSE IF s \notin looked THEN "SRC_UNREACHABLE"
                    ELSE IF s \in ok THEN "SRC_OK" ELSE "SRC_BAD_STATS"]

\* The minimum stratum is that of the preferred candidates, if there are any.
MinStratum(info, good) ==
  LET preferred == {s \in good : sel_option[s] = "prefer"} IN
  Min({info[s].stratum : s \in IF preferred # {} THEN preferred ELSE good})

\* The distance of a source as the selected one leaves out reselect_distance.
SelDistance(info, min_stratum, s) ==
  (info[s].hi - info[s].lo) \div 2 + (info[s].stratum - min_stratum) * stratum_weight
Distance(info, min_stratum, s) == SelDistance(info, min_stratum, s) + reselect_distance

\* The levels a score may have after it is multiplied by num / den; a distance
\* below zero is that of a stratum better than the preferred sources have.
Scaled(level, num, den) ==
  LET abs(x) == IF x < 0 THEN -x ELSE x IN
  IF (num < 0) # (den < 0) \/ num = 0 THEN {1}
  ELSE IF abs(num) < abs(den) THEN {1, level}
  ELSE IF abs(num) = abs(den) THEN {level} ELSE {level, 2}

\* Fault: scores are not limited to pairs where one source has a new sample.
ScoreMovesAlways(match, s, sel) == TRUE

\* Only a new sample of one of the pair moves a score.
ScoreMoves(match, s, sel) == match \in {s, sel}

\* Scores against the selected source; the others are reset.
NewScores(cur, match, info, good) ==
  LET min == MinStratum(info, good)
      num == SelDistance(info, min, sources[cur])
      levels == [s \in good |-> IF ~ScoreMoves(match, s, sources[cur]) THEN {sel_score[s]}
                                ELSE Scaled(sel_score[s], num, Distance(info, min, s))]
  IN {[s \in Source |-> IF s \in good THEN f[s] ELSE 1] :
        f \in {g \in [good -> Level] : \A s \in good : g[s] \in levels[s]}}

\* Indices that may have the maximum score.  The selected source had the maximum
\* of those above the limit, and a score that does not move does not overtake it.
MaxScoreIndices(cur, match, f, good) ==
  LET idx == {i \in 1 .. Len(sources) : sources[i] \in good}
      top == Max({f[s] : s \in good})
      behind(i) == /\ sources[cur] \in good /\ f[sources[cur]] = top
                   /\ i # cur /\ ~ScoreMoves(match, sources[i], sources[cur])
  IN {i \in idx : f[sources[i]] = top /\ ~behind(i)}

\* With no source selected: the first with the least distance, where a distance
\* below zero is never least.
NearestIndices(info, good) ==
  LET min == MinStratum(info, good)
      at(i) == Distance(info, min, sources[i])
      idx == {i \in 1 .. Len(sources) : sources[i] \in good /\ at(i) > 0}
  IN {Min({i \in idx : \A j \in idx : at(i) <= at(j)})}

-----------------------------------------------------------------------------
\* What a selection leaves: index, statuses, scores and the reference.
Outcome(sel, st, sc, ref) == [sel |-> sel, status |-> st, score |-> sc, ref |-> ref]

\* No source can be selected: REF_SetUnsynchronised unless none was on entry.
Lost(cur, st) ==
  Outcome(INVALID_SOURCE, st, sel_score, IF cur = INVALID_SOURCE THEN reference ELSE Unsynchronised)

\* Fault: a newly elected source is followed from its next sample only.
FollowedOnSample(cur, i, match) == IF match = sources[i] THEN sources[i] ELSE reference

\* The reference is updated for a newly elected source or a new sample of the selected one.
Followed(cur, i, match) == IF i # cur \/ match = sources[i] THEN sources[i] ELSE reference

\* The candidates have statuses st; a source is elected, and all scores reset,
\* or the selected one is kept.
Elect(cur, match, info, good, st) ==
  LET select(i, f) == Outcome(i, [st EXCEPT ![sources[i]] = "SRC_SYNC"], f, Followed(cur, i, match))
      elect(i) == select(i, [s \in Source |-> 1])
      replaced(i, f) == sources[cur] \notin good \/ (i # cur /\ f[sources[i]] = 2)
  IN IF cur = INVALID_SOURCE THEN {elect(i) : i \in NearestIndices(info, good)}
     ELSE UNION {{IF replaced(i, f) THEN elect(i) ELSE select(cur, f) :
                    i \in MaxScoreIndices(cur, match, f, good)} :
                 f \in NewScores(cur, match, info, good)}

SelectAmong(cur, match, info, looked, ok) ==
  LET J == [s \in ok |-> info[s]]
      good == Admissible(J, BestLo(J), BestHi(J))
  IN IF Majority(BestDepth(J), Cardinality(ok))
       THEN Elect(cur, match, info, good, Statuses(looked, ok, good, ok \ good))
       ELSE {Lost(cur, Statuses(looked, ok, {}, Known))}

\* The outcomes of SRC_SelectSource(match) when cur is the selected index.  A
\* selected source that is not looked at keeps the data of an earlier selection.
SelectSource(cur, match) ==
  LET looked == Looked
      ok == {s \in looked : regression_ok'[s]}
      read == ok \cup (IF cur = INVALID_SOURCE THEN {} ELSE {sources[cur]})
      st == Statuses(looked, ok, {}, {})
  IN IF sources = <<>> THEN {Lost(cur, status)}
     ELSE IF MustWait(cur, looked, ok) THEN {Outcome(cur, st, sel_score, reference)}
     ELSE IF ok = {} THEN {Lost(cur, st)}
     ELSE UNION {SelectAmong(cur, match, info, looked, ok) : info \in [read -> Data]}

Becomes(o) ==
  /\ selected_source_index' = o.sel
  /\ status' = o.status
  /\ sel_score' = o.score
  /\ reference' = o.ref

IsSelected(s) ==
  selected_source_index # INVALID_SOURCE /\ sources[selected_source_index] = s

\* A change of the fields of s, followed by a selection if s is the selected source.
ReselectIfSelected(s) ==
  IF IsSelected(s)
    THEN \E o \in SelectSource(selected_source_index, NoMatch) : Becomes(o)
    ELSE UNCHANGED elected

-----------------------------------------------------------------------------
(* Operations. *)

SRC_CreateNewInstance(s, option) ==
  /\ s \notin Known
  /\ sel_option' = [sel_option EXCEPT ![s] = option]
  /\ sources' = Append(sources, s)
  /\ selectable' = [selectable EXCEPT ![s] = FALSE]
  /\ reachability' = [reachability EXCEPT ![s] = 0]
  /\ regression_ok' = [regression_ok EXCEPT ![s] = FALSE]
  /\ status' = [status EXCEPT ![s] = "SRC_BAD_STATS"]
  /\ sel_score' = [sel_score EXCEPT ![s] = 1]
  /\ UNCHANGED <<selected_source_index, reference>>

SRC_SetSelectable(s) ==
  /\ s \in Known
  /\ selectable' = [selectable EXCEPT ![s] = TRUE]
  /\ UNCHANGED <<sources, sel_option, reachability, regression_ok, elected>>

SRC_UnsetSelectable(s) ==
  /\ s \in Known
  /\ selectable' = [selectable EXCEPT ![s] = FALSE]
  /\ UNCHANGED <<sources, sel_option, reachability, regression_ok>>
  /\ ReselectIfSelected(s)

SRC_UpdateReachability(s, reachable) ==
  /\ s \in Known
  /\ reachability' = [reachability EXCEPT ![s] = (2 * @ + reachable) % REACH_SIZE]
  /\ UNCHANGED <<sources, sel_option, selectable, regression_ok>>
  /\ IF reachable = 0 THEN ReselectIfSelected(s) ELSE UNCHANGED elected

\* The selected index after the source at index dead has left the table.
IndexWithout(sel, dead) == IF sel > dead THEN sel - 1 ELSE sel

\* SRC_UnsetSelectable on the source, then its removal; its fields are reset.
SRC_DestroyInstance(s) ==
  /\ s \in Known
  /\ sel_option' = [sel_option EXCEPT ![s] = "normal"]
  /\ selectable' = [selectable EXCEPT ![s] = FALSE]
  /\ reachability' = [reachability EXCEPT ![s] = 0]
  /\ regression_ok' = [regression_ok EXCEPT ![s] = FALSE]
  /\ \E dead \in 1 .. Len(sources),
        o \in IF IsSelected(s) THEN SelectSource(selected_source_index, NoMatch)
              ELSE {Outcome(selected_source_index, status, sel_score, reference)} :
       /\ sources[dead] = s
       /\ sources' = RemoveAt(sources, dead)
       /\ Becomes(Outcome(IndexWithout(o.sel, dead), [o.status EXCEPT ![s] = "SRC_BAD_STATS"],
                          [o.score EXCEPT ![s] = 1], o.ref))

\* A new sample of s, which may be the one that gives it usable statistics or,
\* out of order, discards them; the selection it triggers.
SRC_AccumulateSample(s) ==
  /\ s \in Known
  /\ \E ok \in BOOLEAN : regression_ok' = [regression_ok EXCEPT ![s] = ok]
  /\ UNCHANGED <<sources, sel_option, selectable, reachability>>
  /\ \E o \in SelectSource(selected_source_index, s) : Becomes(o)

SRC_ReselectSource ==
  /\ UNCHANGED <<sources, fields>>
  /\ \E o \in SelectSource(INVALID_SOURCE, NoMatch) : Becomes(o)

\* The samples dumped by an earlier run are loaded once, before any source answers.
SRC_ReloadSources ==
  /\ \A s \in Known : reachability[s] = 0
  /\ \E S \in SUBSET Known : regression_ok' = [s \in Source |-> s \in S]
  /\ UNCHANGED <<sources, sel_option, selectable, reachability, elected>>

Next ==
  \/ \E s \in Source :
       \/ \E option \in Option : SRC_CreateNewInstance(s, option)
       \/ SRC_DestroyInstance(s)
       \/ SRC_SetSelectable(s)
       \/ SRC_UnsetSelectable(s)
       \/ \E reachable \in {0, 1} : SRC_UpdateReachability(s, reachable)
       \/ SRC_AccumulateSample(s)
  \/ SRC_ReselectSource
  \/ SRC_ReloadSources

Spec == Init /\ [][Next]_vars

-----------------------------------------------------------------------------
(* Properties. *)

\* Exactly the selected source has the status SRC_SYNC, and it is one that may
\* be selected: whatever is created, destroyed (which moves the index), marked
\* or lost around it, the selected source is in the table, selectable,
\* reachable and not a noselect source.
SyncIsSelected ==
  /\ \A s \in Source : status[s] = "SRC_SYNC" <=> IsSelected(s)
  /\ \A s \in Source : IsSelected(s) =>
       selectable[s] /\ reachability[s] # 0 /\ sel_option[s] # "noselect"

\* While a source is selected, the reference module follows that source and no
\* other: no index that slides over to another source, no election that
\* REF_SetReference is not told of.
ReferenceFollowsSelection ==
  selected_source_index # INVALID_SOURCE => reference = sources[selected_source_index]

\* A step that brings no sample and is no reselection, one that changes the
\* table or what is known of the reachability of a source, does not make chronyd
\* hop from one good source to another: the selected source is kept while it is
\* a candidate.
NoHopWithoutSample ==
  [][<<sources, selectable, reachability>>' # <<sources, selectable, reachability>> =>
       \A s \in Source : IsSelected(s) => status'[s] # "SRC_SELECTABLE"]_vars

\* What the documentation of prefer says: the source elected when none was
\* selected is a preferred one if a preferred one is a candidate.
PreferHonoured ==
  [][selected_source_index = INVALID_SOURCE /\ selected_source_index' # INVALID_SOURCE
       /\ sel_option[sources'[selected_source_index']] # "prefer" =>
     \A s \in Source : sel_option[s] = "prefer" => status'[s] # "SRC_SELECTABLE"]_vars
=============================================================================

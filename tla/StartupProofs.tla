---------------------------- MODULE StartupProofs ----------------------------
(***************************************************************************)
(* Proofs about the two steps of a start: about Acquire, for every number  *)
(* of servers, of probes and of samples and every kind of network, and     *)
(* about RtcLinux as Startup runs it, for every way to start, all faults   *)
(* and all sizes of its arrays; and about Reference, which comes after     *)
(* them: for any configurations, whatever the order of references, losses  *)
(* of synchronisation, settime, steps, leap seconds and seconds that pass. *)
(***************************************************************************)
EXTENDS Startup, Reference, FiniteSetTheorems, WellFoundedInduction, TLAPS

-----------------------------------------------------------------------------
(* The inductive invariant of the acquisition. *)

\* The timer flag of a server says whether its timeout is queued, and the next
\* server is waited for until all have been started.
TimersQueued ==
  /\ \A s \in Server : timer_running[s] <=> s \in queue
  /\ Start \in queue <=> n_started < n_sources

\* Nothing has happened to a server that was not started.
Untouched(s) == s \notin queue /\ s \notin unanswered /\ n_samples[s] = 0 /\ stale[s] = 0
NotStarted == \A s \in Server : s > n_started => Untouched(s)

\* The end comes when the count of finished servers is complete.
EndsWhenComplete == hook_calls = IF n_completed = n_sources THEN 1 ELSE 0

\* The servers started that no timeout is queued for.
Quiet == {s \in Server : s <= n_started /\ s \notin queue}

SilentOrDone(s) ==
  Finished(n_samples[s], n_total_samples[s]) \/ n_dead_probes[s] = MAX_DEAD_PROBES

\* When every answer is timely these are the finished ones, each counted once.
QuietCounted ==
  network = "timely" =>
    /\ n_completed = Cardinality(Quiet)
    /\ \A s \in Quiet : SilentOrDone(s)

\* An answer that may still be accepted finds room for its sample.
RoomLeft ==
  network # "duplicating" =>
    \A s \in Server :
      /\ n_samples[s] <= N_GOOD_SAMPLES
      /\ s \in unanswered \/ s \in queue => n_samples[s] < N_GOOD_SAMPLES

IInv == TypeOK /\ TimersQueued /\ NotStarted /\ EndsWhenComplete /\ QuietCounted /\ RoomLeft

-----------------------------------------------------------------------------
(* Lemmas. *)

LEMMA ServerFinite == IsFiniteSet(Server) /\ Cardinality(Server) = n_sources
BY CountAssumption, FS_Interval DEF Server

\* The servers counted when the count is complete are all of them.
LEMMA AllQuiet ==
  ASSUME TypeOK, Cardinality(Quiet) = n_sources PROVE Quiet = Server
BY ServerFinite, FS_Subset DEF Quiet

LEMMA QuietFinite == IsFiniteSet(Quiet) /\ Cardinality(Quiet) \in Nat
BY ServerFinite, FS_Subset, FS_CardinalityType DEF Quiet

\* A server whose last timeout is gone joins the quiet ones.
LEMMA OneMoreQuiet ==
  ASSUME NEW s \in Server, s \in queue, s <= n_started,
         queue' = queue \ {s}, n_started' = n_started
  PROVE  /\ Quiet' = Quiet \cup {s}
         /\ Cardinality(Quiet') = Cardinality(Quiet) + 1
<1>1. Quiet' = Quiet \cup {s} BY DEF Quiet
<1>2. s \notin Quiet BY DEF Quiet
<1> QED BY <1>1, <1>2, QuietFinite, FS_AddElement

\* The effect of the end of one server on the invariant of the end.
LEMMA CompleteEnds ==
  ASSUME TypeOK, EndsWhenComplete, Probing,
         n_completed' = n_completed + 1,
         hook_calls' = IF Last(n_completed') THEN hook_calls + 1 ELSE hook_calls
  PROVE  /\ EndsWhenComplete'
         /\ n_completed' \in 0 .. n_sources /\ hook_calls' \in 0 .. 1
BY CountAssumption DEF TypeOK, EndsWhenComplete, Probing, Last

-----------------------------------------------------------------------------
(* The invariant holds initially and is preserved by every step. *)

LEMMA InitIInv == Init => IInv
<1> SUFFICES ASSUME Init PROVE IInv OBVIOUS
<1> USE CountAssumption DEF Init
<1>1. TypeOK BY DEF TypeOK, Server, Start
<1>2. TimersQueued
  <2>1. ASSUME NEW s \in Server PROVE timer_running[s] <=> s \in queue
    <3>1. s # Start BY DEF Server, Start
    <3>2. timer_running[s] <=> s = 1 BY Zenon
    <3> QED BY <3>1, <3>2
  <2>2. Start \in queue <=> n_started < n_sources BY DEF Start
  <2> QED BY <2>1, <2>2 DEF TimersQueued
<1>3. NotStarted
  <2> SUFFICES ASSUME NEW s \in Server, s > n_started
               PROVE Untouched(s)
    BY DEF NotStarted
  <2>1. s # 1 /\ s # Start BY DEF Server, Start
  <2> QED BY <2>1 DEF Untouched
<1>4. EndsWhenComplete BY DEF EndsWhenComplete
<1>5. QuietCounted
  <2>1. Quiet = {} BY DEF Quiet, Server, Start
  <2> QED BY <2>1, FS_EmptySet DEF QuietCounted
<1>6. RoomLeft BY DEF RoomLeft, Server, Start
<1> QED BY <1>1, <1>2, <1>3, <1>4, <1>5, <1>6 DEF IInv

LEMMA StartSourceIInv == IInv /\ StartSource => IInv'
<1> SUFFICES ASSUME IInv, StartSource PROVE IInv' OBVIOUS
<1> DEFINE s == n_started + 1
<1>1. /\ n_started < n_sources /\ s \in Server /\ n_started' = s
      /\ s \notin queue /\ n_samples[s] = 0
  BY CountAssumption DEF IInv, TypeOK, TimersQueued, NotStarted, Untouched, StartSource, StartNext, Probing, Server, Start
<1>2. /\ queue' = (queue \ {Start}) \cup {s} \cup (IF s < n_sources THEN {Start} ELSE {})
      /\ n_dead_probes' = [n_dead_probes EXCEPT ![s] = 1]
      /\ timer_running' = [timer_running EXCEPT ![s] = TRUE]
      /\ unanswered' = unanswered \cup {s}
      /\ UNCHANGED <<network, n_completed, n_samples, n_total_samples, stale, hook_calls>>
  BY <1>1 DEF StartSource, StartNext, Probe
<1>3. TypeOK'
  <2>1. timer_running' \in [Server -> BOOLEAN] BY <1>1, <1>2, Zenon DEF IInv, TypeOK
  <2> QED BY <2>1, <1>1, <1>2, CountAssumption DEF IInv, TypeOK, Server, Start
<1>4. TimersQueued'
  <2>1. Start \in queue' <=> n_started' < n_sources BY <1>1, <1>2 DEF Server, Start
  <2>2. ASSUME NEW t \in Server PROVE timer_running'[t] <=> t \in queue'
    BY <1>1, <1>2 DEF IInv, TypeOK, TimersQueued, Server, Start
  <2> QED BY <2>1, <2>2 DEF TimersQueued
<1>5. NotStarted' BY <1>1, <1>2 DEF IInv, TypeOK, NotStarted, Untouched, Server, Start
<1>6. EndsWhenComplete' BY <1>2 DEF IInv, EndsWhenComplete
<1>7. QuietCounted'
  <2>1. Quiet' = Quiet BY <1>1, <1>2 DEF Quiet, IInv, TypeOK, NotStarted, Untouched, Server, Start
  <2>2. s \notin Quiet BY <1>1 DEF Quiet, IInv, TypeOK, Server
  <2> QED BY <1>1, <1>2, <2>1, <2>2 DEF IInv, TypeOK, QuietCounted, SilentOrDone, Quiet
<1>8. RoomLeft' BY <1>1, <1>2, CountAssumption DEF IInv, TypeOK, RoomLeft, Server, Start
<1> QED BY <1>3, <1>4, <1>5, <1>6, <1>7, <1>8 DEF IInv

\* A server whose timeout was due is probed again.
LEMMA ProbeAgainIInv ==
  ASSUME IInv, NEW s \in Server, TransmitTimeout(s), n_dead_probes[s] < MAX_DEAD_PROBES
  PROVE  IInv'
<1>1. s \in queue /\ s <= n_started BY DEF IInv, TypeOK, NotStarted, Untouched, TransmitTimeout, Server
<1>2. /\ queue' = queue
      /\ n_dead_probes' = [n_dead_probes EXCEPT ![s] = n_dead_probes[s] + 1]
      /\ timer_running' = [timer_running EXCEPT ![s] = TRUE]
      /\ unanswered' = unanswered \cup {s}
      /\ stale' = [stale EXCEPT ![s] = Outstanding(s)]
      /\ UNCHANGED <<network, n_started, n_completed, n_samples, n_total_samples, hook_calls>>
  BY <1>1 DEF TransmitTimeout, Probe
<1>3. TypeOK'
  <2>1. timer_running' \in [Server -> BOOLEAN] BY <1>2, Zenon DEF IInv, TypeOK
  <2>2. stale' \in [Server -> Nat] BY <1>2 DEF IInv, TypeOK, Outstanding
  <2> QED BY <2>1, <2>2, <1>2, CountAssumption DEF IInv, TypeOK
<1>4. TimersQueued' BY <1>1, <1>2 DEF IInv, TypeOK, TimersQueued
<1>5. NotStarted' BY <1>1, <1>2 DEF IInv, TypeOK, NotStarted, Untouched, Server
<1>6. EndsWhenComplete' BY <1>2 DEF IInv, EndsWhenComplete
<1>7. QuietCounted'
  <2>1. Quiet' = Quiet /\ s \notin Quiet BY <1>1, <1>2 DEF Quiet
  <2> QED BY <1>2, <2>1 DEF IInv, TypeOK, QuietCounted, SilentOrDone, Quiet
<1>8. RoomLeft' BY <1>1, <1>2 DEF IInv, TypeOK, RoomLeft
<1> QED BY <1>3, <1>4, <1>5, <1>6, <1>7, <1>8 DEF IInv

\* A server that has not answered its last probe either is finished.
LEMMA GiveUpIInv ==
  ASSUME IInv, NEW s \in Server, TransmitTimeout(s), ~(n_dead_probes[s] < MAX_DEAD_PROBES)
  PROVE  IInv'
<1>1. s \in queue /\ s <= n_started BY DEF IInv, TypeOK, NotStarted, Untouched, TransmitTimeout, Server
<1>2. /\ n_completed' = n_completed + 1
      /\ hook_calls' = IF Last(n_completed') THEN hook_calls + 1 ELSE hook_calls
      /\ queue' = queue \ {s}
      /\ timer_running' = [timer_running EXCEPT ![s] = FALSE]
      /\ n_dead_probes' = [n_dead_probes EXCEPT ![s] = n_dead_probes[s]]
      /\ UNCHANGED <<network, n_started, n_samples, n_total_samples, unanswered, stale>>
  BY <1>1 DEF TransmitTimeout, Complete
<1>3. EndsWhenComplete' /\ n_completed' \in 0 .. n_sources /\ hook_calls' \in 0 .. 1
  BY <1>2, CompleteEnds DEF IInv, TransmitTimeout
<1>4. n_dead_probes' = n_dead_probes /\ n_dead_probes[s] = MAX_DEAD_PROBES
  BY <1>2, CountAssumption DEF IInv, TypeOK
<1>5. TypeOK'
  <2>1. timer_running' \in [Server -> BOOLEAN] BY <1>2, Zenon DEF IInv, TypeOK
  <2> QED BY <2>1, <1>2, <1>3, <1>4 DEF IInv, TypeOK
<1>6. TimersQueued' BY <1>2 DEF IInv, TypeOK, TimersQueued, Server, Start
<1>7. NotStarted' BY <1>2 DEF IInv, NotStarted, Untouched
<1>8. QuietCounted'
  <2>1. Quiet' = Quiet \cup {s} /\ Cardinality(Quiet') = Cardinality(Quiet) + 1
    BY <1>1, <1>2, OneMoreQuiet
  <2> QED BY <1>2, <1>4, <2>1 DEF IInv, QuietCounted, SilentOrDone
<1>9. RoomLeft' BY <1>2 DEF IInv, RoomLeft
<1> QED BY <1>3, <1>5, <1>6, <1>7, <1>8, <1>9 DEF IInv

-----------------------------------------------------------------------------
(* An answer. *)

\* What an answer does besides what follows from the number of samples.
LEMMA AnswerCounts ==
  ASSUME IInv, NEW s \in Server, NEW last \in BOOLEAN, NEW sane \in BOOLEAN,
         ReadFromSocket(s, last, sane)
  PROVE  /\ Cancel(s) = queue \ {s}
         /\ n_samples' \in [Server -> Nat] /\ n_total_samples' \in [Server -> Nat]
         /\ \A t \in Server \ {s} :
              n_samples'[t] = n_samples[t] /\ n_total_samples'[t] = n_total_samples[t]
         /\ network' = network /\ n_started' = n_started
         /\ network = "timely" => s \in queue
<1>1. Cancel(s) = queue \ {s} BY DEF Cancel, IInv, TimersQueued
<1>2. n_samples' \in [Server -> Nat] /\ n_total_samples' \in [Server -> Nat]
  BY DEF ReadFromSocket, Sampled, IInv, TypeOK
<1>3. network = "timely" => s \in queue BY DEF ReadFromSocket, IInv, TimersQueued
<1> QED BY <1>1, <1>2, <1>3 DEF ReadFromSocket, IInv, TypeOK

\* The samples and the answers outstanding after an answer.
LEMMA AnswerRoom ==
  ASSUME IInv, NEW s \in Server, NEW last \in BOOLEAN, NEW sane \in BOOLEAN,
         ReadFromSocket(s, last, sane), network # "duplicating"
  PROVE  /\ n_samples'[s] <= N_GOOD_SAMPLES
         /\ s \in Unanswered(s, last) => n_samples'[s] < N_GOOD_SAMPLES
<1>1. n_samples'[s] = n_samples[s] + IF last /\ sane THEN 1 ELSE 0
  BY DEF ReadFromSocket, Sampled, IInv, TypeOK
<1>2. Unanswered(s, last) = IF last THEN unanswered \ {s} ELSE unanswered
  BY DEF Unanswered
<1>3. last => s \in unanswered BY DEF ReadFromSocket
<1> QED BY <1>1, <1>2, <1>3, CountAssumption DEF IInv, TypeOK, RoomLeft

LEMMA AnswerStarted ==
  ASSUME IInv, NEW s \in Server, NEW last \in BOOLEAN, NEW sane \in BOOLEAN,
         ReadFromSocket(s, last, sane)
  PROVE  s <= n_started /\ Stale(s, last) \in Nat
<1>1. s \in unanswered \/ stale[s] > 0 BY DEF ReadFromSocket
<1>2. s <= n_started BY <1>1 DEF IInv, TypeOK, NotStarted, Untouched, Server
<1>3. last \/ stale[s] > 0 BY DEF ReadFromSocket
<1> QED BY <1>2, <1>3 DEF Stale, IInv, TypeOK

\* An answer that is not the last one needed: the next probe leaves at once.
LEMMA AnswerProbeIInv ==
  ASSUME IInv, NEW s \in Server, NEW last \in BOOLEAN, NEW sane \in BOOLEAN,
         ReadFromSocket(s, last, sane), ~Finished(n_samples'[s], n_total_samples'[s])
  PROVE  IInv'
<1> DEFINE more == Stale(s, last) + IF s \in Unanswered(s, last) THEN 1 ELSE 0
<1>0. more \in Nat BY AnswerStarted
<1> HIDE DEF more
<1>1. /\ queue' = (queue \ {s}) \cup {s}
      /\ n_dead_probes' = [n_dead_probes EXCEPT ![s] = 1]
      /\ timer_running' = [timer_running EXCEPT ![s] = TRUE]
      /\ unanswered' = unanswered \cup {s}
      /\ stale' = [stale EXCEPT ![s] = more]
      /\ UNCHANGED <<network, n_started, n_completed, hook_calls>>
  <2>1. /\ Probe(s, Cancel(s), 0) /\ unanswered' = unanswered \cup {s}
        /\ stale' = [stale EXCEPT ![s] = more]
        /\ UNCHANGED <<network, n_started, n_completed, hook_calls>>
    BY Zenon DEF ReadFromSocket, more
  <2>2. Cancel(s) = queue \ {s} /\ 0 + 1 = 1 BY AnswerCounts
  <2> QED BY <2>1, <2>2, Zenon DEF Probe
<1>2. s <= n_started BY AnswerStarted
<1>3. TypeOK'
  <2>1. timer_running' \in [Server -> BOOLEAN] BY <1>1, Zenon DEF IInv, TypeOK
  <2>2. stale' \in [Server -> Nat] BY <1>0, <1>1 DEF IInv, TypeOK
  <2>3. n_dead_probes' \in [Server -> 0 .. MAX_DEAD_PROBES]
    BY <1>1, CountAssumption DEF IInv, TypeOK
  <2> QED BY <2>1, <2>2, <2>3, <1>1, AnswerCounts DEF IInv, TypeOK
<1>4. TimersQueued' BY <1>1 DEF IInv, TypeOK, TimersQueued, Server, Start
<1>5. NotStarted'
  <2> SUFFICES ASSUME NEW t \in Server, t > n_started PROVE Untouched(t)'
    BY <1>1 DEF NotStarted
  <2>1. t # s BY <1>2, AnswerCounts DEF IInv, TypeOK, Server
  <2> QED BY <1>1, <2>1, AnswerCounts DEF IInv, TypeOK, NotStarted, Untouched
<1>6. EndsWhenComplete' BY <1>1 DEF IInv, EndsWhenComplete
<1>7. QuietCounted'
  <2> SUFFICES ASSUME network = "timely" PROVE QuietCounted' BY <1>1 DEF QuietCounted
  <2>1. s \in queue BY AnswerCounts
  <2>2. Quiet' = Quiet /\ s \notin Quiet BY <1>1, <2>1 DEF Quiet
  <2>3. ASSUME NEW t \in Quiet PROVE SilentOrDone(t)'
    BY <1>1, <2>2, AnswerCounts DEF IInv, TypeOK, QuietCounted, SilentOrDone, Quiet
  <2> QED BY <1>1, <2>2, <2>3 DEF IInv, QuietCounted
<1>8. RoomLeft'
  <2> SUFFICES ASSUME network # "duplicating", NEW t \in Server
               PROVE  /\ n_samples'[t] <= N_GOOD_SAMPLES
                      /\ t \in unanswered' \/ t \in queue' => n_samples'[t] < N_GOOD_SAMPLES
    BY <1>1 DEF RoomLeft
  <2>1. CASE t = s BY <2>1, AnswerCounts, CountAssumption DEF Finished
  <2>2. CASE t # s BY <2>2, <1>1, AnswerCounts DEF IInv, RoomLeft
  <2> QED BY <2>1, <2>2
<1> QED BY <1>3, <1>4, <1>5, <1>6, <1>7, <1>8 DEF IInv

\* The last answer needed, or the last of those a server is given a chance for.
LEMMA AnswerCompleteIInv ==
  ASSUME IInv, NEW s \in Server, NEW last \in BOOLEAN, NEW sane \in BOOLEAN,
         ReadFromSocket(s, last, sane), Finished(n_samples'[s], n_total_samples'[s])
  PROVE  IInv'
<1>1. /\ n_completed' = n_completed + 1
      /\ hook_calls' = IF Last(n_completed') THEN hook_calls + 1 ELSE hook_calls
      /\ queue' = queue \ {s}
      /\ timer_running' = [timer_running EXCEPT ![s] = FALSE]
      /\ n_dead_probes' = [n_dead_probes EXCEPT ![s] = 0]
      /\ unanswered' = Unanswered(s, last)
      /\ stale' = [stale EXCEPT ![s] = Stale(s, last)]
      /\ UNCHANGED <<network, n_started>>
  BY AnswerCounts DEF ReadFromSocket, Complete
<1>2. s <= n_started /\ unanswered' \subseteq unanswered
  BY <1>1, AnswerStarted DEF Unanswered
<1>3. EndsWhenComplete' /\ n_completed' \in 0 .. n_sources /\ hook_calls' \in 0 .. 1
  BY <1>1, CompleteEnds DEF IInv, ReadFromSocket
<1>4. TypeOK'
  <2>1. timer_running' \in [Server -> BOOLEAN] BY <1>1, Zenon DEF IInv, TypeOK
  <2>2. stale' \in [Server -> Nat] BY <1>1, AnswerStarted DEF IInv, TypeOK
  <2>3. n_dead_probes' \in [Server -> 0 .. MAX_DEAD_PROBES]
    BY <1>1, CountAssumption DEF IInv, TypeOK
  <2> QED BY <2>1, <2>2, <2>3, <1>1, <1>2, <1>3, AnswerCounts DEF IInv, TypeOK
<1>5. TimersQueued' BY <1>1 DEF IInv, TypeOK, TimersQueued, Server, Start
<1>6. NotStarted'
  <2> SUFFICES ASSUME NEW t \in Server, t > n_started PROVE Untouched(t)'
    BY <1>1 DEF NotStarted
  <2>1. t # s BY <1>2 DEF IInv, TypeOK, Server
  <2> QED BY <1>1, <1>2, <2>1, AnswerCounts DEF IInv, TypeOK, NotStarted, Untouched
<1>7. QuietCounted'
  <2> SUFFICES ASSUME network = "timely" PROVE QuietCounted' BY <1>1 DEF QuietCounted
  <2>1. s \in queue BY AnswerCounts
  <2>2. Quiet' = Quiet \cup {s} /\ Cardinality(Quiet') = Cardinality(Quiet) + 1
    BY <1>1, <1>2, <2>1, OneMoreQuiet
  <2>3. s \notin Quiet BY <2>1 DEF Quiet
  <2>4. ASSUME NEW t \in Quiet PROVE SilentOrDone(t)'
    BY <1>1, <2>3, AnswerCounts DEF IInv, TypeOK, QuietCounted, SilentOrDone, Quiet
  <2>5. SilentOrDone(s)' BY DEF SilentOrDone
  <2> QED BY <1>1, <2>2, <2>4, <2>5 DEF IInv, QuietCounted
<1>8. RoomLeft'
  <2> SUFFICES ASSUME network # "duplicating", NEW t \in Server
               PROVE  /\ n_samples'[t] <= N_GOOD_SAMPLES
                      /\ t \in unanswered' \/ t \in queue' => n_samples'[t] < N_GOOD_SAMPLES
    BY <1>1 DEF RoomLeft
  <2>1. CASE t = s BY <2>1, <1>1, AnswerRoom
  <2>2. CASE t # s BY <2>2, <1>1, <1>2, AnswerCounts DEF IInv, RoomLeft
  <2> QED BY <2>1, <2>2
<1> QED BY <1>3, <1>4, <1>5, <1>6, <1>7, <1>8 DEF IInv

LEMMA NextIInv == IInv /\ [Next]_vars => IInv'
<1> SUFFICES ASSUME IInv, [Next]_vars PROVE IInv' OBVIOUS
<1>1. CASE StartSource BY <1>1, StartSourceIInv
<1>2. ASSUME NEW s \in Server, TransmitTimeout(s) PROVE IInv'
  BY <1>2, ProbeAgainIInv, GiveUpIInv
<1>3. ASSUME NEW s \in Server, NEW last \in BOOLEAN, NEW sane \in BOOLEAN,
             ReadFromSocket(s, last, sane)
      PROVE  IInv'
  BY <1>3, AnswerProbeIInv, AnswerCompleteIInv
<1>4. CASE UNCHANGED vars
  BY <1>4 DEF vars, counts, IInv, TypeOK, TimersQueued, NotStarted, Untouched,
              EndsWhenComplete, QuietCounted, Quiet, SilentOrDone, RoomLeft
<1> QED BY <1>1, <1>2, <1>3, <1>4 DEF Next, Timeout

LEMMA IInvHolds == Spec => []IInv
BY InitIInv, NextIInv, PTL DEF Spec

-----------------------------------------------------------------------------
(* Theorems. *)

\* Every count and flag of the acquisition keeps its type; more servers are
\* never counted as finished than there are.
THEOREM TypeCorrect == Spec => []TypeOK
<1>1. IInv => TypeOK BY DEF IInv
<1> QED BY <1>1, IInvHolds, PTL

\* Nothing is queued for the records, and no server left out, when timely
\* answers have completed the acquisition (wind_up_acquisition).
THEOREM NothingLeft == Spec => []NothingDangling
<1>1. IInv => NothingDangling
  <2> SUFFICES ASSUME IInv, network = "timely", ~Probing
               PROVE  /\ queue = {} /\ n_started = n_sources
                      /\ \A s \in Server : SilentOrDone(s)
    BY DEF NothingDangling, SilentOrDone
  <2>1. n_completed = n_sources BY DEF IInv, EndsWhenComplete, Probing
  <2>2. Quiet = Server BY <2>1, AllQuiet DEF IInv, QuietCounted
  <2>3. \A s \in Server : s <= n_started /\ s \notin queue /\ SilentOrDone(s)
    BY <2>2 DEF IInv, QuietCounted, Quiet
  <2>4. n_sources \in Server BY CountAssumption DEF Server
  <2>5. n_started = n_sources BY <2>3, <2>4, CountAssumption DEF IInv, TypeOK, Server
  <2> QED BY <2>3, <2>5, CountAssumption DEF IInv, TypeOK, TimersQueued
<1> QED BY <1>1, IInvHolds, PTL

\* The arrays of samples are large enough for every server, late answers or
\* not, as long as none is duplicated (process_receive).
THEOREM SamplesBounded == Spec => []SamplesFit
<1>1. IInv => SamplesFit BY DEF IInv, RoomLeft, SamplesFit
<1> QED BY <1>1, IInvHolds, PTL

-----------------------------------------------------------------------------
(* The real time clock: the inductive invariant. *)

MeasType == [uie : BOOLEAN, skip : 0 .. 1, timeout_running : BOOLEAN, timeout_id : TimeoutID,
             queued : SUBSET TimeoutID, refused : BOOLEAN, refusals : Nat]

RtcTypeOK ==
  /\ start \in Rtc!Start /\ fd \in BOOLEAN /\ meas \in MeasType
  /\ rtc_samples \in -1 .. MAX_RTC_SAMPLES /\ n_samples_since_regression \in Nat
  /\ rtc_hook_calls \in Nat

\* Nothing is measured and nothing known of the RTC.
NotMeasuring ==
  /\ meas.queued = {} /\ ~meas.timeout_running /\ ~meas.uie
  /\ ~far /\ ~coefs_valid /\ operating_mode = "OM_NORMAL"

\* So it is before the start, and while a daemon started without -s waits for its servers.
QuietBefore ==
  /\ running = "no" => NotMeasuring /\ rtc_hook_calls = 0 /\ ~acquiring /\ ~sources_started
  /\ acquiring => start.step /\ ~sources_started /\ (~start.rtc => NotMeasuring)

\* Only a start with -s takes an initial trim, and goes on after it.
TrimAsked == operating_mode = "OM_INITIAL" => start.rtc /\ ~acquiring /\ ~sources_started

\* A start with -s and initstepslew, or a device that refused to turn the interrupt off, takes
\* more than one measurement at a time.
Alone == ~(start.rtc /\ start.step) /\ meas.refusals = 0

\* While the interrupt is on no timeout is queued.
OneAtATime == Alone /\ meas.uie => meas.queued = {}

\* What takes measurements does not multiply: timeouts, and the interrupt while it is on or may be
\* turned on by a command.
Fits(m, n) ==
  /\ IsFiniteSet(m.queued)
  /\ m.timeout_running => m.timeout_id \in m.queued
  /\ Cardinality(m.queued) + (IF m.uie \/ ~m.timeout_running THEN 1 ELSE 0) <= n + m.refusals

\* The end of the acquisition adds a measurement to the one that follows the initial trim.
Most == IF start.rtc /\ start.step /\ sources_started THEN 2 ELSE 1

RtcIInv ==
  /\ RtcTypeOK /\ QuietBefore /\ TrimAsked /\ OneAtATime /\ Fits(meas, Most)
  /\ Rtc!HookOnce /\ Rtc!NeverStalls /\ Rtc!OneMeasurementTimer

-----------------------------------------------------------------------------
(* The interrupt and the timeout. *)

\* Two records of the measurements that agree on the timeouts.
SameTimeouts(x, m) ==
  /\ x.queued = m.queued /\ x.timeout_running = m.timeout_running /\ x.timeout_id = m.timeout_id

LEMMA SwitchOnIs ==
  ASSUME NEW m \in MeasType, NEW open \in BOOLEAN, NEW x \in Rtc!SwitchOn(m, open)
  PROVE  /\ x \in MeasType /\ SameTimeouts(x, m) /\ x.refusals = m.refusals
         /\ m.uie => x.uie
         /\ open /\ ~x.refused => x.uie
<1>1. CASE x = m /\ ~open
  BY <1>1 DEF SameTimeouts
<1>2. CASE x = [m EXCEPT !.uie = TRUE, !.skip = 1, !.refused = FALSE]
  <2> DEFINE on == TRUE
             one == 1
             off == FALSE
  <2>1. on \in BOOLEAN /\ one \in 0 .. 1 /\ off \in BOOLEAN /\ (on <=> TRUE)
    OBVIOUS
  <2>2. x = [m EXCEPT !.uie = on, !.skip = one, !.refused = off]
    BY <1>2
  <2> HIDE DEF on, one, off
  <2>3. x \in MeasType
    BY <2>1, <2>2 DEF MeasType
  <2>4. SameTimeouts(x, m) /\ x.refusals = m.refusals /\ x.uie = on
    BY <2>2 DEF MeasType, SameTimeouts
  <2> QED BY <2>1, <2>3, <2>4
<1>3. CASE x = [m EXCEPT !.refused = TRUE]
  <2> DEFINE on == TRUE
  <2>1. on \in BOOLEAN /\ (on <=> TRUE) /\ x = [m EXCEPT !.refused = on]
    BY <1>3
  <2> HIDE DEF on
  <2>2. x \in MeasType
    BY <2>1 DEF MeasType
  <2>3. SameTimeouts(x, m) /\ x.refusals = m.refusals /\ x.uie = m.uie /\ x.refused = on
    BY <2>1 DEF MeasType, SameTimeouts
  <2> QED BY <2>1, <2>2, <2>3
<1> QED BY <1>1, <1>2, <1>3 DEF Rtc!SwitchOn

LEMMA SwitchOnFits ==
  ASSUME NEW m \in MeasType, NEW open \in BOOLEAN, NEW x \in Rtc!SwitchOn(m, open), NEW n \in Nat,
         Fits(m, n), m.uie \/ ~m.timeout_running
  PROVE  Fits(x, n)
BY SwitchOnIs DEF Fits, SameTimeouts

LEMMA StartMeasurementsIs ==
  ASSUME NEW m \in MeasType, NEW open \in BOOLEAN, NEW x \in Rtc!StartMeasurements(m, open)
  PROVE  /\ x \in MeasType /\ x.queued = m.queued /\ ~x.timeout_running /\ x.refusals = m.refusals
         /\ m.uie => x.uie
         /\ open /\ ~x.refused => x.uie
<1> DEFINE y == [m EXCEPT !.timeout_running = FALSE]
<1>1. /\ y \in MeasType /\ y.queued = m.queued /\ ~y.timeout_running /\ y.refusals = m.refusals
      /\ m.uie => y.uie
  BY DEF MeasType
<1>2. x \in Rtc!SwitchOn(y, open)
  BY DEF Rtc!StartMeasurements
<1> HIDE DEF y
<1> QED BY <1>1, <1>2, SwitchOnIs DEF SameTimeouts

LEMMA StartMeasurementsFits ==
  ASSUME NEW m \in MeasType, NEW open \in BOOLEAN, NEW x \in Rtc!StartMeasurements(m, open), NEW n \in Nat,
         Fits(m, n)
  PROVE  Fits(x, n + 1) /\ (m.uie \/ ~m.timeout_running => Fits(x, n))
<1>1. Cardinality(m.queued) \in Nat
  BY FS_CardinalityType DEF Fits
<1>2. m.refusals \in Nat /\ x.refusals = m.refusals /\ x.queued = m.queued /\ ~x.timeout_running
  BY StartMeasurementsIs DEF MeasType
<1> QED BY <1>1, <1>2 DEF Fits

\* The record of the measurements with the timeout dispatched.
Dispatched(m, id) == [m EXCEPT !.queued = @ \ {id}, !.timeout_running = FALSE]

LEMMA DispatchIs ==
  ASSUME NEW m \in MeasType, NEW open \in BOOLEAN, NEW id \in m.queued,
         NEW x \in Rtc!SwitchOn(Dispatched(m, id), open), NEW n \in Nat, Fits(m, n)
  PROVE  /\ x \in MeasType /\ x.queued = m.queued \ {id} /\ ~x.timeout_running
         /\ x.refusals = m.refusals
         /\ open /\ ~x.refused => x.uie
         /\ Fits(x, n)
<1> DEFINE y == Dispatched(m, id)
<1>1. /\ y \in MeasType /\ y.queued = m.queued \ {id} /\ ~y.timeout_running
      /\ y.refusals = m.refusals
  BY DEF MeasType, Dispatched
<1>2. x \in Rtc!SwitchOn(y, open)
  OBVIOUS
<1>3. Fits(y, n)
  <2> HIDE DEF y
  <2>1. IsFiniteSet(m.queued) /\ Cardinality(m.queued) <= n + m.refusals
    <3>1. Cardinality(m.queued) \in Nat /\ m.refusals \in Nat
      BY FS_CardinalityType DEF Fits, MeasType
    <3> QED BY <3>1 DEF Fits
  <2>2. /\ IsFiniteSet(y.queued) /\ Cardinality(y.queued) = Cardinality(m.queued) - 1
        /\ Cardinality(m.queued) \in Nat
    BY <1>1, <2>1, FS_RemoveElement, FS_CardinalityType
  <2>3. m.refusals \in Nat
    BY DEF MeasType
  <2> QED BY <1>1, <2>1, <2>2, <2>3 DEF Fits
<1> HIDE DEF y
<1> QED BY <1>1, <1>2, <1>3, SwitchOnIs, SwitchOnFits DEF SameTimeouts

LEMMA SwitchOffIs ==
  ASSUME NEW m \in MeasType, NEW x \in Rtc!SwitchOff(m)
  PROVE  /\ x \in MeasType /\ SameTimeouts(x, m)
         /\ \/ ~x.uie /\ x.refusals = m.refusals
            \/ x.refusals = m.refusals + 1
<1>1. CASE x = [m EXCEPT !.uie = FALSE]
  <2> DEFINE off == FALSE
  <2>1. off \in BOOLEAN /\ ~off /\ x = [m EXCEPT !.uie = off]
    BY <1>1
  <2> HIDE DEF off
  <2>2. x \in MeasType /\ SameTimeouts(x, m) /\ x.uie = off /\ x.refusals = m.refusals
    BY <2>1 DEF MeasType, SameTimeouts
  <2> QED BY <2>1, <2>2
<1>2. CASE x = [m EXCEPT !.refusals = m.refusals + 1]
  <2> DEFINE more == m.refusals + 1
  <2>1. more \in Nat /\ x = [m EXCEPT !.refusals = more]
    BY <1>2 DEF MeasType
  <2>2. x.refusals = more
    BY <2>1 DEF MeasType
  <2> HIDE DEF more
  <2>3. x \in MeasType /\ SameTimeouts(x, m)
    BY <2>1 DEF MeasType, SameTimeouts
  <2> QED BY <2>2, <2>3 DEF more
<1> QED BY <1>1, <1>2 DEF Rtc!SwitchOff

LEMMA RequeueIs ==
  ASSUME NEW m \in MeasType, NEW id \in TimeoutID, NEW x \in Rtc!Requeue(m, id)
  PROVE  /\ x \in MeasType /\ x.queued = m.queued \cup {id} /\ x.timeout_running /\ x.timeout_id = id
         /\ \/ ~x.uie /\ x.refusals = m.refusals
            \/ x.refusals = m.refusals + 1
<1>1. PICK y \in Rtc!SwitchOff(m) :
        x = [y EXCEPT !.timeout_running = TRUE, !.timeout_id = id, !.queued = @ \cup {id}, !.refused = FALSE]
  BY DEF Rtc!Requeue
<1>2. /\ y \in MeasType /\ SameTimeouts(y, m)
      /\ \/ ~y.uie /\ y.refusals = m.refusals
         \/ y.refusals = m.refusals + 1
  BY SwitchOffIs
<1>3. x.queued = y.queued \cup {id} /\ x.uie = y.uie /\ x.timeout_running /\ x.timeout_id = id
      /\ x.refusals = y.refusals
  BY <1>1, <1>2 DEF MeasType
<1>4. x \in MeasType
  BY <1>1, <1>2 DEF MeasType
<1> QED BY <1>2, <1>3, <1>4 DEF SameTimeouts

LEMMA RequeueFits ==
  ASSUME NEW m \in MeasType, NEW id \in TimeoutID, NEW x \in Rtc!Requeue(m, id), NEW n \in Nat,
         Fits(m, n), m.uie
  PROVE  Fits(x, n)
<1>1. /\ x.queued = m.queued \cup {id} /\ x.timeout_running /\ x.timeout_id = id
      /\ \/ ~x.uie /\ x.refusals = m.refusals
         \/ x.refusals = m.refusals + 1
  BY RequeueIs
<1>2. /\ IsFiniteSet(m.queued) /\ Cardinality(m.queued) \in Nat /\ m.refusals \in Nat
      /\ Cardinality(m.queued) + 1 <= n + m.refusals
  BY FS_CardinalityType DEF Fits, MeasType
<1>3. /\ IsFiniteSet(x.queued) /\ Cardinality(x.queued) \in Nat
      /\ Cardinality(x.queued) <= Cardinality(m.queued) + 1
  <2>1. /\ IsFiniteSet(m.queued \cup {id})
        /\ Cardinality(m.queued \cup {id}) = IF id \in m.queued THEN Cardinality(m.queued) ELSE Cardinality(m.queued) + 1
    BY <1>2, FS_AddElement, Zenon
  <2>2. x.queued = m.queued \cup {id}
    BY <1>1
  <2>3. IsFiniteSet(x.queued) /\ Cardinality(x.queued) = IF id \in m.queued THEN Cardinality(m.queued) ELSE Cardinality(m.queued) + 1
    BY <2>1, <2>2, Zenon
  <2> QED BY <1>2, <2>3
<1>4. Cardinality(x.queued) + (IF x.uie \/ ~x.timeout_running THEN 1 ELSE 0) <= n + x.refusals
  BY <1>1, <1>2, <1>3
<1> QED BY <1>1, <1>3, <1>4 DEF Fits

LEMMA CancelTimeoutIs ==
  ASSUME NEW m \in MeasType
  PROVE  LET x == Rtc!CancelTimeout(m)
         IN /\ x \in MeasType /\ x.timeout_running = FALSE /\ x.uie = m.uie
            /\ x.refusals = m.refusals /\ x.refused = m.refused
            /\ x.queued = IF m.timeout_running THEN m.queued \ {m.timeout_id} ELSE m.queued
BY DEF Rtc!CancelTimeout, MeasType

LEMMA CancelTimeoutFits ==
  ASSUME NEW m \in MeasType, NEW n \in Nat, Fits(m, n)
  PROVE  Fits(Rtc!CancelTimeout(m), n)
<1> DEFINE x == Rtc!CancelTimeout(m)
<1>1. /\ x.timeout_running = FALSE /\ x.uie = m.uie /\ x.refusals = m.refusals /\ m.refusals \in Nat
      /\ x.queued = IF m.timeout_running THEN m.queued \ {m.timeout_id} ELSE m.queued
  BY CancelTimeoutIs DEF MeasType
<1> SUFFICES Fits(x, n)
  OBVIOUS
<1> HIDE DEF x
<1>2. IsFiniteSet(m.queued) /\ Cardinality(m.queued) \in Nat
  BY FS_CardinalityType DEF Fits
<1>3. CASE m.timeout_running
  <2>1. /\ m.timeout_id \in m.queued
        /\ IsFiniteSet(x.queued) /\ Cardinality(x.queued) = Cardinality(m.queued) - 1
    BY <1>1, <1>2, <1>3, FS_RemoveElement DEF Fits
  <2>2. Cardinality(m.queued) <= n + m.refusals
    BY <1>1, <1>2 DEF Fits
  <2> QED BY <1>1, <1>2, <1>3, <2>1, <2>2 DEF Fits
<1>4. CASE ~m.timeout_running
  BY <1>1, <1>2, <1>4 DEF Fits
<1> QED BY <1>3, <1>4

LEMMA RtcConstants ==
  /\ Starts \subseteq Rtc!Start /\ MIN_SAMPLES_FOR_REGRESS \in Nat
  /\ INITIAL_SAMPLES \in Nat /\ MAX_RTC_SAMPLES \in Nat /\ NEW_FIRST_WHEN_FULL \in Nat
  /\ 2 <= INITIAL_SAMPLES /\ INITIAL_SAMPLES <= MAX_RTC_SAMPLES
  /\ 0 < NEW_FIRST_WHEN_FULL /\ NEW_FIRST_WHEN_FULL < MAX_RTC_SAMPLES
BY RtcAssumption DEF Rtc!StartsAssumption, Rtc!SamplesAssumption

LEMMA AccumulatedFits ==
  ASSUME RtcTypeOK
  PROVE  Rtc!Accumulated \in 0 .. MAX_RTC_SAMPLES /\ Rtc!Counted \in Nat
BY RtcConstants DEF RtcTypeOK, Rtc!Accumulated, Rtc!Counted

LEMMA LeftFits ==
  ASSUME NEW n \in 0 .. MAX_RTC_SAMPLES
  PROVE  Rtc!Left(n) \subseteq -1 .. MAX_RTC_SAMPLES
BY RtcConstants DEF Rtc!Left

-----------------------------------------------------------------------------
(* The start and the timeouts. *)

LEMMA EmptyFits ==
  ASSUME NEW m, m.queued = {}, ~m.timeout_running, m.refusals \in Nat, NEW n \in Nat \ {0}
  PROVE  Fits(m, n)
<1>1. IsFiniteSet(m.queued) /\ Cardinality(m.queued) = 0
  BY FS_EmptySet
<1> QED BY <1>1 DEF Fits

LEMMA MostIs == Most \in Nat \ {0}
BY DEF Most

LEMMA RtcInitStep == Rtc!Init => RtcIInv
<1> SUFFICES ASSUME Rtc!Init PROVE RtcIInv
  OBVIOUS
<1>1. PICK id \in TimeoutID :
        meas = [uie |-> FALSE, skip |-> 0, timeout_running |-> FALSE, timeout_id |-> id, queued |-> {},
                refused |-> FALSE, refusals |-> 0]
  BY DEF Rtc!Init
<1>2. meas \in MeasType /\ NotMeasuring
  BY <1>1 DEF Rtc!Init, MeasType, NotMeasuring
<1>5. Fits(meas, Most)
  <2>1. Most = 1
    BY DEF Rtc!Init, Most
  <2>2. meas.queued = {} /\ ~meas.timeout_running /\ meas.refusals = 0
    BY <1>1
  <2> QED BY <2>1, <2>2, EmptyFits
<1>3. RtcTypeOK
  <2>1. fd \in BOOLEAN
    BY Zenon DEF Rtc!Init
  <2>2. start \in Rtc!Start
    BY RtcConstants DEF Rtc!Init
  <2>3. rtc_samples = 0 /\ n_samples_since_regression = 0 /\ rtc_hook_calls = 0
    BY Zenon DEF Rtc!Init
  <2> QED BY <1>2, <2>1, <2>2, <2>3, RtcConstants DEF RtcTypeOK
<1>4. Rtc!HookOnce
  BY DEF Rtc!Init, Rtc!HookOnce
<1> QED BY <1>2, <1>3, <1>4, <1>5 DEF Rtc!Init, RtcIInv, QuietBefore, TrimAsked, OneAtATime,
        Rtc!NeverStalls, Rtc!OneMeasurementTimer, NotMeasuring

LEMMA MainStep ==
  ASSUME RtcIInv, Rtc!Main
  PROVE  RtcIInv'
<1>1. /\ RtcTypeOK /\ NotMeasuring /\ rtc_hook_calls = 0 /\ ~acquiring /\ ~sources_started
      /\ start' = start /\ running' = "yes" /\ UNCHANGED <<rtc_samples, n_samples_since_regression, coefs_valid, far>>
  BY DEF RtcIInv, QuietBefore, Rtc!Main, Rtc!samples
<1>2. PICK open \in BOOLEAN :
       /\ fd' = open
       /\ IF start.rtc /\ open
            THEN /\ operating_mode' = "OM_INITIAL"
                 /\ meas' \in Rtc!SwitchOn(meas, open)
                 /\ UNCHANGED <<rtc_hook_calls, acquiring, sources_started>>
            ELSE /\ acquiring' = start.step /\ sources_started' = ~start.step
                 /\ meas' \in IF start.step THEN {meas} ELSE Rtc!StartMeasurements(meas, open)
                 /\ rtc_hook_calls' = IF start.rtc THEN 1 ELSE 0
                 /\ operating_mode' = operating_mode
  <2>1. {TRUE} \cup (IF "open" \in Faults THEN {FALSE} ELSE {}) \subseteq BOOLEAN
    BY Zenon
  <2>2. PICK open \in {TRUE} \cup (IF "open" \in Faults THEN {FALSE} ELSE {}) :
       /\ fd' = open
       /\ IF start.rtc /\ open
            THEN /\ operating_mode' = "OM_INITIAL"
                 /\ meas' \in Rtc!SwitchOn(meas, open)
                 /\ UNCHANGED Rtc!startup
            ELSE /\ Rtc!Hook
                 /\ meas' \in Rtc!HookMeas(meas, open)
                 /\ rtc_hook_calls' = IF start.rtc THEN 1 ELSE 0
                 /\ UNCHANGED operating_mode
    BY Zenon DEF Rtc!Main
  <2>3. open \in BOOLEAN
    BY <2>1, <2>2, Zenon
  <2> QED BY <2>2, <2>3 DEF Rtc!startup, Rtc!Hook, Rtc!HookMeas
<1>3. meas \in MeasType /\ start.step \in BOOLEAN /\ start.rtc \in BOOLEAN
  BY <1>1 DEF RtcTypeOK, Rtc!Start
<1>4. CASE start.rtc /\ open
  <2>1. /\ meas' \in MeasType /\ meas'.queued = {} /\ ~meas'.timeout_running
        /\ ~meas'.refused => meas'.uie
        /\ operating_mode' = "OM_INITIAL" /\ rtc_hook_calls' = 0 /\ ~acquiring' /\ ~sources_started'
    <3>1. meas' \in Rtc!SwitchOn(meas, open)
      BY <1>2, <1>4
    <3>2. /\ meas' \in MeasType /\ meas'.queued = meas.queued
          /\ meas'.timeout_running = meas.timeout_running /\ (~meas'.refused => meas'.uie)
      BY <1>3, <1>4, <3>1, SwitchOnIs DEF SameTimeouts
    <3> QED BY <1>1, <1>2, <1>4, <3>2 DEF NotMeasuring
  <2>2. RtcTypeOK'
    BY <1>1, <1>2, <2>1 DEF RtcTypeOK
  <2>3. Fits(meas, Most)'
    BY <2>1, EmptyFits, MostIs DEF Most, MeasType
  <2> QED BY <1>1, <1>4, <2>1, <2>2, <2>3 DEF RtcIInv, QuietBefore, TrimAsked, OneAtATime,
        Rtc!HookOnce, Rtc!NeverStalls, Rtc!OneMeasurementTimer
<1>5. CASE ~(start.rtc /\ open)
  <2>1. /\ meas' \in MeasType /\ meas'.queued = {} /\ ~meas'.timeout_running
        /\ start.step => meas' = meas
        /\ ~start.step => (open /\ ~meas'.refused => meas'.uie)
        /\ acquiring' = start.step /\ sources_started' = ~start.step
        /\ rtc_hook_calls' = IF start.rtc THEN 1 ELSE 0
        /\ operating_mode' = "OM_NORMAL"
    BY <1>1, <1>2, <1>3, <1>5, StartMeasurementsIs DEF NotMeasuring
  <2>2. RtcTypeOK'
    BY <1>1, <1>2, <2>1 DEF RtcTypeOK
  <2>3. QuietBefore'
    BY <1>1, <1>3, <2>1 DEF QuietBefore, NotMeasuring
  <2>4. Rtc!HookOnce' /\ TrimAsked'
    BY <1>1, <1>3, <2>1 DEF Rtc!HookOnce, TrimAsked
  <2>5. Rtc!NeverStalls'
    BY <1>2, <1>3, <2>1 DEF Rtc!NeverStalls
  <2>6. Fits(meas, Most)'
    BY <2>1, EmptyFits, MostIs DEF Most, MeasType
  <2> QED BY <2>1, <2>2, <2>3, <2>4, <2>5, <2>6 DEF RtcIInv, OneAtATime, Rtc!OneMeasurementTimer
<1> QED BY <1>4, <1>5

LEMMA AcquisitionDoneStep ==
  ASSUME RtcIInv, Rtc!AcquisitionDone
  PROVE  RtcIInv'
<1>1. /\ RtcTypeOK /\ start.step /\ (~start.rtc => NotMeasuring) /\ fd \in BOOLEAN /\ meas \in MeasType
      /\ running = "yes" /\ TrimAsked /\ Rtc!HookOnce
      /\ acquiring /\ ~acquiring' /\ sources_started' /\ meas' \in Rtc!StartMeasurements(meas, fd)
      /\ UNCHANGED <<start, running, fd, operating_mode, rtc_samples, n_samples_since_regression,
                     coefs_valid, far, rtc_hook_calls>>
  BY DEF RtcIInv, RtcTypeOK, QuietBefore, Rtc!AcquisitionDone, Rtc!samples
<1>2. /\ meas' \in MeasType /\ meas'.queued = meas.queued /\ ~meas'.timeout_running
      /\ meas.uie => meas'.uie
      /\ fd /\ ~meas'.refused => meas'.uie
  BY <1>1, StartMeasurementsIs
<1>3. RtcTypeOK'
  BY <1>1, <1>2 DEF RtcTypeOK
<1>4. QuietBefore' /\ TrimAsked' /\ Rtc!HookOnce'
  BY <1>1 DEF QuietBefore, TrimAsked, Rtc!HookOnce
<1>5. OneAtATime' /\ Rtc!OneMeasurementTimer'
  BY <1>1, <1>2 DEF OneAtATime, Alone, Rtc!OneMeasurementTimer, NotMeasuring
<1>6. Rtc!NeverStalls'
  BY <1>1, <1>2 DEF RtcIInv, Rtc!NeverStalls
<1>7. Fits(meas, Most)'
  <2>1. CASE start.rtc
    <3>1. Most' = 2
      BY <1>1, <2>1 DEF Most
    <3>2. Fits(meas, 1)
      BY DEF RtcIInv, QuietBefore, Most, Rtc!AcquisitionDone
    <3>3. Fits(meas', 2)
      BY <1>1, <3>2, StartMeasurementsFits
    <3> QED BY <3>1, <3>3 DEF Fits
  <2>2. CASE ~start.rtc
    <3>1. Most' \in Nat \ {0} /\ meas'.queued = {} /\ ~meas'.timeout_running /\ meas'.refusals \in Nat
      BY <1>1, <1>2, <2>2 DEF Most, NotMeasuring, MeasType
    <3>2. Fits(meas', Most')
      BY <3>1, EmptyFits
    <3> QED BY <3>2 DEF Fits
  <2> QED BY <2>1, <2>2
<1> QED BY <1>3, <1>4, <1>5, <1>6, <1>7 DEF RtcIInv

LEMMA MeasurementTimeoutStep ==
  ASSUME RtcIInv, Rtc!MeasurementTimeout
  PROVE  RtcIInv'
<1>1. PICK id \in meas.queued :
        meas' \in Rtc!SwitchOn([meas EXCEPT !.queued = @ \ {id}, !.timeout_running = FALSE], fd)
  BY DEF Rtc!MeasurementTimeout
<1>2. /\ RtcTypeOK /\ QuietBefore /\ TrimAsked /\ Rtc!HookOnce /\ fd \in BOOLEAN /\ meas \in MeasType
      /\ Rtc!OneMeasurementTimer /\ Rtc!NeverStalls
      /\ running = "yes"
      /\ UNCHANGED <<start, running, fd, operating_mode, rtc_samples, n_samples_since_regression,
                     coefs_valid, far, rtc_hook_calls, acquiring, sources_started>>
  BY DEF RtcIInv, RtcTypeOK, Rtc!MeasurementTimeout, Rtc!samples, Rtc!startup
<1>3. id \in TimeoutID
  BY <1>2 DEF MeasType
<1>4. /\ meas' \in MeasType /\ meas'.queued = meas.queued \ {id} /\ ~meas'.timeout_running
      /\ meas'.refusals = meas.refusals
      /\ fd /\ ~meas'.refused => meas'.uie
      /\ Fits(meas', Most)
  <2>1. meas' \in Rtc!SwitchOn(Dispatched(meas, id), fd)
    BY <1>1 DEF Dispatched
  <2>2. Fits(meas, Most) /\ Most \in Nat
    BY MostIs DEF RtcIInv
  <2> QED BY <1>1, <1>2, <2>1, <2>2, DispatchIs
<1>5. RtcTypeOK'
  BY <1>2, <1>4 DEF RtcTypeOK
<1>6. ~(acquiring /\ ~start.rtc)
  BY <1>2, <1>1 DEF QuietBefore, NotMeasuring
<1>7. QuietBefore' /\ TrimAsked' /\ Rtc!HookOnce'
  BY <1>2, <1>6 DEF QuietBefore, TrimAsked, Rtc!HookOnce
<1>8. Alone => meas'.queued = {}
  BY <1>1, <1>2, <1>4 DEF Alone, Rtc!OneMeasurementTimer
<1>9. OneAtATime' /\ Rtc!OneMeasurementTimer'
  BY <1>2, <1>4, <1>8 DEF OneAtATime, Alone, Rtc!OneMeasurementTimer
<1>10. Rtc!NeverStalls'
  BY <1>2, <1>4 DEF Rtc!NeverStalls
<1>11. Fits(meas, Most)'
  BY <1>2, <1>4 DEF Fits, Most
<1> QED BY <1>5, <1>7, <1>9, <1>10, <1>11 DEF RtcIInv

-----------------------------------------------------------------------------
(* The readings. *)

\* What an interrupt finds: the daemon runs with the device open and no timeout queued.
LEMMA InterruptFinds ==
  ASSUME RtcIInv, running = "yes", fd, meas.uie
  PROVE  /\ meas \in MeasType /\ (acquiring => start.step /\ start.rtc)
         /\ Alone => meas.queued = {} /\ ~meas.timeout_running
  BY DEF RtcIInv, RtcTypeOK, QuietBefore, NotMeasuring, OneAtATime, Alone, Rtc!OneMeasurementTimer

LEMMA SkipInterruptStep ==
  ASSUME RtcIInv, Rtc!SkipInterrupt
  PROVE  RtcIInv'
<1>1. /\ running = "yes" /\ fd /\ meas.uie /\ meas.skip > 0 /\ meas' = [meas EXCEPT !.skip = @ - 1]
      /\ UNCHANGED <<start, running, fd, operating_mode, rtc_samples, n_samples_since_regression,
                     coefs_valid, far, rtc_hook_calls, acquiring, sources_started>>
  BY DEF Rtc!SkipInterrupt, Rtc!samples, Rtc!startup
<1>2. meas \in MeasType
  BY DEF RtcIInv, RtcTypeOK
<1>3. /\ meas' \in MeasType /\ meas'.queued = meas.queued /\ meas'.uie = meas.uie
      /\ meas'.timeout_running = meas.timeout_running /\ meas'.timeout_id = meas.timeout_id
      /\ meas'.refused = meas.refused /\ meas'.refusals = meas.refusals
  <2>1. meas.skip - 1 \in 0 .. 1
    BY <1>1, <1>2 DEF MeasType
  <2> DEFINE less == meas.skip - 1
  <2>2. less \in 0 .. 1 /\ meas' = [meas EXCEPT !.skip = less]
    BY <1>1, <2>1
  <2> HIDE DEF less
  <2> QED BY <1>2, <2>2 DEF MeasType
<1> QED BY <1>1, <1>3 DEF RtcIInv, RtcTypeOK, QuietBefore, NotMeasuring, TrimAsked, OneAtATime,
        Alone, Fits, Most, Rtc!HookOnce, Rtc!NeverStalls, Rtc!OneMeasurementTimer

LEMMA ReadFailsStep ==
  ASSUME RtcIInv, Rtc!ReadFails
  PROVE  RtcIInv'
<1>1. /\ running = "yes" /\ meas.uie /\ fd' = FALSE /\ meas' = [meas EXCEPT !.uie = FALSE]
      /\ UNCHANGED <<start, running, operating_mode, rtc_samples, n_samples_since_regression,
                     coefs_valid, far, rtc_hook_calls, acquiring, sources_started>>
  BY DEF Rtc!ReadFails, Rtc!samples, Rtc!startup
<1>2. meas \in MeasType
  BY DEF RtcIInv, RtcTypeOK
<1>3. /\ meas' \in MeasType /\ SameTimeouts(meas', meas) /\ ~meas'.uie
      /\ meas'.refused = meas.refused /\ meas'.refusals = meas.refusals
  <2> DEFINE off == FALSE
  <2>1. off \in BOOLEAN /\ ~off /\ meas' = [meas EXCEPT !.uie = off]
    BY <1>1
  <2> HIDE DEF off
  <2>2. /\ meas' \in MeasType /\ SameTimeouts(meas', meas) /\ meas'.uie = off
        /\ meas'.refused = meas.refused /\ meas'.refusals = meas.refusals
    BY <1>2, <2>1 DEF MeasType, SameTimeouts
  <2> QED BY <2>1, <2>2
<1>4. fd' \in BOOLEAN
  BY <1>1, Zenon
<1>5. Fits(meas, Most)'
  <2>1. Most' = Most /\ Most \in Nat
    BY <1>1, MostIs DEF Most
  <2>2. Cardinality(meas.queued) \in Nat /\ meas.refusals \in Nat
    BY <1>2, FS_CardinalityType DEF RtcIInv, Fits, MeasType
  <2>3. Cardinality(meas.queued) + 1 <= Most + meas.refusals
    BY <1>1 DEF RtcIInv, Fits
  <2> QED BY <1>3, <2>1, <2>2, <2>3 DEF RtcIInv, Fits, SameTimeouts
<1> QED BY <1>1, <1>3, <1>4, <1>5 DEF RtcIInv, RtcTypeOK, QuietBefore, NotMeasuring, TrimAsked, OneAtATime,
        Alone, SameTimeouts, Rtc!HookOnce, Rtc!NeverStalls, Rtc!OneMeasurementTimer

\* A reading, or its failure, that does not end the initial trim: the interrupt goes off and one
\* timeout is queued.
LEMMA RequeueKeeps ==
  ASSUME RtcIInv, running = "yes", fd, meas.uie, NEW id \in TimeoutID,
         meas' \in Rtc!Requeue(meas, id), operating_mode' = "OM_NORMAL",
         rtc_samples' \in -1 .. MAX_RTC_SAMPLES, n_samples_since_regression' \in Nat,
         UNCHANGED <<start, running, fd, rtc_hook_calls, acquiring, sources_started>>
  PROVE  RtcIInv'
<1>1. /\ meas \in MeasType /\ (acquiring => start.step /\ start.rtc)
      /\ Alone => meas.queued = {}
  BY InterruptFinds
<1>2. /\ meas' \in MeasType /\ meas'.queued = meas.queued \cup {id}
      /\ meas'.timeout_running = TRUE /\ meas'.timeout_id = id
      /\ \/ ~meas'.uie /\ meas'.refusals = meas.refusals
         \/ meas'.refusals = meas.refusals + 1
  <2>1. meas' \in Rtc!Requeue(meas, id) /\ meas \in MeasType
    BY <1>1
  <2> QED BY ONLY <2>1, id \in TimeoutID, RequeueIs
<1>3. RtcTypeOK'
  BY <1>2 DEF RtcIInv, RtcTypeOK
<1>4. QuietBefore' /\ TrimAsked' /\ Rtc!HookOnce'
  BY <1>1 DEF RtcIInv, QuietBefore, TrimAsked, Rtc!HookOnce
<1>5. OneAtATime' /\ Rtc!OneMeasurementTimer'
  <2>1. meas'.refusals = 0 => meas.refusals = 0 /\ ~meas'.uie
    BY <1>1, <1>2 DEF MeasType
  <2> QED BY <1>1, <1>2, <2>1 DEF OneAtATime, Alone, Rtc!OneMeasurementTimer
<1>6. Rtc!NeverStalls'
  BY <1>2 DEF Rtc!NeverStalls
<1>7. Fits(meas, Most)'
  <2>1. Fits(meas, Most) /\ Most \in Nat /\ Most' = Most
    BY MostIs DEF RtcIInv, Most
  <2>2. Fits(meas', Most)
    BY <1>1, <2>1, RequeueFits
  <2> QED BY <2>1, <2>2 DEF Fits
<1> QED BY <1>3, <1>4, <1>5, <1>6, <1>7 DEF RtcIInv

\* The end of the initial trim: the hook is called, the timeout queued after it.
LEMMA EndInitialKeeps ==
  ASSUME RtcIInv, running = "yes", fd, meas.uie, NEW id \in TimeoutID,
         operating_mode = "OM_INITIAL", Rtc!EndInitial(id), operating_mode' = "OM_NORMAL",
         rtc_samples' \in -1 .. MAX_RTC_SAMPLES, n_samples_since_regression' \in Nat,
         UNCHANGED <<start, running, fd>>
  PROVE  RtcIInv'
<1>1. /\ RtcTypeOK /\ meas \in MeasType /\ start.rtc /\ rtc_hook_calls = 0 /\ fd \in BOOLEAN
      /\ Alone => meas.queued = {}
      /\ Most = 1
  BY InterruptFinds DEF RtcIInv, TrimAsked, Rtc!HookOnce, RtcTypeOK, Most
<1>2. /\ rtc_hook_calls' = 1 /\ acquiring' = start.step /\ sources_started' = ~start.step
  BY <1>1 DEF Rtc!EndInitial, Rtc!Hook
<1>3. PICK y \in Rtc!HookMeas(meas, fd) : meas' \in Rtc!Requeue(y, id)
  BY DEF Rtc!EndInitial
<1>4. y \in MeasType /\ y.queued = meas.queued /\ y.refusals = meas.refusals /\ y.uie /\ Fits(y, 1)
  <2>1. Fits(meas, 1)
    BY <1>1 DEF RtcIInv
  <2>2. CASE start.step
    BY <1>1, <1>3, <2>1, <2>2 DEF Rtc!HookMeas
  <2>3. CASE ~start.step
    <3>1. y \in Rtc!StartMeasurements(meas, fd)
      BY <1>3, <2>3 DEF Rtc!HookMeas
    <3> QED BY <1>1, <2>1, <3>1, StartMeasurementsIs, StartMeasurementsFits
  <2> QED BY <2>2, <2>3
<1>5. /\ meas' \in MeasType /\ meas'.queued = meas.queued \cup {id}
      /\ meas'.timeout_running = TRUE /\ meas'.timeout_id = id
      /\ \/ ~meas'.uie /\ meas'.refusals = meas.refusals
         \/ meas'.refusals = meas.refusals + 1
      /\ Fits(meas', 1)
  BY <1>3, <1>4, RequeueIs, RequeueFits
<1>6. RtcTypeOK'
  BY <1>1, <1>2, <1>5 DEF RtcTypeOK
<1>7. QuietBefore' /\ TrimAsked' /\ Rtc!HookOnce'
  <2>1. start.step \in BOOLEAN /\ start.rtc \in BOOLEAN /\ start' = start
    BY <1>1 DEF RtcTypeOK, Rtc!Start
  <2>2. acquiring' => start'.step /\ ~sources_started' /\ start'.rtc
    BY <1>1, <1>2, <2>1
  <2>3. QuietBefore'
    BY <1>1, <2>1, <2>2 DEF QuietBefore
  <2>4. Rtc!HookOnce'
    BY <1>1, <1>2, <2>1 DEF Rtc!HookOnce
  <2> QED BY <2>3, <2>4 DEF TrimAsked
<1>8. OneAtATime' /\ Rtc!OneMeasurementTimer'
  <2>1. meas'.refusals = 0 => meas.refusals = 0 /\ ~meas'.uie
    BY <1>1, <1>5 DEF MeasType
  <2> QED BY <1>1, <1>5, <2>1 DEF OneAtATime, Alone, Rtc!OneMeasurementTimer
<1>9. Rtc!NeverStalls'
  BY <1>5 DEF Rtc!NeverStalls
<1>10. Fits(meas, Most)'
  <2>1. Most' = 1
    BY <1>2 DEF Most
  <2> QED BY <1>5, <2>1 DEF Fits
<1> QED BY <1>6, <1>7, <1>8, <1>9, <1>10 DEF RtcIInv

LEMMA ReadingStep ==
  ASSUME RtcIInv, NEW id \in TimeoutID, Rtc!Reading(id)
  PROVE  RtcIInv'
<1>1. /\ RtcTypeOK /\ running = "yes" /\ fd /\ meas.uie /\ UNCHANGED <<start, running, fd>>
      /\ MAX_RTC_SAMPLES \in Nat
  BY RtcConstants DEF RtcIInv, Rtc!Reading, Rtc!Interrupted
<1>2. CASE operating_mode = "OM_NORMAL" /\ Rtc!TrackReading /\ meas' \in Rtc!Requeue(meas, id)
           /\ UNCHANGED Rtc!startup
  <2>1. Rtc!Accumulated \in 0 .. MAX_RTC_SAMPLES /\ Rtc!Counted \in Nat
    BY <1>1, AccumulatedFits
  <2>2. rtc_samples' \in -1 .. MAX_RTC_SAMPLES
    <3>1. rtc_samples' \in Rtc!Left(Rtc!Accumulated) \/ rtc_samples' = Rtc!Accumulated
      BY <1>2 DEF Rtc!TrackReading
    <3> QED BY <1>1, <2>1, <3>1, LeftFits
  <2>3. n_samples_since_regression' \in Nat
    BY <1>2, <2>1 DEF Rtc!TrackReading
  <2>4. operating_mode' = "OM_NORMAL" /\ UNCHANGED <<rtc_hook_calls, acquiring, sources_started>>
    BY <1>2 DEF Rtc!TrackReading, Rtc!startup
  <2> QED BY <1>1, <1>2, <2>2, <2>3, <2>4, RequeueKeeps
<1>3. CASE operating_mode \in {"OM_INITIAL", "OM_AFTERTRIM"} /\ Rtc!CountReading
           /\ UNCHANGED <<meas, Rtc!startup>>
  <2>1. Rtc!Accumulated \in 0 .. MAX_RTC_SAMPLES /\ Rtc!Counted \in Nat
    BY <1>1, AccumulatedFits
  <2>2. rtc_samples' \in -1 .. MAX_RTC_SAMPLES /\ n_samples_since_regression' \in Nat
    BY <1>1, <1>3, <2>1 DEF Rtc!CountReading
  <2>3. UNCHANGED <<operating_mode, coefs_valid, far, meas, rtc_hook_calls, acquiring, sources_started>>
    BY <1>3 DEF Rtc!CountReading, Rtc!startup
  <2> QED BY <1>1, <2>2, <2>3 DEF RtcIInv, RtcTypeOK, QuietBefore, NotMeasuring, TrimAsked, OneAtATime,
        Alone, Fits, Most, Rtc!HookOnce, Rtc!NeverStalls, Rtc!OneMeasurementTimer
<1>4. CASE operating_mode = "OM_INITIAL" /\ Rtc!InitialTrim /\ Rtc!EndInitial(id)
  <2>1. /\ rtc_samples' \in -1 .. MAX_RTC_SAMPLES /\ n_samples_since_regression' \in Nat
        /\ operating_mode' = "OM_NORMAL"
    BY <1>1, <1>4 DEF Rtc!InitialTrim
  <2> QED BY <1>1, <1>4, <2>1, EndInitialKeeps
<1>5. CASE operating_mode = "OM_AFTERTRIM" /\ Rtc!RelockAfterTrim /\ meas' \in Rtc!Requeue(meas, id)
           /\ UNCHANGED Rtc!startup
  <2>1. /\ rtc_samples' \in -1 .. MAX_RTC_SAMPLES /\ n_samples_since_regression' \in Nat
        /\ operating_mode' = "OM_NORMAL" /\ UNCHANGED <<rtc_hook_calls, acquiring, sources_started>>
    BY <1>1, <1>5 DEF Rtc!RelockAfterTrim, Rtc!startup
  <2> QED BY <1>1, <1>5, <2>1, RequeueKeeps
<1> QED BY <1>2, <1>3, <1>4, <1>5 DEF Rtc!Reading

LEMMA ReadingFailsStep ==
  ASSUME RtcIInv, NEW id \in TimeoutID, Rtc!ReadingFails(id)
  PROVE  RtcIInv'
<1>1. /\ running = "yes" /\ fd /\ meas.uie /\ operating_mode' = "OM_NORMAL"
      /\ UNCHANGED <<start, running, fd, rtc_samples, n_samples_since_regression>>
      /\ rtc_samples' \in -1 .. MAX_RTC_SAMPLES /\ n_samples_since_regression' \in Nat
  BY DEF RtcIInv, RtcTypeOK, Rtc!ReadingFails, Rtc!Interrupted, Rtc!GiveUp, Rtc!samples
<1>2. CASE operating_mode = "OM_INITIAL"
  BY <1>1, <1>2, EndInitialKeeps DEF Rtc!ReadingFails, Rtc!GiveUp
<1>3. CASE operating_mode # "OM_INITIAL"
  <2>1. meas' \in Rtc!Requeue(meas, id) /\ UNCHANGED <<rtc_hook_calls, acquiring, sources_started>>
    BY <1>3 DEF Rtc!ReadingFails, Rtc!GiveUp, Rtc!startup
  <2> QED BY <1>1, <2>1, RequeueKeeps
<1> QED BY <1>2, <1>3

LEMMA OtherInterruptStep ==
  ASSUME RtcIInv, NEW id \in TimeoutID, Rtc!OtherInterrupt(id)
  PROVE  RtcIInv'
<1>1. /\ running = "yes" /\ fd /\ meas.uie /\ operating_mode' = "OM_NORMAL"
      /\ meas' \in Rtc!Requeue(meas, id)
      /\ UNCHANGED <<start, running, fd, rtc_hook_calls, acquiring, sources_started>>
      /\ rtc_samples' \in -1 .. MAX_RTC_SAMPLES /\ n_samples_since_regression' \in Nat
  BY DEF RtcIInv, RtcTypeOK, Rtc!OtherInterrupt, Rtc!Interrupted, Rtc!samples, Rtc!startup
<1> QED BY <1>1, RequeueKeeps

-----------------------------------------------------------------------------
(* Commands, clock steps, exit. *)

LEMMA TrimStep ==
  ASSUME RtcIInv, Rtc!Trim
  PROVE  RtcIInv'
<1>1. /\ running = "yes" /\ far /\ rtc_samples' = 0 /\ operating_mode' = "OM_AFTERTRIM"
      /\ meas' \in Rtc!SwitchOn(Rtc!CancelTimeout(meas), fd)
      /\ UNCHANGED <<start, running, fd, n_samples_since_regression, rtc_hook_calls, acquiring,
                     sources_started>>
  BY DEF Rtc!Trim, Rtc!TrimMeas, Rtc!startup
<1>2. /\ RtcTypeOK /\ meas \in MeasType /\ fd \in BOOLEAN /\ (acquiring => start.rtc /\ start.step)
      /\ (Alone => meas.queued = IF meas.timeout_running THEN {meas.timeout_id} ELSE {})
      /\ Fits(meas, Most) /\ Most \in Nat
  BY <1>1, MostIs DEF RtcIInv, RtcTypeOK, QuietBefore, NotMeasuring, Alone, Rtc!OneMeasurementTimer
<1> DEFINE y == Rtc!CancelTimeout(meas)
<1>3. /\ y \in MeasType /\ ~y.timeout_running /\ y.refusals = meas.refusals /\ Fits(y, Most)
      /\ y.queued = IF meas.timeout_running THEN meas.queued \ {meas.timeout_id} ELSE meas.queued
  BY <1>2, CancelTimeoutIs, CancelTimeoutFits
<1>4. meas' \in Rtc!SwitchOn(y, fd)
  BY <1>1
<1> HIDE DEF y
<1>5. /\ meas' \in MeasType /\ ~meas'.timeout_running /\ meas'.queued = y.queued
      /\ meas'.refusals = meas.refusals
      /\ fd /\ ~meas'.refused => meas'.uie
      /\ Fits(meas', Most)
  BY <1>2, <1>3, <1>4, SwitchOnIs, SwitchOnFits DEF SameTimeouts
<1>6. RtcTypeOK'
  BY <1>1, <1>2, <1>5, RtcConstants DEF RtcTypeOK
<1>7. QuietBefore' /\ TrimAsked' /\ Rtc!HookOnce'
  BY <1>1, <1>2 DEF RtcIInv, QuietBefore, TrimAsked, Rtc!HookOnce
<1>8. Alone => meas'.queued = {}
  BY <1>2, <1>3, <1>5
<1>9. OneAtATime' /\ Rtc!OneMeasurementTimer'
  BY <1>1, <1>5, <1>8 DEF OneAtATime, Alone, Rtc!OneMeasurementTimer
<1>10. Rtc!NeverStalls'
  BY <1>1, <1>5 DEF Rtc!NeverStalls
<1>11. Fits(meas, Most)'
  BY <1>1, <1>5 DEF Fits, Most
<1> QED BY <1>6, <1>7, <1>9, <1>10, <1>11 DEF RtcIInv

LEMMA FinaliseStep ==
  ASSUME RtcIInv, Rtc!Finalise
  PROVE  RtcIInv'
<1>1. /\ running = "yes" /\ running' = "exited" /\ meas' = Rtc!CancelTimeout(meas)
      /\ UNCHANGED <<start, fd, operating_mode, rtc_samples, n_samples_since_regression,
                     coefs_valid, far, rtc_hook_calls, acquiring, sources_started>>
  BY DEF Rtc!Finalise, Rtc!samples, Rtc!startup
<1>2. meas \in MeasType
  BY DEF RtcIInv, RtcTypeOK
<1>3. /\ meas' \in MeasType /\ meas'.timeout_running = FALSE /\ meas'.uie = meas.uie
      /\ meas'.refusals = meas.refusals
      /\ meas'.queued = IF meas.timeout_running THEN meas.queued \ {meas.timeout_id} ELSE meas.queued
  BY <1>1, <1>2, CancelTimeoutIs
<1>4. RtcTypeOK' /\ TrimAsked' /\ Rtc!HookOnce' /\ Rtc!NeverStalls'
  BY <1>1, <1>3 DEF RtcIInv, RtcTypeOK, TrimAsked, Rtc!HookOnce, Rtc!NeverStalls
<1>5. QuietBefore'
  BY <1>1, <1>3 DEF RtcIInv, QuietBefore, NotMeasuring
<1>6. OneAtATime' /\ Rtc!OneMeasurementTimer'
  BY <1>1, <1>3 DEF RtcIInv, OneAtATime, Alone, Rtc!OneMeasurementTimer
<1>7. Fits(meas, Most)'
  <2>1. Fits(meas', Most) /\ Most' = Most
    BY <1>1, <1>2, MostIs, CancelTimeoutFits DEF RtcIInv, Most
  <2> QED BY <2>1 DEF Fits
<1> QED BY <1>4, <1>5, <1>6, <1>7 DEF RtcIInv

LEMMA SlewSamplesStep ==
  ASSUME RtcIInv, Rtc!SlewSamples
  PROVE  RtcIInv'
BY DEF RtcIInv, Rtc!SlewSamples, Rtc!startup, RtcTypeOK, QuietBefore, NotMeasuring, TrimAsked, OneAtATime,
       Alone, Fits, Most, Rtc!HookOnce, Rtc!NeverStalls, Rtc!OneMeasurementTimer

LEMMA RtcQuietStep ==
  ASSUME RtcIInv, Rtc!WriteParameters \/ UNCHANGED rtcVars
  PROVE  RtcIInv'
BY DEF RtcIInv, Rtc!WriteParameters, rtcVars, Rtc!samples, Rtc!startup, RtcTypeOK, QuietBefore, NotMeasuring,
       TrimAsked, OneAtATime, Alone, Fits, Most, Rtc!HookOnce, Rtc!NeverStalls, Rtc!OneMeasurementTimer

LEMMA RtcNextStep == RtcIInv /\ Rtc!Next => RtcIInv'
<1> SUFFICES ASSUME RtcIInv, Rtc!Next PROVE RtcIInv'
  OBVIOUS
<1>1. CASE Rtc!Main
  BY <1>1, MainStep
<1>2. CASE Rtc!AcquisitionDone
  BY <1>2, AcquisitionDoneStep
<1>3. CASE Rtc!MeasurementTimeout
  BY <1>3, MeasurementTimeoutStep
<1>4. CASE Rtc!ReadFromDevice
  BY <1>4, SkipInterruptStep, ReadingStep DEF Rtc!ReadFromDevice
<1>5. CASE Rtc!ReadFails
  BY <1>5, ReadFailsStep
<1>6. CASE \E id \in TimeoutID \ meas.queued : Rtc!ReadingFails(id) \/ Rtc!OtherInterrupt(id)
  BY <1>6, ReadingFailsStep, OtherInterruptStep
<1>7. CASE Rtc!Trim
  BY <1>7, TrimStep
<1>8. CASE Rtc!SlewSamples
  BY <1>8, SlewSamplesStep
<1>9. CASE Rtc!WriteParameters
  BY <1>9, RtcQuietStep
<1>10. CASE Rtc!Finalise
  BY <1>10, FinaliseStep
<1> QED BY <1>1, <1>2, <1>3, <1>4, <1>5, <1>6, <1>7, <1>8, <1>9, <1>10 DEF Rtc!Next

LEMMA SameCardinality == \A S : Rtc!Cardinality(S) = Cardinality(S)
BY DEF Rtc!Cardinality, Cardinality

LEMMA FewAreLeft == RtcIInv => Rtc!FewMeasurements
<1> SUFFICES ASSUME RtcIInv PROVE Rtc!FewMeasurements
  OBVIOUS
<1>1. /\ Rtc!Cardinality(meas.queued) = Cardinality(meas.queued) /\ Cardinality(meas.queued) \in Nat
      /\ meas.refusals \in Nat
  BY SameCardinality, FS_CardinalityType DEF RtcIInv, Fits, RtcTypeOK, MeasType
<1>2. Cardinality(meas.queued) + (IF meas.uie \/ ~meas.timeout_running THEN 1 ELSE 0) <= Most + meas.refusals
  BY DEF RtcIInv, Fits
<1>3. Most \in Nat /\ Most <= 1 + (IF start.rtc /\ start.step THEN 1 ELSE 0)
  BY DEF Most
<1> QED BY <1>1, <1>2, <1>3 DEF Rtc!FewMeasurements

\* The trim from the real time clock is sound, whatever the device refuses: the start goes on once
\* at most; on an open device an interrupt or the one timeout is due unless the device has refused
\* to turn the interrupt on or off, and then too measurements do not multiply; and the array of
\* samples is never indexed outside of it (rtc_linux.c: switch_interrupts, handle_initial_trim,
\* read_from_device, RTC_Linux_Trim).
THEOREM StartupRtcSound == StartupSpec => []RtcSound
<1>1. StartupInit => RtcIInv
  BY RtcInitStep DEF StartupInit
<1>2. RtcIInv /\ [StartupNext]_startupVars => RtcIInv'
  BY RtcNextStep, RtcQuietStep DEF StartupNext, AcquireNext, RtcNext, startupVars
<1>3. RtcIInv => RtcSound
  BY FewAreLeft DEF RtcIInv, RtcSound, RtcTypeOK
<1> QED BY <1>1, <1>2, <1>3, PTL DEF StartupSpec

-----------------------------------------------------------------------------
(* The reference: the inductive invariant. *)

\* A synchronised clock has a leap status; what the kernel is told is what the
\* reference announces, until the exit takes it back.
LeapIsKnown ==
  /\ are_we_synchronised => our_leap_status # "LEAP_Unsynchronised"
  /\ our_leap_sec = 1 => our_leap_status = "LEAP_InsertSecond"
  /\ our_leap_sec = -1 => our_leap_status = "LEAP_DeleteSecond"
  /\ kernel_leap = IF in_main_loop = "exited" THEN 0 ELSE our_leap_sec

\* Before the first update no average is long enough, and no fallback is scheduled.
NothingYet == age = Forever => Qualified = {} /\ timeout = NoTimeout

\* A scheduled fallback is due when the clock has been without an update for the
\* length of its drift, and no drift that is not reached comes before it.
ScheduleIsDue ==
  timeout # NoTimeout =>
    /\ next_fb_drift \in Drifts /\ ~are_we_synchronised
    /\ timeout + age = Secs(next_fb_drift)
    /\ \A i \in Qualified : age < Secs(i) => next_fb_drift <= i

\* When nothing is scheduled, the last drift waited for has been reached, and so
\* have all that qualify if the clock is unsynchronised.
NothingIsMissed ==
  timeout = NoTimeout =>
    /\ next_fb_drift # 0 => age >= Secs(next_fb_drift)
    /\ our_leap_status = "LEAP_Unsynchronised" /\ ~are_we_synchronised =>
         \A i \in Qualified : age >= Secs(i)

\* The clock runs at a drift that was reached.
UsedIsReached == used # 0 => ~are_we_synchronised /\ age >= Secs(used)

\* As long as no interval was zero, no average is NaN.
NumbersStay == ~instant => ~freq_nan /\ \A i \in Drifts : ~fb_drifts[i].nan

\* What is left of a limit after n events.
Left(limit, n) == IF n <= limit THEN limit - n ELSE 0

\* The counters say how many events are left.
CountersLeft ==
  /\ hist \in [updates : Nat, references : Nat, stepped : Nat, large : Nat, refused : Nat]
  /\ conf.make_step >= 0 => make_step_limit = Left(conf.make_step, hist.updates)
  /\ conf.offset_delay >= 0 => max_offset_delay = Left(conf.offset_delay, hist.references)
  /\ conf.offset_ignore >= 0 => max_offset_ignore = Left(conf.offset_ignore, hist.refused)

RefInv ==
  /\ ReferenceTypeOK /\ LeapIsKnown
  /\ NothingYet /\ ScheduleIsDue /\ NothingIsMissed /\ UsedIsReached /\ NumbersStay
  /\ CountersLeft /\ LimitsRespected
-----------------------------------------------------------------------------
(* Drifts. *)

\* The least element of a set of natural numbers exists.
LEMMA MinInSet ==
  ASSUME NEW S \in SUBSET Nat, S # {}
  PROVE  Min(S) \in S /\ \A y \in S : Min(S) <= y
<1>1. PICK x \in S : \A y \in S : ~(<<y, x>> \in OpToRel(<, Nat))
  BY NatLessThanWellFounded, WFMin, Zenon
<1>2. \A y \in S : <<y, x>> \notin {p \in Nat \X Nat : p[1] < p[2]}
  BY <1>1 DEF OpToRel
<1>3. ASSUME NEW y \in S PROVE x <= y
  <2>1. <<y, x>> \in Nat \X Nat /\ x \in Nat /\ y \in Nat
    OBVIOUS
  <2>2. ~(<<y, x>>[1] < <<y, x>>[2])
    BY <1>2, <2>1
  <2> QED BY <2>1, <2>2
<1> QED BY <1>3 DEF Min

\* So does the largest of a set with a bound.
LEMMA MaxInSet ==
  ASSUME NEW n \in Nat, NEW S \in SUBSET (0 .. n), S # {}
  PROVE  Max(S) \in S /\ \A y \in S : Max(S) >= y
<1> DEFINE T == {k \in Nat : n - k \in S}
<1>1. T \in SUBSET Nat /\ T # {}
  <2>1. PICK x \in S : TRUE
    OBVIOUS
  <2>2. n - x \in Nat /\ n - (n - x) = x
    OBVIOUS
  <2> QED BY <2>1, <2>2
<1>2. Min(T) \in T /\ \A k \in T : Min(T) <= k
  BY <1>1, MinInSet
<1>3. ASSUME NEW y \in S PROVE n - Min(T) >= y
  <2>1. n - y \in Nat /\ n - (n - y) = y
    OBVIOUS
  <2>2. n - y \in T
    BY <2>1
  <2> QED BY <1>2, <2>1, <2>2
<1>4. n - Min(T) \in S
  BY <1>2
<1> QED BY <1>3, <1>4 DEF Max

\* The largest of some numbers and 0.
LEMMA MaxOrZero ==
  ASSUME NEW n \in Nat, NEW S, S \subseteq 1 .. n
  PROVE  Max(S \cup {0}) \in S \cup {0} /\ Max(S \cup {0}) \in Nat
<1>1. S \cup {0} \in SUBSET (0 .. n)
  OBVIOUS
<1>2. Max(S \cup {0}) \in S \cup {0}
  BY <1>1, MaxInSet
<1>3. \A x \in S \cup {0} : x \in Nat
  OBVIOUS
<1> QED BY <1>2, <1>3, Zenon

\* The drifts are numbered from 1, their lengths grow.
LEMMA DriftsGrow ==
  ASSUME conf \in Configs
  PROVE  /\ conf \in Config /\ conf.fb_drift_max \in Nat /\ Drifts \subseteq 1 .. conf.fb_drift_max
         /\ \A i \in Drifts : Secs(i) \in Nat \ {0} /\ HalfSecs(i) \in Nat \ {0}
         /\ \A i, j \in Drifts : i <= j => Secs(i) <= Secs(j)
<1>1. conf \in Config
  BY ConfigAssumption
<1>2. conf.fb_drift_max \in Nat /\ conf.fb_drift_min \in Nat
  BY <1>1 DEF Config
<1>3. Drifts \subseteq 1 .. conf.fb_drift_max
  BY <1>2 DEF Drifts
<1>4. \A i \in 0 .. conf.fb_drift_max + 1 : 2 ^ i \in Int /\ 2 ^ i > 0
  BY PowerAssumption
<1>5. \A i, j \in 0 .. conf.fb_drift_max + 1 : i < j => 2 ^ i < 2 ^ j
  BY PowerAssumption
<1>6. \A i \in Drifts : i \in 0 .. conf.fb_drift_max + 1 /\ i + 1 \in 0 .. conf.fb_drift_max + 1
  BY <1>2, <1>3
<1>7. ASSUME NEW i \in Drifts, NEW j \in Drifts, i <= j PROVE Secs(i) <= Secs(j)
  <2>1. CASE i = j
    BY <1>4, <1>6, <2>1 DEF Secs
  <2>2. CASE i < j
    BY <1>4, <1>5, <1>6, <2>2 DEF Secs
  <2>3. i \in Int /\ j \in Int
    BY <1>6
  <2> QED BY <1>7, <2>1, <2>2, <2>3
<1> QED BY <1>1, <1>2, <1>3, <1>4, <1>6, <1>7 DEF Secs, HalfSecs

\* The drift that schedule_fb_drift finds is one that is reached, or none.
LEMMA LastReachedSound ==
  ASSUME conf \in Configs, age \in Nat, NEW next \in Nat, LastReached(next) > next
  PROVE  LastReached(next) \in Qualified /\ age >= Secs(LastReached(next))
<1> DEFINE c == LastReached(next)
<1>1. Drifts \subseteq 1 .. conf.fb_drift_max /\ conf.fb_drift_max \in Nat
  BY DriftsGrow
<1>2. Reached(next) \subseteq 1 .. conf.fb_drift_max
  <2>1. Reached(next) \subseteq Drifts
    BY DEF Reached, Qualified
  <2> QED BY <1>1, <2>1, Zenon
<1>3. c \in Reached(next) \cup {0}
  BY <1>1, <1>2, MaxOrZero DEF LastReached
<1>4. c \in Reached(next) /\ c \in Qualified
  BY <1>3 DEF Reached
<1>5. c \notin Waiting(next) /\ c \in Drifts /\ c \in Int
  <2>1. c \in Drifts
    BY <1>4 DEF Qualified
  <2>2. c \in Int
    <3>1. \A i \in Drifts : i \in Int
      BY <1>1
    <3> QED BY <2>1, <3>1, Zenon
  <2>3. \A j \in Waiting(next) : c < j
    BY <1>4 DEF Reached
  <2> QED BY <2>1, <2>2, <2>3
<1>6. ~(age < Secs(c))
  BY <1>4, <1>5 DEF Waiting, TooEarly
<1> HIDE DEF c
<1> QED BY <1>4, <1>5, <1>6, DriftsGrow DEF c

\* The first drift to wait for, if there is one.
LEMMA WaitingSound ==
  ASSUME conf \in Configs, NEW next, Waiting(next) # {}
  PROVE  Min(Waiting(next)) \in Waiting(next) /\ \A i \in Waiting(next) : Min(Waiting(next)) <= i
<1>1. Waiting(next) \in SUBSET Nat
  BY DriftsGrow DEF Waiting, Qualified
<1> QED BY <1>1, MinInSet

-----------------------------------------------------------------------------
(* What the steps have in common. *)

\* update_leap_status keeps the announcement, the kernel and the status together.
LEMMA LeapStep ==
  ASSUME ReferenceTypeOK, LeapIsKnown, in_main_loop # "exited", UNCHANGED in_main_loop,
         NEW l \in LeapStatus, UpdateLeapStatus(l), are_we_synchronised' => l # "LEAP_Unsynchronised"
  PROVE  /\ our_leap_status' \in LeapStatus /\ our_leap_sec' \in -1 .. 1 /\ kernel_leap' \in -1 .. 1
         /\ LeapIsKnown'
<1>1. LeapSec(l) \in -1 .. 1
  BY DEF LeapSec
<1>2. /\ LeapSec(l) = 1 => l = "LEAP_InsertSecond" /\ date # "other"
      /\ LeapSec(l) = -1 => l = "LEAP_DeleteSecond" /\ date # "other"
  <2>1. CASE date = "leap_day" /\ l = "LEAP_InsertSecond"
    BY <2>1 DEF LeapSec
  <2>2. CASE date = "leap_day" /\ l = "LEAP_DeleteSecond"
    BY <2>2 DEF LeapSec
  <2>3. CASE date # "leap_day" \/ l \notin {"LEAP_InsertSecond", "LEAP_DeleteSecond"}
    BY <2>3 DEF LeapSec
  <2> QED BY <2>1, <2>2, <2>3
<1>3. /\ our_leap_sec' = LeapSec(l) /\ kernel_leap' = LeapSec(l)
      /\ our_leap_status' = IF date = "other" /\ l # "LEAP_Unsynchronised" THEN "LEAP_Normal" ELSE l
  BY DEF UpdateLeapStatus, LeapIsKnown
<1> QED BY <1>1, <1>2, <1>3 DEF LeapIsKnown, LeapStatus

\* schedule_fb_drift misses no drift.
LEMMA ScheduleStep ==
  ASSUME ReferenceTypeOK, NothingYet, NumbersStay, UNCHANGED <<conf, age, fb_drifts, instant>>,
         next_fb_drift # 0 => age >= Secs(next_fb_drift),
         NEW drift \in {0} \cup Drifts, drift # 0 => age >= Secs(drift),
         NEW nan \in BOOLEAN, ~instant => ~nan,
         Schedule(next_fb_drift, drift, nan), are_we_synchronised' = FALSE
  PROVE  /\ next_fb_drift' \in {0} \cup Drifts /\ used' \in {0} \cup Drifts
         /\ timeout' \in Nat \cup {NoTimeout} /\ freq_nan' \in BOOLEAN
         /\ NothingYet' /\ ScheduleIsDue' /\ NothingIsMissed' /\ UsedIsReached' /\ NumbersStay'
<1> DEFINE next == next_fb_drift
           c == LastReached(next)
<1>1. conf \in Configs /\ next \in {0} \cup Drifts /\ age \in Nat
  BY AgeAssumption DEF ReferenceTypeOK, AgeAssumption
<1>2. /\ Drifts \subseteq Nat \ {0} /\ next \in Nat
      /\ \A i \in Drifts : Secs(i) \in Nat \ {0}
      /\ \A i, j \in Drifts : i <= j => Secs(i) <= Secs(j)
  BY <1>1, DriftsGrow
<1>3. Qualified \subseteq Drifts /\ Drifts' = Drifts /\ Qualified' = Qualified
  BY DEF Qualified, Drifts, ReferenceTypeOK
<1>4. c > next => c \in Qualified /\ age >= Secs(c)
  BY <1>1, <1>2, LastReachedSound
<1> HIDE DEF c
<1>5. /\ used' = IF c > next THEN c ELSE drift
      /\ freq_nan' = IF c > next THEN fb_drifts[c].nan ELSE nan
  BY DEF Schedule, c
<1>6. used' \in {0} \cup Drifts /\ (used' # 0 => age >= Secs(used'))
  BY <1>3, <1>4, <1>5
<1>7. freq_nan' \in BOOLEAN /\ (~instant => ~freq_nan')
  <2>1. c > next => c \in Drifts /\ fb_drifts[c].nan \in BOOLEAN
    BY <1>3, <1>4 DEF ReferenceTypeOK
  <2> QED BY <1>5, <2>1 DEF NumbersStay
\* A drift before the last one waited for is reached as well.
<1>8. ASSUME NEW i \in Qualified, i \notin Waiting(next) PROVE age >= Secs(i)
  <2>1. i \in Drifts /\ i \in Nat
    BY <1>2, <1>3
  <2>2. CASE i > next
    BY <1>1, <1>2, <1>8, <2>1, <2>2 DEF Waiting, TooEarly
  <2>3. CASE i <= next
    <3>1. next # 0 /\ next \in Drifts
      BY <1>1, <1>2, <2>1, <2>3
    <3>2. Secs(i) <= Secs(next) /\ Secs(next) <= age
      BY <1>2, <2>1, <2>3, <3>1
    <3> QED BY <1>1, <1>2, <2>1, <3>1, <3>2
  <2> QED BY <1>2, <2>1, <2>2, <2>3
<1>9. CASE Waiting(next) = {}
  <2>1. next_fb_drift' = Max({next, c}) /\ timeout' = NoTimeout
    BY <1>9 DEF Schedule, c
  <2>2. \A i \in Qualified : age >= Secs(i)
    BY <1>8, <1>9
  <2>3. c \in Nat
    <3>1. Drifts \subseteq 1 .. conf.fb_drift_max /\ conf.fb_drift_max \in Nat
      BY <1>1, DriftsGrow
    <3>2. Reached(next) \subseteq Drifts
      BY DEF Reached, Qualified
    <3>3. Reached(next) \subseteq 1 .. conf.fb_drift_max
      BY <3>1, <3>2, Zenon
    <3> QED BY <3>1, <3>3, MaxOrZero DEF LastReached, c
  <2>4. next_fb_drift' = IF c > next THEN c ELSE next
    <3>1. Max({next, c}) \in {next, c} /\ Max({next, c}) >= next /\ Max({next, c}) >= c
      <4>1. \E n \in Nat : {next, c} \in SUBSET (0 .. n)
        <5>1. {next, c} \in SUBSET (0 .. next + c) /\ next + c \in Nat
          BY <1>2, <2>3
        <5> QED BY <5>1
      <4> QED BY <4>1, MaxInSet
    <3> QED BY <1>2, <2>1, <2>3, <3>1
  <2>5. next_fb_drift' \in {0} \cup Drifts /\ (next_fb_drift' # 0 => age >= Secs(next_fb_drift'))
    BY <1>1, <1>3, <1>4, <2>4
  <2>6. NothingYet' /\ ScheduleIsDue' /\ NothingIsMissed'
    BY <1>3, <2>1, <2>2, <2>5 DEF NothingYet, ScheduleIsDue, NothingIsMissed
  <2> QED BY <1>6, <1>7, <2>1, <2>5, <2>6 DEF UsedIsReached, NumbersStay, Drifts
<1>10. CASE Waiting(next) # {}
  <2>1. next_fb_drift' = Min(Waiting(next)) /\ timeout' = Secs(next_fb_drift') - age
    BY <1>10 DEF Schedule, c
  <2>2. next_fb_drift' \in Waiting(next) /\ \A i \in Waiting(next) : next_fb_drift' <= i
    BY <1>1, <1>10, <2>1, WaitingSound
  <2>3. next_fb_drift' \in Qualified /\ next_fb_drift' \in Drifts /\ age < Secs(next_fb_drift')
    BY <1>3, <2>2 DEF Waiting, TooEarly
  <2>4. timeout' \in Nat /\ timeout' # NoTimeout /\ timeout' + age = Secs(next_fb_drift')
    BY <1>1, <1>2, <2>1, <2>3 DEF NoTimeout
  <2>5. ASSUME NEW i \in Qualified, age < Secs(i) PROVE next_fb_drift' <= i
    <3>1. i \in Waiting(next)
      BY <1>1, <1>2, <1>3, <1>8, <2>5
    <3> QED BY <2>2, <3>1
  <2>6. NothingYet' /\ ScheduleIsDue' /\ NothingIsMissed'
    <3>1. age # Forever
      BY <2>3 DEF NothingYet
    <3> QED BY <1>3, <2>3, <2>4, <2>5, <3>1 DEF NothingYet, ScheduleIsDue, NothingIsMissed
  <2> QED BY <1>6, <1>7, <2>3, <2>4, <2>6 DEF UsedIsReached, NumbersStay, Drifts
<1> QED BY <1>9, <1>10
\* One more event takes one from what is left, and nothing when nothing is left.
LEMMA CountStep ==
  ASSUME NEW limit \in Nat, NEW n \in Nat
  PROVE  /\ Left(limit, n) \in Nat
         /\ Left(limit, Count(n, limit)) = IF Left(limit, n) > 0 THEN Left(limit, n) - 1 ELSE Left(limit, n)
         /\ Left(limit, n) = 0 <=> Count(n, limit) > limit
         /\ Count(n, limit) \in Nat /\ Count(n, limit) >= n
         /\ Left(limit, n) # 0 => Count(n, limit) <= limit
BY DEF Left, Count

\* An average stays a number, unless the frequency is none or no time has passed.
LEMMA AverageStep ==
  ASSUME ReferenceTypeOK, NEW i \in Drifts, NEW interval \in Nat, NEW close \in BOOLEAN, NEW nan \in BOOLEAN
  PROVE  /\ AverageOf(i, interval, close, nan).secs \in 0 .. HalfSecs(i)
         /\ AverageOf(i, interval, close, nan).nan \in BOOLEAN
         /\ ~nan /\ ~fb_drifts[i].nan /\ interval # 0 => ~AverageOf(i, interval, close, nan).nan
<1>1. HalfSecs(i) \in Nat \ {0}
  BY DriftsGrow DEF ReferenceTypeOK
<1>2. fb_drifts[i].secs \in 0 .. HalfSecs(i) /\ fb_drifts[i].nan \in BOOLEAN
  BY DEF ReferenceTypeOK
<1> QED BY <1>1, <1>2 DEF AverageOf

\* Averages and configuration that do not change.
LEMMA SameDrifts ==
  ASSUME UNCHANGED <<conf, fb_drifts>> PROVE Drifts' = Drifts /\ Qualified' = Qualified
BY DEF Drifts, Qualified

-----------------------------------------------------------------------------
(* The steps. *)

\* ReferenceInit establishes the invariant.
LEMMA IInvInit == ReferenceInit => RefInv
<1> SUFFICES ASSUME ReferenceInit PROVE RefInv
  OBVIOUS
<1>1. conf \in Configs /\ conf \in Config
  BY ConfigAssumption DEF ReferenceInit
<1>2. conf.make_step \in Int /\ conf.offset_delay \in Int /\ conf.offset_ignore \in Int /\ conf.stepped \in BOOLEAN
  BY <1>1 DEF Config
<1>3. \A i \in Drifts : HalfSecs(i) \in Nat \ {0}
  BY <1>1, DriftsGrow
<1>4. Qualified = {}
  BY <1>3 DEF ReferenceInit, Qualified
<1>5. ReferenceTypeOK
  <2>1. /\ make_step_limit \in Within(conf.make_step) /\ max_offset_delay \in Within(conf.offset_delay)
        /\ max_offset_ignore \in Within(conf.offset_ignore)
    BY <1>2 DEF ReferenceInit, Within
  <2>2. \A i \in Drifts : fb_drifts[i].secs \in 0 .. HalfSecs(i) /\ fb_drifts[i].nan \in BOOLEAN
    <3>1. \A i \in Drifts : fb_drifts[i].secs = 0 /\ fb_drifts[i].nan = FALSE
      BY DEF ReferenceInit
    <3>2. \A i \in Drifts : 0 \in 0 .. HalfSecs(i)
      BY <1>3
    <3> QED BY <3>1, <3>2
  <2>3. DOMAIN fb_drifts = Drifts
    BY DEF ReferenceInit
  <2>4. {age, last_ref_update_interval} \subseteq 0 .. MaxAge \cup {Forever}
    BY AgeAssumption DEF ReferenceInit, AgeAssumption
  <2>5. {are_we_synchronised, updated, instant, freq_nan} \subseteq BOOLEAN /\ in_main_loop \in {"yes", "quitting", "exited"}
    BY <1>2 DEF ReferenceInit
  <2>6. our_leap_status \in LeapStatus /\ {our_leap_sec, kernel_leap} \subseteq -1 .. 1 /\ date \in Date
    BY DEF ReferenceInit, LeapStatus
  <2>7. {next_fb_drift, used} \subseteq {0} \cup Drifts /\ timeout \in Nat \cup {NoTimeout}
    BY DEF ReferenceInit
  <2> QED BY <1>1, <2>1, <2>2, <2>3, <2>4, <2>5, <2>6, <2>7 DEF ReferenceTypeOK
<1>6. LeapIsKnown
  BY DEF ReferenceInit, LeapIsKnown
<1>7. NothingYet /\ ScheduleIsDue /\ NothingIsMissed /\ UsedIsReached /\ NumbersStay
  BY <1>4 DEF ReferenceInit, NothingYet, ScheduleIsDue, NothingIsMissed, UsedIsReached, NumbersStay
<1>8. CountersLeft /\ LimitsRespected
  BY <1>2 DEF ReferenceInit, CountersLeft, Left, LimitsRespected
<1> QED BY <1>5, <1>6, <1>7, <1>8 DEF RefInv

\* The fallback drifts when the clock becomes unsynchronised, from whatever the
\* schedule was.
LEMMA UnsynchronisedStep ==
  ASSUME RefInv, in_main_loop # "exited", UpdateLeapStatus("LEAP_Unsynchronised"), are_we_synchronised' = FALSE,
         UNCHANGED <<conf, in_main_loop, date, times, fb_drifts, limits>>,
         NEW drift \in {0} \cup Drifts, drift # 0 => age >= Secs(drift),
         NEW nan \in BOOLEAN, ~instant => ~nan,
         next_fb_drift # 0 => age >= Secs(next_fb_drift), Schedule(next_fb_drift, drift, nan)
  PROVE  RefInv'
<1>1. /\ our_leap_status' \in LeapStatus /\ our_leap_sec' \in -1 .. 1 /\ kernel_leap' \in -1 .. 1
      /\ LeapIsKnown'
  BY LeapStep DEF RefInv, LeapStatus
<1>2. /\ next_fb_drift' \in {0} \cup Drifts /\ used' \in {0} \cup Drifts
      /\ timeout' \in Nat \cup {NoTimeout} /\ freq_nan' \in BOOLEAN
      /\ NothingYet' /\ ScheduleIsDue' /\ NothingIsMissed' /\ UsedIsReached' /\ NumbersStay'
  BY ScheduleStep DEF RefInv, times
<1>3. Drifts' = Drifts
  BY SameDrifts
<1>4. ReferenceTypeOK'
  BY <1>1, <1>2, <1>3 DEF RefInv, ReferenceTypeOK, times, limits
<1>5. CountersLeft' /\ LimitsRespected'
  BY DEF RefInv, CountersLeft, LimitsRespected, limits
<1> QED BY <1>1, <1>2, <1>4, <1>5 DEF RefInv

\* REF_SetUnsynchronised: with a fallback that is scheduled nothing is scheduled anew.
LEMMA SetUnsynchronisedStep == ASSUME RefInv, SetUnsynchronised PROVE RefInv'
<1>1. /\ in_main_loop # "exited" /\ UpdateLeapStatus("LEAP_Unsynchronised") /\ are_we_synchronised' = FALSE
      /\ UNCHANGED <<conf, in_main_loop, date, times, fb_drifts, limits>>
  BY DEF SetUnsynchronised
<1>2. CASE Drifts # {} /\ timeout = NoTimeout
  <2>1. Schedule(next_fb_drift, used, freq_nan)
    BY <1>2 DEF SetUnsynchronised, ScheduleFallbackDrift
  <2>2. used \in {0} \cup Drifts /\ freq_nan \in BOOLEAN
    BY DEF RefInv, ReferenceTypeOK
  <2>3. /\ used # 0 => age >= Secs(used)
        /\ ~instant => ~freq_nan
        /\ next_fb_drift # 0 => age >= Secs(next_fb_drift)
    BY <1>2 DEF RefInv, UsedIsReached, NumbersStay, NothingIsMissed
  <2> QED BY <1>1, <2>1, <2>2, <2>3, UnsynchronisedStep
<1>3. CASE Drifts = {} \/ timeout # NoTimeout
  <2>1. UNCHANGED <<next_fb_drift, timeout, freq_nan, used>>
    BY <1>3 DEF SetUnsynchronised, ScheduleFallbackDrift
  <2>2. /\ our_leap_status' \in LeapStatus /\ our_leap_sec' \in -1 .. 1 /\ kernel_leap' \in -1 .. 1
        /\ LeapIsKnown'
    BY <1>1, LeapStep DEF RefInv, LeapStatus
  <2>3. Drifts' = Drifts /\ Qualified' = Qualified
    BY <1>1, SameDrifts
  <2>4. ReferenceTypeOK'
    BY <1>1, <2>1, <2>2, <2>3 DEF RefInv, ReferenceTypeOK, times, limits
  <2>5. NothingYet' /\ ScheduleIsDue' /\ UsedIsReached' /\ NumbersStay'
    BY <1>1, <2>1, <2>3 DEF RefInv, NothingYet, ScheduleIsDue, UsedIsReached, NumbersStay, times
  <2>6. NothingIsMissed'
    <3>1. timeout = NoTimeout => Qualified = {}
      BY <1>3 DEF Qualified
    <3> QED BY <1>1, <2>1, <2>3, <3>1 DEF RefInv, NothingIsMissed, times
  <2>7. CountersLeft' /\ LimitsRespected'
    BY <1>1 DEF RefInv, CountersLeft, LimitsRespected, limits
  <2> QED BY <2>2, <2>4, <2>5, <2>6, <2>7 DEF RefInv
<1> QED BY <1>2, <1>3

\* fb_drift_timeout: the drift it was scheduled for is reached.
LEMMA FallbackTimeoutStep == ASSUME RefInv, FallbackTimeout PROVE RefInv'
<1>1. /\ in_main_loop # "exited" /\ UpdateLeapStatus("LEAP_Unsynchronised") /\ are_we_synchronised' = FALSE
      /\ UNCHANGED <<conf, in_main_loop, date, times, fb_drifts, limits>>
      /\ timeout = 0 /\ Schedule(next_fb_drift, next_fb_drift, fb_drifts[next_fb_drift].nan)
  BY DEF FallbackTimeout, ScheduleNext
<1>2. timeout # NoTimeout
  BY <1>1 DEF NoTimeout
<1>3. next_fb_drift \in Drifts /\ age = Secs(next_fb_drift) /\ age \in Nat
  <2>1. age \in Nat
    BY AgeAssumption DEF RefInv, ReferenceTypeOK, AgeAssumption
  <2>2. next_fb_drift \in Drifts /\ timeout + age = Secs(next_fb_drift)
    BY <1>2 DEF RefInv, ScheduleIsDue
  <2> QED BY <1>1, <2>1, <2>2
<1>4. fb_drifts[next_fb_drift].nan \in BOOLEAN /\ (~instant => ~fb_drifts[next_fb_drift].nan)
  BY <1>3 DEF RefInv, ReferenceTypeOK, NumbersStay
<1>5. age >= Secs(next_fb_drift)
  BY <1>3
<1> QED BY <1>1, <1>3, <1>4, <1>5, UnsynchronisedStep
\* REF_SetReference with an offset that is refused.
LEMMA RefuseReferenceStep == ASSUME RefInv, RefuseReference PROVE RefInv'
<1>1. /\ in_main_loop # "exited" /\ max_offset_delay = 0
      /\ in_main_loop' = IF max_offset_ignore = 0 THEN "quitting" ELSE in_main_loop
      /\ max_offset_ignore' = IF max_offset_ignore > 0 THEN max_offset_ignore - 1 ELSE max_offset_ignore
      /\ hist' = [hist EXCEPT !.refused = Count(@, conf.offset_ignore)]
      /\ UNCHANGED <<conf, are_we_synchronised, leap, date, times, fallback, make_step_limit, max_offset_delay>>
  BY DEF RefuseReference, OffsetOk, Refuse
<1>2. conf \in Config /\ conf.offset_ignore \in Int
  BY ConfigAssumption DEF RefInv, ReferenceTypeOK, Config
<1>3. Drifts' = Drifts /\ Qualified' = Qualified
  BY <1>1, SameDrifts DEF fallback
<1>4. max_offset_ignore \in Within(conf.offset_ignore) /\ hist.refused \in Nat
  BY DEF RefInv, ReferenceTypeOK, CountersLeft
<1>5. max_offset_ignore' \in Within(conf.offset_ignore)
  BY <1>1, <1>2, <1>4 DEF Within
<1>6. ReferenceTypeOK'
  BY <1>1, <1>3, <1>5 DEF RefInv, ReferenceTypeOK, leap, times, fallback
<1>7. LeapIsKnown' /\ NothingYet' /\ ScheduleIsDue' /\ NothingIsMissed' /\ UsedIsReached' /\ NumbersStay'
  BY <1>1, <1>3 DEF RefInv, LeapIsKnown, NothingYet, ScheduleIsDue, NothingIsMissed, UsedIsReached, NumbersStay,
                    leap, times, fallback
<1>8. /\ hist' \in [updates : Nat, references : Nat, stepped : Nat, large : Nat, refused : Nat]
      /\ hist'.updates = hist.updates /\ hist'.references = hist.references /\ hist'.stepped = hist.stepped
      /\ hist'.large = hist.large /\ hist'.refused = Count(hist.refused, conf.offset_ignore)
  <2>1. Count(hist.refused, conf.offset_ignore) \in Nat
    BY <1>4 DEF Count
  <2> QED BY <1>1, <2>1 DEF RefInv, CountersLeft
<1>9. CountersLeft'
  <2>1. conf.offset_ignore >= 0 => max_offset_ignore' = Left(conf.offset_ignore, hist'.refused)
    BY <1>1, <1>2, <1>4, <1>8, CountStep DEF RefInv, CountersLeft
  <2> QED BY <1>1, <1>8, <2>1 DEF RefInv, CountersLeft
<1>10. LimitsRespected'
  <2>1. ASSUME conf.offset_ignore >= 0
        PROVE  /\ max_offset_ignore = 0 <=> Count(hist.refused, conf.offset_ignore) > conf.offset_ignore
               /\ Count(hist.refused, conf.offset_ignore) >= hist.refused
    <3>1. conf.offset_ignore \in Nat /\ max_offset_ignore = Left(conf.offset_ignore, hist.refused)
      BY <1>2, <2>1 DEF RefInv, CountersLeft
    <3> QED BY <1>4, <3>1, CountStep
  <2>2. conf.offset_ignore < 0 => max_offset_ignore # 0
    BY <1>2, <1>4 DEF Within
  <2>3. Count(hist.refused, conf.offset_ignore) \in Nat
    BY <1>4 DEF Count
  <2>4. in_main_loop' = "quitting" => conf.offset_ignore >= 0 /\ hist'.refused > conf.offset_ignore
    BY <1>1, <1>2, <1>4, <1>8, <2>1, <2>2, <2>3 DEF RefInv, LimitsRespected
  <2>5. conf.offset_ignore >= 0 /\ hist'.refused > conf.offset_ignore => in_main_loop' # "yes"
    BY <1>1, <1>8, <2>1
  <2> QED BY <1>1, <1>8, <2>4, <2>5 DEF RefInv, LimitsRespected
<1> QED BY <1>6, <1>7, <1>9, <1>10 DEF RefInv

\* What maybe_make_step counts.
LEMMA MakeStepStep ==
  ASSUME RefInv, NEW jump \in BOOLEAN, MaybeMakeStep(jump), UNCHANGED conf,
         hist'.updates = Count(hist.updates, conf.make_step),
         hist'.stepped = IF jump THEN Count(hist.updates, conf.make_step) ELSE hist.stepped
  PROVE  /\ make_step_limit' \in Within(conf.make_step)
         /\ hist'.updates \in Nat /\ hist'.stepped \in Nat
         /\ conf.make_step >= 0 => /\ make_step_limit' = Left(conf.make_step, hist'.updates)
                                   /\ hist'.stepped <= conf.make_step
<1>1. conf \in Config /\ conf.make_step \in Int
  BY ConfigAssumption DEF RefInv, ReferenceTypeOK, Config
<1>2. make_step_limit \in Within(conf.make_step) /\ hist.updates \in Nat /\ hist.stepped \in Nat
  BY DEF RefInv, ReferenceTypeOK, CountersLeft
<1>3. hist'.updates \in Nat /\ hist'.stepped \in Nat
  BY <1>2 DEF Count
<1>4. make_step_limit' \in Within(conf.make_step)
  BY <1>1, <1>2 DEF MaybeMakeStep, Within
<1>5. ASSUME conf.make_step >= 0
      PROVE  make_step_limit' = Left(conf.make_step, hist'.updates) /\ hist'.stepped <= conf.make_step
  <2>1. conf.make_step \in Nat /\ make_step_limit = Left(conf.make_step, hist.updates) /\ hist.stepped <= conf.make_step
    BY <1>1, <1>5 DEF RefInv, CountersLeft, LimitsRespected
  <2>2. make_step_limit' = Left(conf.make_step, hist'.updates)
    <3>1. Left(conf.make_step, Count(hist.updates, conf.make_step)) =
            IF make_step_limit > 0 THEN make_step_limit - 1 ELSE make_step_limit
      BY <1>2, <2>1, CountStep
    <3> QED BY <3>1 DEF MaybeMakeStep
  <2>3. jump => Count(hist.updates, conf.make_step) <= conf.make_step
    <3>1. make_step_limit # 0 => Count(hist.updates, conf.make_step) <= conf.make_step
      BY <1>2, <2>1, CountStep
    <3> QED BY <3>1 DEF MaybeMakeStep
  <2> QED BY <2>1, <2>2, <2>3
<1> QED BY <1>3, <1>4, <1>5

\* What is_offset_ok counts.
LEMMA OffsetStep ==
  ASSUME RefInv, NEW large \in BOOLEAN, OffsetOk(large), CountOffset, UNCHANGED conf,
         hist'.references = Count(hist.references, conf.offset_delay),
         hist'.large = IF large THEN Count(hist.references, conf.offset_delay) ELSE hist.large
  PROVE  /\ max_offset_delay' \in Within(conf.offset_delay)
         /\ hist'.references \in Nat /\ hist'.large \in Nat
         /\ conf.offset_delay >= 0 => /\ max_offset_delay' = Left(conf.offset_delay, hist'.references)
                                      /\ hist'.large <= conf.offset_delay
<1>1. conf \in Config /\ conf.offset_delay \in Int
  BY ConfigAssumption DEF RefInv, ReferenceTypeOK, Config
<1>2. max_offset_delay \in Within(conf.offset_delay) /\ hist.references \in Nat /\ hist.large \in Nat
  BY DEF RefInv, ReferenceTypeOK, CountersLeft
<1>3. hist'.references \in Nat /\ hist'.large \in Nat
  BY <1>2 DEF Count
<1>4. max_offset_delay' \in Within(conf.offset_delay)
  BY <1>1, <1>2 DEF CountOffset, Within
<1>5. ASSUME conf.offset_delay >= 0
      PROVE  max_offset_delay' = Left(conf.offset_delay, hist'.references) /\ hist'.large <= conf.offset_delay
  <2>1. conf.offset_delay \in Nat /\ max_offset_delay = Left(conf.offset_delay, hist.references)
        /\ hist.large <= conf.offset_delay
    BY <1>1, <1>5 DEF RefInv, CountersLeft, LimitsRespected
  <2>2. max_offset_delay' = Left(conf.offset_delay, hist'.references)
    <3>1. Left(conf.offset_delay, Count(hist.references, conf.offset_delay)) =
            IF max_offset_delay > 0 THEN max_offset_delay - 1 ELSE max_offset_delay
      BY <1>2, <2>1, CountStep
    <3> QED BY <3>1 DEF CountOffset
  <2>3. large => Count(hist.references, conf.offset_delay) <= conf.offset_delay
    <3>1. max_offset_delay # 0 => Count(hist.references, conf.offset_delay) <= conf.offset_delay
      BY <1>2, <2>1, CountStep
    <3> QED BY <3>1 DEF OffsetOk
  <2> QED BY <2>1, <2>2, <2>3
<1> QED BY <1>3, <1>4, <1>5
\* REF_SetReference: the fallbacks are cancelled and the averages brought up to date.
LEMMA SetReferenceStep == ASSUME RefInv, SetReference PROVE RefInv'
<1>1. /\ in_main_loop # "exited" /\ instant' = (instant \/ UpdateInterval = 0)
      /\ are_we_synchronised' = TRUE /\ updated' = TRUE /\ age' = 0
      /\ last_ref_update_interval' = UpdateInterval /\ used' = 0
      /\ UNCHANGED <<conf, in_main_loop, date, max_offset_ignore>>
  BY DEF SetReference
<1>2. PICK l \in LeapStatus \ {"LEAP_Unsynchronised"} : UpdateLeapStatus(l)
  BY DEF SetReference
<1>3. PICK nan \in {FALSE, freq_nan} : freq_nan' = nan /\ UpdateFallbackDrifts(UpdateInterval, nan)
  BY DEF SetReference
<1>4. PICK large \in BOOLEAN, jump \in BOOLEAN :
        /\ OffsetOk(large) /\ CountOffset /\ MaybeMakeStep(jump)
        /\ hist' = [hist EXCEPT !.updates = Count(@, conf.make_step),
                                !.references = Count(@, conf.offset_delay),
                                !.stepped = IF jump THEN Count(hist.updates, conf.make_step) ELSE @,
                                !.large = IF large THEN Count(hist.references, conf.offset_delay) ELSE @]
  BY DEF SetReference
<1>5. ReferenceTypeOK /\ conf \in Configs /\ nan \in BOOLEAN /\ freq_nan \in BOOLEAN /\ age \in Nat
      /\ UpdateInterval \in 0 .. MaxAge \cup {Forever} /\ UpdateInterval \in Nat
  <2>1. ReferenceTypeOK /\ conf \in Configs /\ freq_nan \in BOOLEAN /\ age \in 0 .. MaxAge \cup {Forever}
    BY DEF RefInv, ReferenceTypeOK
  <2>2. MaxAge \in Nat /\ Forever \in Nat
    BY AgeAssumption DEF AgeAssumption
  <2>3. UpdateInterval = age \/ UpdateInterval = 0
    BY DEF UpdateInterval
  <2>4. age \in Nat /\ 0 \in 0 .. MaxAge
    BY <2>1, <2>2
  <2>5. UpdateInterval \in 0 .. MaxAge \cup {Forever} /\ UpdateInterval \in Nat
    BY <2>1, <2>2, <2>3, <2>4
  <2>6. nan \in BOOLEAN
    BY <2>1
  <2> QED BY <2>1, <2>4, <2>5, <2>6
<1>6. /\ our_leap_status' \in LeapStatus /\ our_leap_sec' \in -1 .. 1 /\ kernel_leap' \in -1 .. 1
      /\ LeapIsKnown'
  BY <1>1, <1>2, LeapStep DEF RefInv
<1>7. Drifts' = Drifts /\ \A i \in Drifts : HalfSecs(i) \in Nat \ {0}
  BY <1>1, <1>5, DriftsGrow DEF Drifts
<1>8. next_fb_drift' = 0 /\ timeout' = NoTimeout
  <2>1. CASE Drifts = {}
    <3>1. next_fb_drift = 0 /\ timeout = NoTimeout
      BY <2>1 DEF RefInv, ReferenceTypeOK, ScheduleIsDue
    <3> QED BY <1>3, <2>1, <3>1 DEF UpdateFallbackDrifts
  <2>2. CASE Drifts # {}
    BY <1>3, <2>2 DEF UpdateFallbackDrifts, CancelFallback
  <2> QED BY <2>1, <2>2
<1>9. \/ fb_drifts' = fb_drifts
      \/ \E close \in [Drifts -> BOOLEAN] :
           fb_drifts' = [i \in Drifts |-> AverageOf(i, UpdateInterval, close[i], nan)]
  BY <1>3 DEF UpdateFallbackDrifts
<1>10. ~instant' => ~instant /\ ~nan /\ UpdateInterval # 0
  <2>1. ~instant => ~freq_nan
    BY DEF RefInv, NumbersStay
  <2>2. ~instant' => ~instant /\ UpdateInterval # 0
    BY <1>1
  <2>3. nan = FALSE \/ nan = freq_nan
    OBVIOUS
  <2> QED BY <2>1, <2>2, <2>3, Zenon
<1>11. /\ DOMAIN fb_drifts' = Drifts
       /\ \A i \in Drifts : fb_drifts'[i].secs \in 0 .. HalfSecs(i) /\ fb_drifts'[i].nan \in BOOLEAN
       /\ ~instant' => \A i \in Drifts : ~fb_drifts'[i].nan
  <2>1. CASE fb_drifts' = fb_drifts
    BY <1>10, <2>1 DEF RefInv, ReferenceTypeOK, NumbersStay
  <2>2. ASSUME NEW close \in [Drifts -> BOOLEAN],
               fb_drifts' = [i \in Drifts |-> AverageOf(i, UpdateInterval, close[i], nan)]
        PROVE  /\ DOMAIN fb_drifts' = Drifts
               /\ \A i \in Drifts : fb_drifts'[i].secs \in 0 .. HalfSecs(i) /\ fb_drifts'[i].nan \in BOOLEAN
               /\ ~instant' => \A i \in Drifts : ~fb_drifts'[i].nan
    <3>1. \A i \in Drifts : fb_drifts'[i] = AverageOf(i, UpdateInterval, close[i], nan) /\ close[i] \in BOOLEAN
      BY <2>2
    <3>2. ASSUME NEW i \in Drifts
          PROVE  /\ fb_drifts'[i].secs \in 0 .. HalfSecs(i) /\ fb_drifts'[i].nan \in BOOLEAN
                 /\ ~nan /\ ~fb_drifts[i].nan /\ UpdateInterval # 0 => ~fb_drifts'[i].nan
      <4> DEFINE new == AverageOf(i, UpdateInterval, close[i], nan)
      <4>1. close[i] \in BOOLEAN /\ fb_drifts'[i] = new
        BY <3>1
      <4>2. /\ new.secs \in 0 .. HalfSecs(i) /\ new.nan \in BOOLEAN
            /\ ~nan /\ ~fb_drifts[i].nan /\ UpdateInterval # 0 => ~new.nan
        BY <1>5, <4>1, AverageStep, Zenon
      <4> HIDE DEF new
      <4> QED BY <4>1, <4>2, Zenon
    <3> QED BY <1>10, <2>2, <3>2 DEF RefInv, NumbersStay
  <2> QED BY <1>9, <2>1, <2>2
<1>12. hist \in [updates : Nat, references : Nat, stepped : Nat, large : Nat, refused : Nat]
  BY DEF RefInv, CountersLeft
<1>13. /\ hist'.updates = Count(hist.updates, conf.make_step)
       /\ hist'.stepped = IF jump THEN Count(hist.updates, conf.make_step) ELSE hist.stepped
       /\ hist'.references = Count(hist.references, conf.offset_delay)
       /\ hist'.large = IF large THEN Count(hist.references, conf.offset_delay) ELSE hist.large
       /\ hist'.refused = hist.refused
  BY <1>4, <1>12
<1>14. /\ make_step_limit' \in Within(conf.make_step) /\ hist'.updates \in Nat /\ hist'.stepped \in Nat
       /\ conf.make_step >= 0 => /\ make_step_limit' = Left(conf.make_step, hist'.updates)
                                 /\ hist'.stepped <= conf.make_step
  BY <1>1, <1>4, <1>13, MakeStepStep
<1>15. /\ max_offset_delay' \in Within(conf.offset_delay) /\ hist'.references \in Nat /\ hist'.large \in Nat
       /\ conf.offset_delay >= 0 => /\ max_offset_delay' = Left(conf.offset_delay, hist'.references)
                                    /\ hist'.large <= conf.offset_delay
  BY <1>1, <1>4, <1>13, OffsetStep
<1>16. ReferenceTypeOK'
  <2>1. {age', last_ref_update_interval'} \subseteq 0 .. MaxAge \cup {Forever}
    BY <1>1, <1>5, AgeAssumption DEF AgeAssumption
  <2>2. {are_we_synchronised', updated', instant', freq_nan'} \subseteq BOOLEAN
    BY <1>1, <1>3, <1>5
  <2> QED BY <1>1, <1>5, <1>6, <1>7, <1>8, <1>11, <1>14, <1>15, <2>1, <2>2 DEF ReferenceTypeOK
<1>17. NothingYet' /\ ScheduleIsDue' /\ NothingIsMissed' /\ UsedIsReached' /\ NumbersStay'
  <2>1. age' # Forever
    BY <1>1, AgeAssumption DEF AgeAssumption
  <2> QED BY <1>1, <1>3, <1>7, <1>8, <1>10, <1>11, <2>1
          DEF NothingYet, ScheduleIsDue, NothingIsMissed, UsedIsReached, NumbersStay
<1>18. CountersLeft'
  <2>1. hist' \in [updates : Nat, references : Nat, stepped : Nat, large : Nat, refused : Nat]
    BY <1>4, <1>12, <1>13, <1>14, <1>15
  <2> QED BY <1>1, <1>13, <1>14, <1>15, <2>1 DEF RefInv, CountersLeft
<1>19. LimitsRespected'
  BY <1>1, <1>13, <1>14, <1>15 DEF RefInv, LimitsRespected
<1> QED BY <1>6, <1>16, <1>17, <1>18, <1>19 DEF RefInv

\* REF_SetManualReference: the clock leaves the fallback drift, the schedule stays.
LEMMA SetManualReferenceStep == ASSUME RefInv, SetManualReference PROVE RefInv'
<1>1. /\ in_main_loop # "exited" /\ are_we_synchronised' = FALSE /\ used' = 0
      /\ UNCHANGED <<conf, in_main_loop, leap, date, times, fb_drifts, next_fb_drift, timeout,
                     max_offset_delay, max_offset_ignore>>
  BY DEF SetManualReference
<1>2. PICK nan \in {FALSE, freq_nan} : freq_nan' = nan
  BY DEF SetManualReference
<1>3. PICK jump \in BOOLEAN :
        /\ MaybeMakeStep(jump)
        /\ hist' = [hist EXCEPT !.updates = Count(@, conf.make_step),
                                !.stepped = IF jump THEN Count(hist.updates, conf.make_step) ELSE @]
  BY DEF SetManualReference
<1>4. Drifts' = Drifts /\ Qualified' = Qualified
  BY <1>1, SameDrifts
<1>5. hist \in [updates : Nat, references : Nat, stepped : Nat, large : Nat, refused : Nat]
  BY DEF RefInv, CountersLeft
<1>6. /\ hist'.updates = Count(hist.updates, conf.make_step)
      /\ hist'.stepped = IF jump THEN Count(hist.updates, conf.make_step) ELSE hist.stepped
      /\ hist'.references = hist.references /\ hist'.large = hist.large /\ hist'.refused = hist.refused
  BY <1>3, <1>5
<1>7. /\ make_step_limit' \in Within(conf.make_step) /\ hist'.updates \in Nat /\ hist'.stepped \in Nat
      /\ conf.make_step >= 0 => /\ make_step_limit' = Left(conf.make_step, hist'.updates)
                                /\ hist'.stepped <= conf.make_step
  BY <1>1, <1>3, <1>6, MakeStepStep
<1>8. ReferenceTypeOK'
  <2>1. freq_nan' \in BOOLEAN
    BY <1>2 DEF RefInv, ReferenceTypeOK
  <2> QED BY <1>1, <1>4, <1>7, <2>1 DEF RefInv, ReferenceTypeOK, leap, times
<1>9. LeapIsKnown' /\ NothingYet' /\ ScheduleIsDue' /\ UsedIsReached' /\ NumbersStay'
  <2>1. LeapIsKnown' /\ NothingYet' /\ ScheduleIsDue' /\ UsedIsReached'
    BY <1>1, <1>4 DEF RefInv, LeapIsKnown, NothingYet, ScheduleIsDue, UsedIsReached, leap, times
  <2>2. ~instant => ~freq_nan /\ \A i \in Drifts : ~fb_drifts[i].nan
    BY DEF RefInv, NumbersStay
  <2>3. freq_nan' = FALSE \/ freq_nan' = freq_nan
    BY <1>2
  <2>4. UNCHANGED <<conf, instant, fb_drifts>>
    BY <1>1 DEF times
  <2> QED BY <1>4, <2>1, <2>2, <2>3, <2>4 DEF NumbersStay
\* A clock that was synchronised is none that the reference calls unsynchronised.
<1>10. NothingIsMissed'
  BY <1>1, <1>4 DEF RefInv, LeapIsKnown, NothingIsMissed, leap, times, ReferenceTypeOK
<1>11. CountersLeft'
  <2>1. hist' \in [updates : Nat, references : Nat, stepped : Nat, large : Nat, refused : Nat]
    BY <1>3, <1>5, <1>6, <1>7
  <2> QED BY <1>1, <1>6, <1>7, <2>1 DEF RefInv, CountersLeft
<1>12. LimitsRespected'
  BY <1>1, <1>6, <1>7 DEF RefInv, LimitsRespected
<1> QED BY <1>8, <1>9, <1>10, <1>11, <1>12 DEF RefInv
\* handle_slew: the age of the last update does not change with the clock.
LEMMA HandleStepStep == ASSUME RefInv, HandleStep PROVE RefInv'
<1>1. /\ updated' = TRUE
      /\ UNCHANGED <<conf, in_main_loop, are_we_synchronised, leap, date, age, last_ref_update_interval,
                     instant, fallback, limits>>
  BY DEF HandleStep
<1>2. Drifts' = Drifts /\ Qualified' = Qualified
  BY <1>1, SameDrifts DEF fallback
<1>3. ReferenceTypeOK'
  BY <1>1, <1>2 DEF RefInv, ReferenceTypeOK, leap, fallback, limits
<1>4. LeapIsKnown' /\ NothingYet' /\ ScheduleIsDue' /\ NothingIsMissed' /\ UsedIsReached'
  BY <1>1, <1>2 DEF RefInv, LeapIsKnown, NothingYet, ScheduleIsDue, NothingIsMissed, UsedIsReached, leap, fallback
<1>5. NumbersStay'
  BY <1>1, <1>2 DEF RefInv, NumbersStay, fallback
<1>6. CountersLeft' /\ LimitsRespected'
  BY <1>1 DEF RefInv, CountersLeft, LimitsRespected, limits
<1> QED BY <1>3, <1>4, <1>5, <1>6 DEF RefInv

\* A second passes: the fallback that is scheduled comes nearer.
LEMMA SecondPassesStep == ASSUME RefInv, SecondPasses PROVE RefInv'
<1>1. /\ in_main_loop = "yes" /\ timeout # 0
      /\ age < AgeBound \/ age = Forever
      /\ age' = IF age = Forever THEN age ELSE age + 1
      /\ timeout' = IF timeout = NoTimeout THEN timeout ELSE timeout - 1
      /\ UNCHANGED <<conf, in_main_loop, are_we_synchronised, leap, date, updated, last_ref_update_interval,
                     instant, fb_drifts, next_fb_drift, freq_nan, used, limits>>
  BY DEF SecondPasses
<1>2. Drifts' = Drifts /\ Qualified' = Qualified
  BY <1>1, SameDrifts
<1>3. /\ MaxAge \in Nat \ {0} /\ Forever \in Nat /\ MaxAge < Forever /\ age \in 0 .. MaxAge \cup {Forever}
      /\ timeout \in Nat \cup {NoTimeout} /\ conf \in Configs /\ used \in {0} \cup Drifts
      /\ next_fb_drift \in {0} \cup Drifts
  BY AgeAssumption DEF AgeAssumption, RefInv, ReferenceTypeOK
<1>4. age # Forever => age' \in 0 .. MaxAge /\ age' = age + 1 /\ age' # Forever
  BY <1>1, <1>3 DEF AgeBound
<1>5. age = Forever => age' = Forever /\ timeout = NoTimeout
  BY <1>1 DEF RefInv, NothingYet
<1>6. /\ timeout = NoTimeout <=> timeout' = NoTimeout
      /\ timeout # NoTimeout => timeout' \in Nat /\ timeout' + 1 = timeout
  BY <1>1, <1>3 DEF NoTimeout
<1>7. age \in Nat /\ age' \in Nat /\ age <= age'
  BY <1>3, <1>4, <1>5
<1>8. \A i \in Drifts : Secs(i) \in Nat
  BY <1>3, DriftsGrow
<1>9. Qualified \subseteq Drifts
  BY DEF Qualified
<1>10. ReferenceTypeOK'
  <2>1. {age', last_ref_update_interval'} \subseteq 0 .. MaxAge \cup {Forever}
    BY <1>1, <1>3, <1>4, <1>5 DEF RefInv, ReferenceTypeOK
  <2>2. timeout' \in Nat \cup {NoTimeout}
    BY <1>3, <1>6
  <2> QED BY <1>1, <1>2, <2>1, <2>2 DEF RefInv, ReferenceTypeOK, leap, limits
<1>11. LeapIsKnown' /\ NothingYet' /\ UsedIsReached' /\ NumbersStay'
  <2>1. LeapIsKnown' /\ NumbersStay'
    BY <1>1, <1>2 DEF RefInv, LeapIsKnown, NumbersStay, leap
  <2>2. NothingYet'
    BY <1>1, <1>2, <1>4, <1>5 DEF RefInv, NothingYet
  <2>3. UsedIsReached'
    BY <1>1, <1>3, <1>7, <1>8 DEF RefInv, UsedIsReached
  <2> QED BY <2>1, <2>2, <2>3
<1>12. ScheduleIsDue'
  <2> SUFFICES ASSUME timeout' # NoTimeout
               PROVE  /\ next_fb_drift \in Drifts /\ ~are_we_synchronised
                      /\ timeout' + age' = Secs(next_fb_drift)
                      /\ \A i \in Qualified : age' < Secs(i) => next_fb_drift <= i
    BY <1>1, <1>2 DEF ScheduleIsDue
  <2>1. /\ timeout # NoTimeout /\ timeout' \in Nat /\ timeout' + 1 = timeout /\ age' = age + 1
    BY <1>4, <1>5, <1>6
  <2>2. /\ next_fb_drift \in Drifts /\ ~are_we_synchronised /\ timeout + age = Secs(next_fb_drift)
        /\ \A i \in Qualified : age < Secs(i) => next_fb_drift <= i
    BY <2>1 DEF RefInv, ScheduleIsDue
  <2>3. \A i \in Qualified : age' < Secs(i) => age < Secs(i)
    BY <1>7, <1>8, <1>9
  <2> QED BY <1>7, <2>1, <2>2, <2>3
<1>13. NothingIsMissed'
  <2>1. \A i \in Drifts : age >= Secs(i) => age' >= Secs(i)
    BY <1>7, <1>8
  <2> QED BY <1>1, <1>2, <1>3, <1>6, <1>9, <2>1 DEF RefInv, NothingIsMissed, leap
<1>14. CountersLeft' /\ LimitsRespected'
  BY <1>1 DEF RefInv, CountersLeft, LimitsRespected, limits
<1> QED BY <1>10, <1>11, <1>12, <1>13, <1>14 DEF RefInv

\* Another date, and stuttering.
LEMMA NewDateStep ==
  ASSUME RefInv, date' \in Date,
         UNCHANGED <<conf, in_main_loop, are_we_synchronised, leap, times, fallback, limits>>
  PROVE  RefInv'
<1>1. Drifts' = Drifts /\ Qualified' = Qualified
  BY SameDrifts DEF fallback
<1>2. ReferenceTypeOK'
  BY <1>1 DEF RefInv, ReferenceTypeOK, leap, times, fallback, limits
<1>3. /\ LeapIsKnown' /\ NothingYet' /\ ScheduleIsDue' /\ NothingIsMissed' /\ UsedIsReached' /\ NumbersStay'
      /\ CountersLeft' /\ LimitsRespected'
  BY <1>1 DEF RefInv, LeapIsKnown, NothingYet, ScheduleIsDue, NothingIsMissed, UsedIsReached, NumbersStay,
              CountersLeft, LimitsRespected, leap, times, fallback, limits
<1> QED BY <1>2, <1>3 DEF RefInv

\* REF_Finalise: the leap second is disarmed.
LEMMA RefFinaliseStep == ASSUME RefInv, Finalise PROVE RefInv'
<1>1. /\ in_main_loop # "exited" /\ in_main_loop' = "exited"
      /\ kernel_leap' = IF our_leap_sec # 0 THEN 0 ELSE kernel_leap
      /\ UNCHANGED <<conf, are_we_synchronised, our_leap_status, our_leap_sec, date, times, fallback, limits>>
  BY DEF Finalise
<1>2. Drifts' = Drifts /\ Qualified' = Qualified
  BY <1>1, SameDrifts DEF fallback
<1>3. kernel_leap' = 0
  BY <1>1 DEF RefInv, LeapIsKnown
<1>4. ReferenceTypeOK'
  BY <1>1, <1>2, <1>3 DEF RefInv, ReferenceTypeOK, times, fallback, limits
<1>5. LeapIsKnown' /\ NothingYet' /\ ScheduleIsDue' /\ NothingIsMissed' /\ UsedIsReached' /\ NumbersStay'
  BY <1>1, <1>2, <1>3 DEF RefInv, LeapIsKnown, NothingYet, ScheduleIsDue, NothingIsMissed, UsedIsReached,
                          NumbersStay, times, fallback
<1>6. CountersLeft' /\ LimitsRespected'
  BY <1>1 DEF RefInv, CountersLeft, LimitsRespected, limits
<1> QED BY <1>4, <1>5, <1>6 DEF RefInv

\* Every step keeps the invariant.
LEMMA IInvNext == RefInv /\ [ReferenceNext]_referenceVars => RefInv'
<1> SUFFICES ASSUME RefInv, [ReferenceNext]_referenceVars PROVE RefInv'
  OBVIOUS
<1>1. ASSUME NewDate \/ UNCHANGED referenceVars PROVE RefInv'
  <2>1. date' \in Date /\ UNCHANGED <<conf, in_main_loop, are_we_synchronised, leap, times, fallback, limits>>
    BY <1>1 DEF NewDate, referenceVars, RefInv, ReferenceTypeOK
  <2> QED BY <2>1, NewDateStep
<1> QED BY <1>1, RefuseReferenceStep, SetReferenceStep, SetManualReferenceStep, SetUnsynchronisedStep,
           FallbackTimeoutStep, HandleStepStep, SecondPassesStep, RefFinaliseStep DEF ReferenceNext

-----------------------------------------------------------------------------
(* The theorems. *)

\* The invariant, and the types of the state with it, hold in every behaviour.
THEOREM ReferenceIInv == ReferenceSpec => []RefInv
<1>1. ReferenceInit => RefInv
  BY IInvInit
<1>2. RefInv /\ [ReferenceNext]_referenceVars => RefInv'
  BY IInvNext
<1> QED BY <1>1, <1>2, PTL DEF ReferenceSpec

\* The assertions of the fallback timeout hold, the clock runs at a fallback drift only
\* when it is due and the clock unsynchronised, and a NaN comes only from an interval of zero
\* (fb_drift_timeout, schedule_fb_drift, update_fb_drifts).
THEOREM ReferenceFallbackSound == ReferenceSpec => []FallbackSound
<1>1. RefInv => FallbackSound
  BY DEF RefInv, ScheduleIsDue, UsedIsReached, NumbersStay, FallbackSound
<1> QED BY <1>1, ReferenceIInv, PTL

\* The ladder of fallback drifts never ends before the last that qualifies
\* (schedule_fb_drift).
THEOREM ReferenceLadderContinues == ReferenceSpec => []LadderContinues
<1>1. RefInv => LadderContinues
  <2> SUFFICES ASSUME RefInv, our_leap_status = "LEAP_Unsynchronised", ~are_we_synchronised,
                      NEW i \in Qualified, age < Secs(i)
               PROVE  timeout # NoTimeout /\ next_fb_drift <= i
    BY DEF LadderContinues
  <2>1. age \in Int /\ Secs(i) \in Int
    <3>1. i \in Drifts /\ conf \in Configs /\ age \in Nat
      BY AgeAssumption DEF RefInv, ReferenceTypeOK, Qualified, AgeAssumption
    <3> QED BY <3>1, DriftsGrow
  <2>2. ~(age >= Secs(i))
    BY <2>1
  <2> QED BY <2>2 DEF RefInv, ScheduleIsDue, NothingIsMissed
<1> QED BY <1>1, ReferenceIInv, PTL

\* makestep and maxchange over any number of updates (maybe_make_step, is_offset_ok).
THEOREM ReferenceLimitsRespected == ReferenceSpec => []LimitsRespected
<1>1. RefInv => LimitsRespected
  BY DEF RefInv
<1> QED BY <1>1, ReferenceIInv, PTL

\* A leap second armed in the kernel is one the reference announces, none is left at
\* the exit (update_leap_status, REF_Finalise).
THEOREM ReferenceLeapDisarmed == ReferenceSpec => []LeapDisarmed
<1>1. RefInv => LeapDisarmed
  <2> SUFFICES ASSUME RefInv, kernel_leap # 0
               PROVE  /\ in_main_loop # "exited"
                      /\ our_leap_status = IF kernel_leap = 1 THEN "LEAP_InsertSecond" ELSE "LEAP_DeleteSecond"
    BY DEF LeapDisarmed
  <2>1. in_main_loop # "exited" /\ kernel_leap = our_leap_sec
    BY DEF RefInv, LeapIsKnown
  <2>2. kernel_leap = 1 \/ kernel_leap = -1
    BY DEF RefInv, ReferenceTypeOK
  <2> QED BY <2>1, <2>2 DEF RefInv, LeapIsKnown
<1> QED BY <1>1, ReferenceIInv, PTL
=============================================================================

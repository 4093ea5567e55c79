------------------------------- MODULE Acquire -------------------------------
(***************************************************************************)
(* The initial step of the clock (acquire.c): each server of the           *)
(* initstepslew directive is probed until enough good answers have come or *)
(* it has stopped answering; when all are finished the clock is set, the   *)
(* records are freed and the rest of the start is called.                  *)
(*                                                                         *)
(* The network may lose any answer.  A "late" one may also deliver it      *)
(* after the retransmission timeout, and a "duplicating" one more than     *)
(* once.  After the end a timeout still queued would read freed records:   *)
(* the model stops there.                                                  *)
(***************************************************************************)
EXTENDS Integers, FiniteSets

CONSTANTS
  n_sources, Networks,
  MAX_DEAD_PROBES, N_GOOD_SAMPLES, MAX_SAMPLES

Network == {"timely", "late", "duplicating"}
Server == 1 .. n_sources
Start == 0                \* start_source_timeout_handler, among the queued timeouts

ASSUME CountAssumption == {n_sources, MAX_DEAD_PROBES, N_GOOD_SAMPLES, MAX_SAMPLES} \subseteq Nat \ {0}
ASSUME NetworkAssumption == Networks \subseteq Network

VARIABLES
  network,
  n_started, n_completed,
  n_dead_probes, n_samples, n_total_samples,
  timer_running,
  queue,          \* the timeouts queued: Start, and a server for its transmit_timeout
  unanswered,     \* servers whose answer to last_tx may still come
  stale,          \* number of answers to earlier probes that may still come
  hook_calls      \* calls of saved_after_hook, which follow Free(sources)

counts == <<n_dead_probes, n_samples, n_total_samples>>
vars == <<network, n_started, n_completed, counts, timer_running, queue, unanswered, stale, hook_calls>>

Probing == hook_calls = 0

-----------------------------------------------------------------------------
(* probe_source replaces last_tx: an answer to the probe before is stale. *)

Outstanding(s) == stale[s] + IF s \in unanswered THEN 1 ELSE 0

\* The probe of s and the timeout queued for it, besides those in q.
Probe(s, q, dead) ==
  /\ n_dead_probes' = [n_dead_probes EXCEPT ![s] = dead + 1]
  /\ timer_running' = [timer_running EXCEPT ![s] = TRUE]
  /\ queue' = q \cup {s}

\* start_next_source, after the servers already started.
StartNext(started, q) ==
  LET s == started + 1 IN
  /\ n_started' = s
  /\ Probe(s, IF s < n_sources THEN q \cup {Start} ELSE q, 0)

\* Fault: one completion too many is waited for.
LastMissed(completed) == completed > n_sources

Last(completed) == completed = n_sources

\* One more server is finished; with the last one, wind_up_acquisition.
Complete(s, q, dead) ==
  /\ n_completed' = n_completed + 1
  /\ hook_calls' = IF Last(n_completed') THEN hook_calls + 1 ELSE hook_calls
  /\ n_dead_probes' = [n_dead_probes EXCEPT ![s] = dead]
  /\ timer_running' = [timer_running EXCEPT ![s] = FALSE]
  /\ queue' = q

-----------------------------------------------------------------------------
(* ACQ_StartAcquisition. *)
Init ==
  /\ network \in Networks
  /\ n_started = 1 /\ n_completed = 0
  /\ n_dead_probes = [s \in Server |-> IF s = 1 THEN 1 ELSE 0]
  /\ n_samples = [s \in Server |-> 0] /\ n_total_samples = [s \in Server |-> 0]
  /\ timer_running = [s \in Server |-> s = 1]
  /\ queue = IF n_sources > 1 THEN {1, Start} ELSE {1}
  /\ unanswered = {1} /\ stale = [s \in Server |-> 0]
  /\ hook_calls = 0

StartSource ==
  /\ Probing /\ Start \in queue
  /\ StartNext(n_started, queue \ {Start})
  /\ unanswered' = unanswered \cup {n_started + 1}
  /\ UNCHANGED <<network, n_completed, n_samples, n_total_samples, stale, hook_calls>>

TransmitTimeout(s) ==
  /\ Probing /\ s \in queue
  /\ IF n_dead_probes[s] < MAX_DEAD_PROBES
       THEN /\ Probe(s, queue \ {s}, n_dead_probes[s])
            /\ stale' = [stale EXCEPT ![s] = Outstanding(s)]
            /\ unanswered' = unanswered \cup {s}
            /\ UNCHANGED <<n_completed, hook_calls>>
       ELSE Complete(s, queue \ {s}, n_dead_probes[s]) /\ UNCHANGED <<unanswered, stale>>
  /\ UNCHANGED <<network, n_started, n_samples, n_total_samples>>

\* Fault: the timeout of the probe answered is left queued.
CancelNothing(s) == queue

\* SCH_RemoveTimeout, if the timer is running.
Cancel(s) == IF timer_running[s] THEN queue \ {s} ELSE queue

\* Fault: the originate timestamp is not compared with last_tx.
SampledAny(s, last, sane) == n_samples[s] + IF sane THEN 1 ELSE 0

\* process_receive takes a sample from a sane answer to the last probe.
Sampled(s, last, sane) == n_samples[s] + IF last /\ sane THEN 1 ELSE 0

Finished(samples, total) == samples >= N_GOOD_SAMPLES \/ total >= MAX_SAMPLES

\* The answer that arrives has left the network, unless that duplicates it.
Unanswered(s, last) == IF last /\ network # "duplicating" THEN unanswered \ {s} ELSE unanswered
Stale(s, last) == IF last \/ network = "duplicating" THEN stale[s] ELSE stale[s] - 1

\* read_from_socket, with an answer to the last probe or to an earlier one.
ReadFromSocket(s, last, sane) ==
  /\ Probing
  /\ IF last THEN s \in unanswered ELSE stale[s] > 0 /\ network # "timely"
  /\ network = "timely" => timer_running[s]
  /\ n_total_samples' = [n_total_samples EXCEPT ![s] = @ + 1]
  /\ n_samples' = [n_samples EXCEPT ![s] = Sampled(s, last, sane)]
  /\ IF Finished(n_samples'[s], n_total_samples'[s])
       THEN /\ Complete(s, Cancel(s), 0)
            /\ unanswered' = Unanswered(s, last)
            /\ stale' = [stale EXCEPT ![s] = Stale(s, last)]
       ELSE /\ Probe(s, Cancel(s), 0)
            /\ unanswered' = unanswered \cup {s}
            /\ stale' = [stale EXCEPT ![s] = Stale(s, last) + IF s \in Unanswered(s, last) THEN 1 ELSE 0]
            /\ UNCHANGED <<n_completed, hook_calls>>
  /\ UNCHANGED <<network, n_started>>

Timeout == StartSource \/ \E s \in Server : TransmitTimeout(s)
Next == Timeout \/ \E s \in Server, last, sane \in BOOLEAN : ReadFromSocket(s, last, sane)

Spec == Init /\ [][Next]_vars

\* The scheduler dispatches the timeouts queued; a server sends finitely many
\* answers, and each of them is given finitely many probes.
FairSpec == Spec /\ WF_vars(Timeout)

-----------------------------------------------------------------------------
(* Properties. *)

TypeOK ==
  /\ network \in Networks
  /\ n_started \in Server /\ n_completed \in 0 .. n_sources
  /\ n_dead_probes \in [Server -> 0 .. MAX_DEAD_PROBES]
  /\ n_samples \in [Server -> Nat] /\ n_total_samples \in [Server -> Nat]
  /\ timer_running \in [Server -> BOOLEAN]
  /\ queue \subseteq Server \cup {Start}
  /\ unanswered \subseteq Server /\ stale \in [Server -> Nat]
  /\ hook_calls \in 0 .. 1

\* When no answer comes after its timeout, the records are freed once every
\* server was started and is finished, and with no timeout queued that would
\* come back to them: finished servers are counted once each, in whatever
\* order they start, answer and fall silent.
NothingDangling ==
  network = "timely" /\ ~Probing =>
    /\ queue = {} /\ n_started = n_sources
    /\ \A s \in Server : \/ Finished(n_samples[s], n_total_samples[s])
                         \/ n_dead_probes[s] = MAX_DEAD_PROBES

\* Unless an answer is duplicated, a server gives at most the samples asked
\* for: the arrays of MAX_SAMPLES are indexed without a test.
SamplesFit == network # "duplicating" => \A s \in Server : n_samples[s] <= N_GOOD_SAMPLES

\* The start of chronyd waits for the hook: it is called, once, whatever the
\* servers and the network do.
HookCalled == <>[](hook_calls = 1)
=============================================================================

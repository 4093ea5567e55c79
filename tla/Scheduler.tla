------------------------------ MODULE Scheduler ------------------------------
(***************************************************************************)
(* The event loop of chronyd (sched.c): the timeout queue, the file        *)
(* handlers and SCH_MainLoop.  Every other module runs inside one of its   *)
(* handlers; here a handler is any one call of the scheduler, or none.     *)
(*                                                                         *)
(* Time is counted from now: a queued timeout has a number of seconds left *)
(* and the raw clock may jump back during select().  The jump shows when   *)
(* the clock is read after it.                                             *)
(***************************************************************************)
EXTENDS Integers, FiniteSetsExt, SequencesExt

CONSTANTS
  TimeoutID, MaxEntries,  \* bound of the queue; one more identifier than entries
  Delays,                 \* delays of new timeouts
  Separation,             \* separation of the timeouts of a class
  FD_SET_SIZE,             \* the size of file_handlers
  Fd,                     \* file descriptors the handlers may register
  Jumps,                  \* lengths of a backward jump of the raw clock
  MaxLate,                \* bound: how late a timeout may be dispatched
  MaxBusy,                \* bound: time spent in the handlers of one round
  MaxWait,                \* bound: time between two returns of select
  MaxLeft                 \* bound: the clock jumps when no timeout is further away, and
                          \* no earlier jump still shows in last_class_dispatch

Class == {"SCH_ReservedTimeoutValue", "SCH_NtpSamplingClass"}

ASSUME FdAssumption == FD_SET_SIZE \in Nat /\ Fd \subseteq 0 .. FD_SET_SIZE - 1
ASSUME DelayAssumption == Delays \subseteq Nat /\ Jumps \subseteq Nat /\ Separation \in Nat
ASSUME BusyAssumption == MaxBusy \in Nat

VARIABLES
  phase,          \* SCH_MainLoop: "timeouts", "select", "files", "exited" or "fatal"
  queue,          \* timer_queue
  dispatched,     \* per class, time since last_class_dispatch, up to Separation
  elapsed,        \* time since last_select_ts_raw
  jump,           \* the raw clock jumped back by this since it was read
  read_fds, one_highest_fd,
  rd,             \* the set select() is given; then the ready ones not handled yet
  n_done, n_entries_on_start, busy,
  need_to_exit

fds == <<read_fds, one_highest_fd>>
round == <<n_done, n_entries_on_start, busy>>
clock == <<dispatched, elapsed, jump>>
schedulerVars == <<phase, queue, clock, fds, rd, round, need_to_exit>>

-----------------------------------------------------------------------------
(* The timeout queue. *)

Entry(id, left, class) == [id |-> id, left |-> left, class |-> class]
Ids(q) == {q[i].id : i \in 1 .. Len(q)}
Due == queue # <<>> /\ queue[1].left <= 0

\* Fault: a new timeout goes behind the first that is not earlier.
PlaceAfterFirst(q, left) ==
  LET i == SelectInSeq(q, LAMBDA e : left <= e.left) IN IF i = 0 THEN Len(q) + 1 ELSE i + 1

\* Before the first entry that is later.
Place(q, left) ==
  LET i == SelectInSeq(q, LAMBDA e : left < e.left) IN IF i = 0 THEN Len(q) + 1 ELSE i

\* SCH_AddTimeout, SCH_AddTimeoutByDelay.
AddTimeout(q, id, delay) ==
  InsertAt(q, Place(q, delay), Entry(id, delay, "SCH_ReservedTimeoutValue"))

\* The delay that keeps the separation from one entry of the class.
AwayFrom(delay, e) ==
  IF delay - e.left < Separation /\ e.left - delay < Separation THEN e.left + Separation ELSE delay

\* The separation from the last timeout dispatched, and from the queued ones, one
\* after the other.
ClassDelay(q, delay, class) ==
  LET since == dispatched[class]
      first == IF since >= 0 /\ since + delay < Separation THEN Separation - since ELSE delay
      after[k \in 0 .. Len(q)] ==
        IF k = 0 THEN first
        ELSE IF q[k].class = class THEN AwayFrom(after[k - 1], q[k]) ELSE after[k - 1]
  IN after[Len(q)]

\* SCH_AddTimeoutInClass.
AddTimeoutInClass(q, id, delay, class) ==
  LET d == ClassDelay(q, delay, class) IN InsertAt(q, Place(q, d), Entry(id, d, class))

\* SCH_RemoveTimeout: the first entry with the identifier.
RemoveTimeout(q, id) == RemoveAt(q, SelectInSeq(q, LAMBDA e : e.id = id))

QueueShifted(q, by) == [i \in 1 .. Len(q) |-> [q[i] EXCEPT !.left = @ + by]]

-----------------------------------------------------------------------------
(* File descriptors. *)

Highest(s) == IF s = {} THEN 0 ELSE Max(s) + 1

\* Fault: the highest descriptor is not looked for again.
HighestKept(s) == one_highest_fd

\* The search after a removal.
HighestLeft(s) == Highest(s)

\* SCH_AddInputFileHandler and SCH_RemoveInputFileHandler, the descriptor
\* opened before and closed after.
AddInputFileHandler(fd) ==
  /\ fd \notin read_fds
  /\ read_fds' = read_fds \cup {fd}
  /\ one_highest_fd' = IF fd + 1 > one_highest_fd THEN fd + 1 ELSE one_highest_fd
RemoveInputFileHandler(fd) ==
  /\ fd \in read_fds
  /\ read_fds' = read_fds \ {fd}
  /\ one_highest_fd' = HighestLeft(read_fds')

-----------------------------------------------------------------------------
(* Handlers. *)

\* One call on the queue q, by a handler for which the identifiers are new.
QueueCall(q, new) ==
  \/ queue' = q
  \/ \E id \in new, delay \in Delays :
       /\ Len(q) < MaxEntries
       /\ \/ queue' = AddTimeout(q, id, delay)
          \/ queue' = AddTimeoutInClass(q, id, delay, "SCH_NtpSamplingClass")
  \/ \E id \in Ids(q) : queue' = RemoveTimeout(q, id)

\* SCH_QuitProgram.
QuitProgram(q) == queue' = q /\ need_to_exit' = TRUE

TimeoutHandler(q) ==
  \/ QueueCall(q, TimeoutID \ Ids(queue)) /\ UNCHANGED <<fds, need_to_exit>>
  \/ QuitProgram(q) /\ UNCHANGED fds
  \* The sockets of an acquisition that times out are the last ones registered.
  \/ queue' = q /\ RemoveInputFileHandler(one_highest_fd - 1) /\ UNCHANGED need_to_exit

FileHandler ==
  \/ QueueCall(queue, TimeoutID \ Ids(queue)) /\ UNCHANGED <<fds, need_to_exit>>
  \/ QuitProgram(queue) /\ UNCHANGED fds
  \/ /\ \E fd \in Fd : AddInputFileHandler(fd) \/ RemoveInputFileHandler(fd)
     /\ UNCHANGED <<queue, need_to_exit>>

-----------------------------------------------------------------------------
(* SCH_MainLoop. *)

\* The loop starts with the handlers registered before it.
SchedulerInit ==
  /\ phase = "timeouts"
  /\ \E id \in TimeoutID, delay \in Delays : queue = <<Entry(id, delay, "SCH_ReservedTimeoutValue")>>
  /\ dispatched = [c \in Class |-> Separation]
  /\ elapsed = 0 /\ jump = 0
  /\ read_fds \in SUBSET Fd /\ one_highest_fd = Highest(read_fds)
  /\ rd = read_fds
  /\ n_done = 0 /\ n_entries_on_start = 1 /\ busy = 0
  /\ need_to_exit = FALSE

\* The guard against timeouts scheduled with negative delays.
TooMany(done, now) == done > now * 4 /\ done > n_entries_on_start * 4

\* dispatch_timeouts, one pass of its loop.
DispatchTimeout ==
  /\ phase = "timeouts" /\ Due
  /\ dispatched' = [dispatched EXCEPT ![queue[1].class] = 0]
  /\ TimeoutHandler(Tail(queue))
  /\ n_done' = n_done + 1
  /\ phase' = IF TooMany(n_done', Len(queue')) THEN "fatal" ELSE phase
  /\ UNCHANGED <<elapsed, jump, rd, n_entries_on_start, busy>>

\* The end of dispatch_timeouts; without anything to wait for the run stops.
EndTimeouts ==
  /\ phase = "timeouts" /\ ~Due
  /\ phase' = IF queue = <<>> /\ read_fds = {} THEN "fatal" ELSE "select"
  /\ n_done' = 0 /\ n_entries_on_start' = 0 /\ busy' = 0
  /\ UNCHANGED <<queue, clock, fds, rd, need_to_exit>>

\* Fault: a jump is not recovered.
RecoverNot ==
  /\ queue' = QueueShifted(queue, jump)
  /\ dispatched' = [c \in Class |-> dispatched[c] - jump]

\* The clock is read after select.  A jump by more than a second before the last
\* reading is recovered: the first timeout is taken to be due.
Backjump == jump > elapsed + 1
Recover ==
  IF ~Backjump
    THEN /\ queue' = QueueShifted(queue, jump)
         /\ dispatched' = [c \in Class |-> dispatched[c] - jump]
    ELSE LET left == IF queue = <<>> THEN -elapsed ELSE queue[1].left IN
         /\ queue' = QueueShifted(queue, -left)
         /\ dispatched' = [c \in Class |-> Min({Separation, dispatched[c] + left})]

\* The handlers are called, or the loop starts again.
Rounds(ready) ==
  IF ready # {}
    THEN phase' = "files" /\ rd' = ready /\ UNCHANGED round
    ELSE /\ phase' = IF need_to_exit' THEN "exited" ELSE "timeouts"
         /\ rd' = read_fds' /\ n_entries_on_start' = Len(queue') /\ UNCHANGED <<n_done, busy>>

SelectReturns ==
  /\ phase = "select"
  /\ Recover
  /\ elapsed' = 0 /\ jump' = 0
  /\ UNCHANGED fds
  /\ \/ \E ready \in SUBSET {fd \in rd : fd < one_highest_fd} \ {{}} :
          UNCHANGED need_to_exit /\ Rounds(ready)
     \/ Due /\ UNCHANGED need_to_exit /\ Rounds({})
     \/ need_to_exit' = TRUE /\ Rounds({})     \* SIGINT or SIGTERM

\* dispatch_filehandlers, in the order of the descriptors.
DispatchFile ==
  /\ phase = "files"
  /\ FileHandler
  /\ Rounds(rd \ {Min(rd)})
  /\ UNCHANGED clock

TimePasses ==
  /\ phase \in {"timeouts", "select", "files"}
  /\ \A i \in 1 .. Len(queue) : queue[i].left > -MaxLate
  /\ elapsed < MaxWait
  /\ busy' = IF phase = "select" THEN busy ELSE busy + 1
  /\ busy' <= MaxBusy
  /\ queue' = QueueShifted(queue, -1)
  /\ dispatched' = [c \in Class |-> Min({Separation, dispatched[c] + 1})]
  /\ elapsed' = elapsed + 1
  /\ UNCHANGED <<phase, jump, fds, rd, n_done, n_entries_on_start, need_to_exit>>

ClockJumpsBack ==
  /\ phase = "select" /\ jump = 0
  /\ \A i \in 1 .. Len(queue) : queue[i].left <= MaxLeft
  /\ \A c \in Class : dispatched[c] >= 0
  /\ jump' \in Jumps
  /\ UNCHANGED <<phase, queue, dispatched, elapsed, fds, rd, round, need_to_exit>>

SchedulerNext ==
  \/ DispatchTimeout \/ EndTimeouts
  \/ SelectReturns \/ DispatchFile
  \/ TimePasses \/ ClockJumpsBack

SchedulerSpec == SchedulerInit /\ [][SchedulerNext]_schedulerVars

\* Time passes, select returns when a timeout is due, handlers return.
FairScheduler ==
  /\ SchedulerSpec
  /\ WF_schedulerVars(TimePasses) /\ WF_schedulerVars(DispatchTimeout) /\ WF_schedulerVars(EndTimeouts)
  /\ WF_schedulerVars(SelectReturns /\ Due) /\ WF_schedulerVars(DispatchFile)

-----------------------------------------------------------------------------
(* Properties. *)

QueueSorted == \A i, j \in 1 .. Len(queue) : i < j => queue[i].left <= queue[j].left

ClassSeparated ==
  \A i, j \in 1 .. Len(queue) :
    i < j /\ queue[i].class = "SCH_NtpSamplingClass" /\ queue[j].class = queue[i].class =>
      queue[j].left - queue[i].left >= Separation

(* The queue stays in the order of time, through new timeouts, removals, clock *)
(* jumps and their recovery: the loop looks at its head only.  And "the expiry *)
(* time is at least a given separation away from any other timeout in the same *)
(* class" (sched.h:71).                                                        *)
QueueOrdered == QueueSorted /\ ClassSeparated

(* The loop does not end the daemon by itself.  select() is given no descriptor *)
(* that a timeout handler has closed, though the set was copied before the     *)
(* timeouts: it would fail (sched.c:617).  And the guard against endless       *)
(* timeouts is not reached by handlers that are slow but schedule nothing in   *)
(* the past.                                                                   *)
LoopSurvives ==
  /\ phase = "select" => {fd \in rd : fd < one_highest_fd} \subseteq read_fds
  /\ phase = "fatal" => queue = <<>> /\ read_fds = {}

(* Every timeout is dispatched, unless it is removed or the daemon stops,      *)
(* however often the clock jumps back.                                         *)
TimeoutsDispatched ==
  \A id \in TimeoutID : id \in Ids(queue) ~> id \notin Ids(queue) \/ phase \in {"exited", "fatal"}
=============================================================================

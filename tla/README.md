# A TLA+ model of chrony

This directory holds TLA+ modules, TLC configurations and TLAPS proofs about
chrony (version 1.26): the daemon `chronyd`, which keeps the system clock on
time, and its command client `chronyc`.  Every definition is translated from the
C source next to it (`../src`); `PROJECT.json` maps each definition to the lines
it stands for and each property to the run that checks it.

## The system

`chronyd` is one process with one thread.  `sched.c` waits in `select()` and runs
one handler at a time: a timeout whose time has come, or the handler of a file
descriptor with input.  There are no locks; what is hard is the order in which
handlers run, the timeouts they leave behind, and the callbacks by which a module
changes the state of another in the middle of a handler.

| Component | Files | State | Operations |
| --- | --- | --- | --- |
| Scheduler | `sched.c` | ordered queue of timeouts, dispatch time of each class, file handlers | add, remove, dispatch; shifting of all timeouts when the clock steps |
| Local clock | `local.c` | frequency, lists of parameter-change and dispersion handlers | set frequency, accumulate offset, step; each calls every handler |
| System drivers | `sys_linux.c`, `sys_solaris.c`, `sys_sunos.c`, `sys_netbsd.c`, `wrap_adjtimex.c` | pending offset, slew in progress, its timer | accrue offset, fast slew, end of slew, step |
| Reference | `reference.c` | stratum, synchronised or not, frequency and skew, fallback drifts and their timer, leap second | set reference, set manual reference, set unsynchronised, report |
| Sources | `sources.c` | table of sources, selected index, reachability, scores | create, destroy, accumulate, select, reselect |
| Source statistics | `sourcestats.c`, `regress.c` | ring of samples per source, regression | accumulate, regress, slew, save, load |
| NTP association | `ntp_core.c` | mode, timer, burst counters, poll, timestamps per source | transmit timeout, packet, online, offline, burst |
| NTP source table | `ntp_sources.c` | open-addressing hash table, list of names still to resolve | add, remove, resolve, dispatch of packets, activity |
| NTP socket | `ntp_io.c` | socket | read, send, echo |
| Reference clocks | `refclock.c`, `refclock_shm.c`, `refclock_sock.c`, `refclock_pps.c` | sample filter, poll timer per clock | poll, add sample, add pulse, select, slew |
| Initial step | `acquire.c` | list of probed sources, their probes and timers | start, probe, receive, wind up |
| Real time clock | `rtc.c`, `rtc_linux.c` | operating mode, samples, measurement timer, fd | initialise, measure, trim, write coefficients |
| Manual time | `manual.c` | samples entered by hand | settime, slew, reset, delete |
| Broadcast server | `broadcast.c` | destinations, a timer each | add destination, transmit |
| Temperature compensation | `tempcomp.c` | timer | read sensor |
| Commands | `cmdmon.c`, `client.c`, `candm.h`, `pktlength.c` | token windows, cells of saved replies | request, retry, reply, token |
| Access and clients | `addrfilt.c`, `clientlog.c`, `keys.c` | prefix tree of access rules, client records, keys | allow, deny, log access, authenticate |
| Start and stop | `main.c`, `conf.c`, `logging.c`, `nameserv.c`, `util.c` | configuration | order of initialisation, hooks, exit |

How they interact: a packet read by `ntp_io.c` goes to `ntp_sources.c`, which finds
the association in its hash table; `ntp_core.c` validates it, updates reachability
and selectability in `sources.c`, and accumulates a sample there; `sources.c` runs
the regression and the selection and calls `reference.c`; `reference.c` changes
the clock through `local.c`, whose handlers then slew the samples, the timestamps
of every association, the RTC samples, the manual samples and, on a step, every
queued timeout.

### Component by component: what must be right, and what makes it hard

- **Scheduler.** The queue is in the order of time (the loop reads its head only),
  timeouts of a class keep their distance, every timeout is dispatched. Hard: the
  system clock may jump while the loop sleeps, handlers change the queue and the
  set of descriptors the loop is walking, and a guard ends the daemon when
  timeouts seem to breed.
- **NTP association.** One timer per sampled source, bursts that keep their budget
  and end, commands that hold whenever they come. Hard: a transmit handler, a
  receive handler and five commands all arm and cancel one timer and change one
  mode; `auto_offline` takes a source offline from inside its own timeout.
- **NTP exchange.** A sample bounds the true offset. Hard: packets are lost,
  repeated and reordered; the clock is stepped while they are under way; a query
  from the same host overwrites what the probe remembered.
- **Source selection.** The selected source is one that may be selected, the
  reference follows it, and chronyd does not hop between good sources. Hard: the
  selection runs inside other handlers, indices shift when a source is removed,
  it may return early with half of the statuses updated.
- **NTP source table.** The hash table is a map; a name that does not resolve yet
  is tried until it does, and keeps the mode the operator gave it.
- **Initial step.** Finished servers are counted once, and nothing is queued for
  the records when they are freed. Hard: answers race the retransmission timeout.
- **Real time clock.** The rest of the start runs once; measurements never stall
  and never run twice. Hard: the device fails at any point or refuses its interrupt, and
  three modules may start the measurements.
- **Reference.** Fallback drifts take over in time and only while unsynchronised,
  the limits of makestep and maxchange hold over any number of updates, no leap
  second is left armed. Hard: zero intervals, counters with a negative "no limit".
- **Local clock and drivers.** Every handler sees each change of the clock once (the
  compensation of the temperature tells none), a
  slew that is stopped or replaced is accounted for. Hard: handlers are called in
  the middle of other handlers, and slews end from a timeout; a crash leaves the
  kernel slewing.
- **Source statistics.** Indices of two rings of different length stay in step while
  samples are pruned, slewed, saved and loaded. The regressions stay within their
  tables and end with enough samples.
- **Reference clocks.** A pulse is put into the right second, a sample is passed on
  once. Hard: the sample a pulse is aligned to belongs to another clock, polled at
  other times, and the system clock is changed in between.
- **Commands.** A request that is retried is executed once and answered each time.
  Hard: requests and replies are lost, late and repeated, the window of tokens moves,
  replies are kept for a time only, and the daemon restarts.
- **Manual time, broadcast, access rules, clients, keys.** Tables that must keep what
  was put into them: while the clock is slewed from within, the array grows, subtrees
  are deleted, memory ends, the file of keys is read again.

## Plan

All modules of the first plan exist:

1. `NtpAssociation`, `NtpExchange`: the protocol of one source, with proofs.
2. `Intervals`, `IntervalScan`, `SourceSelect`: the selection, with proofs.
3. `SourceMap` (abstract), `NtpSources` (implements it): the table of sources, with proofs.
4. `RtcLinux`, with the order of the start in `main.c`; `Acquire`; both with proofs.
5. `Reference`, with proofs.
6. `Scheduler`, with proofs.
7. `SampleLog` (abstract), `SourceStats` (implements it): the samples of a source, with proofs.
8. `SysLinux`, `LocalClock`: the clock with its driver and its handlers, with proofs.
9. `CmdProtocol`: `chronyc` and `chronyd`, with proofs.
10. `MedianFilter`, `Refclock`; `Regress`; with proofs.
11. `Broadcast`, `AddrFilter`, `ClientLog`, `Keys`, `Manual`, with proofs.
12. `Startup`, `Measurements`, `Timekeeping`, `Services`: the runs of several of them.

Where the proofs are:

| Module | Proofs about |
| --- | --- |
| `NtpProofs` | `NtpAssociation`, `NtpExchange`, `NtpSources` |
| `SelectionProofs` | one selection of `SourceSelect` |
| `MeasurementsProofs` | `SourceStats`, and the selection and the register in `Measurements` |
| `RefclockProofs` | `MedianFilter`, `Refclock` |
| `RegressProofs` | `Regress` |
| `ClockProofs` | `SysLinux`, `LocalClock`, `Scheduler` |
| `StartupProofs` | `Acquire`, `RtcLinux`, `Reference` |
| `ServicesProofs` | `CmdProtocol` and the modules of 11 |

## The modules

Names follow the C source: an action has the name of the function it stands for, a
variable that of the field. Definitions introduced by "Fault:" are variations of the
definition below them, as a plausible mistake would have it; they are used only to
see that the properties notice.

`NtpAssociation` (`ntp_core.c`): one record `NCR_Instance_Record`. `TransmitTimeout`
is `transmit_timeout` with the echo, the probe, the poll adjustment and the end of a
burst; `ReceivePacket` is what `receive_packet` does with a packet of each verdict
(invalid, bad header, valid, good, kiss of death), and `NCR_ProcessKnown` as far as
the mode decides; the commands are an action each. Of a timer the kind of its delay
is kept, not the length, so that timeouts, packets and commands come in any order.

`NtpExchange` (`ntp_core.c`): two hosts, true time, the error of each clock and the
timestamps saved by each association. `msgs` only grows: a packet may arrive at
once, late, again or never. A step of a clock runs `NCR_SlewTimes`. Samples keep
twice their offset, so that averages stay integers.

`Intervals`, `IntervalScan` and `SourceSelect` (`sources.c`). `Intervals` says what the
scan of endpoints is to find; `IntervalScan` is the scan itself, an endpoint a step;
`SourceSelect` uses the definitions and has the rest: the table, what marks sources,
and `SelectSource`, the set of outcomes of `SRC_SelectSource` (sets, since the
statistics it reads are chosen at each call). A score is kept as a level, above or
below the limit at which the selection changes.

`SourceMap` and `NtpSources` (`ntp_sources.c`, `conf.c`, `nameserv.c`). The records of the
open-addressing table with probing, rehashing and the count, the list of names and
the timeout that tries them again. `MapSpec` states that the table implements the
map of `SourceMap`, answers included.

`Acquire` (`acquire.c`). Counts of each server, timeouts as a set, and of the network
the answers that may still come: to the last probe, or to earlier ones. `network`
says what it may do with them.

`RtcLinux` (`rtc_linux.c`, `main.c`). The operating mode, the interrupt and the
measurement timeout, the number of samples, the hook that goes on with the start.
Each interrupt may bring a reading or a fault. The device may also refuse to turn its
interrupt on or off, so that `SwitchOn` and `SwitchOff` are the sets of what may come of it;
`refused` and `refusals` are the history of it that the properties are stated of.

`Reference` (`reference.c`). Time is the age of the last update. A frequency is a
number or NaN; the averages keep their length. Two updates may come at the same time, and
the interval is clamped at zero as in the code (`instant` remembers that there was such an
update). The limits keep their counters, and a history of the updates they are compared with.

`Scheduler` (`sched.c`). The queue holds the time left of each timeout, the raw clock
may jump back during a wait; `Recover` is what `SCH_MainLoop` and `handle_slew` make
of it. A handler is any single call of the scheduler.

`SampleLog` and `SourceStats` (`sourcestats.c`). `SampleLog` is what a register promises: a
sequence of samples that are added, forgotten from the old end, moved by a step, saved
and loaded. `SourceStats` has the two rings and their indices; what the regression
returns is any start and any skew. A dump file may end early (`LoadAbandoned`). `LogSpec` states that it implements the log. The
log is read from the rings (the refinement mapping at the end of the module).

`SysLinux` and `LocalClock` (`sys_linux.c`, `local.c`, `tempcomp.c`). `SysLinux` is the state
of the driver and the kernel as one record and each driver function as an operator on
it: a slew by `adjtime`, by the PLL or by the tick. `LocalClock` has an action for each
call of `local.c`, the handlers, the end of a slew, a crash and a restart. Time is counted
in ticks and offsets in the same small units; `ideal` is the clock as it was asked for, `held`
the ticks since a handler took its timestamp. A compensation of the temperature changes the
frequency at any time and tells no handler, as in the code; `untold` counts what it made of
the ticks since the timestamp.

`CmdProtocol` (`cmdmon.c`, `client.c`): clients with their sequence numbers, tokens and
retries, the daemon with its token register, timestamps of logons and kept replies, and
two sets of messages that may be lost, delayed and copied.

`MedianFilter` and `Refclock` (`refclock.c`): the ring of samples as a record; samples,
pulses, polls and clock changes as actions. The clock errs by `err`, so that a right
offset is known. `left` marks a sample that a change of the clock left behind.

`Regress` (`regress.c`): the partial quicksort behind the median, with the real array and
flags, an action for the choice of a part, each division of it, each exchange and the
placing of the pivot; the loop of the regression with any residuals; the search for the slope with any
sign of the residual.

`Broadcast`, `AddrFilter`, `ClientLog`, `Keys` and `Manual`, each after its file. An address
is a sequence of digits. The rules of the access filter are kept as history, so that the tree is
compared with what `addrfilt.h` says of them: `Ruled` knows lengths of subnets and no tree. A key is
an id with a value; a time entered is its offset, with the mistake the administrator made as
history.

`Startup`, `Measurements`, `Timekeeping` and `Services` are for checking: each has the variables of several
modules, and a variable `step` or `part` that says which of them runs. The parts do not
interact here; each is explored as if alone, and the constants say with what bounds.

## The runs

| Run | Checks | Bounds |
| --- | --- | --- |
| `association` | one queued timeout exactly while sampled (`TimerMatchesMode`); the mode obeys the last command (`ModeFollowsOperator`); bursts keep their budget and end (`BurstBudget`, `BurstEnds`); the delay fits the mode (`PacingMatchesMode`); an unanswered source looks unreachable (`UnansweredMeansUnreachable`) | a dial-up client, a client with presend, a peer; bursts of 2 and 3 probes and one asked for none; polls 1 and 2; a register of 2 bits; one packet between two probes. All thresholds of the counters are crossed within these. |
| `timekeeping` | `CookedIsIdeal`, `TimestampsHold`, `SlewsAreEnded` (SysLinux, LocalClock); `FallbackSound`, `LadderContinues`, `LimitsRespected`, `LeapDisarmed` (Reference); `SampleBoundsOffset`, `FreshAnswerPasses`, `SamplesAdvance` (NtpExchange) | the clock: three changes within three ticks, so that a slew is interrupted by each kind of change, and an end or a crash follows; offsets above and below the limits of the three kinds of slew; a frequency that shortens the tick and a compensation that lengthens it, and one that is refused. The reference: two fallback drifts of 2 and 4 seconds, four seconds after an update, updates at the same moment too; makestep with a limit of 2 and with none, maxchange after 0 or 1 updates with 0, 2 or any number of refusals: each counter runs out in more than one state of the other. The exchange: 7 events, enough for two rounds with a step and a duplicate; clock errors 0 and 3, larger than a quick round trip; five pairs of roles. |
| `ntp_sources` | `MapSpec`, `RetryWhileUnresolved`, `CommandReachesNames`, `NamesResolved` | two addresses on one slot, two ports, three slots, room for two, two names; a retry interval up to 2 |
| `startup` | `NothingDangling`, `SamplesFit` (Acquire); `RtcSound` (RtcLinux); `StartGoesOn` of both | three servers, two probes, two good samples, three in all; three samples for a trim, five in the arrays, two dropped when full; all faults, one refusal to turn the interrupt off and any number to turn it on; all ways to start |
| `scheduler` | `QueueOrdered`, `LoopSurvives`, `TimeoutsDispatched` | three identifiers for two entries, delays of 1 and 2, separation 2, jumps of 8 seconds, longer than any wait; four descriptors |
| `measurements` | `LogSpec`, `MinDelayIsLeast`, `ReadsAreRight` (SourceStats); `PulsesHold` (Refclock); `MiddleSelected` (MedianFilter); `RegressionSound` (Regress); `SelectionSound`, `NoHopWithoutSample` (IntervalScan, SourceSelect) | a register of four samples and four more: it wraps; five events of a sample clock and a pulse clock with filters of two; every order in a filter of five, full and not, and filters with equal offsets; arrays of up to four entries in every order, with equal ones, and of five without; regressions of all sizes at the ends of the tables; all sets of up to four intervals over five offsets; three sources with statistics that agree, are wide and are far away, with a reach register of one bit; two sources, possibly noselect, with one of two bits |
| `services` | `ExecutedOnce`, `SuccessIsOwn`, `RetryFindsReply` (CmdProtocol); `AllowedAsRuled` (AddrFilter); `TablesHold` (ClientLog, Keys, Manual, Broadcast) | two clients, two requests each, sent twice at most, two messages under way, a register of three tokens, one restart; three rules of every length around three addresses in two levels; eight addresses in three levels and memory for some; two keys with two values; a register of three times; three destinations in blocks of two |
| `rtc_hook` | violated: `HookCalledAnyway` | a start with `-s`, a device that may refuse to turn its interrupt on |
| `adf_specific` | violated: `SpecificsKept` | the rules of `services` |
| `select_prefer` | violated: `PreferHonoured` | two sources that agree |
| `ref_nan` | violated: `FrequencyIsNumber` | two fallback drifts, without a first step |
| `slope` | violated: `SlopeWithinTolerance` | a first range of eight tolerances |

Every passing run explores its whole state space. Deadlock is not checked where the
system stops: after an exit, when the bound of events is reached, when nothing is
left to scan.

### Fairness

chronyd has one thread that returns to `select()` after each handler, and handlers
do not block. So a queued timeout whose time has come is dispatched: weak fairness
of the timeout actions (`NtpAssociation`, `NtpSources`, `Acquire`, `RtcLinux`), which are
always enabled while the timeout is queued; in `Startup` the same, of the step that runs.
`Scheduler` assumes that time passes, that handlers return and that `select` returns when
a timeout is due; that the timeouts are then dispatched is what it shows. An interrupt
that is on comes (`RtcLinux`); none is assumed that a device which refused will not refuse again,
and `StartGoesOn` leaves out the starts in which it does. No fairness is assumed of the network, of commands or of
the resolver: `NamesResolved` says what follows once the resolver answers. In
`NtpAssociation` the packets that may arrive between two probes are bounded, since each of
them may postpone the timer.

### Disagreements with documents and comments

Shown by a run:

- `select_prefer`: the scores are compared over all selectable sources, not over the
  preferred ones only (`sources.c:769` against `chrony.texi:2830`).
- `ref_nan`: the first update makes every fallback drift NaN, which is later given to
  the driver (`reference.c:381` against `reference.c:701`).
- `rtc_hook`: a device that opens but refuses `RTC_UIE_ON` leaves a start with `-s` waiting for
  ever, since nothing but its interrupts could call the hook (`rtc_linux.c:581` against
  `rtc.c:133`).
- `adf_specific`: a wider rule overwrites a more specific one that was defined before, when
  both set entries of one table (`addrfilt.c:214` against `addrfilt.h:43`).
- `slope`: the bisection of the robust regression ends after its first half, since the
  end of the range that was just moved makes `(bmid - blo) * (bhi - bmid)` zero
  (`regress.c:630` against the tolerance of line 510). The slope stays the one of the
  least squares.

Met while modelling; the models do as the code does (or say which bound leaves it out),
and no property is stated of them:

- `ntp_core.c:743` compares with the last packet only, so that a packet delivered
  again after another one gives a second sample (comment at line 740).
- `ntp_core.c:1519` moves `local_rx` even while it is zero, the unknown time
  (`util.c:488`).
- `ntp_core.c:534`: `presend_done` survives a probe that was never sent, and the next
  one leaves without its echo (`chrony.texi:2778`).
- `sources.c:600`: of several regions of the best depth the last overwrites
  `best_hi` (table at line 614).
- `sources.c:895` overwrites the selected index before it is compared, and a reselection
  without result leaves the reference as it was (comment at line 130).
- `sched.c:493`: a handler that removes the handler of another descriptor does not keep
  it from being called in the same round; the acquisition relies on `recvfrom` failing.
- `acquire.c:505`: an answer can come after the timeout; the server is then counted
  twice. `NothingDangling` and `SamplesFit` are stated of networks that do not do so.
- `rtc_linux.c:782`: a failing `read()` gives the device up without the hook
  (`rtc.c:133`), as a refused interrupt does. When the device refuses to turn the interrupt off,
  each further interrupt queues another measurement (`rtc_linux.c:589`). With `-s` and `initstepslew` line 901 starts a second chain of
  measurements. Line 696 reads the flag of a relock that may not have been set
  (`chrony.texi:871`). Line 1013 may report a count of -1.
- `local.c:638`: a temperature compensation changes the frequency without telling the handlers,
  whose timestamps are then off by what it makes of the time since; `TimestampsHold` says by how much.
- `local.c:481`: a step starts the slew of what is left of it and then shifts every
  timeout, the one of that slew too, which then lasts longer than `sys_linux.c:177`
  allows. An external step during a fast slew is taken for slewing time
  (`sys_linux.c:840`; left out by a guard), and a frequency that needs the tick of the
  slew divides by zero (`sys_linux.c:442`; left out by `Slews`).
- `cmdmon.c:1979`: a kept reply is sent again without its authentication (line 1978:
  "Just send this message again"); chronyc then keeps its old token. Line 547 leaves
  the free list unterminated when it grows (more replies than the model keeps).
- `regress.c:407`: with entries equal to the pivot, the pivot's place can stay in the
  part that is still sorted, so that the second search of an even median may return
  another entry (of 0, 0, 2, 1, 1, 1 the median comes out as 1/2; comment at line 431).
  `OrderedEntries` says of the second search what holds: entries that are all different.
- `refclock.c:659`: the last sample of an emptied filter is not slewed but still read
  (`RightSecond` excepts what was aligned to it). Before `RCL_StartRefclocks` the lock of a
  clock is an identifier, not an index (left out by a bound).
- `clientlog.c:391` looks for a subnet with the bits at the wrong end (`clientlog.h`).
- `keys.c:266` says that a key is known whose absence is cached; `n_keys` is not kept
  within `MAX_KEYS`.
- `broadcast.c:128`: with more than eight destinations the array may move while
  timeouts point into the old one (`TimeoutsPoint` is about one block).
- `manual.c`: two entries of the same second make the regression divide by zero.

## The proofs

TLAPS checks the following for every value of the constants that satisfies the named
assumptions of the modules.

`NtpProofs`, the association: `AssociationTypeCorrect`, `OneTimer` (`TimerMatchesMode`), `OperatorObeyed`
(`ModeFollowsOperator`), `BurstBounded` (`BurstBudget`), `PacingCorrect`
(`PacingMatchesMode`), for all options, polls and burst sizes. These conjuncts support
each other: the burst counters can be trusted only because no second timer exists,
the mode only because a timer is running exactly outside `MD_OFFLINE`; each action is
shown to preserve all of them. `LossesClearReach` (`UnansweredMeansUnreachable`) is about the
reachability register, for any number of bits: a probe shifts a zero into it and only an
answer sets a bit. That a number with n zeros at the end has n + 1 of them after the
shift, and that the bits lost at the other end do not matter, rests on the powers of 2 up
to the size of the register (`PowerAssumption`, the recursion 2^n = 2 * 2^(n-1), which the
provers do not know of `^`; TLC evaluates it) and on a proof by least counterexample that
each of them divides that size.

`NtpProofs`, the exchange: `SamplesBound`, `NoOlderSample`, `FreshAnswers`, for every set of
steps and any number of events. `SampleBoundsOffset` alone is not inductive. The
invariant adds that the packets are causal (a reply carries the identity of a request
sent before it, its receive time lies between the two, in true time), and that the
saved times are: whatever was saved differs from the reading of the clock at the true
time of the event by the error the clock has now, because a step moves both. The
bound then follows from `now` growing. `FreshAnswers` also needs who may send packets of
which mode (`RolesAgree`): an answer is rejected only if the association sent something
else after its probe, which it does only to a client.

`NtpProofs`, the table: `SourcesRetryWhileUnresolved` (`RetryWhileUnresolved`),
`SourcesCommandReachesNames` (`CommandReachesNames`) and `SourcesImplementMap` (`MapSpec`), for any
hash, any size that leaves a free slot, any configuration and any answers of the resolver.
The invariant of the table is that a search for the address of a record ends at its
slot (`Placed`); with the count of the records (`TableGood`) it follows that the search for any
other address ends at a free slot (`FindSlotIs`). A new record takes that slot and stops no
search that went past it before (`InsertIs`). A removed record would, so the code puts all others
back into an empty table: that keeps `Placed` after each of them (`PutBackStep`), and in the end the
records are the same (`RehashIs`). The rehash and the pass over the names are folds; their proofs use
`FoldExists` and `FoldStays`, as those of `ServicesProofs` do. A pass keeps, name by name, that the table
is good and that sources and names are in the commanded mode unless they are excepted
(`GoodPass`, `ResolvedStep`), for every choice of answers. The map that the table stands for is
determined by the set of records (`PortsOnly`), which is why the rehash is no step of it.

`StartupProofs`, the servers and the RTC: `NothingLeft`, `SamplesBounded`, `TypeCorrect` of `Acquire`, for any number of servers.
The invariant counts: with timely answers `n_completed` is the number of servers that
were started and have no timeout queued, each of them finished; when it reaches
`n_sources` there is, by cardinality, no other server. For the samples: an answer that
may still be accepted, or a timer that runs, leaves room for one more.
`StartupRtcSound` (`RtcSound`) is about the trim from the real time clock, for every way to
start, all faults, refused interrupts among them, and all sizes of the arrays. An open device has
an interrupt or a timeout due unless it refused since the last timeout was queued; there is one
chain of measurements, and one more for each refusal to turn the interrupt off. Its three parts
need each other and three more: before the start, and while a start without `-s` waits for its servers, nothing is
measured and nothing known of the RTC (`QuietBefore`: the end of the acquisition forgets a
timeout if there is one); only a start with `-s` trims (`TrimAsked`); and no timeout is
queued while the interrupt is on (`OneAtATime`), so that a reading may queue one. The
exception of `OneMeasurementTimer`, `-s` with `initstepslew`, is carried through the proof:
there `OneAtATime` does not hold, nor after a refusal, for which a timeout more is counted.

`StartupProofs`, the reference: `ReferenceFallbackSound` (`FallbackSound`), `ReferenceLadderContinues`
(`LadderContinues`), `ReferenceLimitsRespected` (`LimitsRespected`), `ReferenceLeapDisarmed`
(`LeapDisarmed`), for any set of configurations. That the ladder never ends early is not
inductive. The invariant adds that the scheduled fallback is due when the clock reaches
the length of its drift and that no shorter one is still to come (`ScheduleIsDue`), that
without a timeout none is to come at all (`NothingIsMissed`), that the drift in use has been
reached (`UsedIsReached`), that a frequency which is no number comes from an update with no
interval, and that before the first update there is nothing to
schedule (`NothingYet`). `CountersLeft` ties the counters that count down, negative ones
included, to the history that the limits are stated of. The choice of the next drift is a
least element, found with the library's well-foundedness of the naturals, since an
induction over the drifts is out of reach. `PowerAssumption` says that the lengths, powers
of 2, are positive and grow.

`ClockProofs`, the clock: `ClockCookedIsIdeal` (`CookedIsIdeal`), `ClockTimestampsHold`
(`TimestampsHold`), `ClockSlewsAreEnded` (`SlewsAreEnded`), about `local.c` and the driver
together, for any nominal tick, bias, slewing tick and limits of the three kinds of slew.
The driver is always in one of two ways of slewing. In a fast one (`Fast`) the kernel runs at
the slewing tick, has no offset of its own left and has gone on by a whole number of slewing
ticks since the start: only then is the division of `fast_slew_done` exact, and what was
done and what remains add up to what was wanted. Otherwise (`Slow`, `Settled`) the tick is that of
the frequency, no timeout is queued, and no more than a grain is left to the driver, unless
the tick was at its limit. Each function of the driver
has a lemma: it takes one of these states to one of them and moves the cooked time by
what it was asked to and no more; the actions of `local.c` follow from the lemmas. Of a
timestamp it is shown that it is `held` ticks behind the cooked time but for `untold`: a change
that is told scales both by the same quotient of ticks, and without compensations nothing makes
a timestamp drift. The
assumptions are about the constants only (positive ticks, a bias smaller than the tick).

`ServicesProofs`, the commands: `CmdExecutedOnce` (`ExecutedOnce`), `CmdSuccessIsOwn` (`SuccessIsOwn`),
`CmdRetryFindsReply` (`RetryFindsReply`), for any clients, any window of tokens and any bounds
of messages, retries, restarts and time. A change needs a token, and a token is burnt when
it is used (`ExecutedAreBurnt`), so the invariant follows a token through the system: a request in the network carries one that was returned to its
sender (`RequestsKnown`, `TokensAreOwned`, `OneHolder`), and a token older than the window counts as
burnt. A restart makes all tokens of the run before foreign, by the token of the run.
`RepliesAreTrue` says that a reply in the network or kept in the daemon reports what happened;
`KeptAreCurrent` and `ExecutedAreKept` that a reply is discarded only when its client has
acknowledged it with a later token, when it is stale, or when the daemon ends. `LogonsAreSeen` remembers the
timestamps of logons as long as they are accepted.

`ServicesProofs`, the tables: `ServicesAllowedAsRuled` (`AllowedAsRuled`) and `ServicesTablesHold`
(`TablesHold`), from `ServicesIInv`, the invariants of all parts of `Services`. Of the access filter
the invariant says that a node is in the state of the last rule that set it and that no later
rule for all has taken away (`StatesAsRuled`), and that tables exist on the way to every node that
says something (`ReachedIfSet`). From this the deepest node on the way to an address is that of
the rule that decides in the tree: a rule whose subnet covers the address sets one node on the way to
it, of the level of the rule (`TargetsAre`, `SameNode`). That is not yet the rule that decides by
`addrfilt.h`, which knows lengths and no levels: the most specific rule in force. A longer subnet is
of no lower level (`LevelsGrow`), so the two are the same rule unless a less specific one of the same
level came later (`TreeDecidesAsRuled`), which is what `Overwritten` says; `SpecificsKept`, without that
exception, is violated. `SubnetsAssumption` is that no rule sets entries past a table, on
which `set_subnet` relies. The way down to the node of a client is a fold over the levels of the tree. That
the fold exists is shown by a least counterexample (`FoldExists`), and that it keeps what each
step keeps (`FoldStays`): after k tables the log holds the first k or has reached its limit
(`Opened`). For the keys the invariant is that the cached position is true of the file read last
(`Located`), a position that says that the key is not there included. For the manual samples and the
broadcasts the properties need little more than types and the size of the array.

`ClockProofs`, the scheduler: `SchedulerQueueOrdered` (`QueueOrdered`), `SchedulerLoopSurvives` (`LoopSurvives`),
for any delays, separation, jumps of the clock and number of descriptors. The loop that keeps the
timeouts of a class apart reads the queue in its order and never looks back; that this is enough
is the lemma `DelayKeepsApart`: where the loop moves the new timeout, it moves it past all
entries it has seen. For the descriptors the invariant says that those copied for `select` and
below `one_highest_fd` are still registered (`CopyIsOpen`). That the loop does not end the daemon
as one that never catches up rests on a budget (`FewAreDue`): each timeout of the round's start may
be due once more for each unit of time that the handlers took. Its theorem has a hypothesis, since the
code has none that would make it true always: handlers ask for delays of at least one unit, and those
of one round take at most three (the code gives up at more than four calls for each
timeout). The recursion of the loop is shown to exist by a least counterexample.

`MeasurementsProofs`, the register: `StatsMinDelayIsLeast` (`MinDelayIsLeast`), `StatsReadsAreRight`
(`ReadsAreRight`), and `StatsImplementsLog` (`LogSpec`): every operation of `SourceStats` is a step
of `SampleLog` or a stutter. For rings of any size, any ratio of the two, any delays and skews. An
index is computed by a sum and a remainder; the lemmas first show what it is, the slot k places
before the newest one (`Back`), in both rings, the small one because its size divides the large
one's (`NextInBothRings`). Then a register without its oldest samples reads the same slots
(`Rest`), one more sample takes a slot that none of the others has (`FilledIsRight`), and what
`Store` writes back is what is read (`StoreHolds`). `RegressionKeeps` is the lemma about the
regression, which the new sample and the loaded file share: the log it leaves is an end of
the log it got (`EndOf`), and the smallest delay and the nearest sample are found again. The
refinement needs that samples for the runs test exist only behind three others
(`RunsBehind`): otherwise the log would have an estimate and the register none. What is
proved about the least element of finitely many numbers is by least counterexample.
`MeasurementRegister` takes these results over to `Measurements`, whose other parts leave the register
alone.

`SelectionProofs`, and `MeasurementsProofs` for the selection: `SelectionIsSound` (`SelectionSound`),
`NoHopWithoutSampleHolds` (`NoHopWithoutSample`), for any finite set of sources, any offsets and
statistics and any length of the reach register. The invariant of the scan (`ScanInv`) says that what was
scanned comes before what was not, that `depth` counts the intervals entered and not left, that no
offset passed so far is deeper than the best depth, which was not reached before `best_lo`, and
that `best_hi` is the last end of that depth so far. That some source survives follows from
the interval that begins at the first of the deepest points: it contains the best range's
beginning. The invariant of the table (`SelectInv`) says that the source with status `SRC_SYNC` is the
selected one and no other, that it is fit to be selected and that the reference follows it. To it is
added `SelectedIsMax`: if any score is above the limit, that of the selected source is. Without this
the hop is not excluded: a score that was above the limit before could win without having moved. Each
way through `SRC_SelectSource`, the early returns included, is shown to leave an outcome that keeps
the invariant (`Sound`), whatever fields its callers have changed before. `SelectionProofs` is about one
selection; it is instantiated for the sources of the constants and for the pair.

`RefclockProofs`: `MiddleAlwaysSelected` (`MiddleSelected`), for
filters of any length, filled to any degree, that have wrapped anywhere, with equal offsets too.
The sort in place is a chain of moves: each move that does anything settles one more rank in the
slot of its number, for good, so that as many moves as slots are enough, and no rank is lost
on the way. What is read from the settled slots is then the increasing sequence of the ranks that were
selected, and a rank is turned back into the slot that it came from. The filters of the constants
are assumed to be what `filter_add_sample` makes of samples in the order of time (`IsFilter`), and the
filters of the clocks are shown to be such.
`PulsesAlwaysHold` (`PulsesHold`) is for any number of clocks, any lengths of filters, steps of the clock
and polls. The invariant (`FilterHolds`) says of each filter that its samples, and the last one, are off by
no more than the errors of its clock, measured from the present error of the system clock, unless
a change left them behind, and that they are newer than what was passed on. A mean lies between the
samples it is of. A pulse is used only if its reference is within a fifth of a second of where it
was put, so it takes a reference that is wrong by more than 4/5 of a second to put it into another second;
`RefclockAssumption` says that samples are not that wrong, that possible errors form an interval, and that
some time goes by between two events of the clocks (two samples of the same time would make one of them
as old as what was passed).

`RegressProofs`: `RegressionIsSound` (`RegressionSound`), for arrays of any length
and any integers. The invariant of the quicksort (`SortInv`) says that the array is a permutation of
what it was; that entries before the part that is searched are no larger than those in it and those behind
it no smaller, in the first search always and in the second if no entries are equal (`Bounded`);
that what the scans have passed is on its side of the pivot (`Scanning`); and that the second
search does not reach what the first has found. The entry asked for is in place when the part has
shrunk to it. For the slope, the ends of the range keep different signs. `RegressAssumption` is what the
callers and the assertions of `regress.c` say of the tables: the samples fit into them.

Every safety invariant and every action property of the passing runs, and each refinement, is
stated by a theorem. Model-checked only: liveness (`BurstEnds`, `StartGoesOn`, `NamesResolved`,
`TimeoutsDispatched`), which the prover does not handle under fairness, and the
properties that are violated. Induction over data is out of the prover's reach as such; where a
definition is recursive (folds, loops, the moves of a sort, sums), the proofs show that the recursive function
exists, and what it keeps, by the least index at which it would fail.

## Not modelled

The arithmetic of frequencies, skews and dispersions and of the regressions, whose
results are choices; conversions of timestamps and packets; authentication (its outcome
is a choice); parsing of the configuration and of commands, and what most of the sixty
commands do beyond calling one function of a module; reports and logs; the drivers of
other systems; digests. `PROJECT.json` lists each part with the reason.

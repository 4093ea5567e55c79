---------------------------- MODULE LocalClock ----------------------------
(***************************************************************************)
(* The local clock (local.c) on the Linux driver: the time of the daemon,  *)
(* "cooked", is the raw time of the kernel and what is still to be slewed. *)
(* Each change is told to every handler that is registered, which moves    *)
(* the timestamps it keeps.                                                *)
(***************************************************************************)
EXTENDS SysLinux

CONSTANTS
  Handler,          \* owners of a timestamp: samples, references, probes
  Amounts,          \* offsets accrued or stepped
  Frequencies,      \* frequencies set
  Compensations,    \* temperature compensations
  MaxComp,          \* 10 ppm: a compensation of as much is ignored
  Thresholds,       \* of makestep
  Ticks,            \* bound: ticks of the kernel
  Changes           \* bound: changes of the clock

ASSUME ClockBounds ==
  /\ Amounts \subseteq Int /\ Frequencies \subseteq Int /\ Compensations \subseteq Int
  /\ Thresholds \subseteq Nat /\ MaxComp \in Nat /\ Ticks \in Nat /\ Changes \in Nat

VARIABLES
  sys,                \* the driver and the kernel
  current_freq, temp_comp,
  mark,             \* the timestamp of each handler; none before it is registered
  ideal,            \* history: what the cooked time should be
  held,             \* history: ticks since the timestamp of each handler
  untold,           \* history: what compensations made of them, which nobody was told
  asked,            \* history: the frequency asked for
  running, crashed,
  ticks, changes    \* bounded

clockVars ==
  <<sys, current_freq, temp_comp, mark, ideal, held, untold, asked, running, crashed, ticks, changes>>

ClockInit ==
  \E have_nanopll \in BOOLEAN :
    /\ sys = Start(0, nominal_tick, have_nanopll)
    /\ current_freq = 0 /\ temp_comp = 0
    /\ mark = [h \in Handler |-> <<>>] /\ held = [h \in Handler |-> 0]
    /\ untold = [h \in Handler |-> 0]
    /\ ideal = 0 /\ asked = 0 /\ running = TRUE /\ crashed = FALSE
    /\ ticks = 0 /\ changes = 0

-----------------------------------------------------------------------------
(* What the handlers do with a change: UTI_AdjustTimeval on what they keep. *)

\* The time passed since t, at the new length of the tick.
Scaled(t, cooked, before, after) == cooked - ((cooked - t) * after) \div before

\* Fault: the timestamps are moved by the offset alone.
MovedOnly(cooked, s1, doffset) ==
  [h \in Handler |-> [i \in DOMAIN mark[h] |-> mark[h][i] - doffset]]

\* The dispatch to all handlers, with the cooked time and the state s1 that
\* the driver has left.
Dispatched(cooked, s1, doffset) ==
  [h \in Handler |-> [i \in DOMAIN mark[h] |->
     Scaled(mark[h][i], cooked, sys.current_tick, s1.current_tick) - doffset]]

\* The scheduler's handler moves every timeout with a step.
Shifted(s1, doffset) ==
  [s1 EXCEPT !.timeouts = [i \in DOMAIN @ |-> @[i] - doffset]]

\* Bound: a frequency does not make the tick that of the fast slew, by which the
\* driver would divide by zero.
Slews(freq) == sys.fast_slewing => Clamp(nominal_tick - freq) # sys.slewing_tick

\* History: a frequency that is told scales the error of compensations too.
Told(s1) == [h \in Handler |-> (untold[h] * s1.current_tick) \div sys.current_tick]

Change == running /\ changes < Changes /\ changes' = changes + 1

\* LCL_SetAbsoluteFrequency, whose cooked time is that after the change.
SetAbsoluteFrequency(freq) ==
  LET s1 == SetFrequency(Read(sys), freq - temp_comp)
  IN /\ Change /\ Slews(freq - temp_comp) /\ sys' = s1 /\ current_freq' = nominal_tick - s1.current_tick
     /\ mark' = Dispatched(Cooked(s1), s1, 0)
     /\ asked' = current_freq' + temp_comp /\ untold' = Told(s1)
     /\ UNCHANGED <<temp_comp, ideal, held, running, crashed, ticks>>

\* LCL_AccumulateDeltaFrequency
AccumulateDeltaFrequency(dfreq) ==
  LET s1 == SetFrequency(Read(sys), current_freq + dfreq)
  IN /\ Change /\ Slews(current_freq + dfreq) /\ sys' = s1 /\ current_freq' = nominal_tick - s1.current_tick
     /\ mark' = Dispatched(Cooked(s1), s1, 0)
     /\ asked' = current_freq' + temp_comp /\ untold' = Told(s1)
     /\ UNCHANGED <<temp_comp, ideal, held, running, crashed, ticks>>

\* LCL_AccumulateOffset, whose cooked time is that before the change.
AccumulateOffset(offset) ==
  LET s1 == AccrueOffset(Read(sys), offset)
  IN /\ Change /\ sys' = s1
     /\ mark' = Dispatched(Cooked(sys), s1, offset)
     /\ ideal' = ideal - offset
     /\ UNCHANGED <<current_freq, temp_comp, held, untold, asked, running, crashed, ticks>>

\* LCL_ApplyStepOffset
ApplyStep(offset) ==
  LET s1 == ApplyStepOffset(Read(sys), offset)
  IN /\ Change /\ sys' = Shifted(s1, offset)
     /\ mark' = Dispatched(Cooked(sys), s1, offset)
     /\ ideal' = ideal - offset
     /\ UNCHANGED <<current_freq, temp_comp, held, untold, asked, running, crashed, ticks>>

\* LCL_AccumulateFrequencyAndOffset
AccumulateFrequencyAndOffset(dfreq, offset) ==
  LET s1 == AccrueOffset(SetFrequency(Read(sys), current_freq + dfreq), offset)
  IN /\ Change /\ Slews(current_freq + dfreq) /\ sys' = s1 /\ current_freq' = nominal_tick - s1.current_tick
     /\ mark' = Dispatched(Cooked(sys), s1, offset)
     /\ ideal' = ideal - offset
     /\ asked' = current_freq' + temp_comp /\ untold' = Told(s1)
     /\ UNCHANGED <<temp_comp, held, running, crashed, ticks>>

\* LCL_MakeStep's two calls: the slew is cancelled, then the clock stepped.
CancelAndStep(s1, correction) == ApplyStepOffset(AccrueOffset(s1, correction), -correction)

\* LCL_MakeStep.  The handlers are told both changes, which undo each other.
MakeStep(threshold) ==
  LET correction == Correction(sys)
  IN /\ Change /\ Abs(correction) > threshold
     /\ sys' = Shifted(CancelAndStep(Read(sys), correction), -correction)
     /\ mark' = Dispatched(Cooked(sys), sys, correction - correction)
     /\ UNCHANGED <<current_freq, temp_comp, ideal, held, untold, asked, running, crashed, ticks>>

\* LCL_SetTempComp: no handler is told, the ticks since a timestamp are taken for
\* ticks of the new length.
SetTempComp(comp) ==
  LET freq == current_freq + temp_comp
      s1 == SetFrequency(sys, freq - comp)
  IN /\ Change /\ Slews(freq - comp) /\ comp # temp_comp
     /\ sys' = s1 /\ current_freq' = nominal_tick - s1.current_tick
     /\ temp_comp' = freq - current_freq'
     /\ untold' = [h \in Handler |-> untold[h] + held[h] * (sys.current_tick - s1.current_tick)]
     /\ UNCHANGED <<mark, ideal, held, asked, running, crashed, ticks>>

\* read_timeout of tempcomp.c: the temperature gives a compensation.
ReadTimeout(comp) == Abs(comp) < MaxComp /\ SetTempComp(comp)

\* LCL_NotifyExternalTimeStep, by the scheduler, when someone else has set the
\* clock.  Not during a fast slew: the driver takes the step for slewing then.
ExternalStep(offset) ==
  /\ Change /\ ~sys.fast_slewing
  /\ sys' = Shifted([sys EXCEPT !.raw = @ - offset], offset)
  /\ mark' = Dispatched(Cooked(sys), sys, offset)
  /\ ideal' = ideal - offset
  /\ UNCHANGED <<current_freq, temp_comp, held, untold, asked, running, crashed, ticks>>

\* LCL_AddParameterChangeHandler, LCL_RemoveParameterChangeHandler: a timestamp
\* is taken (LCL_ReadCookedTime), or forgotten.
AddHandler(h) ==
  /\ running /\ mark[h] = <<>>
  /\ sys' = Read(sys) /\ mark' = [mark EXCEPT ![h] = <<Cooked(sys)>>] /\ held' = [held EXCEPT ![h] = 0]
  /\ untold' = [untold EXCEPT ![h] = 0]
  /\ UNCHANGED <<current_freq, temp_comp, ideal, asked, running, crashed, ticks, changes>>

RemoveHandler(h) ==
  /\ running /\ mark[h] # <<>>
  /\ mark' = [mark EXCEPT ![h] = <<>>] /\ held' = [held EXCEPT ![h] = 0]
  /\ untold' = [untold EXCEPT ![h] = 0]
  /\ UNCHANGED <<sys, current_freq, temp_comp, ideal, asked, running, crashed, ticks, changes>>

-----------------------------------------------------------------------------

KernelTicks ==
  /\ ticks < Ticks /\ ticks' = ticks + 1
  /\ sys' = KernelTick(sys) /\ ideal' = ideal + sys.current_tick
  /\ held' = [h \in Handler |-> IF mark[h] = <<>> THEN 0 ELSE held[h] + 1]
  /\ UNCHANGED <<current_freq, temp_comp, mark, untold, asked, running, crashed, changes>>

\* The scheduler calls handle_end_of_slew at the time or any time later.
EndOfSlewTimeout ==
  /\ running /\ sys.timeouts # <<>> /\ sys.timeouts[Len(sys.timeouts)] <= sys.raw
  /\ sys' = HandleEndOfSlew(sys)
  /\ UNCHANGED <<current_freq, temp_comp, mark, ideal, held, untold, asked, running, crashed, ticks, changes>>

\* The daemon ends: SYS_Linux_Finalise, or a crash, which leaves a fast slew on.
Stop ==
  /\ running /\ running' = FALSE
  /\ \/ sys' = AbortSlew(sys) /\ crashed' = FALSE
     \/ sys' = sys /\ crashed' = TRUE
  /\ mark' = [h \in Handler |-> <<>>] /\ held' = [h \in Handler |-> 0]
  /\ untold' = [h \in Handler |-> 0]
  /\ UNCHANGED <<current_freq, temp_comp, ideal, asked, ticks, changes>>

\* SYS_Linux_Initialise: the tick the kernel has is taken for the current one.
Restart ==
  /\ ~running /\ running' = TRUE
  /\ sys' = Start(sys.raw, sys.tick, sys.have_nanopll)
  /\ current_freq' = nominal_tick - sys.tick /\ temp_comp' = 0
  /\ ideal' = sys.raw /\ asked' = nominal_tick - sys.tick
  /\ UNCHANGED <<mark, held, untold, crashed, ticks, changes>>

ClockNext ==
  \/ \E f \in Frequencies : SetAbsoluteFrequency(f) \/ AccumulateDeltaFrequency(f)
  \/ \E o \in Amounts :
       \/ AccumulateOffset(o) \/ ApplyStep(o) \/ ExternalStep(o)
       \/ \E f \in Frequencies : AccumulateFrequencyAndOffset(f, o)
  \/ \E t \in Thresholds : MakeStep(t)
  \/ \E c \in Compensations : ReadTimeout(c)
  \/ \E h \in Handler : AddHandler(h) \/ RemoveHandler(h)
  \/ KernelTicks
  \/ EndOfSlewTimeout
  \/ Stop
  \/ Restart

ClockSpec == ClockInit /\ [][ClockNext]_clockVars

-----------------------------------------------------------------------------
(* Properties. *)

\* The cooked time is what was asked for: it goes on by the current tick and
\* changes at once by each offset, however the driver slews the clock, what
\* interrupts a slew and how late its end comes.  The frequency is the one
\* asked for, under any temperature compensation.
CookedIsIdeal ==
  running => Cooked(sys) = ideal /\ Frequency(sys) = current_freq /\ current_freq + temp_comp = asked

\* A timestamp a handler keeps stays as many ticks in the past as it is, at the
\* length they have now: each change is told it once, with the time it applies
\* to.  The one thing that it is off by are the changes of the frequency by
\* temperature compensations, which LCL_SetTempComp tells nobody: the ticks since
\* the timestamp times the change, moved on with every frequency told later.
TimestampsHold ==
  \A h \in Handler : mark[h] # <<>> =>
    Cooked(sys) - mark[h][1] = held[h] * sys.current_tick + untold[h]

\* A fast slew has one timeout to end it and no other adjustment runs with it;
\* what is left of an offset without one is below a grain, unless the tick
\* could not be moved any further; and no slew is left on by an exit.
SlewsAreEnded ==
  /\ running => Len(sys.timeouts) = IF sys.fast_slewing THEN 1 ELSE 0
  /\ running /\ sys.fast_slewing => sys.left = 0 /\ sys.offset_register = 0
  /\ running /\ ~sys.fast_slewing =>
       \/ Abs(sys.offset_register) <= Grain \div 2
       \/ sys.refused
  /\ ~running /\ ~crashed => sys.tick = sys.current_tick
=============================================================================

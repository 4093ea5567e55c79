----------------------------- MODULE SysLinux -----------------------------
(***************************************************************************)
(* The Linux driver (sys_linux.c): how an offset is taken off the clock,   *)
(* by the kernel's slow adjustments or by another length of the tick for a *)
(* while, and which correction the time read needs meanwhile.              *)
(*                                                                         *)
(* Every function of the driver is an operator from one state to the next; *)
(* module LocalClock calls them.  Time passes in whole ticks of the        *)
(* kernel.  All lengths are integers of one unit; adjtime() is given whole *)
(* grains of it, the kernel's PLL any number, and the frequency moves the  *)
(* tick by whole units.                                                    *)
(***************************************************************************)
EXTENDS Integers, Sequences, SequencesExt, FiniteSetsExt

CONSTANTS
  nominal_tick, max_tick_bias, slew_delta_tick,
  Grain,
  MAX_ADJUST_WITH_NANOPLL, MAX_ADJUST_WITH_ADJTIME,
  MAX_FASTSLEW_TIMEOUT

ASSUME DriverAssumption ==
  /\ {nominal_tick, slew_delta_tick, Grain, MAX_FASTSLEW_TIMEOUT} \subseteq Nat \ {0}
  /\ max_tick_bias \in 1 .. nominal_tick - 1
  /\ MAX_ADJUST_WITH_NANOPLL \in Nat /\ MAX_ADJUST_WITH_ADJTIME \in Nat

min_allowed_tick == nominal_tick - max_tick_bias
max_allowed_tick == nominal_tick + max_tick_bias

Abs(x) == IF x < 0 THEN -x ELSE x
Sign(x) == IF x > 0 THEN 1 ELSE IF x < 0 THEN -1 ELSE 0
Clamp(t) == Min({max_allowed_tick, Max({min_allowed_tick, t})})

\* A start of the driver on a kernel whose clock shows raw and whose tick is
\* tick.  have_nanopll is a feature of the kernel.
Start(raw, tick, have_nanopll) ==
  [have_nanopll |-> have_nanopll,
   current_tick |-> tick, offset_register |-> 0,
   slow_slewing |-> FALSE, nano_slewing |-> FALSE, fast_slewing |-> FALSE,
   fast_slew_wanted |-> 0, slewing_tick |-> tick, slew_start |-> raw,
   refused |-> FALSE,                            \* history: the tick was at its limit
   timeouts |-> <<>>,                            \* of the scheduler: ends of slews
   raw |-> raw, tick |-> tick, left |-> 0]       \* the kernel

\* A tick of the kernel: a slow adjustment moves a part of what is left of it.
KernelTick(s) ==
  LET moved == Sign(s.left) * Min({Grain, Abs(s.left)})
  IN [s EXCEPT !.raw = @ + s.tick + moved, !.left = @ - moved]

-----------------------------------------------------------------------------

delta_total_tick(s) == s.slewing_tick - s.current_tick

\* What a fast slew with these ticks has moved the clock by since its start.
Done(s, total, delta) == (delta * (s.raw - s.slew_start)) \div (total + delta)

\* get_offset_correction
Remaining(s) ==
  IF s.fast_slewing
  THEN s.fast_slew_wanted + Done(s, s.current_tick, delta_total_tick(s)) ELSE 0
Correction(s) == -(s.offset_register + Remaining(s)) + s.left
Cooked(s) == s.raw + Correction(s)

\* Its side effect: an adjustment with nothing left is over.
Read(s) ==
  [s EXCEPT !.slow_slewing = @ /\ s.left # 0, !.nano_slewing = @ /\ s.left # 0]

\* When the register is used up by a slew that starts now.
EndOfSlew(s, register) ==
  LET left == (Abs(register) * s.slewing_tick) \div Abs(delta_total_tick(s))
      dseconds == IF Sign(register) = -Sign(delta_total_tick(s)) THEN left ELSE -left
  IN s.raw + Min({dseconds, MAX_FASTSLEW_TIMEOUT})

\* slew_timeout_id is the timeout added last.
RemoveSlewTimeout(s) == [s EXCEPT !.timeouts = Front(@)]

\* stop_fast_slew
StopFastSlew(s) ==
  [s EXCEPT !.tick = s.current_tick, !.fast_slewing = FALSE,
            !.offset_register = @ + s.fast_slew_wanted + Done(s, s.current_tick, delta_total_tick(s))]

\* adjust_fast_slew: the slew goes on with all that is left.
AdjustFastSlew(s, old_tick, old_delta_tick) ==
  LET register == s.offset_register + s.fast_slew_wanted + Done(s, old_tick, old_delta_tick)
  IN [s EXCEPT !.slew_start = s.raw, !.fast_slew_wanted = register, !.offset_register = 0,
               !.timeouts = Append(Front(@), EndOfSlew(s, register))]

\* initiate_slew, first part: what the kernel has not adjusted comes back.
CancelSlow(s) ==
  [s EXCEPT !.offset_register = @ - s.left, !.left = 0,
            !.slow_slewing = FALSE, !.nano_slewing = FALSE, !.refused = FALSE]

\* The three ways to slew.  adjtime() leaves what is less than half a grain.
NanoSlew(s) ==
  [s EXCEPT !.left = -s.offset_register, !.offset_register = 0, !.nano_slewing = TRUE]

OurRound(x) == Sign(x) * ((2 * Abs(x) + Grain) \div (2 * Grain))

SlowSlew(s) ==
  LET offset == Grain * OurRound(-s.offset_register)
  IN [s EXCEPT !.offset_register = @ + offset, !.left = offset, !.slow_slewing = offset # 0]

FastSlew(s) ==
  LET tick == Clamp(s.current_tick - Sign(s.offset_register) * slew_delta_tick)
      s1 == [s EXCEPT !.slewing_tick = tick]
  IN IF tick = s.current_tick THEN [s EXCEPT !.refused = TRUE]
     ELSE [s1 EXCEPT !.tick = tick, !.fast_slewing = TRUE, !.slew_start = s.raw,
                     !.timeouts = Append(@, EndOfSlew(s1, s.offset_register)),
                     !.fast_slew_wanted = s.offset_register, !.offset_register = 0]

\* initiate_slew
InitiateSlew(s) ==
  LET c == CancelSlow(s)
  IN IF s.offset_register = 0 THEN s
     ELSE IF c.have_nanopll /\ Abs(c.offset_register) < MAX_ADJUST_WITH_NANOPLL THEN NanoSlew(c)
     ELSE IF Abs(c.offset_register) < MAX_ADJUST_WITH_ADJTIME THEN SlowSlew(c)
     ELSE FastSlew(c)

\* handle_end_of_slew, by the scheduler: the timeout is gone.
HandleEndOfSlew(s) == InitiateSlew(StopFastSlew(RemoveSlewTimeout(s)))

\* Fault: the timeout of an aborted slew stays.
AbortQuietly(s) == IF s.fast_slewing THEN StopFastSlew(s) ELSE s

\* abort_slew
AbortSlew(s) == IF s.fast_slewing THEN RemoveSlewTimeout(StopFastSlew(s)) ELSE s

\* accrue_offset
AccrueOffset(s, offset) ==
  LET s1 == [s EXCEPT !.offset_register = @ + offset]
  IN IF s.fast_slewing THEN AdjustFastSlew(s1, s.current_tick, delta_total_tick(s))
     ELSE InitiateSlew(s1)

\* apply_step_offset
ApplyStepOffset(s, offset) ==
  LET s1 == AbortSlew(s) IN InitiateSlew([s1 EXCEPT !.raw = @ - offset])

\* Fault: the slew goes on by the old tick.
SetFrequencyUnadjusted(s, freq) ==
  LET tick == Clamp(nominal_tick - freq)
  IN [s EXCEPT !.current_tick = tick, !.tick = IF s.fast_slewing THEN @ ELSE tick]

\* set_frequency; a fast slew keeps its tick.
SetFrequency(s, freq) ==
  LET s1 == [s EXCEPT !.current_tick = Clamp(nominal_tick - freq)]
  IN IF s.fast_slewing THEN AdjustFastSlew(s1, s.current_tick, delta_total_tick(s))
     ELSE [s1 EXCEPT !.tick = s1.current_tick]

\* What set_frequency returns and read_frequency reads.
Frequency(s) == nominal_tick - (s.tick - IF s.fast_slewing THEN delta_total_tick(s) ELSE 0)
=============================================================================

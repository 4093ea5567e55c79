----------------------------- MODULE ClockProofs -----------------------------
(***************************************************************************)
(* Proofs about LocalClock, with the driver SysLinux under it, and about   *)
(* Scheduler.                                                              *)
(*                                                                         *)
(* The clock: for any lengths of the tick, limits and thresholds, whatever *)
(* the order of changes, ticks of the kernel, ends of slews that come      *)
(* late, exits, crashes and starts.  The event loop: for any number of     *)
(* timeouts and descriptors, any delays, separation and jumps of the clock,*)
(* whatever the handlers do.                                               *)
(***************************************************************************)
EXTENDS LocalClock, Scheduler, SequenceTheorems, WellFoundedInduction, TLAPS

-----------------------------------------------------------------------------
(* The clock: its inductive invariant. *)

TickLengths == min_allowed_tick .. max_allowed_tick

Driver ==
  [have_nanopll : BOOLEAN,
   current_tick : TickLengths, offset_register : Int,
   slow_slewing : BOOLEAN, nano_slewing : BOOLEAN, fast_slewing : BOOLEAN,
   fast_slew_wanted : Int, slewing_tick : TickLengths, slew_start : Int,
   refused : BOOLEAN, timeouts : Seq(Int),
   raw : Int, tick : TickLengths, left : Int]

\* A fast slew: since its start the kernel has gone on by whole slewing ticks,
\* so that the division of Done loses nothing.
Fast(s) ==
  /\ s \in Driver /\ s.fast_slewing
  /\ s.tick = s.slewing_tick /\ s.slewing_tick # s.current_tick
  /\ s.offset_register = 0 /\ s.left = 0
  /\ Len(s.timeouts) = 1
  /\ \E k \in Nat : s.raw - s.slew_start = k * s.slewing_tick

\* No fast slew.
Slow(s) ==
  /\ s \in Driver /\ ~s.fast_slewing
  /\ s.tick = s.current_tick
  /\ Len(s.timeouts) = 0

\* What no slew takes off is below a grain, or the tick was at its limit.
Settled(s) == Abs(s.offset_register) <= Grain \div 2 \/ s.refused

\* The driver between two calls.
Good(s) == Fast(s) \/ (Slow(s) /\ Settled(s))

\* A timestamp or none.
Marks == {<<>>} \cup {<<t>> : t \in Int}

TypeOK ==
  /\ sys \in Driver
  /\ current_freq \in Int /\ temp_comp \in Int /\ asked \in Int /\ ideal \in Int
  /\ mark \in [Handler -> Marks] /\ held \in [Handler -> Nat]
  /\ untold \in [Handler -> Int]
  /\ running \in BOOLEAN /\ crashed \in BOOLEAN
  /\ ticks \in Nat /\ changes \in Nat

\* A daemon that runs has a driver in order, the frequency of its tick and the time asked for.
Runs ==
  running =>
    /\ Good(sys)
    /\ current_freq = nominal_tick - sys.current_tick /\ current_freq + temp_comp = asked
    /\ Cooked(sys) = ideal

\* An exit forgets the timestamps and, when it is no crash, leaves no slew on.
Ended ==
  ~running =>
    /\ \A h \in Handler : mark[h] = <<>>
    /\ ~crashed => sys.tick = sys.current_tick

IInv == TypeOK /\ Runs /\ Ended /\ TimestampsHold
-----------------------------------------------------------------------------
(* Numbers. *)

\* The lesser and the larger of two integers.
LEMMA MinOfTwo ==
  ASSUME NEW a \in Int, NEW b \in Int
  PROVE  Min({a, b}) = IF a <= b THEN a ELSE b
BY DEF Min

LEMMA MaxOfTwo ==
  ASSUME NEW a \in Int, NEW b \in Int
  PROVE  Max({a, b}) = IF a <= b THEN b ELSE a
BY DEF Max

\* Every length of the tick is positive, and Clamp gives one.
LEMMA TicksArePositive ==
  /\ TickLengths \subseteq Nat \ {0} /\ nominal_tick \in TickLengths
  /\ \A t \in Int : Clamp(t) \in TickLengths
<1>1. min_allowed_tick \in Nat \ {0} /\ max_allowed_tick \in Nat /\ min_allowed_tick <= nominal_tick
      /\ nominal_tick <= max_allowed_tick /\ nominal_tick \in Nat
  BY DriverAssumption DEF min_allowed_tick, max_allowed_tick
<1>2. ASSUME NEW t \in Int PROVE Clamp(t) \in TickLengths
  <2>1. Max({min_allowed_tick, t}) \in Int /\ Max({min_allowed_tick, t}) >= min_allowed_tick
    BY <1>1, MaxOfTwo
  <2> QED BY <1>1, <2>1, MinOfTwo DEF Clamp, TickLengths
<1> QED BY <1>1, <1>2 DEF TickLengths

\* A division that leaves nothing.
LEMMA DivExact == ASSUME NEW x \in Int, NEW b \in Nat \ {0} PROVE (x * b) \div b = x
OBVIOUS

LEMMA Regroup ==
  ASSUME NEW a \in Int, NEW k \in Int, NEW b \in Int
  PROVE  a * (k * b) = (a * k) * b /\ a * k \in Int
OBVIOUS

LEMMA AddOne ==
  ASSUME NEW a \in Int, NEW k \in Int
  PROVE  (k + 1) * a = k * a + a /\ a * (k + 1) = a * k + a
OBVIOUS

LEMMA DivBounds ==
  ASSUME NEW x \in Int, NEW b \in Nat \ {0}
  PROVE  b * (x \div b) <= x /\ x < b * (x \div b) + b /\ x \div b \in Int
OBVIOUS

LEMMA DivUnique ==
  ASSUME NEW b \in Nat \ {0}, NEW x \in Int, NEW p \in Int, NEW y \in Int,
         b * x <= y, y < b * x + b, b * p <= y, y < b * p + b
  PROVE  x = p
<1>1. CASE x < p
  <2>1. p = x + (p - x) /\ p - x \in Nat \ {0}
    BY <1>1
  <2>2. b * p = b * x + b * (p - x) /\ b * (p - x) >= b
    BY <2>1
  <2> QED BY <2>2
<1>2. CASE p < x
  <2>1. x - p \in Nat \ {0}
    BY <1>2
  <2>2. b * x = b * p + b * (x - p) /\ b * (x - p) >= b
    BY <2>1
  <2> QED BY <2>2
<1> QED BY <1>1, <1>2

\* Whole multiples of the divisor come out of a division.
LEMMA DivPart ==
  ASSUME NEW k \in Int, NEW u \in Int, NEW b \in Nat \ {0}
  PROVE  (k * b + u) \div b = k + u \div b
<1> DEFINE q == u \div b
           p == (k * b + u) \div b
<1>1. q \in Int /\ b * q <= u /\ u < b * q + b
  BY DivBounds
<1>2. p \in Int /\ b * p <= k * b + u /\ k * b + u < b * p + b
  BY DivBounds
<1> HIDE DEF p, q
<1>3. b * (k + q) = k * b + b * q /\ k + q \in Int /\ k * b \in Int
  BY <1>1
<1>4. b * (k + q) <= k * b + u /\ k * b + u < b * (k + q) + b
  BY <1>1, <1>3
<1>5. p = k + q
  <2> DEFINE x == k + q
             y == k * b + u
  <2>1. x \in Int /\ p \in Int /\ y \in Int
    BY <1>2, <1>3
  <2>2. b * x <= y /\ y < b * x + b /\ b * p <= y /\ y < b * p + b
    BY <1>2, <1>4
  <2> HIDE DEF x, y
  <2>3. x = p
    BY <2>1, <2>2, DivUnique
  <2> QED BY <2>3 DEF x
<1> QED BY <1>5 DEF p, q

\* t is n ticks behind now, and behind that by u more.
Behind(t, now, n, tick, u) == now - t = n * tick + u

\* Scaled keeps a time as many of the new ticks behind, and u at their length.
LEMMA ScaledTicks ==
  ASSUME NEW n \in Int, NEW u \in Int, NEW before \in Nat \ {0}, NEW after \in Nat \ {0},
         NEW now \in Int, NEW t \in Int, Behind(t, now, n, before, u)
  PROVE  Behind(Scaled(t, now, before, after), now, n, after, (u * after) \div before)
<1> DEFINE k == n * after
           w == u * after
<1>1. k \in Int /\ w \in Int /\ k * before \in Int
  OBVIOUS
<1>2. (now - t) * after = k * before + w
  <2>1. now - t = n * before + u
    BY DEF Behind
  <2>2. (n * before + u) * after = (n * after) * before + u * after
    OBVIOUS
  <2> QED BY <2>1, <2>2
<1> HIDE DEF k, w
<1>3. (k * before + w) \div before = k + w \div before
  BY <1>1, DivPart, Zenon
<1>4. w \div before \in Int
  BY <1>1, DivBounds, Zenon
<1>5. Scaled(t, now, before, after) = now - (k + w \div before)
  BY <1>2, <1>3 DEF Scaled
<1> DEFINE q == w \div before
<1>6. q \in Int
  BY <1>4
<1> HIDE DEF q
<1>7. now - (now - (k + q)) = k + q
  BY <1>1, <1>6
<1>8. now - Scaled(t, now, before, after) = k + q
  BY <1>5, <1>7 DEF q
<1> QED BY <1>8 DEF Behind, k, w, q

\* OurRound gives the nearest whole number of grains.
LEMMA Rounding ==
  ASSUME NEW x \in Int
  PROVE  /\ OurRound(x) \in Int /\ Grain * OurRound(x) \in Int
         /\ Abs(x - Grain * OurRound(x)) <= Grain \div 2
<1> DEFINE q == (2 * Abs(x) + Grain) \div (2 * Grain)
<1>1. Grain \in Nat \ {0} /\ Abs(x) \in Nat /\ 2 * Grain \in Nat \ {0}
  BY DriverAssumption DEF Abs
<1>2. q \in Int /\ (2 * Grain) * q <= 2 * Abs(x) + Grain /\ 2 * Abs(x) + Grain < (2 * Grain) * q + 2 * Grain
  <2>1. ASSUME NEW y \in Int, NEW b \in Nat \ {0}
        PROVE  b * (y \div b) <= y /\ y < b * (y \div b) + b /\ y \div b \in Int
    BY DivBounds
  <2>2. 2 * Abs(x) + Grain \in Int
    BY <1>1
  <2> QED BY <1>1, <2>1, <2>2
<1> HIDE DEF q
<1>3. (2 * Grain) * q = 2 * (Grain * q) /\ Grain * q \in Int /\ Grain * (-q) = -(Grain * q)
  BY <1>1, <1>2
<1>4. /\ 2 * (Abs(x) - Grain * q) <= Grain /\ 2 * (Grain * q - Abs(x)) <= Grain
  BY <1>1, <1>2, <1>3
<1>5. Abs(x) - Grain * q <= Grain \div 2 /\ Grain * q - Abs(x) <= Grain \div 2
  BY <1>1, <1>3, <1>4
<1>6. OurRound(x) = Sign(x) * q
  BY DEF OurRound, q
<1>7. CASE x > 0
  BY <1>1, <1>2, <1>3, <1>5, <1>6, <1>7 DEF Sign, Abs
<1>8. CASE x < 0
  <2>1. OurRound(x) = -q
    BY <1>2, <1>6, <1>8 DEF Sign
  <2> QED BY <1>1, <1>2, <1>3, <1>5, <1>8, <2>1 DEF Abs
<1>9. CASE x = 0
  <2>1. OurRound(x) = 0
    BY <1>2, <1>6, <1>9 DEF Sign
  <2> QED BY <1>1, <1>9, <2>1 DEF Abs
<1> QED BY <1>7, <1>8, <1>9

-----------------------------------------------------------------------------
(* Sequences of at most one timeout. *)

LEMMA FrontOfOne ==
  ASSUME NEW s \in Seq(Int), Len(s) = 1, NEW e \in Int
  PROVE  /\ Front(s) \in Seq(Int) /\ Len(Front(s)) = 0
         /\ Append(Front(s), e) \in Seq(Int) /\ Len(Append(Front(s), e)) = 1
BY DEF Front

LEMMA OneElement == ASSUME NEW x PROVE [i \in {1} |-> x] = <<x>>
OBVIOUS

LEMMA ShiftedSequence ==
  ASSUME NEW s \in Seq(Int), NEW d \in Int
  PROVE  /\ [i \in DOMAIN s |-> s[i] - d] \in Seq(Int)
         /\ Len([i \in DOMAIN s |-> s[i] - d]) = Len(s)
<1>1. DOMAIN s = 1 .. Len(s) /\ Len(s) \in Nat /\ \A i \in 1 .. Len(s) : s[i] - d \in Int
  OBVIOUS
<1> DEFINE f == [i \in 1 .. Len(s) |-> s[i] - d]
<1>2. f \in [1 .. Len(s) -> Int]
  BY <1>1
<1>3. f \in Seq(Int)
  BY <1>1, <1>2
<1>4. DOMAIN f = 1 .. Len(s)
  OBVIOUS
<1>5. Len(f) = Len(s)
  BY <1>1, <1>3, <1>4
<1> QED BY <1>1, <1>3, <1>5
-----------------------------------------------------------------------------
(* Records of the driver: field by field. *)

Fields ==
  {"have_nanopll", "current_tick", "offset_register", "slow_slewing", "nano_slewing",
   "fast_slewing", "fast_slew_wanted", "slewing_tick", "slew_start", "refused",
   "timeouts", "raw", "tick", "left"}

HasFields(s) == s = [f \in DOMAIN s |-> s[f]] /\ DOMAIN s = Fields

FieldsTyped(s) ==
  /\ s.have_nanopll \in BOOLEAN /\ s.slow_slewing \in BOOLEAN /\ s.nano_slewing \in BOOLEAN
  /\ s.fast_slewing \in BOOLEAN /\ s.refused \in BOOLEAN
  /\ s.current_tick \in TickLengths /\ s.slewing_tick \in TickLengths /\ s.tick \in TickLengths
  /\ s.offset_register \in Int /\ s.fast_slew_wanted \in Int /\ s.slew_start \in Int
  /\ s.timeouts \in Seq(Int) /\ s.raw \in Int /\ s.left \in Int

\* A state of the driver is a record of typed fields.
LEMMA DriverByFields ==
  ASSUME NEW s, HasFields(s), FieldsTyped(s)
  PROVE  s \in Driver
BY DEF Driver, FieldsTyped, HasFields, Fields

LEMMA FieldsOfDriver ==
  ASSUME NEW s \in Driver
  PROVE  HasFields(s) /\ FieldsTyped(s)
<1>1. FieldsTyped(s)
  BY DEF Driver, FieldsTyped
<1>2. s = [f \in DOMAIN s |-> s[f]] /\ DOMAIN s = Fields
  BY DEF Driver, Fields
<1> QED BY <1>1, <1>2 DEF HasFields

-----------------------------------------------------------------------------
(* The time a driver shows. *)

\* After k slewing ticks a fast slew has done k times the difference of the ticks.
LEMMA DoneInTicks ==
  ASSUME NEW s \in Driver, NEW total \in Int, NEW delta \in Int, NEW k \in Int,
         total + delta \in Nat \ {0}, s.raw - s.slew_start = k * (total + delta)
  PROVE  Done(s, total, delta) = delta * k /\ delta * k \in Int
<1>1. delta * (k * (total + delta)) = (delta * k) * (total + delta) /\ delta * k \in Int
  BY Regroup
<1>2. ((delta * k) * (total + delta)) \div (total + delta) = delta * k
  BY <1>1, DivExact
<1> QED BY <1>1, <1>2 DEF Done

LEMMA FastCooked ==
  ASSUME NEW s, Fast(s)
  PROVE  /\ Done(s, s.current_tick, delta_total_tick(s)) \in Int
         /\ Cooked(s) = s.raw - (s.fast_slew_wanted + Done(s, s.current_tick, delta_total_tick(s)))
         /\ \E k \in Nat : /\ s.raw - s.slew_start = k * s.slewing_tick
                           /\ Done(s, s.current_tick, delta_total_tick(s)) = delta_total_tick(s) * k
<1>1. PICK k \in Nat : s.raw - s.slew_start = k * s.slewing_tick
  BY DEF Fast
<1>2. /\ s \in Driver /\ s.fast_slewing /\ s.offset_register = 0 /\ s.left = 0
      /\ s.slewing_tick \in Nat \ {0} /\ s.current_tick \in Nat \ {0}
      /\ s.raw \in Int /\ s.fast_slew_wanted \in Int
  BY TicksArePositive DEF Fast, Driver
<1>3. delta_total_tick(s) \in Int /\ s.current_tick + delta_total_tick(s) = s.slewing_tick
  BY <1>2 DEF delta_total_tick
<1>4. /\ Done(s, s.current_tick, delta_total_tick(s)) = delta_total_tick(s) * k
      /\ delta_total_tick(s) * k \in Int
  BY <1>1, <1>2, <1>3, DoneInTicks
<1>5. Cooked(s) = s.raw + (-(0 + (s.fast_slew_wanted + Done(s, s.current_tick, delta_total_tick(s)))) + 0)
  BY <1>2 DEF Cooked, Correction, Remaining
<1> QED BY <1>1, <1>2, <1>4, <1>5

LEMMA SlowCooked ==
  ASSUME NEW s, s \in Driver, ~s.fast_slewing
  PROVE  Cooked(s) = s.raw - s.offset_register + s.left /\ Cooked(s) \in Int
<1>1. s.raw \in Int /\ s.offset_register \in Int /\ s.left \in Int
  BY DEF Driver
<1> QED BY <1>1 DEF Cooked, Correction, Remaining

LEMMA CookedIsInt ==
  ASSUME NEW s, Good(s)
  PROVE  Cooked(s) \in Int /\ s \in Driver
<1>1. CASE Fast(s)
  <2>1. s.raw \in Int /\ s.fast_slew_wanted \in Int /\ s \in Driver
    BY <1>1 DEF Fast, Driver
  <2> QED BY <1>1, <2>1, FastCooked
<1>2. CASE Slow(s)
  BY <1>2, SlowCooked DEF Slow
<1> QED BY <1>1, <1>2 DEF Good

-----------------------------------------------------------------------------
(* The functions of the driver. *)

\* r shows the time s shows and has its current tick.
Same(r, s) == Cooked(r) = Cooked(s) /\ r.current_tick = s.current_tick

LEMMA TicksAreInts ==
  ASSUME NEW s \in Driver
  PROVE  /\ s.tick \in Int /\ s.current_tick \in Int /\ s.slewing_tick \in Int /\ nominal_tick \in Int
         /\ s.tick \in TickLengths /\ s.current_tick \in TickLengths
<1>1. s.tick \in TickLengths /\ s.current_tick \in TickLengths /\ s.slewing_tick \in TickLengths
  BY DEF Driver
<1>2. \A t \in TickLengths : t \in Int
  BY TicksArePositive
<1> QED BY <1>1, <1>2, TicksArePositive, Zenon

\* EndOfSlew is a time.
LEMMA EndIsInt ==
  ASSUME NEW s \in Driver, s.slewing_tick # s.current_tick, NEW register \in Int
  PROVE  EndOfSlew(s, register) \in Int
<1> DEFINE left == (Abs(register) * s.slewing_tick) \div Abs(delta_total_tick(s))
           dseconds == IF Sign(register) = -Sign(delta_total_tick(s)) THEN left ELSE -left
<1>1. s.slewing_tick \in Nat \ {0} /\ s.current_tick \in Nat \ {0} /\ s.raw \in Int
  BY TicksArePositive DEF Driver
<1>2. Abs(delta_total_tick(s)) \in Nat \ {0} /\ Abs(register) \in Nat
  BY <1>1 DEF delta_total_tick, Abs
<1>3. Abs(register) * s.slewing_tick \in Int
  BY <1>1, <1>2
<1>4. left \in Int
  BY <1>2, <1>3, DivBounds
<1>5. dseconds \in Int
  BY <1>4
<1> HIDE DEF left, dseconds
<1>6. Min({dseconds, MAX_FASTSLEW_TIMEOUT}) \in Int
  BY <1>5, DriverAssumption, MinOfTwo
<1>7. EndOfSlew(s, register) = s.raw + Min({dseconds, MAX_FASTSLEW_TIMEOUT})
  BY DEF EndOfSlew, left, dseconds
<1> QED BY <1>1, <1>6, <1>7

LEMMA CancelSlowOK ==
  ASSUME NEW s, Slow(s)
  PROVE  Slow(CancelSlow(s)) /\ CancelSlow(s).left = 0 /\ Same(CancelSlow(s), s)
<1> DEFINE c == CancelSlow(s)
<1>1. s \in Driver /\ s.offset_register \in Int /\ s.left \in Int /\ s.raw \in Int
  BY DEF Slow, Driver
<1>2. c \in Driver /\ c.fast_slewing = s.fast_slewing
  <2>1. HasFields(c)
    BY <1>1 DEF HasFields, Fields, CancelSlow, Driver
  <2>2. FieldsTyped(c) /\ c.fast_slewing = s.fast_slewing
    BY <1>1 DEF FieldsTyped, CancelSlow, Driver
  <2> QED BY <2>1, <2>2, DriverByFields
<1>3. /\ c.left = 0 /\ c.offset_register = s.offset_register - s.left /\ c.raw = s.raw
      /\ c.tick = s.tick /\ c.current_tick = s.current_tick /\ c.timeouts = s.timeouts
  BY <1>1 DEF CancelSlow, Driver
<1> HIDE DEF c
<1>4. Slow(c)
  BY <1>2, <1>3 DEF Slow
<1>5. Cooked(c) = c.raw - c.offset_register + c.left /\ Cooked(s) = s.raw - s.offset_register + s.left
  BY <1>1, <1>2, SlowCooked DEF Slow
<1>6. Cooked(c) = Cooked(s)
  BY <1>1, <1>3, <1>5
<1> QED BY <1>3, <1>4, <1>6 DEF Same, c

LEMMA NanoSlewOK ==
  ASSUME NEW s, Slow(s), s.left = 0
  PROVE  Good(NanoSlew(s)) /\ Same(NanoSlew(s), s)
<1> DEFINE c == NanoSlew(s)
<1>1. s \in Driver /\ s.offset_register \in Int /\ s.raw \in Int
  BY DEF Slow, Driver
<1>2. c \in Driver /\ c.fast_slewing = s.fast_slewing
  <2>1. HasFields(c)
    BY <1>1 DEF HasFields, Fields, NanoSlew, Driver
  <2>2. FieldsTyped(c) /\ c.fast_slewing = s.fast_slewing
    BY <1>1 DEF FieldsTyped, NanoSlew, Driver
  <2> QED BY <2>1, <2>2, DriverByFields
<1>3. /\ c.left = -s.offset_register /\ c.offset_register = 0 /\ c.raw = s.raw
      /\ c.tick = s.tick /\ c.current_tick = s.current_tick /\ c.timeouts = s.timeouts
  BY <1>1 DEF NanoSlew, Driver
<1> HIDE DEF c
<1>4. Slow(c)
  BY <1>2, <1>3 DEF Slow
<1>5. Cooked(c) = c.raw - c.offset_register + c.left /\ Cooked(s) = s.raw - s.offset_register + s.left
  BY <1>1, <1>2, SlowCooked DEF Slow
<1>6. Cooked(c) = Cooked(s)
  BY <1>1, <1>3, <1>5
<1>7. Settled(c)
  BY <1>3, DriverAssumption DEF Settled, Abs
<1> QED BY <1>3, <1>4, <1>6, <1>7 DEF Same, Good, c

LEMMA SlowSlewOK ==
  ASSUME NEW s, Slow(s), s.left = 0
  PROVE  Good(SlowSlew(s)) /\ Same(SlowSlew(s), s)
<1> DEFINE c == SlowSlew(s)
           offset == Grain * OurRound(-s.offset_register)
<1>1. s \in Driver /\ s.offset_register \in Int /\ s.raw \in Int /\ -s.offset_register \in Int
  BY DEF Slow, Driver
<1>2. offset \in Int /\ Abs(-s.offset_register - offset) <= Grain \div 2
  BY <1>1, Rounding
<1>3. c = [s EXCEPT !.offset_register = @ + offset, !.left = offset, !.slow_slewing = offset # 0]
  BY DEF SlowSlew
<1> HIDE DEF c, offset
<1>4. c \in Driver /\ c.fast_slewing = s.fast_slewing
  <2>1. HasFields(c)
    BY <1>1, <1>2, <1>3 DEF HasFields, Fields, Driver
  <2>2. FieldsTyped(c) /\ c.fast_slewing = s.fast_slewing
    BY <1>1, <1>2, <1>3 DEF FieldsTyped, Driver
  <2> QED BY <2>1, <2>2, DriverByFields
<1>5. /\ c.left = offset /\ c.offset_register = s.offset_register + offset /\ c.raw = s.raw
      /\ c.tick = s.tick /\ c.current_tick = s.current_tick /\ c.timeouts = s.timeouts
  BY <1>1, <1>3 DEF Driver
<1>6. Slow(c)
  BY <1>4, <1>5 DEF Slow
<1>7. Cooked(c) = c.raw - c.offset_register + c.left /\ Cooked(s) = s.raw - s.offset_register + s.left
  BY <1>1, <1>4, SlowCooked DEF Slow
<1>8. Cooked(c) = Cooked(s)
  BY <1>1, <1>2, <1>5, <1>7
<1>9. Settled(c)
  BY <1>1, <1>2, <1>5, DriverAssumption DEF Settled, Abs
<1> QED BY <1>5, <1>6, <1>8, <1>9 DEF Same, Good, c

\* A fast slew that starts now has done nothing.
LEMMA FreshCooked ==
  ASSUME NEW s, Fast(s), s.raw = s.slew_start
  PROVE  Cooked(s) = s.raw - s.fast_slew_wanted
<1>1. /\ s \in Driver /\ s.slewing_tick \in Nat \ {0} /\ s.current_tick \in Nat \ {0}
      /\ s.raw \in Int /\ s.slew_start \in Int /\ s.fast_slew_wanted \in Int
  BY TicksArePositive DEF Fast, Driver
<1>2. /\ delta_total_tick(s) \in Int /\ s.current_tick + delta_total_tick(s) = s.slewing_tick
  BY <1>1 DEF delta_total_tick
<1>3. Done(s, s.current_tick, delta_total_tick(s)) = 0
  <2>1. s.raw - s.slew_start = 0 /\ delta_total_tick(s) * 0 = 0 * s.slewing_tick
    BY <1>1, <1>2
  <2>2. (0 * s.slewing_tick) \div s.slewing_tick = 0
    BY <1>1, DivExact
  <2> QED BY <1>2, <2>1, <2>2 DEF Done
<1> QED BY <1>1, <1>3, FastCooked

LEMMA FastSlewOK ==
  ASSUME NEW s, Slow(s), s.left = 0
  PROVE  Good(FastSlew(s)) /\ Same(FastSlew(s), s)
<1> DEFINE tick == Clamp(s.current_tick - Sign(s.offset_register) * slew_delta_tick)
           s1 == [s EXCEPT !.slewing_tick = tick]
           end == EndOfSlew(s1, s.offset_register)
           c == [s1 EXCEPT !.tick = tick, !.fast_slewing = TRUE, !.slew_start = s.raw,
                           !.timeouts = Append(@, end),
                           !.fast_slew_wanted = s.offset_register, !.offset_register = 0]
           r == [s EXCEPT !.refused = TRUE]
<1>1. /\ s \in Driver /\ s.offset_register \in Int /\ s.raw \in Int /\ s.timeouts \in Seq(Int)
      /\ s.current_tick \in Nat \ {0} /\ Len(s.timeouts) = 0 /\ s.tick = s.current_tick /\ ~s.fast_slewing
  BY TicksArePositive DEF Slow, Driver
<1>2. tick \in TickLengths
  <2>1. Sign(s.offset_register) * slew_delta_tick \in Int
    BY <1>1, DriverAssumption DEF Sign
  <2>2. s.current_tick - Sign(s.offset_register) * slew_delta_tick \in Int
    BY <1>1, <2>1
  <2> QED BY <2>2, TicksArePositive
<1>3. FastSlew(s) = IF tick = s.current_tick THEN r ELSE c
  BY DEF FastSlew
<1>4. Cooked(s) = s.raw - s.offset_register
  BY <1>1, SlowCooked
<1> HIDE DEF tick
<1>5. CASE tick = s.current_tick
  <2>1. r \in Driver
    BY <1>1 DEF Driver
  <2>2. /\ r.fast_slewing = s.fast_slewing /\ r.tick = s.tick /\ r.current_tick = s.current_tick
        /\ r.timeouts = s.timeouts /\ r.raw = s.raw /\ r.offset_register = s.offset_register
        /\ r.left = s.left /\ r.refused
    BY <1>1 DEF Driver
  <2> HIDE DEF r
  <2>3. Slow(r) /\ Settled(r)
    BY <1>1, <2>1, <2>2 DEF Slow, Settled
  <2>4. Cooked(r) = s.raw - s.offset_register
    BY <1>1, <2>1, <2>2, SlowCooked
  <2> QED BY <1>3, <1>4, <1>5, <2>2, <2>3, <2>4 DEF Good, Same
<1>6. CASE tick # s.current_tick
  <2>1. s1 \in Driver /\ s1.slewing_tick = tick /\ s1.current_tick = s.current_tick
    BY <1>1, <1>2 DEF Driver
  <2>2. end \in Int
    BY <1>1, <1>6, <2>1, EndIsInt
  <2>3. s1.timeouts = s.timeouts /\ s1.raw = s.raw /\ s1.left = 0
    BY <1>1 DEF Driver
  <2> HIDE DEF s1, end
  <2>4. HasFields(c)
    BY <2>1 DEF HasFields, Fields, Driver
  <2>5. Append(s.timeouts, end) \in Seq(Int) /\ Len(Append(s.timeouts, end)) = 1
    BY <1>1, <2>2
  <2>6. /\ c.fast_slewing /\ c.tick = tick /\ c.slewing_tick = tick /\ c.current_tick = s.current_tick
        /\ c.offset_register = 0 /\ c.left = 0 /\ c.raw = s.raw /\ c.slew_start = s.raw
        /\ c.fast_slew_wanted = s.offset_register /\ c.timeouts = Append(s.timeouts, end)
    BY <2>1, <2>3 DEF Driver
  <2>7. FieldsTyped(c)
    BY <1>1, <1>2, <2>1, <2>5 DEF FieldsTyped, Driver
  <2> HIDE DEF c
  <2>8. c \in Driver
    BY <2>4, <2>7, DriverByFields
  <2>9. c.raw - c.slew_start = 0 * c.slewing_tick
    BY <1>1, <1>2, <2>6, TicksArePositive
  <2>10. Fast(c)
    BY <1>6, <2>5, <2>6, <2>8, <2>9 DEF Fast
  <2>11. Cooked(c) = s.raw - s.offset_register
    BY <2>6, <2>10, FreshCooked
  <2> QED BY <1>3, <1>4, <1>6, <2>6, <2>10, <2>11 DEF Good, Same
<1> QED BY <1>5, <1>6

\* initiate_slew moves the cooked time by nothing and leaves less than a grain
\* unless the tick is at its limit.
LEMMA InitiateSlewOK ==
  ASSUME NEW s, Slow(s)
  PROVE  Good(InitiateSlew(s)) /\ Same(InitiateSlew(s), s)
<1> DEFINE c == CancelSlow(s)
<1>1. Slow(c) /\ c.left = 0 /\ Same(c, s)
  BY CancelSlowOK
<1>2. InitiateSlew(s) \in {s, NanoSlew(c), SlowSlew(c), FastSlew(c)}
  BY DEF InitiateSlew
<1>3. InitiateSlew(s) = s => s.offset_register = 0 \/ InitiateSlew(s) \in {NanoSlew(c), SlowSlew(c), FastSlew(c)}
  BY DEF InitiateSlew
<1> HIDE DEF c
<1>4. s.offset_register = 0 => Good(s) /\ Same(s, s)
  BY DriverAssumption DEF Good, Settled, Same, Abs
<1>5. \A r \in {NanoSlew(c), SlowSlew(c), FastSlew(c)} : Good(r) /\ Same(r, c)
  BY <1>1, NanoSlewOK, SlowSlewOK, FastSlewOK
<1> QED BY <1>1, <1>2, <1>3, <1>4, <1>5 DEF Same

\* stop_fast_slew: the register takes what the slew has left.
LEMMA StopFastSlewOK ==
  ASSUME NEW s, Fast(s)
  PROVE  /\ StopFastSlew(s) \in Driver /\ ~StopFastSlew(s).fast_slewing
         /\ StopFastSlew(s).tick = s.current_tick /\ StopFastSlew(s).timeouts = s.timeouts
         /\ Same(StopFastSlew(s), s)
<1> DEFINE done == Done(s, s.current_tick, delta_total_tick(s))
           c == [s EXCEPT !.tick = s.current_tick, !.fast_slewing = FALSE,
                          !.offset_register = @ + s.fast_slew_wanted + done]
<1>1. StopFastSlew(s) = c
  BY DEF StopFastSlew
<1>2. /\ s \in Driver /\ s.offset_register = 0 /\ s.left = 0 /\ s.raw \in Int /\ s.fast_slew_wanted \in Int
      /\ done \in Int /\ Cooked(s) = s.raw - (s.fast_slew_wanted + done)
  BY FastCooked DEF Fast, Driver
<1> HIDE DEF done
<1>3. HasFields(c)
  BY <1>2 DEF HasFields, Fields, Driver
<1>4. FieldsTyped(c)
  BY <1>2 DEF FieldsTyped, Driver
<1>5. /\ ~c.fast_slewing /\ c.tick = s.current_tick /\ c.current_tick = s.current_tick
      /\ c.timeouts = s.timeouts /\ c.raw = s.raw /\ c.left = 0
      /\ c.offset_register = s.fast_slew_wanted + done
  BY <1>2 DEF Driver
<1> HIDE DEF c
<1>6. c \in Driver
  BY <1>3, <1>4, DriverByFields
<1>7. Cooked(c) = c.raw - c.offset_register + c.left
  BY <1>5, <1>6, SlowCooked
<1>8. Cooked(c) = Cooked(s)
  BY <1>2, <1>5, <1>7
<1> QED BY <1>1, <1>5, <1>6, <1>8 DEF Same

\* Without its one timeout a driver with no fast slew is a slow one.
LEMMA RemoveTimeoutOK ==
  ASSUME NEW s \in Driver, ~s.fast_slewing, s.tick = s.current_tick, Len(s.timeouts) = 1
  PROVE  Slow(RemoveSlewTimeout(s)) /\ Same(RemoveSlewTimeout(s), s)
<1> DEFINE r == RemoveSlewTimeout(s)
<1>1. Front(s.timeouts) \in Seq(Int) /\ Len(Front(s.timeouts)) = 0
  BY FrontOfOne, 0 \in Int DEF Driver
<1>2. HasFields(r)
  BY DEF HasFields, Fields, Driver, RemoveSlewTimeout
<1>3. /\ FieldsTyped(r) /\ r.fast_slewing = s.fast_slewing /\ r.tick = s.tick
      /\ r.current_tick = s.current_tick /\ r.timeouts = Front(s.timeouts)
      /\ r.raw = s.raw /\ r.offset_register = s.offset_register /\ r.left = s.left
  BY <1>1 DEF FieldsTyped, Driver, RemoveSlewTimeout
<1> HIDE DEF r
<1>4. r \in Driver
  BY <1>2, <1>3, DriverByFields
<1>5. Slow(r)
  BY <1>1, <1>3, <1>4 DEF Slow
<1>6. Cooked(r) = r.raw - r.offset_register + r.left /\ Cooked(s) = s.raw - s.offset_register + s.left
  BY <1>3, <1>4, SlowCooked
<1> QED BY <1>3, <1>5, <1>6 DEF Same, r

\* abort_slew leaves no fast slew and no timeout.
LEMMA AbortSlewOK ==
  ASSUME NEW s, Good(s)
  PROVE  Slow(AbortSlew(s)) /\ Same(AbortSlew(s), s)
<1>1. CASE Fast(s)
  <2>1. AbortSlew(s) = RemoveSlewTimeout(StopFastSlew(s)) /\ Len(s.timeouts) = 1
    BY <1>1 DEF Fast, AbortSlew
  <2>2. /\ StopFastSlew(s) \in Driver /\ ~StopFastSlew(s).fast_slewing
        /\ StopFastSlew(s).tick = s.current_tick /\ StopFastSlew(s).timeouts = s.timeouts
        /\ Same(StopFastSlew(s), s)
    BY <1>1, StopFastSlewOK
  <2>3. Slow(RemoveSlewTimeout(StopFastSlew(s))) /\ Same(RemoveSlewTimeout(StopFastSlew(s)), StopFastSlew(s))
    BY <2>1, <2>2, RemoveTimeoutOK DEF Same
  <2> QED BY <2>1, <2>2, <2>3 DEF Same
<1>2. CASE Slow(s)
  BY <1>2 DEF AbortSlew, Slow, Same
<1> QED BY <1>1, <1>2 DEF Good

\* handle_end_of_slew: the timeout is gone before the slew is stopped.
LEMMA HandleEndOfSlewOK ==
  ASSUME NEW s, Fast(s)
  PROVE  Good(HandleEndOfSlew(s)) /\ Same(HandleEndOfSlew(s), s)
<1> DEFINE c == StopFastSlew(RemoveSlewTimeout(s))
           d == StopFastSlew(s)
<1>1. s \in Driver /\ Len(s.timeouts) = 1
  BY DEF Fast
<1>2. c = RemoveSlewTimeout(d)
  BY <1>1 DEF StopFastSlew, RemoveSlewTimeout, Driver, Done, delta_total_tick
<1>3. d \in Driver /\ ~d.fast_slewing /\ d.tick = d.current_tick /\ Len(d.timeouts) = 1 /\ Same(d, s)
  BY <1>1, StopFastSlewOK DEF Same
<1> HIDE DEF c, d
<1>4. Slow(c) /\ Same(c, d)
  BY <1>2, <1>3, RemoveTimeoutOK
<1>5. HandleEndOfSlew(s) = InitiateSlew(c)
  BY DEF HandleEndOfSlew, c
<1> QED BY <1>3, <1>4, <1>5, InitiateSlewOK DEF Same

\* adjust_fast_slew, called with the ticks the slew had until now: s is the state
\* before another offset was added to the register or another tick became current.
LEMMA AdjustFastSlewOK ==
  ASSUME NEW s, Fast(s), NEW s1 \in Driver,
         s1.fast_slewing, s1.tick = s.tick, s1.slewing_tick = s.slewing_tick, s1.left = 0,
         s1.raw = s.raw, s1.slew_start = s.slew_start, s1.fast_slew_wanted = s.fast_slew_wanted,
         s1.timeouts = s.timeouts, s1.current_tick # s1.slewing_tick,
         NEW r, r = AdjustFastSlew(s1, s.current_tick, delta_total_tick(s))
  PROVE  Fast(r) /\ r.current_tick = s1.current_tick /\ Cooked(r) = Cooked(s) - s1.offset_register
<1> DEFINE done == Done(s, s.current_tick, delta_total_tick(s))
           register == s1.offset_register + s1.fast_slew_wanted + done
           end == EndOfSlew(s1, register)
           c == [s1 EXCEPT !.slew_start = s1.raw, !.fast_slew_wanted = register,
                           !.offset_register = 0, !.timeouts = Append(Front(@), end)]
<1>1. r = c
  <2>1. Done(s1, s.current_tick, delta_total_tick(s)) = done
    BY DEF Done
  <2> QED BY <2>1 DEF AdjustFastSlew
<1>2. done \in Int /\ Cooked(s) = s.raw - (s.fast_slew_wanted + done)
  BY FastCooked
<1> HIDE DEF done
<1>3. /\ s1.raw \in Int /\ s1.offset_register \in Int /\ s1.fast_slew_wanted \in Int
      /\ s1.slewing_tick \in Nat \ {0} /\ s1.tick = s1.slewing_tick /\ s1.timeouts \in Seq(Int)
      /\ Len(s1.timeouts) = 1
  BY TicksArePositive DEF Driver, Fast
<1>4. register \in Int
  BY <1>2, <1>3
<1> HIDE DEF register
<1>5. end \in Int
  BY <1>4, EndIsInt
<1> HIDE DEF end
<1>6. Append(Front(s1.timeouts), end) \in Seq(Int) /\ Len(Append(Front(s1.timeouts), end)) = 1
  BY <1>3, <1>5, FrontOfOne
<1>7. HasFields(c)
  BY DEF HasFields, Fields, Driver
<1>8. FieldsTyped(c)
  BY <1>3, <1>4, <1>6 DEF FieldsTyped, Driver
<1>9. /\ c.fast_slewing /\ c.tick = s1.tick /\ c.slewing_tick = s1.slewing_tick /\ c.left = 0
      /\ c.raw = s1.raw /\ c.slew_start = s1.raw /\ c.fast_slew_wanted = register
      /\ c.offset_register = 0 /\ c.current_tick = s1.current_tick
      /\ c.timeouts = Append(Front(s1.timeouts), end)
  BY DEF Driver
<1> HIDE DEF c
<1>10. c \in Driver
  BY <1>7, <1>8, DriverByFields
<1>11. c.raw - c.slew_start = 0 * c.slewing_tick
  BY <1>3, <1>9
<1>12. Fast(c)
  BY <1>3, <1>6, <1>9, <1>10, <1>11 DEF Fast
<1>13. Cooked(c) = c.raw - c.fast_slew_wanted
  BY <1>9, <1>12, FreshCooked
<1>14. Cooked(c) = Cooked(s) - s1.offset_register
  BY <1>2, <1>3, <1>9, <1>13 DEF register
<1> QED BY <1>1, <1>9, <1>12, <1>14

\* Every offset accrued moves the cooked time by it, at once.
LEMMA AccrueOffsetOK ==
  ASSUME NEW s, Good(s), NEW offset \in Int
  PROVE  /\ Good(AccrueOffset(s, offset)) /\ AccrueOffset(s, offset).current_tick = s.current_tick
         /\ Cooked(AccrueOffset(s, offset)) = Cooked(s) - offset
<1> DEFINE s1 == [s EXCEPT !.offset_register = @ + offset]
<1>1. s \in Driver /\ s.offset_register \in Int /\ s.raw \in Int /\ s.left \in Int
  BY DEF Good, Fast, Slow, Driver
<1>2. s1 \in Driver
  <2>1. HasFields(s1)
    BY <1>1 DEF HasFields, Fields, Driver
  <2>2. FieldsTyped(s1)
    BY <1>1 DEF FieldsTyped, Driver
  <2> QED BY <2>1, <2>2, DriverByFields
<1>3. /\ s1.fast_slewing = s.fast_slewing /\ s1.tick = s.tick /\ s1.slewing_tick = s.slewing_tick
      /\ s1.left = s.left /\ s1.raw = s.raw /\ s1.slew_start = s.slew_start
      /\ s1.fast_slew_wanted = s.fast_slew_wanted /\ s1.timeouts = s.timeouts
      /\ s1.current_tick = s.current_tick /\ s1.offset_register = s.offset_register + offset
  BY <1>1 DEF Driver
<1>4. AccrueOffset(s, offset) = IF s.fast_slewing THEN AdjustFastSlew(s1, s.current_tick, delta_total_tick(s))
                                ELSE InitiateSlew(s1)
  BY DEF AccrueOffset
<1> HIDE DEF s1
<1>5. CASE Fast(s)
  <2>1. s.fast_slewing /\ s.offset_register = 0 /\ s.left = 0 /\ s.slewing_tick # s.current_tick
    BY <1>5 DEF Fast
  <2>2. s1.offset_register = offset
    BY <1>3, <2>1
  <2>3. AccrueOffset(s, offset) = AdjustFastSlew(s1, s.current_tick, delta_total_tick(s))
    BY <1>4, <2>1
  <2>4. s1.fast_slewing /\ s1.left = 0 /\ s1.current_tick # s1.slewing_tick
    BY <1>3, <2>1
  <2> DEFINE r == AccrueOffset(s, offset)
  <2>5. r = AdjustFastSlew(s1, s.current_tick, delta_total_tick(s))
    BY <2>3
  <2> HIDE DEF r
  <2>6. Fast(r) /\ r.current_tick = s1.current_tick /\ Cooked(r) = Cooked(s) - s1.offset_register
    BY <1>2, <1>3, <1>5, <2>4, <2>5, AdjustFastSlewOK
  <2>7. Good(r) /\ r.current_tick = s.current_tick /\ Cooked(r) = Cooked(s) - offset
    BY <1>3, <2>2, <2>6 DEF Good
  <2> QED BY <2>7 DEF r
<1>6. CASE Slow(s)
  <2>1. Slow(s1) /\ ~s.fast_slewing
    BY <1>2, <1>3, <1>6 DEF Slow
  <2>2. Cooked(s1) = s1.raw - s1.offset_register + s1.left /\ Cooked(s) = s.raw - s.offset_register + s.left
    BY <1>2, <1>3, <1>6, SlowCooked DEF Slow
  <2>3. Good(InitiateSlew(s1)) /\ Same(InitiateSlew(s1), s1)
    BY <2>1, InitiateSlewOK
  <2> QED BY <1>1, <1>3, <1>4, <2>1, <2>2, <2>3 DEF Same
<1> QED BY <1>5, <1>6 DEF Good

\* So does every step.
LEMMA ApplyStepOffsetOK ==
  ASSUME NEW s, Good(s), NEW offset \in Int
  PROVE  /\ Good(ApplyStepOffset(s, offset)) /\ ApplyStepOffset(s, offset).current_tick = s.current_tick
         /\ Cooked(ApplyStepOffset(s, offset)) = Cooked(s) - offset
<1> DEFINE a == AbortSlew(s)
           b == [a EXCEPT !.raw = @ - offset]
<1>1. Slow(a) /\ Same(a, s)
  BY AbortSlewOK
<1>2. ApplyStepOffset(s, offset) = InitiateSlew(b)
  BY DEF ApplyStepOffset
<1> HIDE DEF a
<1>3. a \in Driver /\ a.raw \in Int /\ a.offset_register \in Int /\ a.left \in Int
  BY <1>1 DEF Slow, Driver
<1>4. b \in Driver
  <2>1. HasFields(b)
    BY <1>3 DEF HasFields, Fields, Driver
  <2>2. FieldsTyped(b)
    BY <1>3 DEF FieldsTyped, Driver
  <2> QED BY <2>1, <2>2, DriverByFields
<1>5. /\ b.fast_slewing = a.fast_slewing /\ b.tick = a.tick /\ b.current_tick = a.current_tick
      /\ b.timeouts = a.timeouts /\ b.offset_register = a.offset_register /\ b.left = a.left
      /\ b.raw = a.raw - offset
  BY <1>3 DEF Driver
<1> HIDE DEF b
<1>6. Slow(b)
  BY <1>1, <1>4, <1>5 DEF Slow
<1>7. Cooked(b) = b.raw - b.offset_register + b.left /\ Cooked(a) = a.raw - a.offset_register + a.left
  BY <1>1, <1>3, <1>4, <1>6, SlowCooked DEF Slow
<1>8. Cooked(b) = Cooked(a) - offset
  BY <1>3, <1>5, <1>7
<1> QED BY <1>1, <1>2, <1>5, <1>6, <1>8, InitiateSlewOK DEF Same

\* The two changes of LCL_MakeStep undo each other.
LEMMA CancelAndStepOK ==
  ASSUME NEW s, Good(s), NEW correction \in Int
  PROVE  Good(CancelAndStep(s, correction)) /\ Same(CancelAndStep(s, correction), s)
<1> DEFINE a == AccrueOffset(s, correction)
<1>1. Good(a) /\ a.current_tick = s.current_tick /\ Cooked(a) = Cooked(s) - correction
  BY AccrueOffsetOK
<1>2. CancelAndStep(s, correction) = ApplyStepOffset(a, -correction)
  BY DEF CancelAndStep
<1> HIDE DEF a
<1>3. /\ Good(ApplyStepOffset(a, -correction)) /\ ApplyStepOffset(a, -correction).current_tick = a.current_tick
      /\ Cooked(ApplyStepOffset(a, -correction)) = Cooked(a) - (-correction)
  BY <1>1, ApplyStepOffsetOK
<1> QED BY <1>1, <1>2, <1>3, CookedIsInt DEF Same

\* Another frequency moves the cooked time by nothing, in a fast slew and out of it.
LEMMA SetFrequencyOK ==
  ASSUME NEW s, Good(s), NEW freq \in Int,
         s.fast_slewing => Clamp(nominal_tick - freq) # s.slewing_tick
  PROVE  Good(SetFrequency(s, freq)) /\ Cooked(SetFrequency(s, freq)) = Cooked(s)
<1> DEFINE tick == Clamp(nominal_tick - freq)
           s1 == [s EXCEPT !.current_tick = tick]
           c == [s1 EXCEPT !.tick = s1.current_tick]
<1>1. s \in Driver /\ tick \in TickLengths
  BY TicksArePositive, DriverAssumption DEF Good, Fast, Slow
<1>2. SetFrequency(s, freq) = IF s.fast_slewing THEN AdjustFastSlew(s1, s.current_tick, delta_total_tick(s)) ELSE c
  BY DEF SetFrequency
<1>3. s.fast_slewing => tick # s.slewing_tick
  OBVIOUS
<1> HIDE DEF tick
<1>4. s1 \in Driver
  BY <1>1 DEF Driver
<1>5. /\ s1.fast_slewing = s.fast_slewing /\ s1.tick = s.tick /\ s1.slewing_tick = s.slewing_tick
      /\ s1.left = s.left /\ s1.raw = s.raw /\ s1.slew_start = s.slew_start
      /\ s1.fast_slew_wanted = s.fast_slew_wanted /\ s1.timeouts = s.timeouts
      /\ s1.offset_register = s.offset_register /\ s1.current_tick = tick /\ s1.refused = s.refused
  BY <1>1 DEF Driver
<1> HIDE DEF s1
<1>6. CASE Fast(s)
  <2>1. s1.fast_slewing /\ s1.left = 0 /\ s1.offset_register = 0 /\ s1.current_tick # s1.slewing_tick
    BY <1>3, <1>5, <1>6 DEF Fast
  <2> DEFINE r == SetFrequency(s, freq)
  <2>2. r = AdjustFastSlew(s1, s.current_tick, delta_total_tick(s))
    BY <1>2, <1>6 DEF Fast
  <2> HIDE DEF r
  <2>3. Fast(r) /\ Cooked(r) = Cooked(s) - s1.offset_register
    BY <1>4, <1>5, <1>6, <2>1, <2>2, AdjustFastSlewOK
  <2>4. Good(r) /\ Cooked(r) = Cooked(s)
    BY <1>6, <2>1, <2>3, CookedIsInt DEF Good
  <2> QED BY <2>4 DEF r
<1>7. CASE Slow(s) /\ Settled(s)
  <2>1. ~s.fast_slewing /\ SetFrequency(s, freq) = c
    BY <1>2, <1>7 DEF Slow
  <2>2. c \in Driver
    BY <1>1, <1>4, <1>5 DEF Driver
  <2>3. /\ c.fast_slewing = s.fast_slewing /\ c.tick = tick /\ c.current_tick = tick
        /\ c.timeouts = s.timeouts /\ c.left = s.left /\ c.raw = s.raw
        /\ c.offset_register = s.offset_register /\ c.refused = s.refused
    BY <1>4, <1>5 DEF Driver
  <2> HIDE DEF c
  <2>4. Good(c)
    BY <1>7, <2>2, <2>3 DEF Good, Slow, Settled
  <2>5. Cooked(c) = c.raw - c.offset_register + c.left /\ Cooked(s) = s.raw - s.offset_register + s.left
    BY <1>1, <2>1, <2>2, <2>3, SlowCooked
  <2> QED BY <2>1, <2>3, <2>4, <2>5
<1> QED BY <1>6, <1>7 DEF Good

\* Reading the time changes no more than what is remembered of the slow slews.
LEMMA ReadOK ==
  ASSUME NEW s, Good(s)
  PROVE  /\ Good(Read(s)) /\ Same(Read(s), s)
         /\ Read(s).fast_slewing = s.fast_slewing /\ Read(s).slewing_tick = s.slewing_tick
<1> DEFINE c == Read(s)
<1>1. s \in Driver
  BY CookedIsInt
<1>2. HasFields(c)
  BY <1>1 DEF HasFields, Fields, Driver, Read
<1>3. FieldsTyped(c)
  BY <1>1 DEF FieldsTyped, Driver, Read
<1>4. /\ c.fast_slewing = s.fast_slewing /\ c.tick = s.tick /\ c.slewing_tick = s.slewing_tick
      /\ c.left = s.left /\ c.raw = s.raw /\ c.slew_start = s.slew_start
      /\ c.fast_slew_wanted = s.fast_slew_wanted /\ c.timeouts = s.timeouts
      /\ c.offset_register = s.offset_register /\ c.current_tick = s.current_tick /\ c.refused = s.refused
  BY <1>1 DEF Driver, Read
<1> HIDE DEF c
<1>5. c \in Driver
  BY <1>2, <1>3, DriverByFields
<1>6. Good(c)
  BY <1>4, <1>5 DEF Good, Fast, Slow, Settled
<1>7. Cooked(c) = Cooked(s)
  BY <1>4 DEF Cooked, Correction, Remaining, Done, delta_total_tick
<1> QED BY <1>4, <1>6, <1>7 DEF Same, c

\* Moving the timeouts changes nothing else.
LEMMA ShiftedOK ==
  ASSUME NEW s, Good(s), NEW d \in Int
  PROVE  Good(Shifted(s, d)) /\ Same(Shifted(s, d), s)
<1> DEFINE times == [i \in DOMAIN s.timeouts |-> s.timeouts[i] - d]
           c == [s EXCEPT !.timeouts = times]
<1>1. s \in Driver
  BY CookedIsInt
<1>2. times \in Seq(Int) /\ Len(times) = Len(s.timeouts)
  BY <1>1, ShiftedSequence DEF Driver
<1>3. Shifted(s, d) = c
  BY DEF Shifted
<1> HIDE DEF times
<1>4. c \in Driver
  BY <1>1, <1>2 DEF Driver
<1>5. /\ c.fast_slewing = s.fast_slewing /\ c.tick = s.tick /\ c.slewing_tick = s.slewing_tick
      /\ c.left = s.left /\ c.raw = s.raw /\ c.slew_start = s.slew_start
      /\ c.fast_slew_wanted = s.fast_slew_wanted /\ Len(c.timeouts) = Len(s.timeouts)
      /\ c.offset_register = s.offset_register /\ c.current_tick = s.current_tick /\ c.refused = s.refused
  BY <1>1, <1>2 DEF Driver
<1> HIDE DEF c
<1>6. Good(c)
  BY <1>4, <1>5 DEF Good, Fast, Slow, Settled
<1>7. Cooked(c) = Cooked(s)
  BY <1>5 DEF Cooked, Correction, Remaining, Done, delta_total_tick
<1> QED BY <1>3, <1>5, <1>6, <1>7 DEF Same

\* A tick of the kernel, of any driver.
LEMMA KernelTickIs ==
  ASSUME NEW s \in Driver
  PROVE  /\ KernelTick(s) \in Driver
         /\ \E moved \in Int :
              /\ s.left = 0 => moved = 0
              /\ KernelTick(s) = [s EXCEPT !.raw = s.raw + s.tick + moved, !.left = s.left - moved]
<1> DEFINE moved == Sign(s.left) * Min({Grain, Abs(s.left)})
           c == [s EXCEPT !.raw = s.raw + s.tick + moved, !.left = s.left - moved]
<1>1. s.raw \in Int /\ s.left \in Int /\ s.tick \in Nat
  BY TicksArePositive DEF Driver
<1>2. moved \in Int /\ (s.left = 0 => moved = 0)
  <2>1. Abs(s.left) \in Int /\ Grain \in Int /\ Sign(s.left) \in {-1, 0, 1} /\ (s.left = 0 => Sign(s.left) = 0)
    BY <1>1, DriverAssumption DEF Abs, Sign
  <2>2. Min({Grain, Abs(s.left)}) \in Int
    BY <2>1, MinOfTwo
  <2> QED BY <2>1, <2>2
<1>3. KernelTick(s) = c
  BY DEF KernelTick
<1> HIDE DEF moved
<1>4. HasFields(c)
  BY <1>1, <1>2 DEF HasFields, Fields, Driver
<1>5. FieldsTyped(c)
  BY <1>1, <1>2 DEF FieldsTyped, Driver
<1>6. c \in Driver
  BY <1>4, <1>5, DriverByFields
<1> QED BY <1>2, <1>3, <1>6

\* The cooked time of a driver in order goes on by the current tick.
LEMMA KernelTickOK ==
  ASSUME NEW s, Good(s)
  PROVE  /\ Good(KernelTick(s)) /\ KernelTick(s).current_tick = s.current_tick
         /\ Cooked(KernelTick(s)) = Cooked(s) + s.current_tick
<1> DEFINE c == KernelTick(s)
<1>1. s \in Driver /\ Cooked(s) \in Int
  BY CookedIsInt
<1>2. PICK moved \in Int :
        /\ s.left = 0 => moved = 0
        /\ c = [s EXCEPT !.raw = s.raw + s.tick + moved, !.left = s.left - moved]
  BY <1>1, KernelTickIs
<1>3. c \in Driver
  BY <1>1, KernelTickIs
<1> HIDE DEF c
<1>4. /\ c.fast_slewing = s.fast_slewing /\ c.tick = s.tick /\ c.slewing_tick = s.slewing_tick
      /\ c.left = s.left - moved /\ c.raw = s.raw + s.tick + moved /\ c.slew_start = s.slew_start
      /\ c.fast_slew_wanted = s.fast_slew_wanted /\ c.timeouts = s.timeouts
      /\ c.offset_register = s.offset_register /\ c.current_tick = s.current_tick /\ c.refused = s.refused
  BY <1>1, <1>2 DEF Driver
<1>5. /\ s.raw \in Int /\ s.left \in Int /\ s.slew_start \in Int /\ s.fast_slew_wanted \in Int
      /\ s.offset_register \in Int /\ s.tick \in Nat \ {0} /\ s.slewing_tick \in Nat \ {0}
      /\ s.current_tick \in Nat \ {0}
  BY <1>1, TicksArePositive DEF Driver
<1>6. CASE Fast(s)
  <2>1. PICK k \in Nat : /\ s.raw - s.slew_start = k * s.slewing_tick
                         /\ Done(s, s.current_tick, delta_total_tick(s)) = delta_total_tick(s) * k
    BY <1>6, FastCooked
  <2>2. s.tick = s.slewing_tick /\ s.left = 0 /\ moved = 0 /\ s.offset_register = 0
    BY <1>2, <1>6 DEF Fast
  <2>3. /\ delta_total_tick(s) \in Int /\ delta_total_tick(c) = delta_total_tick(s)
        /\ c.current_tick + delta_total_tick(c) = c.slewing_tick
        /\ delta_total_tick(s) = s.slewing_tick - s.current_tick
    BY <1>4, <1>5 DEF delta_total_tick
  <2>4. c.raw - c.slew_start = (k + 1) * c.slewing_tick
    <3>1. (k + 1) * s.slewing_tick = k * s.slewing_tick + s.slewing_tick /\ k * s.slewing_tick \in Int
      BY <1>5, AddOne
    <3>2. c.raw - c.slew_start = (s.raw - s.slew_start) + s.slewing_tick
      BY <1>4, <1>5, <2>2
    <3> QED BY <1>4, <2>1, <3>1, <3>2
  <2>5. Fast(c)
    BY <1>3, <1>4, <1>5, <1>6, <2>2, <2>4 DEF Fast
  <2>6. Done(c, c.current_tick, delta_total_tick(c)) = delta_total_tick(s) * (k + 1)
    <3> DEFINE n == k + 1
    <3>1. /\ c.current_tick \in Int /\ delta_total_tick(c) \in Int /\ n \in Int
          /\ c.current_tick + delta_total_tick(c) \in Nat \ {0}
      BY <1>4, <1>5, <2>3
    <3>2. c.raw - c.slew_start = n * (c.current_tick + delta_total_tick(c))
      BY <2>3, <2>4
    <3> HIDE DEF n
    <3>3. Done(c, c.current_tick, delta_total_tick(c)) = delta_total_tick(c) * n
      BY <1>3, <3>1, <3>2, DoneInTicks
    <3> QED BY <2>3, <3>3 DEF n
  <2>7. delta_total_tick(s) * (k + 1) = delta_total_tick(s) * k + delta_total_tick(s) /\ delta_total_tick(s) * k \in Int
    BY <2>3, AddOne
  <2>8. Cooked(c) = c.raw - (c.fast_slew_wanted + Done(c, c.current_tick, delta_total_tick(c)))
    BY <2>5, FastCooked
  <2>9. Cooked(s) = s.raw - (s.fast_slew_wanted + Done(s, s.current_tick, delta_total_tick(s)))
    BY <1>6, FastCooked
  <2>10. Cooked(c) = Cooked(s) + s.current_tick
    <3> DEFINE done == Done(s, s.current_tick, delta_total_tick(s))
    <3>1. done \in Int /\ Done(c, c.current_tick, delta_total_tick(c)) = done + delta_total_tick(s)
      BY <2>1, <2>6, <2>7
    <3> HIDE DEF done
    <3>2. Cooked(c) = c.raw - (c.fast_slew_wanted + (done + delta_total_tick(s)))
      BY <2>8, <3>1
    <3>3. Cooked(s) = s.raw - (s.fast_slew_wanted + done)
      BY <2>9 DEF done
    <3> QED BY <1>4, <1>5, <2>2, <2>3, <3>1, <3>2, <3>3
  <2> QED BY <1>4, <2>5, <2>10 DEF Good, c
<1>7. CASE Slow(s) /\ Settled(s)
  <2>1. Good(c)
    BY <1>3, <1>4, <1>7 DEF Good, Slow, Settled
  <2>2. Cooked(c) = c.raw - c.offset_register + c.left /\ Cooked(s) = s.raw - s.offset_register + s.left
    BY <1>1, <1>3, <1>4, <1>7, SlowCooked DEF Slow
  <2>3. s.tick = s.current_tick
    BY <1>7 DEF Slow
  <2>4. Cooked(c) = Cooked(s) + s.current_tick
    BY <1>4, <1>5, <2>2, <2>3
  <2> QED BY <1>4, <2>1, <2>4 DEF c
<1> QED BY <1>6, <1>7 DEF Good

\* The driver starts in order on any tick of the range, whatever the kernel shows.
LEMMA StartOK ==
  ASSUME NEW raw \in Int, NEW tick \in TickLengths, NEW nanopll \in BOOLEAN
  PROVE  /\ Good(Start(raw, tick, nanopll)) /\ Start(raw, tick, nanopll).current_tick = tick
         /\ Cooked(Start(raw, tick, nanopll)) = raw
<1> DEFINE c == Start(raw, tick, nanopll)
<1>1. <<>> \in Seq(Int) /\ Len(<<>>) = 0
  OBVIOUS
<1>2. c \in Driver
  BY <1>1 DEF Driver, Start
<1>3. /\ ~c.fast_slewing /\ c.tick = tick /\ c.current_tick = tick /\ c.raw = raw
      /\ c.offset_register = 0 /\ c.left = 0 /\ c.timeouts = <<>>
  BY DEF Start
<1> HIDE DEF c
<1>4. Good(c)
  BY <1>1, <1>2, <1>3, DriverAssumption DEF Good, Slow, Settled, Abs
<1>5. Cooked(c) = raw
  BY <1>2, <1>3, SlowCooked
<1> QED BY <1>3, <1>4, <1>5 DEF c

-----------------------------------------------------------------------------
(* The daemon. *)

\* The errors of compensations: numbers after a change as before, the same when
\* the tick is.
LEMMA ToldIs ==
  ASSUME TypeOK, NEW s1, s1.current_tick \in TickLengths
  PROVE  /\ Told(s1) \in [Handler -> Int]
         /\ s1.current_tick = sys.current_tick => Told(s1) = untold
<1>1. sys.current_tick \in Nat \ {0} /\ s1.current_tick \in Nat \ {0}
  BY TicksArePositive DEF TypeOK, Driver
<1>2. untold \in [Handler -> Int]
  BY DEF TypeOK
<1>3. ASSUME NEW h \in Handler
      PROVE  /\ (untold[h] * s1.current_tick) \div sys.current_tick \in Int
             /\ s1.current_tick = sys.current_tick =>
                  (untold[h] * s1.current_tick) \div sys.current_tick = untold[h]
  <2>1. untold[h] \in Int
    BY <1>2
  <2>2. untold[h] * s1.current_tick \in Int
    BY <1>1, <2>1
  <2> DEFINE u == untold[h] * s1.current_tick
  <2>3. sys.current_tick \in Nat \ {0}
    BY <1>1
  <2>4. (untold[h] * s1.current_tick) \div sys.current_tick \in Int
    <3> HIDE DEF u
    <3>1. u \div sys.current_tick \in Int
      BY <2>2, <2>3, DivBounds, Zenon DEF u
    <3> QED BY <3>1 DEF u
  <2>5. ASSUME s1.current_tick = sys.current_tick
        PROVE  (untold[h] * s1.current_tick) \div sys.current_tick = untold[h]
    BY <1>1, <2>1, <2>5, DivExact
  <2> QED BY <2>4, <2>5
<1>4. Told(s1) \in [Handler -> Int]
  BY <1>3 DEF Told
<1>5. ASSUME s1.current_tick = sys.current_tick PROVE Told(s1) = untold
  BY <1>2, <1>3, <1>5 DEF Told
<1> QED BY <1>4, <1>5

\* The timestamps of the handlers follow a change that moves the cooked time by
\* -doffset and makes the tick that of s1.
LEMMA DispatchedHold ==
  ASSUME TypeOK, TimestampsHold, Good(sys),
         NEW s1, s1.current_tick \in TickLengths, NEW doffset \in Int,
         NEW m, m = Dispatched(Cooked(sys), s1, doffset)
  PROVE  /\ m \in [Handler -> Marks]
         /\ \A h \in Handler :
              m[h] # <<>> => (Cooked(sys) - doffset) - m[h][1] = held[h] * s1.current_tick + Told(s1)[h]
<1>1. /\ Cooked(sys) \in Int /\ sys.current_tick \in Nat \ {0} /\ s1.current_tick \in Nat \ {0}
  BY CookedIsInt, TicksArePositive DEF TypeOK, Driver
<1> DEFINE moved(t) == Scaled(t, Cooked(sys), sys.current_tick, s1.current_tick) - doffset
<1>2. ASSUME NEW h \in Handler, mark[h] = <<>>
      PROVE  m[h] = <<>>
  <2>1. m[h] = [i \in DOMAIN mark[h] |-> moved(mark[h][i])]
    BY DEF Dispatched
  <2>2. DOMAIN mark[h] = {}
    BY <1>2
  <2> HIDE DEF moved
  <2> QED BY <2>1, <2>2
<1>3. ASSUME NEW h \in Handler, NEW t \in Int, mark[h] = <<t>>
      PROVE  /\ moved(t) \in Int /\ m[h] = <<moved(t)>>
             /\ (Cooked(sys) - doffset) - moved(t) = held[h] * s1.current_tick + Told(s1)[h]
  <2> DEFINE told == (untold[h] * s1.current_tick) \div sys.current_tick
  <2>1. Cooked(sys) - t = held[h] * sys.current_tick + untold[h] /\ held[h] \in Int /\ untold[h] \in Int
    <3>1. mark[h] # <<>> /\ mark[h][1] = t
      BY <1>3
    <3>2. Cooked(sys) - mark[h][1] = held[h] * sys.current_tick + untold[h]
      BY <3>1 DEF TimestampsHold
    <3> QED BY <3>1, <3>2 DEF TypeOK
  <2>2. Behind(Scaled(t, Cooked(sys), sys.current_tick, s1.current_tick), Cooked(sys), held[h], s1.current_tick, told)
    <3>1. Behind(t, Cooked(sys), held[h], sys.current_tick, untold[h])
      BY <2>1 DEF Behind
    <3> QED BY <1>1, <2>1, <3>1, ScaledTicks, Zenon
  <2>3. held[h] * s1.current_tick \in Int /\ told \in Int
    <3>1. untold[h] * s1.current_tick \in Int
      BY <1>1, <2>1
    <3>2. held[h] * s1.current_tick \in Int
      BY <1>1, <2>1
    <3> DEFINE u == untold[h] * s1.current_tick
    <3>3. sys.current_tick \in Nat \ {0}
      BY <1>1
    <3> HIDE DEF u
    <3>4. u \div sys.current_tick \in Int
      BY <3>1, <3>3, DivBounds, Zenon DEF u
    <3> QED BY <3>2, <3>4 DEF u
  <2> HIDE DEF told
  <2>4. moved(t) = (Cooked(sys) - (held[h] * s1.current_tick + told)) - doffset /\ moved(t) \in Int
    <3> DEFINE now == Cooked(sys)
               x == Scaled(t, now, sys.current_tick, s1.current_tick)
               ticks1 == held[h] * s1.current_tick
    <3>1. now - x = ticks1 + told
      BY <2>2 DEF Behind
    <3>2. now \in Int /\ ticks1 \in Int /\ told \in Int /\ doffset \in Int
      BY <1>1, <2>3
    <3>3. x \in Int
      <4>1. (Cooked(sys) - t) * s1.current_tick \in Int
        BY <1>1
      <4>2. ((Cooked(sys) - t) * s1.current_tick) \div sys.current_tick \in Int
        BY <1>1, <4>1, DivBounds, Zenon
      <4> QED BY <1>1, <4>2 DEF Scaled
    <3> HIDE DEF now, x, ticks1
    <3>4. x - doffset = (now - (ticks1 + told)) - doffset /\ x - doffset \in Int
      BY <3>1, <3>2, <3>3
    <3> QED BY <3>4 DEF now, x, ticks1
  <2>8. Told(s1)[h] = told
    BY DEF Told, told
  <2>5. m[h] = [i \in DOMAIN mark[h] |-> moved(mark[h][i])]
    BY DEF Dispatched
  <2> HIDE DEF moved
  <2>6. m[h] = [i \in {1} |-> moved(t)]
    <3>1. DOMAIN mark[h] = {1} /\ mark[h][1] = t
      BY <1>3
    <3> QED BY <2>5, <3>1
  <2>7. m[h] = <<moved(t)>>
    BY <2>6, OneElement
  <2> QED BY <1>1, <2>3, <2>4, <2>7, <2>8
<1> HIDE DEF moved
<1>4. ASSUME NEW h \in Handler
      PROVE  /\ m[h] \in Marks
             /\ m[h] # <<>> => (Cooked(sys) - doffset) - m[h][1] = held[h] * s1.current_tick + Told(s1)[h]
  <2>1. mark[h] \in Marks
    BY DEF TypeOK
  <2>2. CASE mark[h] = <<>>
    BY <1>2, <2>2 DEF Marks
  <2>3. CASE mark[h] # <<>>
    <3>1. PICK t \in Int : mark[h] = <<t>>
      BY <2>1, <2>3 DEF Marks
    <3>2. moved(t) \in Int /\ m[h] = <<moved(t)>>
          /\ (Cooked(sys) - doffset) - moved(t) = held[h] * s1.current_tick + Told(s1)[h]
      BY <1>3, <3>1
    <3>3. m[h][1] = moved(t)
      BY <3>2
    <3> QED BY <3>2, <3>3 DEF Marks
  <2> QED BY <2>2, <2>3
<1>5. m \in [Handler -> Marks]
  <2>1. m = [h \in Handler |-> m[h]]
    BY DEF Dispatched
  <2> QED BY <1>4, <2>1
<1> QED BY <1>4, <1>5

\* A change of the clock that moves the cooked time by -doffset, and of which
\* the handlers are told with s1, whose tick the driver has then.
LEMMA ChangeKeeps ==
  ASSUME IInv, running, NEW doffset \in Int, NEW s1,
         Good(sys'), Cooked(sys') = Cooked(sys) - doffset, s1.current_tick = sys'.current_tick,
         mark' = Dispatched(Cooked(sys), s1, doffset), ideal' = ideal - doffset,
         current_freq' = nominal_tick - sys'.current_tick, current_freq' + temp_comp = asked',
         changes' = changes + 1, untold' = Told(s1),
         UNCHANGED <<temp_comp, held, running, crashed, ticks>>
  PROVE  IInv'
<1>1. Good(sys) /\ Cooked(sys) = ideal /\ TypeOK /\ TimestampsHold
  BY DEF IInv, Runs
<1>2. sys' \in Driver /\ sys'.current_tick \in TickLengths /\ sys'.current_tick \in Int /\ nominal_tick \in Int
  <2>1. sys' \in Driver
    BY CookedIsInt
  <2>2. sys'.current_tick \in TickLengths
    BY <2>1 DEF Driver
  <2>3. TickLengths \subseteq Nat \ {0} /\ nominal_tick \in TickLengths
    BY TicksArePositive
  <2>4. \A t \in TickLengths : t \in Int
    BY <2>3
  <2> QED BY <2>1, <2>2, <2>3, <2>4, Zenon
<1>3. /\ mark' \in [Handler -> Marks]
      /\ \A h \in Handler : mark'[h] # <<>> => 
              (Cooked(sys) - doffset) - mark'[h][1] = held[h] * s1.current_tick + Told(s1)[h]
  BY <1>1, <1>2, DispatchedHold
<1>8. untold' \in [Handler -> Int]
  BY <1>1, <1>2, ToldIs
<1>4. TypeOK'
  BY <1>1, <1>2, <1>3, <1>8 DEF TypeOK
<1>5. Runs'
  BY <1>1 DEF Runs
<1>6. Ended'
  BY DEF Ended
<1>7. TimestampsHold'
  BY <1>3 DEF TimestampsHold
<1> QED BY <1>4, <1>5, <1>6, <1>7 DEF IInv

LEMMA InitIInv == ClockInit => IInv
<1> SUFFICES ASSUME ClockInit PROVE IInv
  OBVIOUS
<1>1. PICK nanopll \in BOOLEAN : sys = Start(0, nominal_tick, nanopll)
  BY DEF ClockInit
<1>2. nominal_tick \in TickLengths /\ nominal_tick \in Int
  BY TicksArePositive, DriverAssumption
<1>3. Good(sys) /\ sys.current_tick = nominal_tick /\ Cooked(sys) = 0
  BY <1>1, <1>2, StartOK
<1>4. sys \in Driver
  BY <1>3, CookedIsInt
<1>5. TypeOK
  <2>1. mark \in [Handler -> Marks]
    BY DEF ClockInit, Marks
  <2>2. held \in [Handler -> Nat]
    BY DEF ClockInit
  <2>7. untold \in [Handler -> Int]
    BY DEF ClockInit
  <2>3. current_freq = 0 /\ temp_comp = 0 /\ asked = 0 /\ ideal = 0 /\ ticks = 0 /\ changes = 0
    BY DEF ClockInit
  <2>4. running = TRUE /\ crashed = FALSE
    BY DEF ClockInit
  <2>5. /\ current_freq \in Int /\ temp_comp \in Int /\ asked \in Int /\ ideal \in Int
        /\ ticks \in Nat /\ changes \in Nat
    BY <2>3
  <2>6. running \in BOOLEAN /\ crashed \in BOOLEAN
    BY <2>4, Zenon
  <2> QED BY <1>4, <2>1, <2>2, <2>5, <2>6, <2>7, Zenon DEF TypeOK
<1>6. Runs
  BY <1>2, <1>3 DEF ClockInit, Runs
<1>7. Ended /\ TimestampsHold
  BY DEF ClockInit, Ended, TimestampsHold
<1> QED BY <1>5, <1>6, <1>7 DEF IInv

\* LCL_SetAbsoluteFrequency, LCL_AccumulateDeltaFrequency: what they have in common.
LEMMA FrequencyKeeps ==
  ASSUME IInv, running, NEW freq \in Int, NEW s1, s1 = SetFrequency(Read(sys), freq), Slews(freq),
         sys' = s1, current_freq' = nominal_tick - s1.current_tick,
         mark' = Dispatched(Cooked(s1), s1, 0), asked' = current_freq' + temp_comp,
         changes' = changes + 1, untold' = Told(s1),
         UNCHANGED <<temp_comp, ideal, held, running, crashed, ticks>>
  PROVE  IInv'
<1> DEFINE r == Read(sys)
<1>1. Good(sys) /\ Cooked(sys) \in Int /\ ideal \in Int
  BY CookedIsInt DEF IInv, Runs, TypeOK
<1>2. /\ Good(r) /\ Cooked(r) = Cooked(sys)
      /\ r.fast_slewing => Clamp(nominal_tick - freq) # r.slewing_tick
  BY <1>1, ReadOK DEF Slews, Same
<1> HIDE DEF r
<1>3. Good(SetFrequency(r, freq)) /\ Cooked(SetFrequency(r, freq)) = Cooked(r)
  BY <1>2, SetFrequencyOK
<1>4. s1 = SetFrequency(r, freq)
  BY DEF r
<1>5. Good(s1) /\ Cooked(s1) = Cooked(sys)
  BY <1>2, <1>3, <1>4
<1>6. /\ Good(sys') /\ Cooked(sys') = Cooked(sys) - 0 /\ s1.current_tick = sys'.current_tick
      /\ mark' = Dispatched(Cooked(sys), s1, 0) /\ ideal' = ideal - 0
  BY <1>1, <1>5
<1> QED BY <1>6, ChangeKeeps

LEMMA SetAbsoluteFrequencyKeeps ==
  ASSUME IInv, NEW f \in Frequencies, SetAbsoluteFrequency(f)
  PROVE  IInv'
<1>1. f - temp_comp \in Int
  BY ClockBounds DEF IInv, TypeOK
<1> QED BY <1>1, FrequencyKeeps DEF SetAbsoluteFrequency, Change

LEMMA AccumulateDeltaFrequencyKeeps ==
  ASSUME IInv, NEW f \in Frequencies, AccumulateDeltaFrequency(f)
  PROVE  IInv'
<1>1. current_freq + f \in Int
  BY ClockBounds DEF IInv, TypeOK
<1> QED BY <1>1, FrequencyKeeps DEF AccumulateDeltaFrequency, Change

LEMMA AccumulateOffsetKeeps ==
  ASSUME IInv, NEW o \in Amounts, AccumulateOffset(o)
  PROVE  IInv'
<1> DEFINE r == Read(sys)
           s1 == AccrueOffset(r, o)
<1>1. o \in Int /\ running /\ Good(sys)
  BY ClockBounds DEF IInv, Runs, AccumulateOffset, Change
<1>2. Good(r) /\ Cooked(r) = Cooked(sys) /\ r.current_tick = sys.current_tick
  BY <1>1, ReadOK DEF Same
<1>3. /\ sys' = s1 /\ mark' = Dispatched(Cooked(sys), s1, o) /\ ideal' = ideal - o /\ changes' = changes + 1
      /\ UNCHANGED <<current_freq, temp_comp, held, untold, asked, running, crashed, ticks>>
  BY DEF AccumulateOffset, Change
<1> HIDE DEF r
<1>4. Good(s1) /\ s1.current_tick = r.current_tick /\ Cooked(s1) = Cooked(r) - o
  BY <1>1, <1>2, AccrueOffsetOK
<1> HIDE DEF s1
<1>5. current_freq = nominal_tick - sys.current_tick /\ current_freq + temp_comp = asked
  BY <1>1 DEF IInv, Runs
<1>6. /\ Good(sys') /\ Cooked(sys') = Cooked(sys) - o /\ s1.current_tick = sys'.current_tick
      /\ current_freq' = nominal_tick - sys'.current_tick /\ current_freq' + temp_comp = asked'
  BY <1>2, <1>3, <1>4, <1>5
<1>7. untold' = Told(s1)
  <2>1. TypeOK /\ sys.current_tick \in TickLengths
    BY DEF IInv, TypeOK, Driver
  <2>2. s1.current_tick = sys.current_tick /\ untold' = untold
    BY <1>2, <1>3, <1>4
  <2> QED BY <2>1, <2>2, ToldIs
<1> QED BY <1>1, <1>7, <1>3, <1>6, ChangeKeeps

LEMMA ApplyStepKeeps ==
  ASSUME IInv, NEW o \in Amounts, ApplyStep(o)
  PROVE  IInv'
<1> DEFINE r == Read(sys)
           s1 == ApplyStepOffset(r, o)
<1>1. o \in Int /\ running /\ Good(sys)
  BY ClockBounds DEF IInv, Runs, ApplyStep, Change
<1>2. Good(r) /\ Cooked(r) = Cooked(sys) /\ r.current_tick = sys.current_tick
  BY <1>1, ReadOK DEF Same
<1>3. /\ sys' = Shifted(s1, o) /\ mark' = Dispatched(Cooked(sys), s1, o) /\ ideal' = ideal - o
      /\ changes' = changes + 1
      /\ UNCHANGED <<current_freq, temp_comp, held, untold, asked, running, crashed, ticks>>
  BY DEF ApplyStep, Change
<1> HIDE DEF r
<1>4. Good(s1) /\ s1.current_tick = r.current_tick /\ Cooked(s1) = Cooked(r) - o
  BY <1>1, <1>2, ApplyStepOffsetOK
<1> HIDE DEF s1
<1>5. current_freq = nominal_tick - sys.current_tick /\ current_freq + temp_comp = asked
  BY <1>1 DEF IInv, Runs
<1>6. Good(Shifted(s1, o)) /\ Same(Shifted(s1, o), s1)
  BY <1>1, <1>4, ShiftedOK
<1>7. /\ Good(sys') /\ Cooked(sys') = Cooked(sys) - o /\ s1.current_tick = sys'.current_tick
      /\ current_freq' = nominal_tick - sys'.current_tick /\ current_freq' + temp_comp = asked'
  BY <1>2, <1>3, <1>4, <1>5, <1>6 DEF Same
<1>8. untold' = Told(s1)
  <2>1. TypeOK /\ sys.current_tick \in TickLengths
    BY DEF IInv, TypeOK, Driver
  <2>2. s1.current_tick = sys.current_tick /\ untold' = untold
    BY <1>2, <1>3, <1>4
  <2> QED BY <2>1, <2>2, ToldIs
<1> QED BY <1>1, <1>8, <1>3, <1>7, ChangeKeeps

LEMMA AccumulateFrequencyAndOffsetKeeps ==
  ASSUME IInv, NEW f \in Frequencies, NEW o \in Amounts, AccumulateFrequencyAndOffset(f, o)
  PROVE  IInv'
<1> DEFINE r == Read(sys)
           t == SetFrequency(r, current_freq + f)
           s1 == AccrueOffset(t, o)
<1>1. o \in Int /\ running /\ Good(sys) /\ current_freq + f \in Int
  BY ClockBounds DEF IInv, Runs, TypeOK, AccumulateFrequencyAndOffset, Change
<1>2. /\ Good(r) /\ Cooked(r) = Cooked(sys)
      /\ r.fast_slewing => Clamp(nominal_tick - (current_freq + f)) # r.slewing_tick
  BY <1>1, ReadOK DEF Slews, Same, AccumulateFrequencyAndOffset
<1>3. /\ sys' = s1 /\ mark' = Dispatched(Cooked(sys), s1, o) /\ ideal' = ideal - o /\ changes' = changes + 1
      /\ current_freq' = nominal_tick - s1.current_tick /\ asked' = current_freq' + temp_comp
      /\ untold' = Told(s1)
      /\ UNCHANGED <<temp_comp, held, running, crashed, ticks>>
  BY DEF AccumulateFrequencyAndOffset, Change
<1> HIDE DEF r
<1>4. Good(t) /\ Cooked(t) = Cooked(r)
  BY <1>1, <1>2, SetFrequencyOK
<1> HIDE DEF t
<1>5. Good(s1) /\ Cooked(s1) = Cooked(t) - o
  BY <1>1, <1>4, AccrueOffsetOK
<1> HIDE DEF s1
<1>6. /\ Good(sys') /\ Cooked(sys') = Cooked(sys) - o /\ s1.current_tick = sys'.current_tick
      /\ current_freq' = nominal_tick - sys'.current_tick /\ current_freq' + temp_comp = asked'
  BY <1>2, <1>3, <1>4, <1>5
<1> QED BY <1>1, <1>3, <1>6, ChangeKeeps

\* The handlers are told of a change of nothing, and the cooked time stays.
LEMMA MakeStepKeeps ==
  ASSUME IInv, NEW threshold \in Thresholds, MakeStep(threshold)
  PROVE  IInv'
<1> DEFINE r == Read(sys)
           correction == Correction(sys)
           s1 == CancelAndStep(r, correction)
<1>1. running /\ Good(sys) /\ Cooked(sys) \in Int /\ sys \in Driver /\ ideal \in Int
  BY CookedIsInt DEF IInv, Runs, MakeStep, Change, TypeOK
<1>2. Good(r) /\ Cooked(r) = Cooked(sys) /\ r.current_tick = sys.current_tick
  BY <1>1, ReadOK DEF Same
<1>3. correction \in Int
  <2>1. CASE Fast(sys)
    <3>1. /\ sys.fast_slewing /\ sys.offset_register = 0 /\ sys.left = 0 /\ sys.fast_slew_wanted \in Int
          /\ Done(sys, sys.current_tick, delta_total_tick(sys)) \in Int
      BY <1>1, <2>1, FastCooked DEF Fast, Driver
    <3> QED BY <3>1 DEF Correction, Remaining
  <2>2. CASE Slow(sys)
    <3>1. ~sys.fast_slewing /\ sys.offset_register \in Int /\ sys.left \in Int
      BY <2>2 DEF Slow, Driver
    <3> QED BY <3>1 DEF Correction, Remaining
  <2> QED BY <1>1, <2>1, <2>2 DEF Good
<1>4. /\ sys' = Shifted(s1, -correction) /\ mark' = Dispatched(Cooked(sys), sys, correction - correction)
      /\ changes' = changes + 1
      /\ UNCHANGED <<current_freq, temp_comp, ideal, held, untold, asked, running, crashed, ticks>>
  BY DEF MakeStep, Change
<1> HIDE DEF r, correction
<1>5. Good(s1) /\ Same(s1, r)
  BY <1>2, <1>3, CancelAndStepOK
<1> HIDE DEF s1
<1>6. -correction \in Int /\ correction - correction = 0
  BY <1>3
<1>7. Good(sys') /\ Same(sys', s1)
  BY <1>4, <1>5, <1>6, ShiftedOK
<1>8. current_freq = nominal_tick - sys.current_tick /\ current_freq + temp_comp = asked
  BY <1>1 DEF IInv, Runs
<1>9. /\ Cooked(sys') = Cooked(sys) - 0 /\ sys.current_tick = sys'.current_tick
      /\ current_freq' = nominal_tick - sys'.current_tick /\ current_freq' + temp_comp = asked'
      /\ ideal' = ideal - 0 /\ mark' = Dispatched(Cooked(sys), sys, 0)
  BY <1>1, <1>2, <1>4, <1>5, <1>6, <1>7, <1>8 DEF Same
<1>10. untold' = Told(sys)
  <2>1. TypeOK /\ sys.current_tick \in TickLengths
    BY DEF IInv, TypeOK, Driver
  <2>2. sys.current_tick = sys.current_tick /\ untold' = untold
    BY <1>4
  <2> QED BY <2>1, <2>2, ToldIs
<1>11. UNCHANGED <<temp_comp, held, running, crashed, ticks>> /\ 0 \in Int /\ changes' = changes + 1
  BY <1>4
<1> QED BY <1>1, <1>7, <1>9, <1>10, <1>11, ChangeKeeps

LEMMA ExternalStepKeeps ==
  ASSUME IInv, NEW o \in Amounts, ExternalStep(o)
  PROVE  IInv'
<1> DEFINE s1 == [sys EXCEPT !.raw = @ - o]
<1>1. o \in Int /\ running /\ Good(sys) /\ ~sys.fast_slewing
  BY ClockBounds DEF IInv, Runs, ExternalStep, Change
<1>2. sys \in Driver /\ Slow(sys) /\ Settled(sys) /\ sys.raw \in Int /\ sys.offset_register \in Int /\ sys.left \in Int
  BY <1>1 DEF Good, Fast, Slow, Driver
<1>3. HasFields(s1)
  BY <1>2 DEF HasFields, Fields, Driver
<1>4. FieldsTyped(s1)
  BY <1>1, <1>2 DEF FieldsTyped, Driver
<1>5. /\ s1.fast_slewing = sys.fast_slewing /\ s1.tick = sys.tick /\ s1.current_tick = sys.current_tick
      /\ s1.timeouts = sys.timeouts /\ s1.offset_register = sys.offset_register /\ s1.left = sys.left
      /\ s1.raw = sys.raw - o /\ s1.refused = sys.refused
  BY <1>2 DEF Driver
<1>6. /\ sys' = Shifted(s1, o) /\ mark' = Dispatched(Cooked(sys), sys, o) /\ ideal' = ideal - o
      /\ changes' = changes + 1
      /\ UNCHANGED <<current_freq, temp_comp, held, untold, asked, running, crashed, ticks>>
  BY DEF ExternalStep, Change
<1> HIDE DEF s1
<1>7. s1 \in Driver
  BY <1>3, <1>4, DriverByFields
<1>8. Good(s1)
  BY <1>2, <1>5, <1>7 DEF Good, Slow, Settled
<1>9. Cooked(s1) = Cooked(sys) - o
  <2>1. Cooked(s1) = s1.raw - s1.offset_register + s1.left /\ Cooked(sys) = sys.raw - sys.offset_register + sys.left
    BY <1>1, <1>2, <1>5, <1>7, SlowCooked
  <2> QED BY <1>1, <1>2, <1>5, <2>1
<1>10. Good(sys') /\ Same(sys', s1)
  BY <1>1, <1>6, <1>8, ShiftedOK
<1>11. current_freq = nominal_tick - sys.current_tick /\ current_freq + temp_comp = asked
  BY <1>1 DEF IInv, Runs
<1>12. /\ Cooked(sys') = Cooked(sys) - o /\ sys.current_tick = sys'.current_tick
       /\ current_freq' = nominal_tick - sys'.current_tick /\ current_freq' + temp_comp = asked'
  BY <1>5, <1>6, <1>9, <1>10, <1>11 DEF Same
<1>13. untold' = Told(sys)
  <2>1. TypeOK /\ sys.current_tick \in TickLengths
    BY DEF IInv, TypeOK, Driver
  <2>2. sys.current_tick = sys.current_tick /\ untold' = untold
    BY <1>6
  <2> QED BY <2>1, <2>2, ToldIs
<1> QED BY <1>1, <1>13, <1>6, <1>10, <1>12, ChangeKeeps

\* No handler is told: the change of the tick is what the timestamps are off by.
LEMMA ReadTimeoutKeeps ==
  ASSUME IInv, NEW comp \in Compensations, ReadTimeout(comp)
  PROVE  IInv'
<1> DEFINE freq == current_freq + temp_comp
           s1 == SetFrequency(sys, freq - comp)
<1>1. running /\ Good(sys) /\ TypeOK /\ Runs /\ TimestampsHold
  BY DEF IInv, Runs, ReadTimeout, SetTempComp, Change
<1>2. comp \in Int /\ freq \in Int /\ freq - comp \in Int
  BY <1>1, ClockBounds DEF TypeOK
<1>3. /\ Slews(freq - comp)
      /\ untold' = [h \in Handler |-> untold[h] + held[h] * (sys.current_tick - s1.current_tick)]
      /\ sys' = s1 /\ current_freq' = nominal_tick - s1.current_tick /\ temp_comp' = freq - current_freq'
      /\ changes' = changes + 1 /\ UNCHANGED <<mark, ideal, held, asked, running, crashed, ticks>>
  BY DEF ReadTimeout, SetTempComp, Change
<1>4. freq = asked
  BY <1>1 DEF Runs
<1>5. sys.fast_slewing => Clamp(nominal_tick - (freq - comp)) # sys.slewing_tick
  BY <1>3 DEF Slews
<1> HIDE DEF freq
<1>6. Good(s1) /\ Cooked(s1) = Cooked(sys)
  BY <1>1, <1>2, <1>5, SetFrequencyOK
<1> HIDE DEF s1
<1>7. s1 \in Driver /\ s1.current_tick \in TickLengths /\ s1.current_tick \in Int /\ nominal_tick \in Int
  <2>1. s1 \in Driver
    BY <1>6, CookedIsInt
  <2> QED BY <2>1, TicksAreInts
<1>8. current_freq' \in Int /\ temp_comp' \in Int /\ current_freq' + temp_comp' = asked'
  BY <1>2, <1>3, <1>4, <1>7
<1>13. sys.current_tick \in Int
  BY <1>1, TicksAreInts DEF TypeOK
<1>14. ASSUME NEW h \in Handler
       PROVE  /\ untold'[h] = untold[h] + held[h] * (sys.current_tick - s1.current_tick)
              /\ untold'[h] \in Int /\ untold[h] \in Int
              /\ untold'[h] + held[h] * s1.current_tick = untold[h] + held[h] * sys.current_tick
              /\ held[h] * s1.current_tick \in Int /\ held[h] * sys.current_tick \in Int
  <2>1. held[h] \in Int /\ untold[h] \in Int
    BY <1>1 DEF TypeOK
  <2>2. untold'[h] = untold[h] + held[h] * (sys.current_tick - s1.current_tick)
    BY <1>3
  <2> QED BY <1>7, <1>13, <2>1, <2>2
<1>15. untold' \in [Handler -> Int]
  BY <1>3, <1>14
<1>9. TypeOK'
  BY <1>1, <1>3, <1>7, <1>8, <1>15 DEF TypeOK
<1>10. Runs'
  BY <1>1, <1>3, <1>6, <1>8 DEF Runs
<1>11. Ended'
  BY <1>1, <1>3 DEF Ended
<1>12. TimestampsHold'
  <2>1. ASSUME NEW h \in Handler, mark[h] # <<>>
        PROVE  Cooked(sys') - mark[h][1] = held[h] * s1.current_tick + untold'[h]
    <3>1. Cooked(sys) - mark[h][1] = held[h] * sys.current_tick + untold[h]
      BY <1>1, <2>1 DEF TimestampsHold
    <3>2. Cooked(sys') = Cooked(sys)
      BY <1>3, <1>6
    <3>3. held[h] * sys.current_tick + untold[h] = held[h] * s1.current_tick + untold'[h]
      BY <1>14
    <3> QED BY <3>1, <3>2, <3>3
  <2> QED BY <1>3, <2>1 DEF TimestampsHold
<1> QED BY <1>9, <1>10, <1>11, <1>12 DEF IInv

LEMMA AddHandlerKeeps ==
  ASSUME IInv, NEW h \in Handler, AddHandler(h)
  PROVE  IInv'
<1>1. running /\ Good(sys) /\ TypeOK /\ Runs /\ TimestampsHold
  BY DEF IInv, Runs, AddHandler
<1>2. /\ sys' = Read(sys) /\ mark' = [mark EXCEPT ![h] = <<Cooked(sys)>>] /\ held' = [held EXCEPT ![h] = 0]
      /\ untold' = [untold EXCEPT ![h] = 0]
      /\ UNCHANGED <<current_freq, temp_comp, ideal, asked, running, crashed, ticks, changes>>
  BY DEF AddHandler
<1>3. Good(sys') /\ Same(sys', sys) /\ sys' \in Driver
  BY <1>1, <1>2, ReadOK, CookedIsInt
<1>4. Cooked(sys) \in Int /\ sys.current_tick \in Int
  <2>1. sys \in Driver /\ Cooked(sys) \in Int
    BY <1>1, CookedIsInt
  <2> QED BY <2>1, TicksAreInts
<1>5. TypeOK'
  <2>1. <<Cooked(sys)>> \in Marks
    BY <1>4 DEF Marks
  <2>2. mark' \in [Handler -> Marks] /\ held' \in [Handler -> Nat]
    BY <1>1, <1>2, <2>1 DEF TypeOK
  <2>3. untold' \in [Handler -> Int]
    BY <1>1, <1>2 DEF TypeOK
  <2> QED BY <1>1, <1>2, <1>3, <2>2, <2>3 DEF TypeOK
<1>6. Runs'
  BY <1>1, <1>2, <1>3 DEF Runs, Same
<1>7. Ended'
  BY <1>1, <1>2 DEF Ended
<1>8. TimestampsHold'
  <2>1. ASSUME NEW g \in Handler, mark'[g] # <<>>
        PROVE  Cooked(sys') - mark'[g][1] = held'[g] * sys'.current_tick + untold'[g]
    <3>1. CASE g = h
      <4>1. mark'[g] = <<Cooked(sys)>> /\ held'[g] = 0 /\ untold'[g] = 0
        BY <1>1, <1>2, <3>1 DEF TypeOK
      <4>2. mark'[g][1] = Cooked(sys)
        BY <4>1
      <4> QED BY <1>3, <1>4, <4>1, <4>2 DEF Same
    <3>2. CASE g # h
      <4>1. mark'[g] = mark[g] /\ held'[g] = held[g] /\ untold'[g] = untold[g]
        BY <1>1, <1>2, <3>2 DEF TypeOK
      <4>2. Cooked(sys) - mark[g][1] = held[g] * sys.current_tick + untold[g]
        BY <1>1, <2>1, <4>1 DEF TimestampsHold
      <4> QED BY <1>3, <4>1, <4>2 DEF Same
    <3> QED BY <3>1, <3>2
  <2> QED BY <2>1 DEF TimestampsHold
<1> QED BY <1>5, <1>6, <1>7, <1>8 DEF IInv

LEMMA RemoveHandlerKeeps ==
  ASSUME IInv, NEW h \in Handler, RemoveHandler(h)
  PROVE  IInv'
<1>1. running /\ TypeOK /\ Runs /\ TimestampsHold
  BY DEF IInv, RemoveHandler
<1>2. /\ mark' = [mark EXCEPT ![h] = <<>>] /\ held' = [held EXCEPT ![h] = 0]
      /\ untold' = [untold EXCEPT ![h] = 0]
      /\ UNCHANGED <<sys, current_freq, temp_comp, ideal, asked, running, crashed, ticks, changes>>
  BY DEF RemoveHandler
<1>3. TypeOK'
  <2>1. <<>> \in Marks
    BY DEF Marks
  <2>2. mark' \in [Handler -> Marks] /\ held' \in [Handler -> Nat]
    BY <1>1, <1>2, <2>1 DEF TypeOK
  <2>3. untold' \in [Handler -> Int]
    BY <1>1, <1>2 DEF TypeOK
  <2> QED BY <1>1, <1>2, <2>2, <2>3 DEF TypeOK
<1>4. Runs' /\ Ended'
  BY <1>1, <1>2 DEF Runs, Ended
<1>5. TimestampsHold'
  <2>1. ASSUME NEW g \in Handler, mark'[g] # <<>>
        PROVE  Cooked(sys') - mark'[g][1] = held'[g] * sys'.current_tick + untold'[g]
    <3>1. g # h /\ mark'[g] = mark[g] /\ held'[g] = held[g] /\ untold'[g] = untold[g]
      BY <1>1, <1>2, <2>1 DEF TypeOK
    <3>2. Cooked(sys) - mark[g][1] = held[g] * sys.current_tick + untold[g]
      BY <1>1, <2>1, <3>1 DEF TimestampsHold
    <3> QED BY <1>2, <3>1, <3>2
  <2> QED BY <2>1 DEF TimestampsHold
<1> QED BY <1>3, <1>4, <1>5 DEF IInv

LEMMA TickKeeps ==
  ASSUME IInv, KernelTicks
  PROVE  IInv'
<1>1. TypeOK /\ Runs /\ Ended /\ TimestampsHold /\ sys \in Driver
  BY DEF IInv, TypeOK
<1>2. /\ sys' = KernelTick(sys) /\ ideal' = ideal + sys.current_tick /\ ticks' = ticks + 1
      /\ held' = [h \in Handler |-> IF mark[h] = <<>> THEN 0 ELSE held[h] + 1]
      /\ UNCHANGED <<current_freq, temp_comp, mark, untold, asked, running, crashed, changes>>
  BY DEF KernelTicks
<1>3. sys' \in Driver /\ sys'.tick = sys.tick /\ sys'.current_tick = sys.current_tick
  <2>1. PICK moved \in Int :
          KernelTick(sys) = [sys EXCEPT !.raw = sys.raw + sys.tick + moved, !.left = sys.left - moved]
    BY <1>1, KernelTickIs
  <2>2. KernelTick(sys) \in Driver
    BY <1>1, KernelTickIs
  <2> QED BY <1>1, <1>2, <2>1, <2>2 DEF Driver
<1>4. sys.current_tick \in Nat \ {0}
  BY <1>1, TicksArePositive DEF Driver
<1>5. TypeOK'
  <2>1. held' \in [Handler -> Nat]
    BY <1>1, <1>2 DEF TypeOK
  <2>2. ideal' \in Int /\ ticks' \in Nat
    BY <1>1, <1>2, <1>4 DEF TypeOK
  <2> QED BY <1>1, <1>2, <1>3, <2>1, <2>2 DEF TypeOK
<1>6. running => Good(sys') /\ Cooked(sys') = Cooked(sys) + sys.current_tick /\ Cooked(sys) \in Int
  BY <1>1, <1>2, KernelTickOK, CookedIsInt DEF Runs
<1>7. Runs'
  BY <1>1, <1>2, <1>3, <1>6 DEF Runs
<1>8. Ended'
  BY <1>1, <1>2, <1>3 DEF Ended
<1>9. TimestampsHold'
  <2>1. ASSUME NEW h \in Handler, mark[h] # <<>>
        PROVE  Cooked(sys') - mark[h][1] = held'[h] * sys.current_tick + untold[h]
    <3>1. running
      BY <1>1, <2>1 DEF Ended, TypeOK
    <3>2. PICK t \in Int : mark[h] = <<t>>
      BY <1>1, <2>1 DEF TypeOK, Marks
    <3>3. mark[h][1] = t
      BY <3>2
    <3>4. Cooked(sys) - t = held[h] * sys.current_tick + untold[h]
      BY <1>1, <2>1, <3>3 DEF TimestampsHold
    <3>5. held'[h] = held[h] + 1 /\ held[h] \in Int /\ untold[h] \in Int
      BY <1>1, <1>2, <2>1 DEF TypeOK
    <3> DEFINE n == held[h]
               u == untold[h]
               tick == sys.current_tick
    <3>6. n \in Int /\ u \in Int /\ tick \in Int
      BY <1>4, <3>5
    <3>7. Cooked(sys') - t = (Cooked(sys) - t) + tick
      BY <1>4, <1>6, <3>1
    <3> HIDE DEF n, u, tick
    <3>8. (n + 1) * tick + u = (n * tick + u) + tick
      BY ONLY <3>6
    <3>9. Cooked(sys') - t = (n + 1) * tick + u
      BY <3>4, <3>7, <3>8 DEF n, u, tick
    <3> QED BY <3>3, <3>5, <3>9 DEF n, u, tick
  <2> QED BY <1>2, <1>3, <2>1 DEF TimestampsHold
<1> QED BY <1>5, <1>7, <1>8, <1>9 DEF IInv

LEMMA EndOfSlewTimeoutKeeps ==
  ASSUME IInv, EndOfSlewTimeout
  PROVE  IInv'
<1>1. running /\ Good(sys) /\ TypeOK /\ Runs /\ TimestampsHold
  BY DEF IInv, Runs, EndOfSlewTimeout
<1>2. /\ sys' = HandleEndOfSlew(sys) /\ sys.timeouts # <<>>
      /\ UNCHANGED <<current_freq, temp_comp, mark, ideal, held, untold, asked, running, crashed, ticks, changes>>
  BY DEF EndOfSlewTimeout
<1>3. Fast(sys)
  <2>1. sys.timeouts \in Seq(Int)
    BY <1>1 DEF TypeOK, Driver
  <2>2. Len(sys.timeouts) # 0
    BY <1>2, <2>1
  <2> QED BY <1>1, <2>2 DEF Good, Slow
<1>4. Good(sys') /\ Same(sys', sys) /\ sys' \in Driver
  BY <1>2, <1>3, HandleEndOfSlewOK, CookedIsInt
<1>5. TypeOK'
  BY <1>1, <1>2, <1>4 DEF TypeOK
<1>6. Runs'
  BY <1>1, <1>2, <1>4 DEF Runs, Same
<1>7. Ended'
  BY <1>1, <1>2 DEF Ended
<1>8. TimestampsHold'
  BY <1>1, <1>2, <1>4 DEF TimestampsHold, Same
<1> QED BY <1>5, <1>6, <1>7, <1>8 DEF IInv

LEMMA StopKeeps ==
  ASSUME IInv, Stop
  PROVE  IInv'
<1>1. running /\ Good(sys) /\ TypeOK
  BY DEF IInv, Runs, Stop
<1>2. /\ running' = FALSE
      /\ mark' = [h \in Handler |-> <<>>] /\ held' = [h \in Handler |-> 0]
      /\ untold' = [h \in Handler |-> 0]
      /\ UNCHANGED <<current_freq, temp_comp, ideal, asked, ticks, changes>>
  BY DEF Stop
<1>3. Slow(AbortSlew(sys))
  BY <1>1, AbortSlewOK
<1>4. sys' \in Driver /\ crashed' \in BOOLEAN /\ (~crashed' => sys'.tick = sys'.current_tick)
  <2>1. CASE sys' = AbortSlew(sys) /\ crashed' = FALSE
    BY <1>3, <2>1 DEF Slow
  <2>2. CASE sys' = sys /\ crashed' = TRUE
    BY <1>1, <2>2 DEF TypeOK
  <2> QED BY <2>1, <2>2 DEF Stop
<1>5. mark' \in [Handler -> Marks] /\ held' \in [Handler -> Nat] /\ untold' \in [Handler -> Int]
  BY <1>2 DEF Marks
<1>6. TypeOK'
  BY <1>1, <1>2, <1>4, <1>5 DEF TypeOK
<1>7. Runs' /\ Ended' /\ TimestampsHold'
  BY <1>2, <1>4 DEF Runs, Ended, TimestampsHold
<1> QED BY <1>6, <1>7 DEF IInv

LEMMA RestartKeeps ==
  ASSUME IInv, Restart
  PROVE  IInv'
<1>1. TypeOK /\ Ended /\ ~running
  BY DEF IInv, Restart
<1>2. /\ running' = TRUE /\ sys' = Start(sys.raw, sys.tick, sys.have_nanopll)
      /\ current_freq' = nominal_tick - sys.tick /\ temp_comp' = 0
      /\ ideal' = sys.raw /\ asked' = nominal_tick - sys.tick
      /\ UNCHANGED <<mark, held, untold, crashed, ticks, changes>>
  BY DEF Restart
<1>3. sys.raw \in Int /\ sys.tick \in TickLengths /\ sys.have_nanopll \in BOOLEAN
  BY <1>1 DEF TypeOK, Driver
<1>4. Good(sys') /\ sys'.current_tick = sys.tick /\ Cooked(sys') = sys.raw
  BY <1>2, <1>3, StartOK
<1>5. sys' \in Driver
  BY <1>4, CookedIsInt
<1>6. nominal_tick - sys.tick \in Int
  BY <1>1, TicksAreInts DEF TypeOK
<1>7. TypeOK'
  BY <1>1, <1>2, <1>3, <1>5, <1>6 DEF TypeOK
<1>8. Runs'
  BY <1>2, <1>4, <1>6 DEF Runs
<1>9. Ended' /\ TimestampsHold'
  BY <1>1, <1>2 DEF Ended, TimestampsHold
<1> QED BY <1>7, <1>8, <1>9 DEF IInv

-----------------------------------------------------------------------------
(* The theorems about the clock. *)

\* The invariant holds from the start and every action keeps it.
THEOREM ClockIInv == ClockSpec => []IInv
<1>1. ASSUME IInv, [ClockNext]_clockVars PROVE IInv'
  <2>1. ASSUME NEW f \in Frequencies, SetAbsoluteFrequency(f) \/ AccumulateDeltaFrequency(f)
        PROVE  IInv'
    BY <1>1, <2>1, SetAbsoluteFrequencyKeeps, AccumulateDeltaFrequencyKeeps
  <2>2. ASSUME NEW o \in Amounts, AccumulateOffset(o) \/ ApplyStep(o) \/ ExternalStep(o)
        PROVE  IInv'
    BY <1>1, <2>2, AccumulateOffsetKeeps, ApplyStepKeeps, ExternalStepKeeps
  <2>3. ASSUME NEW o \in Amounts, NEW f \in Frequencies, AccumulateFrequencyAndOffset(f, o)
        PROVE  IInv'
    BY <1>1, <2>3, AccumulateFrequencyAndOffsetKeeps
  <2>4. ASSUME NEW t \in Thresholds, MakeStep(t) PROVE IInv'
    BY <1>1, <2>4, MakeStepKeeps
  <2>5. ASSUME NEW c \in Compensations, ReadTimeout(c) PROVE IInv'
    BY <1>1, <2>5, ReadTimeoutKeeps
  <2>6. ASSUME NEW h \in Handler, AddHandler(h) \/ RemoveHandler(h) PROVE IInv'
    BY <1>1, <2>6, AddHandlerKeeps, RemoveHandlerKeeps
  <2>7. CASE KernelTicks
    BY <1>1, <2>7, TickKeeps
  <2>8. CASE EndOfSlewTimeout
    BY <1>1, <2>8, EndOfSlewTimeoutKeeps
  <2>9. CASE Stop
    BY <1>1, <2>9, StopKeeps
  <2>10. CASE Restart
    BY <1>1, <2>10, RestartKeeps
  <2>11. CASE UNCHANGED clockVars
    BY <1>1, <2>11 DEF clockVars, IInv, TypeOK, Runs, Ended, TimestampsHold
  <2> QED BY <1>1, <2>1, <2>2, <2>3, <2>4, <2>5, <2>6, <2>7, <2>8, <2>9, <2>10, <2>11 DEF ClockNext
<1> QED BY <1>1, InitIInv, PTL DEF ClockSpec

\* The cooked time goes on by the tick asked for and moves by each offset at
\* once, however the driver slews: get_offset_correction, adjust_fast_slew and
\* the rest lose nothing in any order of the calls.
THEOREM ClockCookedIsIdeal == ClockSpec => []CookedIsIdeal
<1>1. ASSUME IInv PROVE CookedIsIdeal
  <2>1. ASSUME running PROVE Frequency(sys) = current_freq
    <3>1. Good(sys) /\ current_freq = nominal_tick - sys.current_tick /\ sys \in Driver
      BY <1>1, <2>1 DEF IInv, Runs, TypeOK
    <3>2. sys.tick \in Int /\ sys.current_tick \in Int /\ nominal_tick \in Int
      BY <3>1, TicksAreInts
    <3> QED BY <3>1, <3>2 DEF Frequency, delta_total_tick, Good, Fast, Slow
  <2> QED BY <1>1, <2>1 DEF IInv, Runs, CookedIsIdeal
<1> QED BY <1>1, ClockIInv, PTL

\* lcl's dispatch of each change keeps every handler's timestamp as many ticks
\* in the past as passed since it was taken, up to what compensations, of which
\* LCL_SetTempComp tells nobody, made of those ticks; at any time, in any order.
THEOREM ClockTimestampsHold == ClockSpec => []TimestampsHold
<1>1. IInv => TimestampsHold
  BY DEF IInv
<1> QED BY <1>1, ClockIInv, PTL

\* slew_timeout_id: a fast slew has one timeout, nothing else has one, and an
\* exit that is no crash leaves the kernel at the tick of the frequency.
THEOREM ClockSlewsAreEnded == ClockSpec => []SlewsAreEnded
<1>1. ASSUME IInv PROVE SlewsAreEnded
  <2>1. running => Good(sys)
    BY <1>1 DEF IInv, Runs
  <2> QED BY <1>1, <2>1 DEF IInv, Ended, SlewsAreEnded, Good, Fast, Slow, Settled
<1> QED BY <1>1, ClockIInv, PTL

-----------------------------------------------------------------------------
(* The event loop: its inductive invariant. *)

EntryType == [id : TimeoutID, left : Int, class : Class]

SchedulerTypeOK ==
  /\ phase \in {"timeouts", "select", "files", "exited", "fatal"}
  /\ queue \in Seq(EntryType)
  /\ dispatched \in [Class -> Int] /\ elapsed \in Nat /\ jump \in Nat
  /\ read_fds \subseteq Fd /\ rd \subseteq Fd /\ one_highest_fd \in Nat
  /\ n_done \in Nat /\ n_entries_on_start \in Nat /\ busy \in 0 .. MaxBusy
  /\ need_to_exit \in BOOLEAN

\* The queue is in order, the timeouts of a class are apart.
Sorted(q) == \A i, j \in 1 .. Len(q) : i < j => q[i].left <= q[j].left
Sampling(e) == e.class = "SCH_NtpSamplingClass"
Apart(q) ==
  \A i, j \in 1 .. Len(q) : i < j /\ Sampling(q[i]) /\ Sampling(q[j]) => q[j].left - q[i].left >= Separation
InOrder(q) == q \in Seq(EntryType) /\ Sorted(q) /\ Apart(q)

\* one_highest_fd is above all registered descriptors.
AllBelow == \A fd \in read_fds : fd < one_highest_fd

\* Of the descriptors copied for select, those below one_highest_fd are registered:
\* a timeout handler closes the last one, which moves one_highest_fd down.
CopyIsOpen == phase \in {"timeouts", "select"} => {fd \in rd : fd < one_highest_fd} \subseteq read_fds

QueueIInv == SchedulerTypeOK /\ InOrder(queue) /\ AllBelow /\ CopyIsOpen

\* No more than the first n timeouts are due.
DueWithin(q, n) == \A i \in 1 .. Len(q) : i > n => q[i].left > 0

\* The timeouts of the round: each of those at the start, once more for each unit
\* of time that the handlers took.  Some of them are due, the others done.
FewAreDue ==
  /\ phase = "timeouts" =>
       /\ Len(queue) <= n_entries_on_start
       /\ \E n \in Nat : DueWithin(queue, n) /\ n_done + n <= n_entries_on_start * (busy + 1)
  /\ phase \in {"select", "files"} => n_done = 0
  /\ phase = "fatal" => queue = <<>> /\ read_fds = {}
-----------------------------------------------------------------------------
(* Sets of numbers. *)

\* The least element of a set of natural numbers exists.
LEMMA LeastExists ==
  ASSUME NEW S \in SUBSET Nat, S # {}
  PROVE  Min(S) \in S /\ \A y \in S : Min(S) <= y
<1>1. PICK x \in S : \A y \in S : ~(<<y, x>> \in OpToRel(<, Nat))
  BY NatLessThanWellFounded, WFMin, Zenon
<1>2. \A y \in S : <<y, x>> \notin {p \in Nat \X Nat : p[1] < p[2]}
  BY <1>1 DEF OpToRel
<1>3. ASSUME NEW y \in S PROVE x <= y
  <2>1. <<y, x>> \in Nat \X Nat /\ x \in Nat /\ y \in Nat
    OBVIOUS
  <2>2. ~(<<y, x>>[1] < <<y, x>>[2])
    BY <1>2, <2>1
  <2> QED BY <2>1, <2>2
<1> QED BY <1>3 DEF Min

\* The largest of a set of descriptors exists.
LEMMA LargestExists ==
  ASSUME NEW n \in Nat, NEW S \in SUBSET (0 .. n), S # {}
  PROVE  Max(S) \in S /\ \A y \in S : Max(S) >= y
<1> DEFINE T == {k \in Nat : n - k \in S}
<1>1. T \in SUBSET Nat /\ T # {}
  <2>1. PICK x \in S : TRUE
    OBVIOUS
  <2>2. n - x \in Nat /\ n - (n - x) = x
    OBVIOUS
  <2> QED BY <2>1, <2>2
<1>2. Min(T) \in T /\ \A k \in T : Min(T) <= k
  BY <1>1, LeastExists
<1>3. ASSUME NEW y \in S PROVE n - Min(T) >= y
  <2>1. n - y \in Nat /\ n - (n - y) = y
    OBVIOUS
  <2>2. n - y \in T
    BY <2>1
  <2> QED BY <1>2, <2>1, <2>2
<1>4. n - Min(T) \in S
  BY <1>2
<1> QED BY <1>3, <1>4 DEF Max

LEMMA LesserOfTwo ==
  ASSUME NEW a \in Int, NEW b \in Int
  PROVE  Min({a, b}) \in Int
<1>1. \E x \in {a, b} : \A y \in {a, b} : x <= y
  OBVIOUS
<1>2. Min({a, b}) \in {a, b}
  BY <1>1 DEF Min
<1> QED BY <1>2

\* SelectInSeq finds the first index of a set.
LEMMA FirstIndex ==
  ASSUME NEW n \in Nat, NEW S \in SUBSET (1 .. n)
  PROVE  S # {} => Min(S) \in S /\ \A i \in 1 .. n : i < Min(S) => i \notin S
<1>1. S \in SUBSET Nat
  OBVIOUS
<1>2. SUFFICES ASSUME S # {}
               PROVE  Min(S) \in S /\ \A i \in 1 .. n : i < Min(S) => i \notin S
  OBVIOUS
<1>3. Min(S) \in S /\ \A y \in S : Min(S) <= y
  BY <1>1, <1>2, LeastExists
<1>4. ASSUME NEW i \in 1 .. n, i < Min(S) PROVE i \notin S
  <2>1. PICK m \in Nat : m = Min(S)
    BY <1>1, <1>3
  <2>2. ~(m <= i)
    BY <2>1, <1>4
  <2> QED BY <2>1, <2>2, <1>3
<1> QED BY <1>3, <1>4

-----------------------------------------------------------------------------
(* The operations on the queue. *)

LEMMA LeftIsNumber ==
  ASSUME NEW q \in Seq(EntryType)
  PROVE  \A i \in 1 .. Len(q) : q[i] \in EntryType /\ q[i].left \in Int
<1>1. ASSUME NEW i \in 1 .. Len(q) PROVE q[i] \in EntryType
  OBVIOUS
<1>2. \A e \in EntryType : e.left \in Int
  BY DEF EntryType
<1> QED BY <1>1, <1>2

\* A new timeout goes behind those that are not later and before those that are.
LEMMA PlaceInOrder ==
  ASSUME NEW q \in Seq(EntryType), Sorted(q), NEW left \in Int
  PROVE  /\ Place(q, left) \in 1 .. Len(q) + 1
         /\ \A i \in 1 .. Len(q) : i < Place(q, left) => q[i].left <= left
         /\ \A i \in 1 .. Len(q) : i >= Place(q, left) => left < q[i].left
<1> DEFINE S == {i \in 1 .. Len(q) : left < q[i].left}
<1>1. Place(q, left) = IF (IF S # {} THEN Min(S) ELSE 0) = 0 THEN Len(q) + 1
                       ELSE IF S # {} THEN Min(S) ELSE 0
  BY DEF Place, SelectInSeq
<1>2. S # {} => Min(S) \in S /\ \A i \in 1 .. Len(q) : i < Min(S) => i \notin S
  <2>1. Len(q) \in Nat /\ S \in SUBSET (1 .. Len(q))
    OBVIOUS
  <2> QED BY <2>1, FirstIndex
<1>3. \A i \in 1 .. Len(q) : q[i].left \in Int
  BY LeftIsNumber
<1>4. CASE S = {}
  BY <1>1, <1>3, <1>4
<1>5. CASE S # {}
  <2>1. Place(q, left) = Min(S) /\ Min(S) \in 1 .. Len(q) /\ left < q[Min(S)].left
    BY <1>1, <1>2, <1>5
  <2>2. \A i \in 1 .. Len(q) : i < Min(S) => ~(left < q[i].left)
    BY <1>2, <1>5
  <2> HIDE DEF S
  <2>3. ASSUME NEW i \in 1 .. Len(q), i >= Min(S) PROVE left < q[i].left
    BY <2>1, <2>3, <1>3 DEF Sorted
  <2> QED BY <2>1, <2>2, <2>3, <1>3
<1> QED BY <1>4, <1>5

\* r is q with e inserted at p.
Inserted(r, q, p, e) ==
  /\ r \in Seq(EntryType) /\ Len(r) = Len(q) + 1
  /\ \A i \in 1 .. Len(q) + 1 : r[i] = IF i < p THEN q[i] ELSE IF i = p THEN e ELSE q[i - 1]

LEMMA InsertedAt ==
  ASSUME NEW q \in Seq(EntryType), NEW p \in 1 .. Len(q) + 1, NEW e \in EntryType
  PROVE  Inserted(InsertAt(q, p, e), q, p, e)
<1> DEFINE a == SubSeq(q, 1, p - 1)  b == SubSeq(q, p, Len(q))  c == a \o <<e>>
<1>1. \A i \in 1 .. Len(q) : q[i] \in EntryType
  BY LeftIsNumber
<1>2. a \in Seq(EntryType) /\ Len(a) = p - 1 /\ \A i \in 1 .. p - 1 : a[i] = q[i]
  OBVIOUS
<1>3. b \in Seq(EntryType) /\ Len(b) = Len(q) - p + 1 /\ \A i \in 1 .. Len(q) - p + 1 : b[i] = q[i + p - 1]
  OBVIOUS
<1>4. InsertAt(q, p, e) = c \o b
  BY DEF InsertAt
<1> HIDE DEF a, b
<1>5. <<e>> \in Seq(EntryType) /\ Len(<<e>>) = 1 /\ <<e>>[1] = e
  OBVIOUS
<1>6. c \in Seq(EntryType) /\ Len(c) = p /\ \A i \in 1 .. p : c[i] = IF i < p THEN q[i] ELSE e
  <2>1. /\ c \in Seq(EntryType) /\ Len(c) = Len(a) + 1
        /\ \A i \in 1 .. Len(a) + 1 : c[i] = IF i <= Len(a) THEN a[i] ELSE <<e>>[i - Len(a)]
    BY <1>2, <1>5, ConcatProperties
  <2> QED BY <2>1, <1>2
<1> HIDE DEF c
<1>7. /\ c \o b \in Seq(EntryType) /\ Len(c \o b) = Len(c) + Len(b)
      /\ \A i \in 1 .. Len(c) + Len(b) : (c \o b)[i] = IF i <= Len(c) THEN c[i] ELSE b[i - Len(c)]
  BY <1>3, <1>6, ConcatProperties
<1>8. Len(c) + Len(b) = Len(q) + 1
  BY <1>3, <1>6
<1>9. ASSUME NEW i \in 1 .. Len(q) + 1
      PROVE  (c \o b)[i] = IF i < p THEN q[i] ELSE IF i = p THEN e ELSE q[i - 1]
  <2>1. CASE i <= p
    BY <2>1, <1>6, <1>7, <1>8
  <2>2. CASE ~(i <= p)
    <3>1. (c \o b)[i] = b[i - p]
      BY <2>2, <1>6, <1>7, <1>8
    <3>2. i - p \in 1 .. Len(q) - p + 1 /\ i - p + p - 1 = i - 1
      BY <2>2
    <3> QED BY <2>2, <3>1, <3>2, <1>3
  <2> QED BY <2>1, <2>2
<1> QED BY <1>4, <1>7, <1>8, <1>9 DEF Inserted

LEMMA RemovedAt ==
  ASSUME NEW q \in Seq(EntryType), NEW p \in 1 .. Len(q)
  PROVE  /\ RemoveAt(q, p) \in Seq(EntryType)
         /\ Len(RemoveAt(q, p)) = Len(q) - 1
         /\ \A i \in 1 .. Len(q) - 1 : RemoveAt(q, p)[i] = IF i < p THEN q[i] ELSE q[i + 1]
<1> DEFINE a == SubSeq(q, 1, p - 1)  b == SubSeq(q, p + 1, Len(q))
<1>1. a \in Seq(EntryType) /\ Len(a) = p - 1 /\ \A i \in 1 .. p - 1 : a[i] = q[i]
  OBVIOUS
<1>2. b \in Seq(EntryType) /\ Len(b) = Len(q) - p /\ \A i \in 1 .. Len(q) - p : b[i] = q[i + p]
  OBVIOUS
<1>3. RemoveAt(q, p) = a \o b
  BY DEF RemoveAt
<1> HIDE DEF a, b
<1>4. /\ a \o b \in Seq(EntryType) /\ Len(a \o b) = Len(a) + Len(b)
      /\ \A i \in 1 .. Len(a) + Len(b) : (a \o b)[i] = IF i <= Len(a) THEN a[i] ELSE b[i - Len(a)]
  BY <1>1, <1>2, ConcatProperties
<1>5. Len(a) + Len(b) = Len(q) - 1
  BY <1>1, <1>2
<1>6. ASSUME NEW i \in 1 .. Len(q) - 1 PROVE (a \o b)[i] = IF i < p THEN q[i] ELSE q[i + 1]
  <2>1. CASE i < p
    BY <2>1, <1>1, <1>4, <1>5
  <2>2. CASE ~(i < p)
    <3>1. (a \o b)[i] = b[i - p + 1]
      <4>1. (a \o b)[i] = b[i - Len(a)] /\ i - Len(a) = i - p + 1
        BY <2>2, <1>1, <1>4, <1>5
      <4> QED BY <4>1
    <3>2. i - p + 1 \in 1 .. Len(q) - p /\ i - p + 1 + p = i + 1
      BY <2>2
    <3>3. b[i - p + 1] = q[i + 1]
      BY <3>2, <1>2
    <3> QED BY <2>2, <3>1, <3>3
  <2> QED BY <2>1, <2>2
<1> QED BY <1>3, <1>4, <1>5, <1>6

-----------------------------------------------------------------------------
(* The separation of a class. *)

\* The recursive function of ClassDelay.
After(q, first, class) ==
  CHOOSE after : after = [k \in 0 .. Len(q) |->
    IF k = 0 THEN first
    ELSE IF q[k].class = class THEN AwayFrom(after[k - 1], q[k]) ELSE after[k - 1]]

\* Its recursion has a solution, which CHOOSE finds.
LEMMA AfterDefined ==
  ASSUME NEW q \in Seq(EntryType), NEW first \in Int, NEW class \in Class
  PROVE  LET after == After(q, first, class) IN
         /\ after[0] = first
         /\ \A k \in 1 .. Len(q) :
              after[k] = IF q[k].class = class THEN AwayFrom(after[k - 1], q[k]) ELSE after[k - 1]
<1> DEFINE after == After(q, first, class)
<1> DEFINE Step(k, d) == IF q[k].class = class THEN AwayFrom(d, q[k]) ELSE d
           Solves(f, n) == f[0] = first /\ \A k \in 1 .. n : f[k] = Step(k, f[k - 1])
           Unsolved == {n \in 0 .. Len(q) : ~\E f : Solves(f, n)}
<1>1. Unsolved = {}
  <2>1. SUFFICES ASSUME Unsolved # {} PROVE FALSE
    OBVIOUS
  <2>2. Unsolved \in SUBSET Nat
    OBVIOUS
  <2>3. PICK n \in Unsolved : \A m \in Unsolved : n <= m
    BY <2>1, <2>2, LeastExists
  <2>4. n \in 0 .. Len(q) /\ ~\E f : Solves(f, n)
    BY <2>3
  <2>5. CASE n = 0
    <3>1. Solves([k \in {0} |-> first], 0)
      OBVIOUS
    <3> QED BY <2>4, <2>5, <3>1
  <2>6. CASE n > 0
    <3>1. n - 1 \in 0 .. Len(q) /\ n - 1 \notin Unsolved
      <4>1. n - 1 \in 0 .. Len(q) /\ n \in Nat /\ ~(n <= n - 1)
        BY <2>4, <2>6
      <4> HIDE DEF Unsolved
      <4> QED BY <2>3, <4>1
    <3>2. PICK f : Solves(f, n - 1)
      <4> HIDE DEF Solves
      <4> QED BY <3>1
    <3> DEFINE g == [k \in 0 .. n |-> IF k = n THEN Step(n, f[n - 1]) ELSE f[k]]
    <3>3. g[0] = first
      BY <2>4, <2>6, <3>2
    <3>4. ASSUME NEW k \in 1 .. n PROVE g[k] = Step(k, g[k - 1])
      <4>1. g[k - 1] = f[k - 1]
        BY <2>4, <3>4
      <4>2. CASE k = n
        BY <4>1, <4>2, <2>4
      <4>3. CASE k # n
        <5>1. k \in 1 .. n - 1 /\ g[k] = f[k]
          BY <4>3, <2>4
        <5> QED BY <5>1, <4>1, <3>2
      <4> QED BY <4>2, <4>3
    <3> QED BY <3>3, <3>4, <2>4
  <2> QED BY <2>4, <2>5, <2>6
<1>2. PICK f : Solves(f, Len(q))
  <2>1. Len(q) \in 0 .. Len(q)
    OBVIOUS
  <2> QED BY <1>1, <2>1
<1> DEFINE Value(f0, k) ==
             IF k = 0 THEN first
             ELSE IF q[k].class = class THEN AwayFrom(f0[k - 1], q[k]) ELSE f0[k - 1]
           g == [k \in 0 .. Len(q) |-> f[k]]
<1>3. g = [k \in 0 .. Len(q) |-> Value(g, k)]
  <2>1. ASSUME NEW k \in 0 .. Len(q) PROVE f[k] = Value(g, k)
    <3>1. CASE k = 0
      BY <3>1, <1>2
    <3>2. CASE k # 0
      <4>1. k \in 1 .. Len(q) /\ k - 1 \in 0 .. Len(q)
        BY <3>2
      <4>2. g[k - 1] = f[k - 1] /\ f[k] = Step(k, f[k - 1])
        BY <4>1, <1>2
      <4> QED BY <3>2, <4>2
    <3> QED BY <3>1, <3>2
  <2> QED BY <2>1
<1>4. after = [k \in 0 .. Len(q) |-> Value(after, k)]
  BY <1>3 DEF After
<1> HIDE DEF after
<1>5. after[0] = first
  <2>1. 0 \in 0 .. Len(q) /\ Value(after, 0) = first
    OBVIOUS
  <2> HIDE DEF Value
  <2> QED BY <1>4, <2>1
<1>6. ASSUME NEW k \in 1 .. Len(q)
      PROVE  after[k] = IF q[k].class = class THEN AwayFrom(after[k - 1], q[k]) ELSE after[k - 1]
  <2>1. k \in 0 .. Len(q) /\ k # 0
    OBVIOUS
  <2>2. Value(after, k) = IF q[k].class = class THEN AwayFrom(after[k - 1], q[k]) ELSE after[k - 1]
    BY <2>1
  <2> HIDE DEF Value
  <2> QED BY <1>4, <2>1, <2>2
<1> QED BY <1>5, <1>6 DEF after
\* A delay is never made shorter, and keeps the separation from the timeouts of
\* the class in a queue in order: where it moves, it moves past all before.
LEMMA DelayKeepsApart ==
  ASSUME NEW q \in Seq(EntryType), Sorted(q), NEW delay \in Int, NEW class \in Class,
         dispatched \in [Class -> Int]
  PROVE  /\ ClassDelay(q, delay, class) \in Int /\ ClassDelay(q, delay, class) >= delay
         /\ \A i \in 1 .. Len(q) : q[i].class = class =>
              \/ ClassDelay(q, delay, class) - q[i].left >= Separation
              \/ q[i].left - ClassDelay(q, delay, class) >= Separation
<1> DEFINE since == dispatched[class]
           first == IF since >= 0 /\ since + delay < Separation THEN Separation - since ELSE delay
           after == After(q, first, class)
           Away(d, i) == d - q[i].left >= Separation \/ q[i].left - d >= Separation
           Fits(k) == /\ after[k] \in Int /\ after[k] >= delay
                      /\ \A i \in 1 .. k : q[i].class = class => Away(after[k], i)
           Unfit == {k \in 0 .. Len(q) : ~Fits(k)}
<1>1. ClassDelay(q, delay, class) = after[Len(q)]
  BY DEF ClassDelay, After
<1>2. first \in Int /\ first >= delay
  BY DelayAssumption
<1>3. /\ after[0] = first
      /\ \A k \in 1 .. Len(q) :
           after[k] = IF q[k].class = class THEN AwayFrom(after[k - 1], q[k]) ELSE after[k - 1]
  <2> HIDE DEF first
  <2> QED BY <1>2, AfterDefined
<1> HIDE DEF after, first
<1>4. \A i \in 1 .. Len(q) : q[i].left \in Int
  BY LeftIsNumber
<1>5. Unfit = {}
  <2>1. SUFFICES ASSUME Unfit # {} PROVE FALSE
    OBVIOUS
  <2>2. Unfit \in SUBSET Nat
    OBVIOUS
  <2>3. PICK k \in Unfit : \A m \in Unfit : k <= m
    <3> HIDE DEF Unfit
    <3> QED BY <2>1, <2>2, LeastExists
  <2>4. k \in 0 .. Len(q) /\ ~Fits(k)
    BY <2>3
  <2>5. k # 0
    BY <1>2, <1>3, <2>4
  <2>6. Fits(k - 1)
    <3>1. k - 1 \in 0 .. Len(q) /\ k \in Nat /\ ~(k <= k - 1)
      BY <2>4, <2>5
    <3> HIDE DEF Fits
    <3>2. k - 1 \notin Unfit
      <4> HIDE DEF Unfit
      <4> QED BY <2>3, <3>1
    <3> QED BY <3>1, <3>2
  <2> DEFINE d == after[k - 1]
  <2>7. k \in 1 .. Len(q) /\ d \in Int /\ d >= delay /\ q[k].left \in Int
    BY <1>4, <2>4, <2>5, <2>6
  <2>8. \A i \in 1 .. k - 1 : i \in 1 .. Len(q) /\ q[i].left \in Int /\ q[i].left <= q[k].left
    BY <1>4, <2>7 DEF Sorted
  <2>9. \A i \in 1 .. k - 1 : q[i].class = class => Away(d, i)
    BY <2>6
  <2>10. CASE q[k].class = class /\ d - q[k].left < Separation /\ q[k].left - d < Separation
    <3>1. after[k] = q[k].left + Separation
      BY <1>3, <2>7, <2>10 DEF AwayFrom
    <3>2. after[k] \in Int /\ after[k] >= delay
      BY <3>1, <2>7, <2>10, DelayAssumption
    <3>3. ASSUME NEW i \in 1 .. k PROVE Away(after[k], i)
      <4>1. q[i].left \in Int /\ q[i].left <= q[k].left
        BY <2>7, <2>8
      <4> QED BY <3>1, <4>1, <2>7, DelayAssumption
    <3> QED BY <2>4, <3>2, <3>3
  <2>11. CASE q[k].class = class /\ (d - q[k].left >= Separation \/ q[k].left - d >= Separation)
    <3>1. after[k] = d
      BY <1>3, <2>7, <2>11, DelayAssumption DEF AwayFrom
    <3>2. ASSUME NEW i \in 1 .. k, q[i].class = class PROVE Away(after[k], i)
      <4>1. CASE i = k
        BY <3>1, <4>1, <2>11
      <4>2. CASE i # k
        BY <3>1, <3>2, <4>2, <2>7, <2>9
      <4> QED BY <4>1, <4>2
    <3> QED BY <2>4, <2>7, <3>1, <3>2
  <2>12. CASE q[k].class # class
    <3>1. after[k] = d
      BY <1>3, <2>7, <2>12
    <3>2. ASSUME NEW i \in 1 .. k, q[i].class = class PROVE Away(after[k], i)
      BY <3>1, <3>2, <2>7, <2>9, <2>12
    <3> QED BY <2>4, <2>7, <3>1, <3>2
  <2> QED BY <2>7, <2>10, <2>11, <2>12, DelayAssumption
<1>6. Fits(Len(q))
  <2>1. Len(q) \in 0 .. Len(q)
    OBVIOUS
  <2> HIDE DEF Fits
  <2> QED BY <1>5, <2>1
<1> QED BY <1>1, <1>6

-----------------------------------------------------------------------------
(* What the operations keep. *)

LEMMA InsertInOrder ==
  ASSUME NEW q, InOrder(q), NEW id \in TimeoutID, NEW left \in Int, NEW class \in Class,
         class = "SCH_NtpSamplingClass" =>
           \A i \in 1 .. Len(q) : q[i].class = class =>
             left - q[i].left >= Separation \/ q[i].left - left >= Separation
  PROVE  LET r == InsertAt(q, Place(q, left), Entry(id, left, class)) IN
         /\ InOrder(r) /\ Len(r) = Len(q) + 1
         /\ \A n \in Nat : DueWithin(q, n) /\ left > 0 => DueWithin(r, n)
<1> DEFINE p == Place(q, left)  e == Entry(id, left, class)  r == InsertAt(q, p, e)
<1>1. q \in Seq(EntryType) /\ Sorted(q) /\ Apart(q) /\ Len(q) \in Nat
  BY DEF InOrder
<1>2. /\ p \in 1 .. Len(q) + 1
      /\ \A i \in 1 .. Len(q) : i < p => q[i].left <= left
      /\ \A i \in 1 .. Len(q) : i >= p => left < q[i].left
  BY <1>1, PlaceInOrder
<1>3. e \in EntryType /\ e.left = left /\ e.class = class
  BY DEF Entry, EntryType
<1> HIDE DEF p, e
<1>4. /\ r \in Seq(EntryType) /\ Len(r) = Len(q) + 1
      /\ \A i \in 1 .. Len(q) + 1 : r[i] = IF i < p THEN q[i] ELSE IF i = p THEN e ELSE q[i - 1]
  <2>1. q \in Seq(EntryType) /\ p \in 1 .. Len(q) + 1 /\ e \in EntryType
    BY <1>1, <1>2, <1>3
  <2>2. Inserted(r, q, p, e)
    BY <2>1, InsertedAt
  <2> QED BY <2>2 DEF Inserted
<1> HIDE DEF r
<1>5. \A i \in 1 .. Len(q) : q[i].left \in Int
  BY <1>1, LeftIsNumber
<1> DEFINE Old(i) == IF i < p THEN i ELSE i - 1
<1>6. \A i \in 1 .. Len(r) : i # p => Old(i) \in 1 .. Len(q) /\ r[i] = q[Old(i)]
  BY <1>1, <1>2, <1>4
<1>7. \A i, j \in 1 .. Len(r) : i < j /\ i # p /\ j # p => Old(i) < Old(j)
  BY <1>1, <1>2, <1>4
<1>8. r[p] = e /\ p \in 1 .. Len(r)
  BY <1>2, <1>4
<1>9. \A i \in 1 .. Len(r) : i < p => r[i].left <= left /\ Old(i) = i
  BY <1>1, <1>2, <1>4
<1>10. \A i \in 1 .. Len(r) : i > p => left < r[i].left
  <2>1. ASSUME NEW i \in 1 .. Len(r), i > p PROVE left < r[i].left
    <3>1. i - 1 \in 1 .. Len(q) /\ i - 1 >= p /\ r[i] = q[i - 1]
      BY <2>1, <1>1, <1>2, <1>4
    <3> QED BY <3>1, <1>2
  <2> QED BY <2>1
<1>11. \A i \in 1 .. Len(r) : r[i].left \in Int
  BY <1>4, LeftIsNumber
<1>12. Sorted(r)
  <2>1. ASSUME NEW i \in 1 .. Len(r), NEW j \in 1 .. Len(r), i < j PROVE r[i].left <= r[j].left
    <3>1. CASE i # p /\ j # p
      <4>1. Old(i) \in 1 .. Len(q) /\ Old(j) \in 1 .. Len(q) /\ Old(i) < Old(j)
            /\ r[i] = q[Old(i)] /\ r[j] = q[Old(j)]
        BY <2>1, <3>1, <1>6, <1>7
      <4> HIDE DEF Old
      <4> QED BY <4>1, <1>1 DEF Sorted
    <3>2. CASE i = p
      BY <2>1, <3>2, <1>3, <1>8, <1>10, <1>11
    <3>3. CASE j = p
      BY <2>1, <3>3, <1>3, <1>8, <1>9, <1>11
    <3> QED BY <3>1, <3>2, <3>3
  <2> QED BY <2>1 DEF Sorted
<1>13. Apart(r)
  <2>1. ASSUME NEW i \in 1 .. Len(r), NEW j \in 1 .. Len(r), i < j, Sampling(r[i]), Sampling(r[j])
        PROVE  r[j].left - r[i].left >= Separation
    <3>1. CASE i # p /\ j # p
      <4>1. Old(i) \in 1 .. Len(q) /\ Old(j) \in 1 .. Len(q) /\ Old(i) < Old(j)
            /\ r[i] = q[Old(i)] /\ r[j] = q[Old(j)]
        BY <2>1, <3>1, <1>6, <1>7
      <4> HIDE DEF Old
      <4> QED BY <2>1, <4>1, <1>1 DEF Apart
    <3>2. CASE i = p
      <4>1. class = "SCH_NtpSamplingClass" /\ j # p /\ r[i].left = left
        BY <2>1, <3>2, <1>3, <1>8 DEF Sampling
      <4>2. Old(j) \in 1 .. Len(q) /\ r[j] = q[Old(j)] /\ left < r[j].left
        BY <2>1, <3>2, <4>1, <1>6, <1>10
      <4>3. left - r[j].left >= Separation \/ r[j].left - left >= Separation
        <5> HIDE DEF Old
        <5> QED BY <2>1, <4>1, <4>2 DEF Sampling
      <4> QED BY <4>1, <4>2, <4>3, <1>11, DelayAssumption
    <3>3. CASE j = p
      <4>1. class = "SCH_NtpSamplingClass" /\ i # p /\ r[j].left = left
        BY <2>1, <3>3, <1>3, <1>8 DEF Sampling
      <4>2. Old(i) \in 1 .. Len(q) /\ r[i] = q[Old(i)] /\ r[i].left <= left
        BY <2>1, <3>3, <4>1, <1>6, <1>9
      <4>3. left - r[i].left >= Separation \/ r[i].left - left >= Separation
        <5> HIDE DEF Old
        <5> QED BY <2>1, <4>1, <4>2 DEF Sampling
      <4> QED BY <4>1, <4>2, <4>3, <1>11, DelayAssumption
    <3> QED BY <3>1, <3>2, <3>3
  <2> QED BY <2>1 DEF Apart
<1>14. ASSUME NEW n \in Nat, DueWithin(q, n), left > 0 PROVE DueWithin(r, n)
  <2>1. ASSUME NEW i \in 1 .. Len(r), i > n PROVE r[i].left > 0
    <3>1. CASE i < p
      BY <2>1, <3>1, <1>1, <1>2, <1>4, <1>14 DEF DueWithin
    <3>2. CASE i = p
      BY <3>2, <1>3, <1>8, <1>14
    <3>3. CASE i > p
      BY <3>3, <1>10, <1>11, <1>14
    <3> QED BY <3>1, <3>2, <3>3, <1>2
  <2> QED BY <2>1 DEF DueWithin
<1> QED BY <1>4, <1>12, <1>13, <1>14 DEF InOrder, r, p, e

LEMMA RemoveInOrder ==
  ASSUME NEW q, InOrder(q), NEW p \in 1 .. Len(q)
  PROVE  /\ InOrder(RemoveAt(q, p)) /\ Len(RemoveAt(q, p)) = Len(q) - 1
         /\ \A n \in Nat : DueWithin(q, n) => DueWithin(RemoveAt(q, p), n)
<1> DEFINE r == RemoveAt(q, p)  Old(i) == IF i < p THEN i ELSE i + 1
<1>1. q \in Seq(EntryType) /\ Sorted(q) /\ Apart(q) /\ Len(q) \in Nat
  BY DEF InOrder
<1>2. /\ r \in Seq(EntryType) /\ Len(r) = Len(q) - 1
      /\ \A i \in 1 .. Len(q) - 1 : r[i] = IF i < p THEN q[i] ELSE q[i + 1]
  BY <1>1, RemovedAt
<1> HIDE DEF r
<1>3. \A i \in 1 .. Len(r) : Old(i) \in 1 .. Len(q) /\ r[i] = q[Old(i)] /\ Old(i) >= i
  BY <1>1, <1>2
<1>4. \A i, j \in 1 .. Len(r) : i < j => Old(i) < Old(j)
  BY <1>1, <1>2
<1>5. \A i \in 1 .. Len(r) : Old(i) \in Int
  BY <1>3
<1> HIDE DEF Old
<1>6. Sorted(r) /\ Apart(r)
  BY <1>1, <1>3, <1>4 DEF Sorted, Apart
<1>7. ASSUME NEW n \in Nat, DueWithin(q, n) PROVE DueWithin(r, n)
  <2>1. ASSUME NEW i \in 1 .. Len(r), i > n PROVE r[i].left > 0
    BY <2>1, <1>3, <1>5, <1>7 DEF DueWithin
  <2> QED BY <2>1 DEF DueWithin
<1> QED BY <1>2, <1>6, <1>7 DEF InOrder, r

LEMMA TailInOrder ==
  ASSUME NEW q, InOrder(q), q # <<>>
  PROVE  /\ InOrder(Tail(q)) /\ Len(Tail(q)) = Len(q) - 1
         /\ \A n \in Nat : DueWithin(q, n) /\ q[1].left <= 0 =>
              n - 1 \in Nat /\ DueWithin(Tail(q), n - 1)
<1>1. q \in Seq(EntryType) /\ Sorted(q) /\ Apart(q) /\ Len(q) \in Nat /\ 1 \in 1 .. Len(q)
  BY DEF InOrder
<1> DEFINE r == Tail(q)
<1>2. /\ r \in Seq(EntryType) /\ Len(r) = Len(q) - 1
      /\ \A i \in 1 .. Len(r) : r[i] = q[i + 1]
  BY <1>1
<1> HIDE DEF r
<1>3. \A i \in 1 .. Len(r) : i + 1 \in 1 .. Len(q)
  BY <1>1, <1>2
<1>4. Sorted(r)
  <2>1. ASSUME NEW i \in 1 .. Len(r), NEW j \in 1 .. Len(r), i < j PROVE r[i].left <= r[j].left
    BY <2>1, <1>1, <1>2, <1>3 DEF Sorted
  <2> QED BY <2>1 DEF Sorted
<1>5. Apart(r)
  <2>1. ASSUME NEW i \in 1 .. Len(r), NEW j \in 1 .. Len(r), i < j, Sampling(r[i]), Sampling(r[j])
        PROVE  r[j].left - r[i].left >= Separation
    <3>1. i + 1 \in 1 .. Len(q) /\ j + 1 \in 1 .. Len(q) /\ i + 1 < j + 1
          /\ r[i] = q[i + 1] /\ r[j] = q[j + 1]
      BY <2>1, <1>2, <1>3
    <3> QED BY <2>1, <3>1, <1>1 DEF Apart
  <2> QED BY <2>1 DEF Apart
<1>6. ASSUME NEW n \in Nat, DueWithin(q, n), q[1].left <= 0
      PROVE  n - 1 \in Nat /\ DueWithin(r, n - 1)
  <2>1. n # 0
    BY <1>1, <1>6, LeftIsNumber DEF DueWithin
  <2>2. ASSUME NEW i \in 1 .. Len(r), i > n - 1 PROVE r[i].left > 0
    BY <2>2, <1>2, <1>3, <1>6 DEF DueWithin
  <2> QED BY <2>1, <2>2 DEF DueWithin
<1> QED BY <1>2, <1>4, <1>5, <1>6 DEF InOrder, r

LEMMA ShiftInOrder ==
  ASSUME NEW q, InOrder(q), NEW by \in Int
  PROVE  InOrder(QueueShifted(q, by)) /\ Len(QueueShifted(q, by)) = Len(q)
<1> DEFINE r == QueueShifted(q, by)
<1>1. q \in Seq(EntryType) /\ Sorted(q) /\ Apart(q) /\ Len(q) \in Nat
  BY DEF InOrder
<1>2. \A i \in 1 .. Len(q) : q[i] \in EntryType /\ q[i].left \in Int
  BY <1>1, LeftIsNumber
<1>3. \A e \in EntryType : LET f == [e EXCEPT !.left = @ + by] IN
        f \in EntryType /\ f.left = e.left + by /\ f.class = e.class
  BY DEF EntryType
<1>4. r = [i \in 1 .. Len(q) |-> [q[i] EXCEPT !.left = @ + by]]
  BY DEF QueueShifted
<1> HIDE DEF r
<1>5. r \in Seq(EntryType) /\ Len(r) = Len(q)
  <2>1. r \in [1 .. Len(q) -> EntryType]
    BY <1>2, <1>3, <1>4
  <2> QED BY <1>1, <2>1
<1>6. \A i \in 1 .. Len(r) : r[i].left = q[i].left + by /\ r[i].class = q[i].class
  BY <1>2, <1>3, <1>4, <1>5
<1>7. Sorted(r)
  <2>1. ASSUME NEW i \in 1 .. Len(r), NEW j \in 1 .. Len(r), i < j PROVE r[i].left <= r[j].left
    <3>1. q[i].left <= q[j].left /\ q[i].left \in Int /\ q[j].left \in Int
      BY <2>1, <1>1, <1>2, <1>5 DEF Sorted
    <3>2. r[i].left = q[i].left + by /\ r[j].left = q[j].left + by
      BY <1>6
    <3> QED BY <3>1, <3>2
  <2> QED BY <2>1 DEF Sorted
<1>8. Apart(r)
  <2>1. ASSUME NEW i \in 1 .. Len(r), NEW j \in 1 .. Len(r), i < j, Sampling(r[i]), Sampling(r[j])
        PROVE  r[j].left - r[i].left >= Separation
    <3>1. q[j].left - q[i].left >= Separation /\ q[i].left \in Int /\ q[j].left \in Int
      BY <2>1, <1>1, <1>2, <1>5, <1>6 DEF Apart, Sampling
    <3>2. r[j].left - r[i].left = q[j].left - q[i].left
      BY <3>1, <1>6
    <3> QED BY <3>1, <3>2
  <2> QED BY <2>1 DEF Apart
<1> QED BY <1>5, <1>7, <1>8 DEF InOrder, r

\* One call of a handler.
LEMMA CallInOrder ==
  ASSUME NEW q, InOrder(q), NEW new \in SUBSET TimeoutID, QueueCall(q, new), dispatched \in [Class -> Int]
  PROVE  /\ InOrder(queue') /\ Len(queue') <= Len(q) + 1
         /\ \A n \in Nat : DueWithin(q, n) /\ (\A d \in Delays : d > 0) => DueWithin(queue', n)
<1>1. q \in Seq(EntryType) /\ Sorted(q) /\ Len(q) \in Nat
  BY DEF InOrder
<1>2. CASE queue' = q
  BY <1>1, <1>2
<1>3. ASSUME NEW id \in new, NEW delay \in Delays, queue' = AddTimeout(q, id, delay)
      PROVE  /\ InOrder(queue') /\ Len(queue') <= Len(q) + 1
             /\ \A n \in Nat : DueWithin(q, n) /\ (\A d \in Delays : d > 0) => DueWithin(queue', n)
  <2>1. "SCH_ReservedTimeoutValue" \in Class /\ delay \in Int /\ id \in TimeoutID
    BY DelayAssumption DEF Class
  <2>2. queue' = InsertAt(q, Place(q, delay), Entry(id, delay, "SCH_ReservedTimeoutValue"))
    BY <1>3 DEF AddTimeout
  <2>3. /\ InOrder(queue') /\ Len(queue') = Len(q) + 1
        /\ \A n \in Nat : DueWithin(q, n) /\ delay > 0 => DueWithin(queue', n)
    BY <2>1, <2>2, InsertInOrder
  <2> QED BY <1>1, <2>3
<1>4. ASSUME NEW id \in new, NEW delay \in Delays,
             queue' = AddTimeoutInClass(q, id, delay, "SCH_NtpSamplingClass")
      PROVE  /\ InOrder(queue') /\ Len(queue') <= Len(q) + 1
             /\ \A n \in Nat : DueWithin(q, n) /\ (\A d \in Delays : d > 0) => DueWithin(queue', n)
  <2> DEFINE class == "SCH_NtpSamplingClass"  d == ClassDelay(q, delay, class)
  <2>1. class \in Class /\ delay \in Int /\ id \in TimeoutID
    BY DelayAssumption DEF Class
  <2>2. queue' = InsertAt(q, Place(q, d), Entry(id, d, class))
    BY <1>4 DEF AddTimeoutInClass
  <2>3. /\ d \in Int /\ d >= delay
        /\ \A i \in 1 .. Len(q) : q[i].class = class => d - q[i].left >= Separation \/ q[i].left - d >= Separation
    BY <1>1, <2>1, DelayKeepsApart
  <2> HIDE DEF d, class
  <2>4. /\ InOrder(queue') /\ Len(queue') = Len(q) + 1
        /\ \A n \in Nat : DueWithin(q, n) /\ d > 0 => DueWithin(queue', n)
    BY <2>1, <2>2, <2>3, InsertInOrder
  <2> QED BY <1>1, <2>1, <2>3, <2>4
<1>5. ASSUME NEW id \in Ids(q), queue' = RemoveTimeout(q, id)
      PROVE  /\ InOrder(queue') /\ Len(queue') <= Len(q) + 1
             /\ \A n \in Nat : DueWithin(q, n) /\ (\A d \in Delays : d > 0) => DueWithin(queue', n)
  <2> DEFINE S == {i \in 1 .. Len(q) : q[i].id = id}
  <2>1. S # {} /\ S \in SUBSET (1 .. Len(q))
    BY DEF Ids
  <2>2. queue' = RemoveAt(q, IF S # {} THEN Min(S) ELSE 0)
    BY <1>5 DEF RemoveTimeout, SelectInSeq
  <2>3. Min(S) \in S
    <3> HIDE DEF S
    <3> QED BY <1>1, <2>1, FirstIndex
  <2>4. Min(S) \in 1 .. Len(q) /\ queue' = RemoveAt(q, Min(S))
    BY <2>1, <2>2, <2>3
  <2> HIDE DEF S
  <2>5. /\ InOrder(queue') /\ Len(queue') = Len(q) - 1
        /\ \A n \in Nat : DueWithin(q, n) => DueWithin(queue', n)
    BY <2>4, RemoveInOrder
  <2> QED BY <1>1, <2>5
<1> QED BY <1>2, <1>3, <1>4, <1>5 DEF QueueCall

-----------------------------------------------------------------------------
(* Descriptors. *)

\* one_highest_fd is above the registered descriptors again after a removal, and not
\* above what it was.
LEMMA HighestIsAbove ==
  ASSUME NEW S \in SUBSET Fd
  PROVE  /\ HighestLeft(S) \in Nat /\ \A fd \in S : fd < HighestLeft(S)
         /\ \A n \in Nat : (\A fd \in S : fd < n) => HighestLeft(S) <= n
<1>1. FD_SET_SIZE \in Nat /\ S \in SUBSET (0 .. FD_SET_SIZE) /\ S \in SUBSET Nat
  BY FdAssumption
<1>2. CASE S = {}
  BY <1>2 DEF HighestLeft, Highest
<1>3. CASE S # {}
  <2>1. Max(S) \in S /\ \A fd \in S : Max(S) >= fd
    BY <1>1, <1>3, LargestExists
  <2>2. PICK m \in Nat : m = Max(S)
    BY <1>1, <2>1
  <2>3. HighestLeft(S) = m + 1
    BY <1>3, <2>2 DEF HighestLeft, Highest
  <2>4. \A fd \in S : fd \in Nat /\ fd <= m
    BY <1>1, <2>1, <2>2
  <2> QED BY <2>1, <2>2, <2>3, <2>4
<1> QED BY <1>2, <1>3

LEMMA RemovalKeepsBelow ==
  ASSUME QueueIInv, NEW fd, RemoveInputFileHandler(fd)
  PROVE  /\ read_fds' \subseteq Fd /\ one_highest_fd' \in Nat /\ AllBelow'
         /\ one_highest_fd' <= one_highest_fd /\ fd \in Nat
         /\ fd = one_highest_fd - 1 => one_highest_fd' < one_highest_fd
<1>1. read_fds \subseteq Fd /\ one_highest_fd \in Nat /\ \A x \in read_fds : x < one_highest_fd
  BY DEF QueueIInv, SchedulerTypeOK, AllBelow
<1>2. read_fds' = read_fds \ {fd} /\ one_highest_fd' = HighestLeft(read_fds') /\ fd \in read_fds
  BY DEF RemoveInputFileHandler
<1>3. \A x \in read_fds : x \in Nat
  BY <1>1, FdAssumption
<1>4. /\ one_highest_fd' \in Nat /\ \A x \in read_fds' : x < one_highest_fd'
      /\ \A n \in Nat : (\A x \in read_fds' : x < n) => one_highest_fd' <= n
  BY <1>1, <1>2, HighestIsAbove
<1>5. one_highest_fd' <= one_highest_fd
  BY <1>1, <1>2, <1>4
<1>6. ASSUME fd = one_highest_fd - 1 PROVE one_highest_fd' < one_highest_fd
  <2>1. fd \in Nat /\ \A x \in read_fds' : x < fd
    BY <1>1, <1>2, <1>3, <1>6
  <2> QED BY <2>1, <1>1, <1>4, <1>6
<1> QED BY <1>1, <1>2, <1>3, <1>4, <1>5, <1>6 DEF AllBelow

LEMMA AdditionKeepsBelow ==
  ASSUME QueueIInv, NEW fd \in Fd, AddInputFileHandler(fd)
  PROVE  read_fds' \subseteq Fd /\ one_highest_fd' \in Nat /\ AllBelow'
<1>1. read_fds \subseteq Fd /\ one_highest_fd \in Nat /\ \A x \in read_fds : x < one_highest_fd
  BY DEF QueueIInv, SchedulerTypeOK, AllBelow
<1>2. \A x \in Fd : x \in Nat
  BY FdAssumption
<1> QED BY <1>1, <1>2 DEF AddInputFileHandler, AllBelow

-----------------------------------------------------------------------------
(* The steps. *)

\* What Rounds leaves, after handlers that were or were not called.
LEMMA RoundsStep ==
  ASSUME SchedulerTypeOK, NEW ready \in SUBSET Fd, Rounds(ready),
         queue' \in Seq(EntryType), read_fds' \subseteq Fd, need_to_exit' \in BOOLEAN
  PROVE  /\ phase' \in {"timeouts", "files", "exited"} /\ rd' \subseteq Fd
         /\ n_done' = n_done /\ busy' = busy /\ n_entries_on_start' \in Nat
         /\ phase' = "timeouts" => rd' = read_fds' /\ n_entries_on_start' = Len(queue')
<1>1. CASE ready # {}
  BY <1>1 DEF Rounds, round, SchedulerTypeOK
<1>2. CASE ready = {}
  BY <1>2 DEF Rounds, SchedulerTypeOK
<1> QED BY <1>1, <1>2

LEMMA SchedulerInitStep == SchedulerInit => QueueIInv
<1> SUFFICES ASSUME SchedulerInit PROVE QueueIInv
  OBVIOUS
<1>1. PICK id \in TimeoutID, delay \in Delays : queue = <<Entry(id, delay, "SCH_ReservedTimeoutValue")>>
  BY DEF SchedulerInit
<1>2. Entry(id, delay, "SCH_ReservedTimeoutValue") \in EntryType
  BY DelayAssumption DEF Entry, EntryType, Class
<1>3. InOrder(queue)
  BY <1>1, <1>2 DEF InOrder, Sorted, Apart
<1>4. AllBelow /\ one_highest_fd \in Nat
  <2>1. read_fds \in SUBSET Fd /\ one_highest_fd = HighestLeft(read_fds)
    BY DEF SchedulerInit, HighestLeft
  <2> QED BY <2>1, HighestIsAbove DEF AllBelow
<1>5. SchedulerTypeOK
  <2>1. Separation \in Int /\ MaxBusy \in Nat
    BY DelayAssumption, BusyAssumption
  <2>2. dispatched \in [Class -> Int]
    BY <2>1 DEF SchedulerInit
  <2>3. read_fds \subseteq Fd /\ rd \subseteq Fd /\ need_to_exit \in BOOLEAN
    BY Zenon DEF SchedulerInit
  <2>5. busy \in 0 .. MaxBusy
    BY <2>1 DEF SchedulerInit
  <2>4. queue \in Seq(EntryType)
    BY <1>3 DEF InOrder
  <2> QED BY <1>4, <2>2, <2>3, <2>4, <2>5 DEF SchedulerInit, SchedulerTypeOK
<1> QED BY <1>3, <1>4, <1>5 DEF QueueIInv, SchedulerInit, CopyIsOpen

\* A call of a timeout handler, before the queue was q.
LEMMA TimeoutHandlerStep ==
  ASSUME QueueIInv, NEW q, InOrder(q), TimeoutHandler(q), phase = "timeouts", rd' = rd
  PROVE  /\ InOrder(queue') /\ Len(queue') <= Len(q) + 1
         /\ \A n \in Nat : DueWithin(q, n) /\ (\A d \in Delays : d > 0) => DueWithin(queue', n)
         /\ read_fds' \subseteq Fd /\ one_highest_fd' \in Nat /\ AllBelow'
         /\ need_to_exit' \in BOOLEAN
         /\ {fd \in rd : fd < one_highest_fd'} \subseteq read_fds'
<1>1. /\ read_fds \subseteq Fd /\ one_highest_fd \in Nat /\ AllBelow /\ rd \subseteq Fd
      /\ need_to_exit \in BOOLEAN /\ dispatched \in [Class -> Int]
      /\ {fd \in rd : fd < one_highest_fd} \subseteq read_fds
  BY DEF QueueIInv, SchedulerTypeOK, CopyIsOpen
<1>2. Len(q) \in Nat
  BY DEF InOrder
<1>3. CASE QueueCall(q, TimeoutID \ Ids(queue)) /\ UNCHANGED <<fds, need_to_exit>>
  <2>1. TimeoutID \ Ids(queue) \in SUBSET TimeoutID
    OBVIOUS
  <2>2. /\ InOrder(queue') /\ Len(queue') <= Len(q) + 1
        /\ \A n \in Nat : DueWithin(q, n) /\ (\A d \in Delays : d > 0) => DueWithin(queue', n)
    BY <1>1, <1>3, <2>1, CallInOrder
  <2> QED BY <1>1, <1>3, <2>2 DEF fds, AllBelow
<1>4. CASE QuitProgram(q) /\ UNCHANGED fds
  BY <1>1, <1>2, <1>4 DEF fds, AllBelow, QuitProgram
<1>5. CASE queue' = q /\ RemoveInputFileHandler(one_highest_fd - 1) /\ UNCHANGED need_to_exit
  <2>1. /\ read_fds' \subseteq Fd /\ one_highest_fd' \in Nat /\ AllBelow'
        /\ one_highest_fd' < one_highest_fd /\ one_highest_fd - 1 \in Nat
    BY <1>5, RemovalKeepsBelow
  <2>2. read_fds' = read_fds \ {one_highest_fd - 1}
    BY <1>5 DEF RemoveInputFileHandler
  <2>3. ASSUME NEW fd \in rd, fd < one_highest_fd' PROVE fd \in read_fds'
    <3>1. fd \in Nat
      BY <1>1, FdAssumption
    <3>2. fd < one_highest_fd /\ fd # one_highest_fd - 1
      BY <1>1, <2>1, <2>3, <3>1
    <3> QED BY <1>1, <2>2, <3>2
  <2> QED BY <1>1, <1>2, <1>5, <2>1, <2>3
<1> QED BY <1>3, <1>4, <1>5 DEF TimeoutHandler

LEMMA DispatchTimeoutStep ==
  ASSUME QueueIInv, DispatchTimeout
  PROVE  QueueIInv'
<1>1. SchedulerTypeOK /\ InOrder(queue) /\ queue # <<>> /\ queue[1].left <= 0
  BY DEF QueueIInv, DispatchTimeout, Due
<1>2. InOrder(Tail(queue))
  BY <1>1, TailInOrder
<1>3. TimeoutHandler(Tail(queue)) /\ phase = "timeouts" /\ rd' = rd
  BY DEF DispatchTimeout
<1>4. /\ InOrder(queue')
      /\ read_fds' \subseteq Fd /\ one_highest_fd' \in Nat /\ AllBelow'
      /\ need_to_exit' \in BOOLEAN
      /\ {fd \in rd : fd < one_highest_fd'} \subseteq read_fds'
  BY <1>2, <1>3, TimeoutHandlerStep
<1>5. phase' \in {"timeouts", "fatal"}
  BY DEF DispatchTimeout
<1>6. /\ dispatched' \in [Class -> Int] /\ elapsed' = elapsed /\ jump' = jump
      /\ n_done' \in Nat /\ n_entries_on_start' = n_entries_on_start /\ busy' = busy
  <2>1. dispatched' = [dispatched EXCEPT ![queue[1].class] = 0] /\ n_done' = n_done + 1
        /\ UNCHANGED <<elapsed, jump, rd, n_entries_on_start, busy>>
    BY DEF DispatchTimeout
  <2>2. dispatched \in [Class -> Int] /\ n_done \in Nat
    BY <1>1 DEF SchedulerTypeOK
  <2>3. n_done' \in Nat
    BY <2>1, <2>2
  <2>4. dispatched' \in [Class -> Int]
    <3>1. 1 \in 1 .. Len(queue) /\ queue \in Seq(EntryType)
      BY <1>1 DEF InOrder
    <3>2. queue[1] \in EntryType
      BY <3>1, LeftIsNumber
    <3>3. PICK c \in Class : c = queue[1].class
      BY <3>2 DEF EntryType
    <3> QED BY <2>1, <2>2, <3>3
  <2> QED BY <2>1, <2>3, <2>4
<1>7. SchedulerTypeOK'
  BY <1>1, <1>3, <1>4, <1>5, <1>6 DEF SchedulerTypeOK, InOrder
<1> QED BY <1>3, <1>4, <1>7 DEF QueueIInv, CopyIsOpen

LEMMA EndTimeoutsStep ==
  ASSUME QueueIInv, EndTimeouts
  PROVE  QueueIInv'
<1>1. MaxBusy \in Nat
  BY BusyAssumption
<1>2. phase = "timeouts" /\ phase' \in {"select", "fatal"} /\ UNCHANGED <<queue, clock, fds, rd, need_to_exit>>
      /\ n_done' = 0 /\ n_entries_on_start' = 0 /\ busy' = 0
  BY DEF EndTimeouts
<1> QED BY <1>1, <1>2 DEF QueueIInv, SchedulerTypeOK, InOrder, Sorted, Apart, AllBelow, CopyIsOpen, clock, fds

LEMMA RecoverKeeps ==
  ASSUME QueueIInv, Recover
  PROVE  InOrder(queue') /\ dispatched' \in [Class -> Int] /\ Len(queue') = Len(queue)
<1>1. /\ InOrder(queue) /\ queue \in Seq(EntryType) /\ jump \in Int /\ elapsed \in Int
      /\ dispatched \in [Class -> Int] /\ Separation \in Int
  BY DelayAssumption DEF QueueIInv, SchedulerTypeOK
<1>2. CASE ~Backjump
  <2>1. queue' = QueueShifted(queue, jump) /\ dispatched' = [c \in Class |-> dispatched[c] - jump]
    BY <1>2 DEF Recover
  <2> QED BY <1>1, <2>1, ShiftInOrder
<1>3. CASE Backjump
  <2> DEFINE left == IF queue = <<>> THEN -elapsed ELSE queue[1].left
  <2>1. queue' = QueueShifted(queue, -left) /\ dispatched' = [c \in Class |-> Min({Separation, dispatched[c] + left})]
    BY <1>3 DEF Recover
  <2>2. left \in Int
    <3>1. CASE queue = <<>>
      BY <1>1, <3>1
    <3>2. CASE queue # <<>>
      <4>1. 1 \in 1 .. Len(queue)
        BY <1>1, <3>2
      <4> QED BY <1>1, <3>2, <4>1, LeftIsNumber
    <3> QED BY <3>1, <3>2
  <2> HIDE DEF left
  <2>3. -left \in Int
    BY <2>2
  <2>4. InOrder(QueueShifted(queue, -left)) /\ Len(QueueShifted(queue, -left)) = Len(queue)
    BY <1>1, <2>3, ShiftInOrder
  <2>5. ASSUME NEW c \in Class PROVE Min({Separation, dispatched[c] + left}) \in Int
    <3>1. dispatched[c] + left \in Int
      BY <1>1, <2>2
    <3> QED BY <1>1, <3>1, LesserOfTwo
  <2> QED BY <2>1, <2>4, <2>5
<1> QED BY <1>2, <1>3

LEMMA SelectReturnsStep ==
  ASSUME QueueIInv, SelectReturns
  PROVE  QueueIInv'
<1>1. SchedulerTypeOK /\ AllBelow /\ read_fds' = read_fds /\ one_highest_fd' = one_highest_fd
      /\ elapsed' = 0 /\ jump' = 0
  BY DEF QueueIInv, SelectReturns, fds
<1>2. InOrder(queue') /\ dispatched' \in [Class -> Int]
  BY RecoverKeeps DEF SelectReturns
<1>3. \E ready \in SUBSET Fd : Rounds(ready) /\ need_to_exit' \in BOOLEAN
  <2>1. rd \subseteq Fd /\ need_to_exit \in BOOLEAN
    BY <1>1 DEF SchedulerTypeOK
  <2>2. CASE \E ready \in SUBSET {fd \in rd : fd < one_highest_fd} \ {{}} : UNCHANGED need_to_exit /\ Rounds(ready)
    BY <2>1, <2>2
  <2>3. CASE Due /\ UNCHANGED need_to_exit /\ Rounds({})
    BY <2>1, <2>3
  <2>4. CASE need_to_exit' = TRUE /\ Rounds({})
    BY <2>4
  <2> QED BY <2>2, <2>3, <2>4 DEF SelectReturns
<1>4. PICK ready \in SUBSET Fd : Rounds(ready) /\ need_to_exit' \in BOOLEAN
  BY <1>3
<1>5. queue' \in Seq(EntryType) /\ read_fds' \subseteq Fd
  BY <1>1, <1>2 DEF SchedulerTypeOK, InOrder
<1>6. /\ phase' \in {"timeouts", "files", "exited"} /\ rd' \subseteq Fd
      /\ n_done' = n_done /\ busy' = busy /\ n_entries_on_start' \in Nat
      /\ phase' = "timeouts" => rd' = read_fds' /\ n_entries_on_start' = Len(queue')
  BY <1>1, <1>4, <1>5, RoundsStep
<1>7. SchedulerTypeOK'
  BY <1>1, <1>2, <1>4, <1>5, <1>6 DEF SchedulerTypeOK
<1> QED BY <1>1, <1>2, <1>6, <1>7 DEF QueueIInv, AllBelow, CopyIsOpen

\* A call of a file handler.
LEMMA FileHandlerStep ==
  ASSUME QueueIInv, FileHandler
  PROVE  /\ InOrder(queue') /\ read_fds' \subseteq Fd /\ one_highest_fd' \in Nat /\ AllBelow'
         /\ need_to_exit' \in BOOLEAN
<1>1. /\ InOrder(queue) /\ dispatched \in [Class -> Int] /\ need_to_exit \in BOOLEAN
      /\ read_fds \subseteq Fd /\ one_highest_fd \in Nat /\ AllBelow
  BY DEF QueueIInv, SchedulerTypeOK
<1>2. CASE QueueCall(queue, TimeoutID \ Ids(queue)) /\ UNCHANGED <<fds, need_to_exit>>
  <2>1. TimeoutID \ Ids(queue) \in SUBSET TimeoutID
    OBVIOUS
  <2>2. InOrder(queue')
    BY <1>1, <1>2, <2>1, CallInOrder
  <2> QED BY <1>1, <1>2, <2>2 DEF fds, AllBelow
<1>3. CASE QuitProgram(queue) /\ UNCHANGED fds
  BY <1>1, <1>3 DEF fds, AllBelow, QuitProgram
<1>4. ASSUME NEW fd \in Fd, AddInputFileHandler(fd) \/ RemoveInputFileHandler(fd),
             UNCHANGED <<queue, need_to_exit>>
      PROVE  /\ InOrder(queue') /\ read_fds' \subseteq Fd /\ one_highest_fd' \in Nat /\ AllBelow'
             /\ need_to_exit' \in BOOLEAN
  <2>1. read_fds' \subseteq Fd /\ one_highest_fd' \in Nat /\ AllBelow'
    BY <1>4, AdditionKeepsBelow, RemovalKeepsBelow
  <2> QED BY <1>1, <1>4, <2>1
<1> QED BY <1>2, <1>3, <1>4 DEF FileHandler

LEMMA DispatchFileStep ==
  ASSUME QueueIInv, DispatchFile
  PROVE  QueueIInv'
<1>1. SchedulerTypeOK /\ UNCHANGED clock
  BY DEF QueueIInv, DispatchFile
<1>2. /\ InOrder(queue') /\ read_fds' \subseteq Fd /\ one_highest_fd' \in Nat /\ AllBelow'
      /\ need_to_exit' \in BOOLEAN
  BY FileHandlerStep DEF DispatchFile
<1>3. PICK ready \in SUBSET Fd : Rounds(ready)
  BY <1>1 DEF DispatchFile, SchedulerTypeOK
<1>4. queue' \in Seq(EntryType)
  BY <1>2 DEF InOrder
<1>5. /\ phase' \in {"timeouts", "files", "exited"} /\ rd' \subseteq Fd
      /\ n_done' = n_done /\ busy' = busy /\ n_entries_on_start' \in Nat
      /\ phase' = "timeouts" => rd' = read_fds' /\ n_entries_on_start' = Len(queue')
  BY <1>1, <1>2, <1>3, <1>4, RoundsStep
<1>6. SchedulerTypeOK'
  BY <1>1, <1>2, <1>4, <1>5 DEF SchedulerTypeOK, clock
<1> QED BY <1>2, <1>5, <1>6 DEF QueueIInv, CopyIsOpen

LEMMA TimePassesStep ==
  ASSUME QueueIInv, TimePasses
  PROVE  QueueIInv'
<1>1. SchedulerTypeOK /\ InOrder(queue)
  BY DEF QueueIInv
<1>2. queue' = QueueShifted(queue, -1) /\ -1 \in Int
  BY DEF TimePasses
<1>3. InOrder(queue')
  BY <1>1, <1>2, ShiftInOrder
<1>4. dispatched' \in [Class -> Int]
  <2>1. ASSUME NEW c \in Class PROVE Min({Separation, dispatched[c] + 1}) \in Int
    <3>1. dispatched[c] + 1 \in Int /\ Separation \in Int
      BY <1>1, DelayAssumption DEF SchedulerTypeOK
    <3> QED BY <3>1, LesserOfTwo
  <2> QED BY <2>1 DEF TimePasses
<1>5. /\ busy' \in 0 .. MaxBusy /\ elapsed' \in Nat
      /\ UNCHANGED <<phase, jump, fds, rd, n_done, n_entries_on_start, need_to_exit>>
  BY <1>1, BusyAssumption DEF TimePasses, SchedulerTypeOK
<1>6. SchedulerTypeOK'
  BY <1>1, <1>3, <1>4, <1>5 DEF SchedulerTypeOK, InOrder, fds
<1> QED BY <1>3, <1>5, <1>6 DEF QueueIInv, AllBelow, CopyIsOpen, fds

LEMMA ClockJumpsBackStep ==
  ASSUME QueueIInv, ClockJumpsBack
  PROVE  QueueIInv'
<1>1. jump' \in Nat /\ UNCHANGED <<phase, queue, dispatched, elapsed, fds, rd, round, need_to_exit>>
  BY DelayAssumption DEF ClockJumpsBack
<1> QED BY <1>1 DEF QueueIInv, SchedulerTypeOK, InOrder, Sorted, Apart, AllBelow, CopyIsOpen, fds, round

LEMMA QueueIInvNext == QueueIInv /\ [SchedulerNext]_schedulerVars => QueueIInv'
<1> SUFFICES ASSUME QueueIInv, [SchedulerNext]_schedulerVars PROVE QueueIInv'
  OBVIOUS
<1>1. CASE UNCHANGED schedulerVars
  BY <1>1 DEF schedulerVars, clock, fds, round, QueueIInv, SchedulerTypeOK, InOrder, Sorted, Apart, AllBelow, CopyIsOpen
<1> QED BY <1>1, DispatchTimeoutStep, EndTimeoutsStep, SelectReturnsStep, DispatchFileStep,
           TimePassesStep, ClockJumpsBackStep DEF SchedulerNext

-----------------------------------------------------------------------------
(* The guard of dispatch_timeouts. *)

\* How many timeouts a round has, for the times that handlers may take.
LEMMA Budget ==
  ASSUME NEW n \in Nat, NEW b \in 0 .. 3
  PROVE  n * (b + 1) \in Nat /\ n * (b + 1) <= n * 4 /\ n * (b + 1) + n = n * (b + 1 + 1) /\ n <= n * (b + 1)
<1>1. b = 0 \/ b = 1 \/ b = 2 \/ b = 3
  OBVIOUS
<1> QED BY <1>1

LEMMA FewAtStart ==
  ASSUME NEW q \in Seq(EntryType), NEW b \in 0 .. 3
  PROVE  \E n \in Nat : DueWithin(q, n) /\ 0 + n <= Len(q) * (b + 1)
<1>1. Len(q) \in Nat /\ DueWithin(q, Len(q))
  BY DEF DueWithin
<1> QED BY <1>1, Budget

LEMMA FewAreDueNext ==
  ASSUME QueueIInv, FewAreDue, [SchedulerNext]_schedulerVars, \A d \in Delays : d > 0, MaxBusy <= 3
  PROVE  FewAreDue'
<1>1. /\ SchedulerTypeOK /\ InOrder(queue) /\ queue \in Seq(EntryType) /\ Len(queue) \in Nat
      /\ n_done \in Nat /\ n_entries_on_start \in Nat /\ busy \in 0 .. 3
  BY BusyAssumption DEF QueueIInv, SchedulerTypeOK
<1>2. QueueIInv' /\ queue' \in Seq(EntryType) /\ busy' \in 0 .. 3
  BY QueueIInvNext, BusyAssumption DEF QueueIInv, SchedulerTypeOK
<1>3. CASE DispatchTimeout
  <2>1. /\ phase = "timeouts" /\ queue # <<>> /\ queue[1].left <= 0 /\ rd' = rd
        /\ TimeoutHandler(Tail(queue)) /\ n_done' = n_done + 1
        /\ phase' = IF TooMany(n_done', Len(queue')) THEN "fatal" ELSE phase
        /\ n_entries_on_start' = n_entries_on_start /\ busy' = busy
    BY <1>3 DEF DispatchTimeout, Due
  <2>2. PICK n \in Nat : DueWithin(queue, n) /\ n_done + n <= n_entries_on_start * (busy + 1)
    BY <2>1 DEF FewAreDue
  <2>3. /\ InOrder(Tail(queue)) /\ Len(Tail(queue)) = Len(queue) - 1
        /\ n - 1 \in Nat /\ DueWithin(Tail(queue), n - 1)
    BY <1>1, <2>1, <2>2, TailInOrder
  <2>4. Len(queue') <= Len(Tail(queue)) + 1 /\ DueWithin(queue', n - 1)
    BY <2>1, <2>3, TimeoutHandlerStep
  <2>5. n_done' + (n - 1) <= n_entries_on_start * (busy + 1)
    <3> DEFINE b == n_entries_on_start * (busy + 1)
    <3>1. b \in Nat
      BY <1>1, Budget
    <3> HIDE DEF b
    <3>2. n_done + n <= b
      BY <2>2 DEF b
    <3>3. n_done' + (n - 1) <= b
      BY <1>1, <2>1, <3>1, <3>2
    <3> QED BY <3>3 DEF b
  <2>6. ~TooMany(n_done', Len(queue'))
    <3> DEFINE b == n_entries_on_start * (busy + 1)
    <3>1. b \in Nat /\ b <= n_entries_on_start * 4
      BY <1>1, Budget
    <3> HIDE DEF b
    <3>2. n_done' + (n - 1) <= b
      BY <2>5 DEF b
    <3> QED BY <1>1, <2>1, <2>3, <3>1, <3>2 DEF TooMany
  <2>7. Len(queue) <= n_entries_on_start
    BY <2>1 DEF FewAreDue
  <2>8. Len(queue') <= n_entries_on_start'
    BY <1>1, <1>2, <2>1, <2>3, <2>4, <2>7
  <2>9. \E m \in Nat : DueWithin(queue', m) /\ n_done' + m <= n_entries_on_start' * (busy' + 1)
    BY <2>1, <2>3, <2>4, <2>5
  <2> QED BY <2>1, <2>6, <2>8, <2>9 DEF FewAreDue
<1>4. CASE EndTimeouts
  <2>1. phase' = (IF queue = <<>> /\ read_fds = {} THEN "fatal" ELSE "select") /\ n_done' = 0
        /\ queue' = queue /\ read_fds' = read_fds
    BY <1>4 DEF EndTimeouts, fds
  <2> QED BY <2>1 DEF FewAreDue
<1>5. ASSUME NEW ready \in SUBSET Fd, Rounds(ready), phase \in {"select", "files"}
      PROVE  FewAreDue'
  <2>1. n_done = 0
    BY <1>5 DEF FewAreDue
  <2>2. read_fds' \subseteq Fd /\ need_to_exit' \in BOOLEAN
    BY <1>2 DEF QueueIInv, SchedulerTypeOK
  <2>3. /\ phase' \in {"timeouts", "files", "exited"} /\ n_done' = 0
        /\ phase' = "timeouts" => n_entries_on_start' = Len(queue')
    BY <1>1, <1>2, <1>5, <2>1, <2>2, RoundsStep
  <2>4. \E n \in Nat : DueWithin(queue', n) /\ 0 + n <= Len(queue') * (busy' + 1)
    BY <1>2, FewAtStart
  <2>5. Len(queue') \in Nat
    BY <1>2
  <2> QED BY <2>3, <2>4, <2>5 DEF FewAreDue
<1>6. CASE SelectReturns
  <2>1. rd \subseteq Fd /\ phase = "select"
    BY <1>1, <1>6 DEF SchedulerTypeOK, SelectReturns
  <2>2. \E ready \in SUBSET Fd : Rounds(ready)
    BY <1>6, <2>1 DEF SelectReturns
  <2> QED BY <1>5, <2>1, <2>2
<1>7. CASE DispatchFile
  <2>1. rd \subseteq Fd /\ phase = "files" /\ Rounds(rd \ {Min(rd)})
    BY <1>1, <1>7 DEF SchedulerTypeOK, DispatchFile
  <2> QED BY <1>5, <2>1
<1>8. CASE TimePasses
  <2>1. /\ phase \in {"timeouts", "select", "files"} /\ queue' = QueueShifted(queue, -1) /\ -1 \in Int
        /\ busy' = IF phase = "select" THEN busy ELSE busy + 1
        /\ UNCHANGED <<phase, n_done, n_entries_on_start>>
    BY <1>8 DEF TimePasses
  <2>2. Len(queue') = Len(queue)
    BY <1>1, <2>1, ShiftInOrder
  <2>3. CASE phase = "timeouts"
    <3>1. PICK n \in Nat : n_done + n <= n_entries_on_start * (busy + 1)
      BY <2>3 DEF FewAreDue
    <3>2. Len(queue) <= n_entries_on_start
      BY <2>3 DEF FewAreDue
    <3>3. DueWithin(queue', Len(queue))
      BY <1>1, <2>2 DEF DueWithin
    <3> DEFINE b == n_entries_on_start * (busy + 1)
    <3>4. b \in Nat /\ b + n_entries_on_start = n_entries_on_start * (busy + 1 + 1)
      BY <1>1, Budget
    <3>5. n_done + n <= b
      BY <3>1
    <3> HIDE DEF b
    <3>6. n_done + Len(queue) <= b + n_entries_on_start
      BY <1>1, <3>2, <3>4, <3>5
    <3>7. n_done' + Len(queue) <= n_entries_on_start' * (busy' + 1)
      BY <2>1, <2>3, <3>4, <3>6
    <3>8. Len(queue') <= n_entries_on_start'
      BY <2>1, <2>2, <3>2
    <3> QED BY <1>1, <2>1, <2>3, <3>3, <3>7, <3>8 DEF FewAreDue
  <2>4. CASE phase # "timeouts"
    BY <2>1, <2>4 DEF FewAreDue
  <2> QED BY <2>3, <2>4
<1>9. CASE ClockJumpsBack
  BY <1>9 DEF ClockJumpsBack, round, FewAreDue
<1>10. CASE UNCHANGED schedulerVars
  BY <1>10 DEF schedulerVars, round, fds, FewAreDue, DueWithin
<1> QED BY <1>3, <1>4, <1>6, <1>7, <1>8, <1>9, <1>10 DEF SchedulerNext

-----------------------------------------------------------------------------
(* The theorems about the event loop. *)

\* The types, the order of the queue and the copy of the descriptors, in every
\* behaviour.
THEOREM SchedulerIInv == SchedulerSpec => []QueueIInv
<1>1. SchedulerInit => QueueIInv
  BY SchedulerInitStep
<1>2. QueueIInv /\ [SchedulerNext]_schedulerVars => QueueIInv'
  BY QueueIInvNext
<1> QED BY <1>1, <1>2, PTL DEF SchedulerSpec

\* The queue stays in the order of time and the timeouts of a class apart, through
\* new timeouts, removals and jumps of the clock (SCH_AddTimeout,
\* SCH_AddTimeoutInClass, SCH_RemoveTimeout, SCH_MainLoop).
THEOREM SchedulerQueueOrdered == SchedulerSpec => []QueueOrdered
<1>1. QueueIInv => QueueOrdered
  BY DEF QueueIInv, InOrder, Sorted, Apart, Sampling, QueueOrdered, QueueSorted, ClassSeparated
<1> QED BY <1>1, SchedulerIInv, PTL

\* select never gets a closed descriptor, and the guard against endless timeouts
\* is not reached when the handlers of a round take less than four times the
\* shortest delay that they ask for (dispatch_timeouts, SCH_MainLoop).
THEOREM SchedulerLoopSurvives ==
  ASSUME \A d \in Delays : d > 0, MaxBusy <= 3
  PROVE  SchedulerSpec => []LoopSurvives
<1>1. SchedulerInit => FewAreDue
  <2> SUFFICES ASSUME SchedulerInit PROVE FewAreDue
    OBVIOUS
  <2>1. QueueIInv /\ 0 \in 0 .. 3
    BY SchedulerInitStep
  <2>2. Len(queue) = 1 /\ queue \in Seq(EntryType) /\ n_done = 0 /\ busy = 0 /\ n_entries_on_start = 1
    BY <2>1 DEF SchedulerInit, QueueIInv, SchedulerTypeOK
  <2>3. \E n \in Nat : DueWithin(queue, n) /\ 0 + n <= Len(queue) * (0 + 1)
    BY <2>1, <2>2, FewAtStart
  <2> QED BY <2>2, <2>3 DEF SchedulerInit, FewAreDue
<1>2. QueueIInv /\ FewAreDue /\ [SchedulerNext]_schedulerVars => FewAreDue'
  BY FewAreDueNext
<1>3. QueueIInv /\ FewAreDue => LoopSurvives
  BY DEF QueueIInv, CopyIsOpen, FewAreDue, LoopSurvives
<1> QED BY <1>1, <1>2, <1>3, SchedulerIInv, PTL DEF SchedulerSpec
==============================================================================

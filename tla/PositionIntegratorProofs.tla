---------------------- MODULE PositionIntegratorProofs ----------------------
(***************************************************************************)
(* Proofs about PositionIntegrator for every value of the constants:     *)
(* type correctness, the +-integral_max bound of the integral, and the    *)
(* anti-windup action property.                                           *)
(***************************************************************************)
EXTENDS PositionIntegrator, ModArith, TLAPS

\* Limit bounds its argument by m, and never increases its magnitude.
LEMMA LimitFacts ==
    ASSUME NEW x \in Int, NEW m \in Nat
    PROVE  /\ Limit(x, m) \in Int
           /\ Abs(Limit(x, m)) <= m
           /\ Abs(Limit(x, m)) <= Abs(x)
    BY DEF Limit, Abs

\* The loop-time scaling maps integers to integers.
LEMMA TimesLoopTimeType ==
    ASSUME NEW x \in Int
    PROVE  TimesLoopTime(x) \in Int
    BY ConstAssumption DEF TimesLoopTime

\* The integral that update computes is an integer.
LEMMA UpdatedIntegralType ==
    ASSUME NEW integral \in Int, NEW prev \in Int, NEW remaining \in Int,
           trajectory_running \in BOOLEAN
    PROVE  UpdatedIntegral(integral, prev, remaining) \in Int
    <1> USE ConstAssumption
    <1> DEFINE lim == Limit(prev, IntegralChangeMax)
    <1>1. lim \in Int
      BY LimitFacts
    <1>2. TimesLoopTime(prev) \in Int /\ TimesLoopTime(lim) \in Int
      BY <1>1, TimesLoopTimeType
    <1>3. /\ Limit(integral + TimesLoopTime(prev), IntegralMax) \in Int
          /\ Limit(integral + TimesLoopTime(lim), IntegralMax) \in Int
          /\ Limit(integral, IntegralMax) \in Int
      BY <1>2, LimitFacts
    <1>4. QED
      BY <1>1, <1>3 DEF UpdatedIntegral

\* uint32_t arithmetic stays within the clock's range.
LEMMA TimeRange ==
    ASSUME NEW x \in Int
    PROVE  x % ClockMod \in Time
    BY ConstAssumption DEF Time

\* The stall age after a step that does not move the clock.
LEMMA NextStallAgeRange ==
    stall_age \in 0..StallTime => NextStallAge \in 0..StallTime
    BY ConstAssumption DEF NextStallAge

LEMMA TypeCorrect == Spec => []TypeOK
  <1>1. Init => TypeOK
    <2> SUFFICES ASSUME Init PROVE TypeOK
      OBVIOUS
    <2>1. trajectory_running \in BOOLEAN
      BY DEF Init
    <2>2. now \in Time /\ time_paused_total \in Time /\ time_pause_begin \in Time
      BY ConstAssumption DEF Init, Time
    <2>3. stall_age \in 0..StallTime
      BY ConstAssumption DEF Init
    <2>4. count_err_integral \in Int /\ count_err_prev \in Errors \cup {0}
      BY DEF Init
    <2>5. QED
      BY <2>1, <2>2, <2>3, <2>4 DEF TypeOK
  <1>2. TypeOK /\ [Next]_vars => TypeOK'
    <2> SUFFICES ASSUME TypeOK, [Next]_vars PROVE TypeOK'
      OBVIOUS
    <2>1. CASE Tick
      <3>1. PICK d \in 1..MaxTick :
                /\ now' = TimeAdd(now, d)
                /\ stall_age' =
                      IF StallCondition(trajectory_running, count_err_integral)
                      THEN IF stall_age + d > StallTime THEN StallTime ELSE stall_age + d
                      ELSE 0
                /\ UNCHANGED << trajectory_running, count_err_integral, count_err_prev,
                                time_paused_total, time_pause_begin >>
        BY <2>1 DEF Tick
      <3>2. now' \in Time
        BY <3>1, TimeRange, ConstAssumption DEF TypeOK, Time, TimeAdd
      <3>3. stall_age' \in 0..StallTime
        BY <3>1, ConstAssumption DEF TypeOK
      <3>4. QED
        BY <3>1, <3>2, <3>3 DEF TypeOK
    <2>2. CASE Pause
      BY <2>2, NextStallAgeRange DEF Pause, TypeOK
    <2>3. CASE Resume
      <3>1. time_paused_total' \in Time
        BY <2>3, TimeRange DEF Resume, TypeOK, Time, TimeAdd, TimeSub
      <3>2. stall_age' \in 0..StallTime
        BY <2>3, NextStallAgeRange DEF Resume, TypeOK
      <3>3. QED
        BY <2>3, <3>1, <3>2 DEF Resume, TypeOK
    <2>4. CASE Reset
      <3>1. stall_age' \in 0..StallTime
        BY <2>4, NextStallAgeRange DEF Reset, TypeOK
      <3>2. time_paused_total' \in Time /\ time_pause_begin' \in Time
        BY <2>4, ConstAssumption DEF Reset, TypeOK, Time
      <3>3. trajectory_running' \in BOOLEAN
        BY <2>4 DEF Reset
      <3>4. QED
        BY <2>4, <3>1, <3>2, <3>3 DEF Reset, TypeOK
    <2>5. ASSUME NEW e \in Errors, NEW r \in Remainings, Update(e, r)
          PROVE TypeOK'
      <3>1. count_err_integral' \in Int
        BY <2>5, UpdatedIntegralType, ConstAssumption DEF Update, TypeOK
      <3>2. stall_age' \in 0..StallTime
        BY <2>5, NextStallAgeRange DEF Update, TypeOK
      <3>3. QED
        BY <2>5, <3>1, <3>2 DEF Update, TypeOK
    <2>6. CASE UNCHANGED vars
      BY <2>6 DEF vars, TypeOK
    <2>7. QED
      BY <2>1, <2>2, <2>3, <2>4, <2>5, <2>6 DEF Next
  <1>3. QED
    BY <1>1, <1>2, PTL DEF Spec

(***************************************************************************)
(* The integral bound is inductive on its own (with the types): update   *)
(* either leaves the integral alone or ends with Limit(_, integral_max),  *)
(* and the other operations only leave it alone or zero it.              *)
(***************************************************************************)
THEOREM IntegralBoundedInvariant == Spec => []IntegralBounded
  <1> USE ConstAssumption
  <1>1. Init => IntegralBounded
    BY DEF Init, IntegralBounded, Abs
  <1>2. TypeOK /\ IntegralBounded /\ [Next]_vars => IntegralBounded'
    <2> SUFFICES ASSUME TypeOK, IntegralBounded, [Next]_vars
                 PROVE IntegralBounded'
      OBVIOUS
    <2>1. ASSUME NEW e \in Errors, NEW r \in Remainings, Update(e, r)
          PROVE IntegralBounded'
      <3> DEFINE I         == count_err_integral
                 p         == count_err_prev
                 decrease0 == Abs(I + TimesLoopTime(p)) < Abs(I)
                 cerr      == IF decrease0 THEN p ELSE Limit(p, IntegralChangeMax)
                 scaled    == TimesLoopTime(cerr)
                 decrease  == Abs(I + scaled) < Abs(I)
                 added     == IF Abs(r) <= IntegralRange \/ decrease
                              THEN I + scaled ELSE I
      <3>1. I \in Int /\ p \in Int
        BY DEF TypeOK
      <3>2. cerr \in Int /\ scaled \in Int /\ added \in Int
        BY <3>1, LimitFacts, TimesLoopTimeType
      <3>3. Abs(Limit(added, IntegralMax)) <= IntegralMax
        BY <3>2, LimitFacts
      <3>4. count_err_integral' =
              IF trajectory_running \/ decrease0 THEN Limit(added, IntegralMax) ELSE I
        BY <2>1 DEF Update, UpdatedIntegral
      <3>5. CASE trajectory_running \/ decrease0
        BY <3>3, <3>4, <3>5, Zenon DEF IntegralBounded
      <3>6. CASE ~(trajectory_running \/ decrease0)
        BY <3>4, <3>6, Zenon DEF IntegralBounded
      <3>7. QED
        BY <3>5, <3>6
    <2>2. CASE Tick \/ Pause \/ Resume \/ Reset \/ UNCHANGED vars
      BY <2>2 DEF Tick, Pause, Resume, Reset, vars, IntegralBounded, Abs
    <2>3. QED
      BY <2>1, <2>2 DEF Next
  <1>3. QED
    BY <1>1, <1>2, TypeCorrect, PTL DEF Spec

(***************************************************************************)
(* Anti-windup: far from the target, an update never makes the integral   *)
(* grow in magnitude.  Either nothing is added, or what is added makes   *)
(* the magnitude decrease, and the final Limit never increases it.       *)
(***************************************************************************)
THEOREM NoWindup == Spec => NoWindupFarFromTarget
  <1> USE ConstAssumption
  <1>1. ASSUME TypeOK, NEW e \in Errors, NEW r \in Remainings,
               Update(e, r), Abs(r) > IntegralRange
        PROVE  Abs(count_err_integral') <= Abs(count_err_integral)
    <2> DEFINE I         == count_err_integral
               p         == count_err_prev
               decrease0 == Abs(I + TimesLoopTime(p)) < Abs(I)
               cerr      == IF decrease0 THEN p ELSE Limit(p, IntegralChangeMax)
               scaled    == TimesLoopTime(cerr)
               decrease  == Abs(I + scaled) < Abs(I)
               added     == IF Abs(r) <= IntegralRange \/ decrease
                            THEN I + scaled ELSE I
    <2>1. I \in Int /\ p \in Int
      BY <1>1 DEF TypeOK
    <2>2. cerr \in Int /\ scaled \in Int
      BY <2>1, LimitFacts, TimesLoopTimeType
    <2>3. Abs(added) <= Abs(I)
      BY <1>1, <2>1, <2>2 DEF Abs
    <2>4. Abs(Limit(added, IntegralMax)) <= Abs(added)
      BY <2>1, <2>2, LimitFacts
    <2>5. count_err_integral' =
            IF trajectory_running \/ decrease0 THEN Limit(added, IntegralMax) ELSE I
      BY <1>1 DEF Update, UpdatedIntegral
    <2>6. CASE trajectory_running \/ decrease0
      <3>1. count_err_integral' = Limit(added, IntegralMax)
        BY <2>5, <2>6, Zenon
      <3>2. Limit(added, IntegralMax) \in Int /\ added \in Int
        BY <2>1, <2>2, LimitFacts
      <3>3. QED
        BY <2>3, <2>4, <3>1, <3>2, <2>1 DEF Abs
    <2>7. CASE ~(trajectory_running \/ decrease0)
      <3>1. count_err_integral' = I
        BY <2>5, <2>7, Zenon
      <3>2. QED
        BY <3>1, <2>1 DEF Abs
    <2>8. QED
      BY <2>6, <2>7
  <1>2. TypeOK => \A e \in Errors, r \in Remainings :
                     (Update(e, r) /\ Abs(r) > IntegralRange)
                        => Abs(count_err_integral') <= Abs(count_err_integral)
    BY <1>1
  <1>3. QED
    BY <1>2, TypeCorrect, PTL DEF NoWindupFarFromTarget

-----------------------------------------------------------------------------
(* The reference clock.  get_ref_time is the clock minus the paused       *)
(* total, frozen at time_pause_begin while paused.  A tick is Advance, a  *)
(* pause or a resume is Toggle (resume adds exactly the paused span, so   *)
(* the reference does not jump), a reset is Restart, and an update leaves *)
(* the reference alone.                                                    *)

\* The reference time in terms of a plain difference.
LEMMA RefTimeIs ==
    ASSUME TypeOK
    PROVE  GetRefTime = ((IF trajectory_running THEN now ELSE time_pause_begin)
                           - time_paused_total) % ClockMod
  BY ConstAssumption DEF GetRefTime, TimeSub

LEMMA TickAdvances ==
    ASSUME TypeOK, Tick
    PROVE  RefClock!Advance
  <1> USE ConstAssumption
  <1>1. PICK d \in 1..MaxTick :
          /\ now' = TimeAdd(now, d)
          /\ UNCHANGED << trajectory_running, count_err_integral, count_err_prev,
                          time_paused_total, time_pause_begin >>
    BY DEF Tick
  <1> DEFINE p == time_paused_total
  <1>2. p \in Int /\ now \in Int /\ d \in Int
    BY DEF TypeOK, Time
  <1>3. CASE trajectory_running
    <2> DEFINE a == (now + d) % ClockMod
               v == (now - p) % ClockMod
    <2>0. a \in Int /\ v \in Int /\ now - p \in Int /\ now + d \in Int
      BY <1>2, ModRange
    <2>1. GetRefTime = v
      BY <1>3 DEF GetRefTime, TimeSub
    <2>2. GetRefTime' = (a - p) % ClockMod
      BY <1>1, <1>3 DEF GetRefTime, TimeSub, TimeAdd
    <2>3. (a - p) % ClockMod = ((now + d) - p) % ClockMod
      BY <2>0, <1>2, ModSubLeft, Zenon
    <2>4. (v + d) % ClockMod = ((now - p) + d) % ClockMod
      BY <2>0, <1>2, ModAddLeft, Zenon
    <2>5. ((now + d) - p) = ((now - p) + d)
      BY <1>2
    <2>6. QED
      BY <1>1, <1>3, <2>1, <2>2, <2>3, <2>4, <2>5 DEF RefClock!Advance, TimeAdd
  <1>4. CASE ~trajectory_running
    <2>1. GetRefTime' = GetRefTime
      BY <1>1, <1>4 DEF GetRefTime
    <2>2. QED
      BY <1>1, <1>4, <2>1 DEF RefClock!Advance, TimeAdd
  <1>5. QED
    BY <1>3, <1>4

LEMMA PauseToggles ==
    ASSUME TypeOK, Pause
    PROVE  RefClock!Toggle
  <1>1. GetRefTime' = GetRefTime
    BY DEF Pause, GetRefTime
  <1>2. QED
    BY <1>1 DEF Pause, RefClock!Toggle

LEMMA ResumeToggles ==
    ASSUME TypeOK, Resume
    PROVE  RefClock!Toggle
  <1> USE ConstAssumption
  <1> DEFINE p  == time_paused_total
             b  == time_pause_begin
             g  == TimeSub(now, b)
             p2 == TimeAdd(p, g)
  <1>1. p \in Int /\ b \in Int /\ now \in Int
    BY DEF TypeOK, Time
  <1>0. ClockMod \in Nat \ {0} /\ now - b \in Int
    BY <1>1
  <1>2. g \in Int /\ g = (now - b) % ClockMod /\ p2 = (p + g) % ClockMod
    <2>1. g = (now - b) % ClockMod
      BY DEF TimeSub
    <2>2. (now - b) % ClockMod \in 0..(ClockMod - 1)
      BY <1>0, ModRange, Zenon
    <2>3. p2 = (p + g) % ClockMod
      BY DEF TimeAdd
    <2>4. QED
      BY <2>1, <2>2, <2>3
  <1>3. GetRefTime = (b - p) % ClockMod
    BY DEF Resume, GetRefTime, TimeSub
  <1>4. GetRefTime' = (now - p2) % ClockMod
    BY DEF Resume, GetRefTime, TimeSub
  <1>5. (now - p2) % ClockMod = (now - (p + g)) % ClockMod
    <2>1. p + g \in Int
      BY <1>1, <1>2
    <2>2. (now - ((p + g) % ClockMod)) % ClockMod = (now - (p + g)) % ClockMod
      BY <1>1, <2>1, ModSubRight, Zenon
    <2>3. QED
      BY <2>2, <1>2
  <1>6. (now - (p + g)) % ClockMod = (b - p) % ClockMod
    <2>1. now - p \in Int /\ now - b \in Int
      BY <1>1
    <2>2. ((now - p) - ((now - b) % ClockMod)) % ClockMod
            = ((now - p) - (now - b)) % ClockMod
      BY <2>1, ModSubRight, Zenon
    <2>3. QED
      BY <2>2, <1>1, <1>2
  <1>7. QED
    BY <1>3, <1>4, <1>5, <1>6 DEF Resume, RefClock!Toggle

LEMMA ResetRestarts ==
    ASSUME TypeOK, Reset
    PROVE  RefClock!Restart
  <1> USE ConstAssumption
  <1>1. now \in 0..(ClockMod - 1)
    BY DEF TypeOK, Time
  <1>0. ClockMod \in Nat \ {0}
    OBVIOUS
  <1>2. now % ClockMod = now
    BY <1>0, <1>1, ModSmall, Zenon
  <1>3. GetRefTime' = now % ClockMod
    <2>1. trajectory_running' = TRUE /\ now' = now /\ time_paused_total' = 0
      BY DEF Reset
    <2>2. GetRefTime' = (now' - time_paused_total') % ClockMod
      BY <2>1, Zenon DEF GetRefTime, TimeSub
    <2>3. QED
      BY <2>1, <2>2, <1>1
  <1>4. QED
    BY <1>2, <1>3 DEF Reset, RefClock!Restart

\* get_ref_time implements ReferenceClock (the refinement that the
\* position_integrator run checks on a 3-bit clock), for every clock width:
\* pbio_position_integrator_pause, _resume and _reset never make the
\* reference time of the trajectory jump, across the uint32 wraparound.
THEOREM RefClockRefinement == Spec => RefClockRefined
  <1>1. Init => RefClock!ClockInit
    BY ConstAssumption DEF Init, RefClock!ClockInit, GetRefTime, TimeSub
  <1>2. TypeOK /\ [Next]_vars => [RefClock!ClockNext]_RefClock!clock_vars
    <2> SUFFICES ASSUME TypeOK, [Next]_vars
                 PROVE  [RefClock!ClockNext]_RefClock!clock_vars
      OBVIOUS
    <2>1. CASE Tick
      BY <2>1, TickAdvances DEF RefClock!ClockNext
    <2>2. CASE Pause
      BY <2>2, PauseToggles DEF RefClock!ClockNext
    <2>3. CASE Resume
      BY <2>3, ResumeToggles DEF RefClock!ClockNext
    <2>4. CASE Reset
      BY <2>4, ResetRestarts DEF RefClock!ClockNext
    <2>5. ASSUME NEW e \in Errors, NEW r \in Remainings, Update(e, r)
          PROVE  [RefClock!ClockNext]_RefClock!clock_vars
      BY <2>5 DEF Update, RefClock!clock_vars, GetRefTime
    <2>6. CASE UNCHANGED vars
      BY <2>6 DEF vars, RefClock!clock_vars, GetRefTime
    <2>7. QED
      BY <2>1, <2>2, <2>3, <2>4, <2>5, <2>6 DEF Next
  <1>3. QED
    BY <1>1, <1>2, TypeCorrect, PTL DEF Spec, RefClockRefined, RefClock!ClockSpec
=============================================================================

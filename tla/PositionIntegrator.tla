------------------------- MODULE PositionIntegrator -------------------------
(***************************************************************************)
(* The count (position) integrator of position-based control,             *)
(* pbio_position_integrator_t in src/lib/pbio/src/integrator.c.           *)
(*                                                                         *)
(* The Motion Controller owns one instance per axis and calls its         *)
(* operations once per control cycle: reset at the start of a maneuver,   *)
(* pause / resume when the reference must wait for the motor, update with *)
(* the new position error, and stalled / get_ref_time as queries.  Every  *)
(* call is atomic (single-threaded polling loop), so each operation is    *)
(* one action, in any order the controller may issue them.                *)
(*                                                                         *)
(* Time is the uint32_t microsecond clock: it wraps at ClockMod and all   *)
(* time arithmetic of the code is taken modulo ClockMod.  The integral    *)
(* and the errors are kept as mathematical integers: the errors come from *)
(* the small set Errors, far from the int32 limits.                       *)
(***************************************************************************)
EXTENDS Integers

CONSTANTS
    ClockMod,           \* the clock wraps at ClockMod (2^32 for uint32_t)
    MaxTick,            \* largest advance of the clock between two calls
    Errors,             \* position errors the controller passes to update
    Remainings,         \* position_remaining values passed to update
    Speeds,             \* speed_now / speed_ref values passed to stalled
    IntegralRange,      \* settings.integral_range
    IntegralMax,        \* integral_max, the bound the controller passes
    IntegralChangeMax,  \* settings.integral_rate, the per-cycle change bound
    StallTime,          \* settings.stall_time
    StallSpeed,         \* settings.stall_rate_limit
    LoopTime            \* the factor of pbio_integrator_times_loop_time

ASSUME ConstAssumption ==
    /\ ClockMod \in Nat \ {0}
    /\ MaxTick \in 1..(ClockMod - 1)
    /\ Errors \subseteq Int
    /\ Remainings \subseteq Int
    /\ Speeds \subseteq Int
    /\ IntegralRange \in Nat
    /\ IntegralMax \in Nat
    /\ IntegralChangeMax \in Nat
    /\ StallTime \in 0..(ClockMod - 1)
    /\ StallSpeed \in Int
    /\ LoopTime \in Nat \ {0}

VARIABLES
    now,                 \* clock_usecs() at the moment of the next call
    trajectory_running,  \* itg->trajectory_running
    count_err_integral,  \* itg->count_err_integral
    count_err_prev,      \* itg->count_err_prev
    time_paused_total,   \* itg->time_paused_total
    time_pause_begin,    \* itg->time_pause_begin
    stall_age            \* history: real time for which the integrator has
                         \* been paused or saturated, capped at StallTime

vars == << now, trajectory_running, count_err_integral, count_err_prev,
           time_paused_total, time_pause_begin, stall_age >>

Time == 0..(ClockMod - 1)

\* uint32_t subtraction and addition.
TimeSub(a, b) == (a - b) % ClockMod
TimeAdd(a, b) == (a + b) % ClockMod

Abs(x) == IF x < 0 THEN -x ELSE x

\* pbio_integrator_times_loop_time: an error per cycle scaled by the
\* control loop period.
TimesLoopTime(x) == x * LoopTime

\* The two sequential bounds "if (x > m) x = m; if (x < -m) x = -m;".
Limit(x, m) == IF x > m THEN m ELSE IF x < -m THEN -m ELSE x

(***************************************************************************)
(* What the stall query looks at: the integrator is paused, or it runs    *)
(* with a saturated integral.  stall_age measures for how long this has   *)
(* held; it is not a variable of the code.                                *)
(***************************************************************************)
StallCondition(running, integral) == ~(running /\ Abs(integral) < IntegralMax)

NextStallAge ==
    IF StallCondition(trajectory_running', count_err_integral')
    THEN IF StallCondition(trajectory_running, count_err_integral)
         THEN stall_age ELSE 0
    ELSE 0

-----------------------------------------------------------------------------
(* Queries (no state change). *)

\* pbio_position_integrator_get_ref_time
GetRefTime ==
    TimeSub(IF trajectory_running THEN now ELSE time_pause_begin,
            time_paused_total)

\* pbio_position_integrator_stalled
Stalled(speed_now, speed_ref) ==
    LET flip == speed_ref < 0
        sref == IF flip THEN -speed_ref ELSE speed_ref
        snow == IF flip THEN -speed_now ELSE speed_now
    IN  /\ ~(trajectory_running /\ Abs(count_err_integral) < IntegralMax)
        /\ ~(sref # 0 /\ snow > StallSpeed)
        /\ ~(TimeSub(now, time_pause_begin) < StallTime)

-----------------------------------------------------------------------------
(* Operations. *)

\* The integrator is a zero-initialised static struct at boot, clock 0.
Init ==
    /\ now = 0
    /\ trajectory_running = FALSE
    /\ count_err_integral = 0
    /\ count_err_prev = 0
    /\ time_paused_total = 0
    /\ time_pause_begin = 0
    /\ stall_age = 0

\* The clock advances between two calls of the control loop.
Tick ==
    \E d \in 1..MaxTick :
        /\ now' = TimeAdd(now, d)
        /\ stall_age' =
              IF StallCondition(trajectory_running, count_err_integral)
              THEN IF stall_age + d > StallTime THEN StallTime ELSE stall_age + d
              ELSE 0
        /\ UNCHANGED << trajectory_running, count_err_integral, count_err_prev,
                        time_paused_total, time_pause_begin >>

\* pbio_position_integrator_pause
Pause ==
    /\ trajectory_running
    /\ trajectory_running' = FALSE
    /\ time_pause_begin' = now
    /\ UNCHANGED << now, count_err_integral, count_err_prev, time_paused_total >>
    /\ stall_age' = NextStallAge

\* Mutant: resume subtracts the two times in the wrong order.
ResumeSwappedElapsed ==
    /\ ~trajectory_running
    /\ trajectory_running' = TRUE
    /\ time_paused_total' = TimeAdd(time_paused_total,
                                    TimeSub(time_pause_begin, now))
    /\ UNCHANGED << now, count_err_integral, count_err_prev, time_pause_begin >>
    /\ stall_age' = NextStallAge

\* pbio_position_integrator_resume
Resume ==
    /\ ~trajectory_running
    /\ trajectory_running' = TRUE
    /\ time_paused_total' = TimeAdd(time_paused_total,
                                    TimeSub(now, time_pause_begin))
    /\ UNCHANGED << now, count_err_integral, count_err_prev, time_pause_begin >>
    /\ stall_age' = NextStallAge

\* pbio_position_integrator_reset: zero everything, pause at now, then the
\* trailing resume (which adds now - now = 0 to the paused total).
Reset ==
    /\ count_err_integral' = 0
    /\ time_paused_total' = 0
    /\ time_pause_begin' = now
    /\ count_err_prev' = 0
    /\ trajectory_running' = TRUE
    /\ UNCHANGED now
    /\ stall_age' = NextStallAge

(***************************************************************************)
(* pbio_position_integrator_update.  The contribution of this cycle is    *)
(* the error of the PREVIOUS cycle (count_err_prev); the new error is     *)
(* only stored.  The rate limit bounds the unscaled error; the decrease  *)
(* tests and the addition use the error scaled by the loop time.          *)
(***************************************************************************)
\* Mutant: the final limiting to +-integral_max is missing.
UpdatedIntegralUnlimited(integral, prev, remaining) ==
    LET decrease0 == Abs(integral + TimesLoopTime(prev)) < Abs(integral)
        cerr      == IF decrease0 THEN prev ELSE Limit(prev, IntegralChangeMax)
        decrease  == Abs(integral + TimesLoopTime(cerr)) < Abs(integral)
    IN  IF trajectory_running \/ decrease0
        THEN IF Abs(remaining) <= IntegralRange \/ decrease
             THEN integral + TimesLoopTime(cerr) ELSE integral
        ELSE integral

\* Mutant: the range test compares the signed remaining distance.
UpdatedIntegralSignedRange(integral, prev, remaining) ==
    LET decrease0 == Abs(integral + TimesLoopTime(prev)) < Abs(integral)
        cerr      == IF decrease0 THEN prev ELSE Limit(prev, IntegralChangeMax)
        decrease  == Abs(integral + TimesLoopTime(cerr)) < Abs(integral)
        added     == IF remaining <= IntegralRange \/ decrease
                     THEN integral + TimesLoopTime(cerr) ELSE integral
    IN  IF trajectory_running \/ decrease0
        THEN Limit(added, IntegralMax)
        ELSE integral

UpdatedIntegral(integral, prev, remaining) ==
    LET decrease0 == Abs(integral + TimesLoopTime(prev)) < Abs(integral)
        cerr      == IF decrease0 THEN prev ELSE Limit(prev, IntegralChangeMax)
        decrease  == Abs(integral + TimesLoopTime(cerr)) < Abs(integral)
        added     == IF Abs(remaining) <= IntegralRange \/ decrease
                     THEN integral + TimesLoopTime(cerr) ELSE integral
    IN  IF trajectory_running \/ decrease0
        THEN Limit(added, IntegralMax)
        ELSE integral

Update(error, remaining) ==
    /\ count_err_integral' =
          UpdatedIntegral(count_err_integral, count_err_prev, remaining)
    /\ count_err_prev' = error
    /\ UNCHANGED << now, trajectory_running, time_paused_total, time_pause_begin >>
    /\ stall_age' = NextStallAge

Next ==
    \/ Tick
    \/ Pause
    \/ Resume
    \/ Reset
    \/ \E e \in Errors, r \in Remainings : Update(e, r)

Spec == Init /\ [][Next]_vars

-----------------------------------------------------------------------------
(* Properties. *)

TypeOK ==
    /\ now \in Time
    /\ trajectory_running \in BOOLEAN
    /\ count_err_integral \in Int
    /\ count_err_prev \in Errors \cup {0}
    /\ time_paused_total \in Time
    /\ time_pause_begin \in Time
    /\ stall_age \in 0..StallTime

\* After every update, whatever the sequence of errors, pauses and resets,
\* the integral stays within +-integral_max (the anti-windup bound that the
\* limiting steps at the end of pbio_position_integrator_update establish).
IntegralBounded == Abs(count_err_integral) <= IntegralMax

\* Anti-windup: an update far from the target (|remaining| > integral_range)
\* never makes the magnitude of the integral grow.
NoWindupFarFromTarget ==
    [][\A e \in Errors, r \in Remainings :
          (Update(e, r) /\ Abs(r) > IntegralRange)
             => Abs(count_err_integral') <= Abs(count_err_integral)]_vars

\* The stall query of the code reports a stall only when the integrator has
\* been paused or saturated for at least stall_time (the glossary: no
\* sustained progress for a minimum duration).
StallNeedsDuration ==
    \A sn, sr \in Speeds : Stalled(sn, sr) => stall_age >= StallTime


\* The reference time that get_ref_time reports implements ReferenceClock:
\* it advances with the clock while running, freezes while paused (the
\* paused total that resume accumulates compensates exactly, across clock
\* wraparound), and a reset restarts it at the wall clock.
RefClock == INSTANCE ReferenceClock
    WITH running <- trajectory_running, ref_time <- GetRefTime

RefClockRefined == RefClock!ClockSpec
=============================================================================

--------------------------- MODULE SpeedIntegrator ---------------------------
(***************************************************************************)
(* The speed-error integrator of speed-based (timed) control,             *)
(* pbio_speed_integrator_t in src/lib/pbio/src/integrator.c.              *)
(*                                                                         *)
(* Instead of adding the speed error every cycle, the integrator stores   *)
(* the position error at which it was last resumed and folds the         *)
(* difference into speed_err_integral_paused when it is paused: the       *)
(* integral of the speed error over a running interval is the change of   *)
(* the position error over it.  The Motion Controller calls pause, resume *)
(* and reset with the current position error, and get_error / stalled as *)
(* queries; every call is atomic.  The clock is uint32_t and wraps at     *)
(* ClockMod.  The paused integral is an int32_t that the model keeps as   *)
(* a mathematical integer, bounded by IntegralBound in the guards.        *)
(***************************************************************************)
EXTENDS Integers

CONSTANTS
    ClockMod,       \* the clock wraps at ClockMod (2^32 for uint32_t)
    MaxTick,        \* largest advance of the clock between two calls
    Errors,         \* position errors the controller sees
    Speeds,         \* speed_now / speed_ref values passed to stalled
    IntegralBound,  \* model bound on |speed_err_integral_paused|
    StallTime,      \* settings.stall_time
    StallSpeed      \* settings.stall_rate_limit

ASSUME SpeedConstAssumption ==
    /\ ClockMod \in Nat \ {0}
    /\ MaxTick \in 1..(ClockMod - 1)
    /\ Errors \subseteq Int
    /\ Errors # {}
    /\ Speeds \subseteq Int
    /\ IntegralBound \in Nat
    /\ StallTime \in 0..(ClockMod - 1)
    /\ StallSpeed \in Int

VARIABLES
    now,                        \* clock_usecs() at the next call
    err,                        \* the position error the controller sees
    running,                    \* itg->running
    speed_err_integral_paused,  \* itg->speed_err_integral_paused
    position_error_resumed,     \* itg->position_error_resumed
    time_pause_begin,           \* itg->time_pause_begin
    pause_age                   \* history: real time paused, capped

vars == << now, err, running, speed_err_integral_paused,
           position_error_resumed, time_pause_begin, pause_age >>

Time == 0..(ClockMod - 1)

TimeSub(a, b) == (a - b) % ClockMod

\* pause_age after a step that leaves the clock where it is.
NextPauseAge == IF ~running' /\ ~running THEN pause_age ELSE 0

-----------------------------------------------------------------------------
(* Queries. *)

\* pbio_speed_integrator_get_error
GetError(position_error) ==
    speed_err_integral_paused
      + (IF running THEN position_error - position_error_resumed ELSE 0)

\* pbio_speed_integrator_stalled
Stalled(speed_now, speed_ref) ==
    LET flip == speed_ref < 0
        sref == IF flip THEN -speed_ref ELSE speed_ref
        snow == IF flip THEN -speed_now ELSE speed_now
    IN  /\ ~running
        /\ ~(sref # 0 /\ snow > StallSpeed)
        /\ ~(TimeSub(now, time_pause_begin) < StallTime)

-----------------------------------------------------------------------------
(* Operations. *)

\* Zero-initialised static struct at boot, clock 0.
Init ==
    /\ now = 0
    /\ err \in Errors
    /\ running = FALSE
    /\ speed_err_integral_paused = 0
    /\ position_error_resumed = 0
    /\ time_pause_begin = 0
    /\ pause_age = 0

\* Between two control cycles the clock advances and the error moves.
Tick ==
    \E d \in 1..MaxTick, e \in Errors :
        /\ now' = (now + d) % ClockMod
        /\ err' = e
        /\ pause_age' = IF running THEN 0
                        ELSE IF pause_age + d > StallTime THEN StallTime
                        ELSE pause_age + d
        /\ UNCHANGED << running, speed_err_integral_paused,
                        position_error_resumed, time_pause_begin >>

\* Mutant: pause does not record the time at which the pause began.
PauseKeepBegin ==
    LET folded == speed_err_integral_paused + (err - position_error_resumed)
    IN  /\ running
        /\ -IntegralBound <= folded /\ folded <= IntegralBound
        /\ running' = FALSE
        /\ speed_err_integral_paused' = folded
        /\ UNCHANGED << now, err, position_error_resumed, time_pause_begin >>
        /\ pause_age' = NextPauseAge

\* pbio_speed_integrator_pause(itg, now, err)
Pause ==
    LET folded == speed_err_integral_paused + (err - position_error_resumed)
    IN  /\ running
        /\ -IntegralBound <= folded /\ folded <= IntegralBound
        /\ running' = FALSE
        /\ speed_err_integral_paused' = folded
        /\ time_pause_begin' = now
        /\ UNCHANGED << now, err, position_error_resumed >>
        /\ pause_age' = NextPauseAge

\* Mutant: resume keeps the stale starting point of the last resume.
ResumeKeepStart ==
    /\ ~running
    /\ running' = TRUE
    /\ UNCHANGED << now, err, speed_err_integral_paused, time_pause_begin,
                    position_error_resumed >>
    /\ pause_age' = NextPauseAge

\* pbio_speed_integrator_resume(itg, now, err)
Resume ==
    /\ ~running
    /\ running' = TRUE
    /\ position_error_resumed' = err
    /\ UNCHANGED << now, err, speed_err_integral_paused, time_pause_begin >>
    /\ pause_age' = NextPauseAge

\* pbio_speed_integrator_reset(itg, now, err): zero the paused integral,
\* force the paused state, then the trailing resume, which now always runs.
Reset ==
    /\ speed_err_integral_paused' = 0
    /\ running' = TRUE
    /\ position_error_resumed' = err
    /\ UNCHANGED << now, err, time_pause_begin >>
    /\ pause_age' = NextPauseAge

Next == Tick \/ Pause \/ Resume \/ Reset

Spec == Init /\ [][Next]_vars

-----------------------------------------------------------------------------
(* Properties. *)

TypeOK ==
    /\ now \in Time
    /\ err \in Errors
    /\ running \in BOOLEAN
    /\ speed_err_integral_paused \in -IntegralBound..IntegralBound
    /\ position_error_resumed \in Errors \cup {0}
    /\ time_pause_begin \in Time
    /\ pause_age \in 0..StallTime

\* get_error, read with the current position error after any sequence of
\* pauses, resumes and resets, is the exact integral of the speed error
\* over the running intervals (SpeedIntegral): the deferred add of pause
\* loses nothing and adds nothing twice.
Integral == INSTANCE SpeedIntegral WITH integral <- GetError(err)

IntegralRefined == Integral!IntegralSpec

\* The stall query reports a stall only after the integrator has been
\* paused for at least stall_time.
StallNeedsDuration ==
    \A sn, sr \in Speeds : Stalled(sn, sr) => pause_age >= StallTime
=============================================================================

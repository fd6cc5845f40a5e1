----------------------------- MODULE StopWatch -----------------------------
(***************************************************************************)
(* The StopWatch class of src/extmod/modtools.c: one object, created by    *)
(* the user program and then reset, read, paused and resumed.  The clock  *)
(* is mp_hal_ticks_ms(), a uint32_t millisecond counter that wraps at    *)
(* ClockMod; every subtraction and the += of resume are uint32_t.  Each   *)
(* method is one atomic call of the single MicroPython thread.            *)
(***************************************************************************)
EXTENDS Integers

CONSTANTS
    ClockMod,  \* mp_hal_ticks_ms() wraps at ClockMod (2^32)
    MaxTick    \* largest advance of the clock between two calls

ASSUME StopWatchAssumption ==
    /\ ClockMod \in Nat \ {0}
    /\ MaxTick \in 1..(ClockMod - 1)

VARIABLES
    now,                 \* mp_hal_ticks_ms() at the next call
    created,             \* StopWatch() has returned the object
    running,             \* self->running
    time_start,          \* self->time_start
    time_stop,           \* self->time_stop
    time_spent_pausing   \* self->time_spent_pausing

sw_vars == << now, created, running, time_start, time_stop, time_spent_pausing >>

Time == 0..(ClockMod - 1)

\* uint32_t subtraction.
TimeSub(a, b) == (a - b) % ClockMod

\* tools_StopWatch_time: the value returned to the user program.
TimeValue ==
    TimeSub(TimeSub(IF running THEN now ELSE time_stop, time_start),
            time_spent_pausing)

\* The program boots at any clock value; the object does not exist yet.
Init ==
    /\ now \in Time
    /\ created = FALSE
    /\ running = FALSE
    /\ time_start = 0
    /\ time_stop = 0
    /\ time_spent_pausing = 0

Tick ==
    \E d \in 1..MaxTick :
        /\ now' = (now + d) % ClockMod
        /\ UNCHANGED << created, running, time_start, time_stop,
                        time_spent_pausing >>

\* tools_wait(time): a positive duration blocks in mp_hal_delay_ms, which
\* returns once at least that many milliseconds have passed; a zero or
\* negative one returns at once.
Wait ==
    \E duration \in -1..MaxTick :
        IF duration > 0
        THEN \E d \in duration..MaxTick :
                /\ now' = (now + d) % ClockMod
                /\ UNCHANGED << created, running, time_start, time_stop,
                                time_spent_pausing >>
        ELSE UNCHANGED sw_vars

\* tools_StopWatch_make_new: reset, then resume.  resume reads the running
\* flag of the fresh object before anything writes it: FALSE in a zeroed
\* heap block, either value here.  Resume skips a running stopwatch, and
\* otherwise sets running and adds now - time_stop to the zero total.
MakeNew ==
    /\ ~created
    /\ created' = TRUE
    /\ \E was_running \in BOOLEAN :
          /\ running' = TRUE
          /\ time_spent_pausing' = IF was_running THEN 0 ELSE TimeSub(now, now)
    /\ time_start' = now
    /\ time_stop' = now
    /\ UNCHANGED now

\* tools_StopWatch_reset
Reset ==
    /\ created
    /\ time_start' = now
    /\ time_stop' = now
    /\ time_spent_pausing' = 0
    /\ UNCHANGED << now, created, running >>

\* Mutant: pause leaves time_stop at its old value.
PauseKeepStop ==
    /\ created
    /\ running
    /\ running' = FALSE
    /\ UNCHANGED << now, created, time_start, time_stop, time_spent_pausing >>

\* tools_StopWatch_pause: only a running stopwatch stops.
Pause ==
    /\ created
    /\ running
    /\ running' = FALSE
    /\ time_stop' = now
    /\ UNCHANGED << now, created, time_start, time_spent_pausing >>

\* tools_StopWatch_resume: only a paused stopwatch resumes.
Resume ==
    /\ created
    /\ ~running
    /\ running' = TRUE
    /\ time_spent_pausing' = (time_spent_pausing + TimeSub(now, time_stop)) % ClockMod
    /\ UNCHANGED << now, created, time_start, time_stop >>

Next == Tick \/ Wait \/ MakeNew \/ Reset \/ Pause \/ Resume

Spec == Init /\ [][Next]_sw_vars

-----------------------------------------------------------------------------
TypeOK ==
    /\ now \in Time
    /\ created \in BOOLEAN
    /\ running \in BOOLEAN
    /\ time_start \in Time
    /\ time_stop \in Time
    /\ time_spent_pausing \in Time

\* What time() returns implements ElapsedTime: it follows the clock while
\* running, stands still while paused (resume adds exactly the paused
\* span, across the wraparound of the millisecond clock), and reset zeroes
\* it without pausing or resuming.
Elapsed == INSTANCE ElapsedTime
    WITH running <- created /\ running,
         elapsed <- IF created THEN TimeValue ELSE 0

ElapsedRefined == Elapsed!ElapsedSpec
=============================================================================

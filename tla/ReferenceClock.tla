--------------------------- MODULE ReferenceClock ---------------------------
(***************************************************************************)
(* What the timing half of the position integrator promises to the       *)
(* trajectory evaluation of the Motion Controller: a reference clock      *)
(* that advances exactly as the wall clock while the trajectory runs,     *)
(* stands still while it is paused, and restarts at the wall clock on a   *)
(* reset.  Both clocks are uint32_t and wrap at ClockMod.                 *)
(***************************************************************************)
EXTENDS Integers

CONSTANTS ClockMod, MaxTick

VARIABLES now, running, ref_time

clock_vars == << now, running, ref_time >>

ClockInit ==
    /\ now = 0
    /\ running = FALSE
    /\ ref_time = 0

\* The wall clock advances by d; the reference follows only while running.
Advance ==
    \E d \in 1..MaxTick :
        /\ now' = (now + d) % ClockMod
        /\ ref_time' = IF running THEN (ref_time + d) % ClockMod ELSE ref_time
        /\ UNCHANGED running

\* The trajectory is paused or resumed: the reference does not jump.
Toggle ==
    /\ running' = ~running
    /\ UNCHANGED << now, ref_time >>

\* A new maneuver: the reference restarts at the wall clock, running.
Restart ==
    /\ running' = TRUE
    /\ ref_time' = now
    /\ UNCHANGED now

ClockNext == Advance \/ Toggle \/ Restart

ClockSpec == ClockInit /\ [][ClockNext]_clock_vars
=============================================================================

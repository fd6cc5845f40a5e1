---------------------------- MODULE SpeedIntegral ----------------------------
(***************************************************************************)
(* What the speed integrator promises to speed-based (timed) control:    *)
(* the integral of the speed error over the time the integrator runs.     *)
(* The speed error integrated over an interval is the change of the       *)
(* position error over that interval, so the integral grows by exactly    *)
(* the change of the position error while running and keeps its value    *)
(* while paused.  A reset restarts it at zero, running.                   *)
(***************************************************************************)
EXTENDS Integers

CONSTANTS Errors

VARIABLES err, running, integral

integral_vars == << err, running, integral >>

IntegralInit ==
    /\ err \in Errors
    /\ running = FALSE
    /\ integral = 0

\* The position error moves to e between two control cycles.
Drift ==
    \E e \in Errors :
        /\ err' = e
        /\ integral' = IF running THEN integral + (e - err) ELSE integral
        /\ UNCHANGED running

\* Integration is paused or resumed: the integral does not jump.
Toggle ==
    /\ running' = ~running
    /\ UNCHANGED << err, integral >>

\* Integration restarts from zero.
Restart ==
    /\ running' = TRUE
    /\ integral' = 0
    /\ UNCHANGED err

IntegralNext == Drift \/ Toggle \/ Restart

IntegralSpec == IntegralInit /\ [][IntegralNext]_integral_vars
=============================================================================

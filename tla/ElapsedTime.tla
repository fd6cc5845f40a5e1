---------------------------- MODULE ElapsedTime ----------------------------
(***************************************************************************)
(* What a stopwatch promises to the user program: the time that has       *)
(* elapsed while it was running since its last reset, in milliseconds,    *)
(* reported as an unsigned 32-bit number (so modulo ClockMod).  Pausing  *)
(* and resuming do not change it; a reset sets it to zero and leaves the  *)
(* stopwatch running or paused as it was.                                 *)
(***************************************************************************)
EXTENDS Integers

CONSTANTS ClockMod, MaxTick

VARIABLES now, running, elapsed

elapsed_vars == << now, running, elapsed >>

ElapsedInit ==
    /\ now \in 0..(ClockMod - 1)
    /\ running = FALSE
    /\ elapsed = 0

\* Real time passes; the elapsed time follows it while running.
Pass ==
    \E d \in 1..MaxTick :
        /\ now' = (now + d) % ClockMod
        /\ elapsed' = IF running THEN (elapsed + d) % ClockMod ELSE elapsed
        /\ UNCHANGED running

\* The stopwatch is paused or resumed without a jump of the elapsed time.
Switch ==
    /\ running' = ~running
    /\ UNCHANGED << now, elapsed >>

\* The elapsed time restarts at zero.
Zero ==
    /\ elapsed' = 0
    /\ UNCHANGED << now, running >>

ElapsedNext == Pass \/ Switch \/ Zero

ElapsedSpec == ElapsedInit /\ [][ElapsedNext]_elapsed_vars
=============================================================================

----------------------------- MODULE MCStopWatch -----------------------------
(* Small instance of StopWatch for TLC: a 3-bit millisecond clock, so that *)
(* pauses and runs that cross the wraparound are reached.                   *)
EXTENDS StopWatch
=============================================================================

------------------------- MODULE MCSpeedIntegrator -------------------------
(* Small instance of SpeedIntegrator for TLC: a 3-bit clock and position *)
(* errors of both signs, so that folded integrals change sign.           *)
EXTENDS SpeedIntegrator

MCErrors == {-2, 0, 3}
MCSpeeds == {-2, 0, 2}
=============================================================================

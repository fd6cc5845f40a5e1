------------------------ MODULE MCPositionIntegrator ------------------------
(* Small instance of PositionIntegrator for TLC: a 3-bit clock, errors on *)
(* both sides of the change bound and the integral bound, one remaining  *)
(* value inside and one outside the integral range.                      *)
EXTENDS PositionIntegrator

MCErrors == {-4, 0, 1, 5}
MCRemainings == {-3, 0, 3}
MCSpeeds == {-2, 0, 2}
=============================================================================

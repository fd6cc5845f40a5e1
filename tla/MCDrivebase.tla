---------------------------- MODULE MCDrivebase ----------------------------
(* Drivebase for TLC.  The servos are model values; they are not         *)
(* interchangeable (every operation visits left before right), so no     *)
(* symmetry set is declared.                                             *)
EXTENDS Drivebase
=============================================================================

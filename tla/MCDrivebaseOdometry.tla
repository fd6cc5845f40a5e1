------------------------- MODULE MCDrivebaseOdometry -------------------------
(* DrivebaseOdometry for TLC on 3-bit integers: a turn of 2 counts on    *)
(* each wheel already makes the sum overflow.                            *)
EXTENDS DrivebaseOdometry
=============================================================================

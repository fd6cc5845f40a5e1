------------------------------ MODULE Odometer ------------------------------
(***************************************************************************)
(* What the drivebase state queries promise to the user program: the      *)
(* distance (sum of the wheel counts) and the angle (their difference)    *)
(* travelled since the last successful reset_state, as signed IntMod-bit *)
(* integers.  A wheel turn adds its count to both, with the sign of its   *)
(* side for the angle; a reset zeroes both, and only when both wheels    *)
(* can be read.                                                          *)
(***************************************************************************)
EXTENDS Integers

CONSTANTS IntMod, MaxStep

VARIABLES travelled, turned, readable

odo_vars == << travelled, turned, readable >>

HalfMod == IntMod \div 2

\* Two's complement wraparound to the signed range.
Wrapped(x) == ((x + HalfMod) % IntMod) - HalfMod

OdoInit ==
    /\ travelled \in -HalfMod..(HalfMod - 1)
    /\ turned \in -HalfMod..(HalfMod - 1)
    /\ readable = TRUE

\* The wheels turn by dl and dr counts.
Roll ==
    \E dl, dr \in -MaxStep..MaxStep :
        /\ travelled' = Wrapped(travelled + (dl + dr))
        /\ turned' = Wrapped(turned + (dl - dr))
        /\ UNCHANGED readable

\* Both readings restart at zero.
Zero ==
    /\ readable
    /\ travelled' = 0
    /\ turned' = 0
    /\ UNCHANGED readable

\* A wheel becomes readable or unreadable.
Plug ==
    /\ readable' \in BOOLEAN
    /\ UNCHANGED << travelled, turned >>

OdoNext == Roll \/ Zero \/ Plug

OdoSpec == OdoInit /\ [][OdoNext]_odo_vars
=============================================================================

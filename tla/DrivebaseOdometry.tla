-------------------------- MODULE DrivebaseOdometry --------------------------
(***************************************************************************)
(* The state queries of src/lib/pbio/src/drivebase.c: drivebase_get_state *)
(* reads the count of the left and the right tacho (and their rates, left *)
(* out here) and forms sum = left + right and dif = left - right;        *)
(* pbio_drivebase_reset_state stores the current sum and dif as the      *)
(* offsets; pbio_drivebase_get_state reports sum - sum_offset and        *)
(* dif - dif_offset.  All of these are int32_t.  A signed overflow is     *)
(* undefined in C; the firmware's build wraps, which is the one outcome   *)
(* modelled, on an IntMod-bit two's complement integer.  The conversion  *)
(* to user units (pbio_control_counts_to_user) is in the Motion           *)
(* Controller and is not modelled: readings are in counts.                *)
(***************************************************************************)
EXTENDS Integers

CONSTANTS
    Left, Right,  \* the two servos (model values)
    IntMod,       \* int32_t wraps at IntMod (2^32)
    MaxStep       \* largest turn of one wheel between two calls, in counts

ASSUME OdometryAssumption ==
    /\ Left # Right
    /\ IntMod \in Nat \ {0}
    /\ IntMod % 2 = 0
    /\ MaxStep \in Nat

VARIABLES
    count,       \* the tacho count of each motor (pbio_tacho_get_count)
    connected,   \* each motor is plugged in
    sum_offset,  \* db->sum_offset
    dif_offset,  \* db->dif_offset
    result       \* error code returned by the last query

odom_vars == << count, connected, sum_offset, dif_offset, result >>

Motors == {Left, Right}

HalfMod == IntMod \div 2

Int32 == -HalfMod..(HalfMod - 1)

\* int32_t arithmetic: the result wrapped to the signed range.
Wrap(x) == ((x + HalfMod) % IntMod) - HalfMod

\* drivebase_get_state succeeds: the four tacho reads of left and right
\* return at the first NoDevice.
CanSample == \A m \in Motors : connected[m]

\* The sum and the difference formed by drivebase_get_state.
Sum == Wrap(count[Left] + count[Right])
Dif == Wrap(count[Left] - count[Right])

\* pbio_drivebase_get_state: distance and angle, in counts.
Distance == Wrap(Sum - sum_offset)
Angle == Wrap(Dif - dif_offset)

\* The static db is zeroed at boot; the wheels stand anywhere.
Init ==
    /\ count \in [Motors -> Int32]
    /\ connected = [m \in Motors |-> TRUE]
    /\ sum_offset = 0
    /\ dif_offset = 0
    /\ result = "success"

\* The wheels turn between two calls.
Move ==
    \E dl, dr \in -MaxStep..MaxStep :
        /\ count' = [count EXCEPT ![Left] = Wrap(@ + dl), ![Right] = Wrap(@ + dr)]
        /\ UNCHANGED << connected, sum_offset, dif_offset, result >>

\* Mutant: reset_state recalibrates the distance only.
ResetSumOnly ==
    /\ IF CanSample
       THEN /\ sum_offset' = Sum
            /\ result' = "success"
            /\ UNCHANGED dif_offset
       ELSE /\ result' = "no_dev"
            /\ UNCHANGED << sum_offset, dif_offset >>
    /\ UNCHANGED << count, connected >>

\* pbio_drivebase_reset_state: drivebase_get_state with the offsets as its
\* output parameters, which it writes only after all four reads succeeded.
ResetState ==
    /\ IF CanSample
       THEN /\ sum_offset' = Sum
            /\ dif_offset' = Dif
            /\ result' = "success"
       ELSE /\ result' = "no_dev"
            /\ UNCHANGED << sum_offset, dif_offset >>
    /\ UNCHANGED << count, connected >>

\* pbio_drivebase_get_state: the reading is Distance and Angle when the
\* sample succeeds; it changes nothing else.
GetState ==
    /\ result' = IF CanSample THEN "success" ELSE "no_dev"
    /\ UNCHANGED << count, connected, sum_offset, dif_offset >>

\* A motor cable is pulled out or plugged back in.
Replug(m) ==
    /\ connected' = [connected EXCEPT ![m] = ~@]
    /\ UNCHANGED << count, sum_offset, dif_offset, result >>

Next == Move \/ ResetState \/ GetState \/ \E m \in Motors : Replug(m)

Spec == Init /\ [][Next]_odom_vars

-----------------------------------------------------------------------------
TypeOK ==
    /\ count \in [Motors -> Int32]
    /\ connected \in [Motors -> BOOLEAN]
    /\ sum_offset \in Int32
    /\ dif_offset \in Int32
    /\ result \in {"success", "no_dev"}

\* What get_state reports implements Odometer: the distance and the angle
\* travelled since the last successful reset_state, even when the int32
\* sum of the counts overflows between the reset and the reading, and a
\* reset_state that fails on an unplugged motor changes neither offset.
Odo == INSTANCE Odometer
    WITH travelled <- Distance, turned <- Angle, readable <- CanSample

OdometerRefined == Odo!OdoSpec
=============================================================================

------------------------------ MODULE Drivebase ------------------------------
(***************************************************************************)
(* The drivebase coordinator of src/lib/pbio/src/drivebase.c: two         *)
(* servos (left, right) driven through two logical axes, distance (sum   *)
(* of counts) and heading (difference), each with its own Motion          *)
(* Controller.                                                           *)
(*                                                                         *)
(* The model keeps the CONTROL of the coordinator: which controllers are  *)
(* active, the claim flag of each servo, what each motor outputs, which  *)
(* call fails at which step and what it has done before failing.  Counts, *)
(* rates and control signals are abstracted away: a sample of the        *)
(* physical state either succeeds or fails.                              *)
(*                                                                         *)
(* The collaborators that are not under src/ are modelled from the spec   *)
(* (Motion Controller, servo, dc motor, tacho):                          *)
(*  - a controller is "none", "angle" (relative angle maneuver, after     *)
(*    stop HOLD) or "timed" (drive: duration forever, on_target_never,    *)
(*    after stop COAST); control_update reports DUTY until an angle       *)
(*    maneuver is on target and then its after-stop actuation, HOLD;     *)
(*  - a controller start may reject its arguments (InvalidArgument) and   *)
(*    then leaves the controller as it was; a start on an idle controller *)
(*    begins at the state passed to it, a start on an active one          *)
(*    continues from its current reference (the FIXME of drive());        *)
(*  - every I/O call on a disconnected motor fails with NoDevice;         *)
(*  - a servo's own control is stopped by claim_servos, pbio_servo_stop   *)
(*    and pbio_servo_stop_force, and stopping a controller does not       *)
(*    change the motor output: the motor keeps its last duty cycle;      *)
(*  - the user program may run or stop a single servo only while it is    *)
(*    not claimed (the Actuator Interface enforces the claim).            *)
(* Every call is atomic: the user program and the motor poll loop run    *)
(* cooperatively on one thread.                                           *)
(***************************************************************************)
EXTENDS Naturals

CONSTANTS
    Left, Right,   \* the two servos (model values)
    CanFail,       \* controller starts may reject their arguments
    CanUnplug      \* motors may be disconnected and reconnected

ASSUME DrivebaseAssumption ==
    /\ Left # Right
    /\ CanFail \in BOOLEAN
    /\ CanUnplug \in BOOLEAN

Motors == {Left, Right}
Axes == {"distance", "heading"}
CtlTypes == {"none", "angle", "timed"}
Outputs == {"coast", "brake", "duty"}
Errs == {"success", "no_dev", "invalid_arg", "invalid_op"}

\* A controller: its type, whether an angle maneuver is on target, and
\* whether the state it started from was really sampled.
Ctl == [type : CtlTypes, done : BOOLEAN, sampled : BOOLEAN]
Idle == [type |-> "none", done |-> FALSE, sampled |-> TRUE]

VARIABLES
    attached,    \* db->left and db->right are set
    claimed,     \* srv->claimed of each servo
    servo_ctl,   \* the servo's own control is active (srv->control.type)
    output,      \* what each dc motor currently outputs
    connected,   \* each motor is plugged in
    ctl,         \* db->control_distance and db->control_heading
    configured,  \* a pbio_drivebase_setup has succeeded (the user program
                 \* holds a DriveBase object for the static db)
    rate_ok,     \* the settings max_rate / abs_acceleration of each axis
                 \* are arguments a controller start accepts
    result       \* error code returned by the last drivebase call

vars == << attached, claimed, servo_ctl, output, connected, ctl, configured,
           rate_ok, result >>

-----------------------------------------------------------------------------
(* Helpers. *)

\* Both axes are active: pbio_drivebase_update runs the controllers.
Active == \A a \in Axes : ctl[a].type # "none"

\* drivebase_get_state: the tacho reads of both motors succeed.
CanSample == \A m \in Motors : connected[m]

\* The first failing motor of an operation on left then right.
FirstFail == IF ~connected[Left] THEN "no_dev"
             ELSE IF ~connected[Right] THEN "no_dev" ELSE "success"

\* Mutant: only the left motor is actuated.
ActuatedLeftOnly(out) ==
    [m \in Motors |-> IF m = Left /\ connected[m] THEN out ELSE output[m]]

\* Apply out to left, then to right, stopping at the first disconnected
\* motor (pbio_dcmotor_coast / _brake / _set_duty_cycle_sys in sequence).
Actuated(out) ==
    [m \in Motors |->
        IF connected[m] /\ (m = Right => connected[Left]) THEN out
        ELSE output[m]]

\* A relative angle maneuver started on axis a, idle or not.
AngleStarted(a, sampled) ==
    [type |-> "angle", done |-> FALSE,
     sampled |-> IF ctl[a].type = "none" THEN sampled ELSE ctl[a].sampled]

\* A timed (drive) maneuver started on axis a from a state that was
\* sampled or not; an active controller continues from its reference.
TimedStarted(a, sampled) ==
    [type |-> "timed", done |-> FALSE,
     sampled |-> IF ctl[a].type = "none" THEN sampled ELSE ctl[a].sampled]

\* The arguments a start may be given: always accepted when CanFail is off.
ArgChoices == IF CanFail THEN BOOLEAN ELSE {TRUE}

-----------------------------------------------------------------------------
\* Mutant: the claim flag is set without stopping the servos' own control.
ClaimServosKeepControl(claim) ==
    /\ servo_ctl' = servo_ctl
    /\ claimed' = [m \in Motors |-> claim]

(* pbio_drivebase_claim_servos(db, claim): stop both servos' own control *)
(* and set their claim flag.                                              *)
ClaimServos(claim) ==
    /\ servo_ctl' = [m \in Motors |-> FALSE]
    /\ claimed' = [m \in Motors |-> claim]

(***************************************************************************)
(* The body shared by pbio_drivebase_straight and pbio_drivebase_turn     *)
(* (and by the HOLD actuation, which calls straight): claim, sample, start *)
(* the distance controller with arguments dist_ok, then the heading       *)
(* controller with arguments head_ok, returning at the first failure.     *)
(***************************************************************************)
Maneuver(dist_ok, head_ok) ==
    /\ ClaimServos(TRUE)
    /\ ctl' = IF ~CanSample \/ ~dist_ok THEN ctl
              ELSE IF ~head_ok THEN [ctl EXCEPT !["distance"] = AngleStarted("distance", TRUE)]
              ELSE [a \in Axes |-> AngleStarted(a, TRUE)]
    /\ result' = IF ~CanSample THEN "no_dev"
                 ELSE IF ~dist_ok \/ ~head_ok THEN "invalid_arg" ELSE "success"

-----------------------------------------------------------------------------
(* Operations. *)

\* The static db is zeroed at boot; no motor is driven.
Init ==
    /\ attached = FALSE
    /\ claimed = [m \in Motors |-> FALSE]
    /\ servo_ctl = [m \in Motors |-> FALSE]
    /\ output = [m \in Motors |-> "coast"]
    /\ connected = [m \in Motors |-> TRUE]
    /\ ctl = [a \in Axes |-> Idle]
    /\ configured = FALSE
    /\ rate_ok = [a \in Axes |-> FALSE]
    /\ result = "success"

(***************************************************************************)
(* pbio_drivebase_setup(db, left, right, wheel_diameter, axle_track).    *)
(* geom_ok: both dimensions positive and equal gearing; settings_ok: the *)
(* two servos have equal actuation scale and control offset.  The        *)
(* leading stop_force stops both controllers and then the left and right *)
(* servo; its NoDevice is tolerated, so a disconnected left motor leaves  *)
(* the right one unstopped.  Then both servos are stopped (coast), the    *)
(* arguments are checked, the servos attached and released, and the      *)
(* settings adopted: a mismatch returns after the distance settings were *)
(* written and before the heading settings are copied.                   *)
(***************************************************************************)
Setup(geom_ok, settings_ok) ==
    LET passed == CanSample /\ geom_ok
    IN
    /\ ctl' = [a \in Axes |-> Idle]
    /\ servo_ctl' = [m \in Motors |->
                       IF m = Left \/ connected[Left] THEN FALSE ELSE servo_ctl[m]]
    /\ output' = Actuated("coast")
    /\ attached' = (attached \/ passed)
    /\ claimed' = IF passed THEN [m \in Motors |-> FALSE] ELSE claimed
    /\ rate_ok' = IF ~passed THEN rate_ok
                  ELSE IF settings_ok THEN [a \in Axes |-> TRUE]
                  ELSE [rate_ok EXCEPT !["distance"] = TRUE]
    /\ configured' = (configured \/ (passed /\ settings_ok))
    /\ result' = IF ~CanSample THEN "no_dev"
                 ELSE IF ~passed \/ ~settings_ok THEN "invalid_arg" ELSE "success"
    /\ UNCHANGED connected

\* pbio_drivebase_straight(db, distance, speed, acceleration): the user's
\* speed and acceleration go to the distance controller, the heading
\* controller holds with its own settings.
Straight(args_ok) ==
    /\ configured
    /\ Maneuver(args_ok, rate_ok["heading"])
    /\ UNCHANGED << attached, output, connected, configured, rate_ok >>

\* pbio_drivebase_turn(db, angle, rate, acceleration): mirror of straight.
Turn(args_ok) ==
    /\ configured
    /\ Maneuver(rate_ok["distance"], args_ok)
    /\ UNCHANGED << attached, output, connected, configured, rate_ok >>

\* Mutant: drive never reads the physical state, and always starts from
\* the uninitialised sum/dif locals.
DriveNoSample(dist_ok, head_ok) ==
    /\ configured
    /\ ClaimServos(TRUE)
    /\ ctl' = IF ~dist_ok THEN ctl
              ELSE IF ~head_ok THEN [ctl EXCEPT !["distance"] = TimedStarted("distance", FALSE)]
              ELSE [a \in Axes |-> TimedStarted(a, FALSE)]
    /\ result' = IF ~dist_ok \/ ~head_ok THEN "invalid_arg" ELSE "success"
    /\ UNCHANGED << attached, output, connected, configured, rate_ok >>

(***************************************************************************)
(* pbio_drivebase_drive(db, speed, turn_rate): claim; sample the state    *)
(* only if both controllers are idle, otherwise read the clock alone and  *)
(* pass the uninitialised sum/dif locals on; start both timed            *)
(* controllers, returning at the first rejection.                         *)
(***************************************************************************)
Drive(dist_ok, head_ok) ==
    LET idle == \A a \in Axes : ctl[a].type = "none"
    IN
    /\ configured
    /\ ClaimServos(TRUE)
    /\ ctl' = IF (idle /\ ~CanSample) \/ ~dist_ok THEN ctl
              ELSE IF ~head_ok THEN [ctl EXCEPT !["distance"] = TimedStarted("distance", idle)]
              ELSE [a \in Axes |-> TimedStarted(a, idle)]
    /\ result' = IF idle /\ ~CanSample THEN "no_dev"
                 ELSE IF ~dist_ok \/ ~head_ok THEN "invalid_arg" ELSE "success"
    /\ UNCHANGED << attached, output, connected, configured, rate_ok >>

\* pbio_drivebase_stop(db, HOLD): sample the state to hold, then the HOLD
\* actuation, which is pbio_drivebase_straight(db, 0, max_rate, max_rate).
StopHold ==
    /\ configured
    /\ \/ /\ ~CanSample
          /\ result' = "no_dev"
          /\ UNCHANGED << claimed, servo_ctl, ctl >>
       \/ /\ CanSample
          /\ Maneuver(rate_ok["distance"], rate_ok["heading"])
    /\ UNCHANGED << attached, output, connected, configured, rate_ok >>

\* pbio_drivebase_stop(db, COAST or BRAKE): stop both controllers, then
\* pbio_drivebase_actuate: the left motor, the right motor, and only when
\* both succeeded the release of the claim.
StopPassive(after) ==
    /\ configured
    /\ ctl' = [a \in Axes |-> Idle]
    /\ output' = Actuated(after)
    /\ IF FirstFail = "success" THEN ClaimServos(FALSE)
       ELSE UNCHANGED << claimed, servo_ctl >>
    /\ result' = FirstFail
    /\ UNCHANGED << attached, connected, configured, rate_ok >>

\* pbio_drivebase_stop_force: stop both controllers; NoDevice without
\* servos; else pbio_servo_stop_force on left and then on right (each
\* stops that servo's control and coasts it), the claim left as it is.
StopForce ==
    /\ ctl' = [a \in Axes |-> Idle]
    /\ IF attached
       THEN /\ servo_ctl' = [m \in Motors |->
                               IF m = Left \/ connected[Left] THEN FALSE ELSE servo_ctl[m]]
            /\ output' = Actuated("coast")
            /\ result' = FirstFail
       ELSE /\ result' = "no_dev"
            /\ UNCHANGED << servo_ctl, output >>
    /\ UNCHANGED << attached, claimed, connected, configured, rate_ok >>

(***************************************************************************)
(* pbio_drivebase_update, called by the motor poll loop every cycle:      *)
(* sample; if either controller is idle, log and return; else run both    *)
(* controllers, fail with InvalidOperation when their actuations differ,  *)
(* else actuate (DUTY on left then right; HOLD restarts a zero straight). *)
(***************************************************************************)
Actuation(a) == IF ctl[a].type = "angle" /\ ctl[a].done THEN "hold" ELSE "duty"

UpdateNoDevice ==
    /\ configured
    /\ ~CanSample
    /\ result' = "no_dev"
    /\ UNCHANGED << attached, claimed, servo_ctl, output, connected, ctl,
                    configured, rate_ok >>

UpdatePassive ==
    /\ configured
    /\ CanSample
    /\ ~Active
    /\ result' = "success"
    /\ UNCHANGED << attached, claimed, servo_ctl, output, connected, ctl,
                    configured, rate_ok >>

UpdateMismatch ==
    /\ configured
    /\ CanSample
    /\ Active
    /\ Actuation("distance") # Actuation("heading")
    /\ result' = "invalid_op"
    /\ UNCHANGED << attached, claimed, servo_ctl, output, connected, ctl,
                    configured, rate_ok >>

UpdateDuty ==
    /\ configured
    /\ CanSample
    /\ Active
    /\ \A a \in Axes : Actuation(a) = "duty"
    /\ output' = Actuated("duty")
    /\ result' = "success"
    /\ UNCHANGED << attached, claimed, servo_ctl, connected, ctl, configured,
                    rate_ok >>

UpdateHold ==
    /\ configured
    /\ CanSample
    /\ Active
    /\ \A a \in Axes : Actuation(a) = "hold"
    /\ Maneuver(rate_ok["distance"], rate_ok["heading"])
    /\ UNCHANGED << attached, output, connected, configured, rate_ok >>

\* pbio_drivebase_set_drive_settings: new max rate and acceleration for
\* each axis, which a later controller start may reject.
SetDriveSettings(dist_ok, head_ok) ==
    /\ configured
    /\ rate_ok' = [a \in Axes |-> IF a = "distance" THEN dist_ok ELSE head_ok]
    /\ result' = "success"
    /\ UNCHANGED << attached, claimed, servo_ctl, output, connected, ctl,
                    configured >>

-----------------------------------------------------------------------------
(* The environment of the coordinator. *)

\* The Motion Controller of axis a reaches the target of its maneuver.
Reach(a) ==
    /\ ctl[a].type = "angle"
    /\ ~ctl[a].done
    /\ ctl' = [ctl EXCEPT ![a].done = TRUE]
    /\ UNCHANGED << attached, claimed, servo_ctl, output, connected,
                    configured, rate_ok, result >>

\* The user program runs servo m on its own, which only an unclaimed
\* servo accepts.
ServoRun(m) ==
    /\ ~claimed[m]
    /\ connected[m]
    /\ servo_ctl' = [servo_ctl EXCEPT ![m] = TRUE]
    /\ output' = [output EXCEPT ![m] = "duty"]
    /\ UNCHANGED << attached, claimed, connected, ctl, configured, rate_ok,
                    result >>

\* The user program stops servo m on its own (coast).
ServoStop(m) ==
    /\ ~claimed[m]
    /\ connected[m]
    /\ servo_ctl' = [servo_ctl EXCEPT ![m] = FALSE]
    /\ output' = [output EXCEPT ![m] = "coast"]
    /\ UNCHANGED << attached, claimed, connected, ctl, configured, rate_ok,
                    result >>

\* A motor cable is pulled out or plugged back in.
Replug(m) ==
    /\ CanUnplug
    /\ connected' = [connected EXCEPT ![m] = ~connected[m]]
    /\ UNCHANGED << attached, claimed, servo_ctl, output, ctl, configured,
                    rate_ok, result >>

Next ==
    \/ \E g, s \in BOOLEAN : Setup(g, s)
    \/ \E ok \in ArgChoices : Straight(ok) \/ Turn(ok)
    \/ \E d, h \in ArgChoices : Drive(d, h) \/ SetDriveSettings(d, h)
    \/ StopHold
    \/ \E after \in {"coast", "brake"} : StopPassive(after)
    \/ StopForce
    \/ UpdateNoDevice \/ UpdatePassive \/ UpdateMismatch \/ UpdateDuty
    \/ UpdateHold
    \/ \E a \in Axes : Reach(a)
    \/ \E m \in Motors : ServoRun(m) \/ ServoStop(m) \/ Replug(m)

Spec == Init /\ [][Next]_vars

-----------------------------------------------------------------------------
(* Properties. *)

TypeOK ==
    /\ attached \in BOOLEAN
    /\ claimed \in [Motors -> BOOLEAN]
    /\ servo_ctl \in [Motors -> BOOLEAN]
    /\ output \in [Motors -> Outputs]
    /\ connected \in [Motors -> BOOLEAN]
    /\ ctl \in [Axes -> Ctl]
    /\ configured \in BOOLEAN
    /\ rate_ok \in [Axes -> BOOLEAN]
    /\ result \in Errs

\* Mutual exclusion of the two ways of driving a motor: while the drivebase
\* runs its controllers, both servos are claimed and neither runs its own
\* control (claim_servos, the order of claim and controller starts in
\* straight/turn/drive, and of controller stops and release in stop).
NoDoubleControl ==
    Active => \A m \in Motors : claimed[m] /\ ~servo_ctl[m]

\* No connected motor is left with a duty cycle that no controller updates:
\* a duty-driven motor is driven by its own servo control or by the
\* drivebase.
RunawayFree ==
    \A m \in Motors :
        (connected[m] /\ output[m] = "duty") => (servo_ctl[m] \/ Active)

\* The two axes never disagree on the actuation of a cycle: update never
\* fails with InvalidOperation, the "internal consistency fault".
NoInvalidOp == result # "invalid_op"

\* Every active controller started from a sampled physical state.
StartedFromSample ==
    \A a \in Axes : ctl[a].type # "none" => ctl[a].sampled
=============================================================================

--------------------------- MODULE DrivebaseProofs ---------------------------
(***************************************************************************)
(* Proofs about Drivebase for every choice of the servos and of the       *)
(* failure switches: type correctness, and the mutual exclusion of        *)
(* drivebase control and single-servo control.                            *)
(***************************************************************************)
EXTENDS Drivebase, TLAPS

USE DrivebaseAssumption

\* The records a controller start produces are controllers.
LEMMA StartedType ==
    ASSUME ctl \in [Axes -> Ctl], NEW a \in Axes, NEW s \in BOOLEAN
    PROVE  /\ AngleStarted(a, s) \in Ctl
           /\ TimedStarted(a, s) \in Ctl
    BY DEF AngleStarted, TimedStarted, Ctl, CtlTypes

\* Applying an output to both motors yields outputs.
LEMMA ActuatedType ==
    ASSUME output \in [Motors -> Outputs], NEW out \in Outputs
    PROVE  Actuated(out) \in [Motors -> Outputs]
    BY DEF Actuated

LEMMA IdleType == Idle \in Ctl
    BY DEF Idle, Ctl, CtlTypes

\* The claim helper and the shared maneuver body keep the types.
LEMMA ManeuverType ==
    ASSUME TypeOK, NEW d \in BOOLEAN, NEW h \in BOOLEAN, Maneuver(d, h)
    PROVE  /\ claimed' \in [Motors -> BOOLEAN]
           /\ servo_ctl' \in [Motors -> BOOLEAN]
           /\ ctl' \in [Axes -> Ctl]
           /\ result' \in Errs
  <1>1. ctl \in [Axes -> Ctl]
    BY DEF TypeOK
  <1>2. \A a \in Axes : AngleStarted(a, TRUE) \in Ctl
    BY <1>1, StartedType
  <1>3. ctl' \in [Axes -> Ctl]
    BY <1>1, <1>2 DEF Maneuver
  <1>4. claimed' \in [Motors -> BOOLEAN] /\ servo_ctl' \in [Motors -> BOOLEAN]
    BY DEF Maneuver, ClaimServos
  <1>5. result' \in Errs
    BY DEF Maneuver, Errs
  <1>6. QED
    BY <1>3, <1>4, <1>5

\* A step made of the maneuver body that leaves the rest alone keeps the types.
LEMMA ManeuverStepType ==
    ASSUME TypeOK, NEW d \in BOOLEAN, NEW h \in BOOLEAN, Maneuver(d, h),
           UNCHANGED << attached, output, connected, configured, rate_ok >>
    PROVE  TypeOK'
  <1>1. /\ claimed' \in [Motors -> BOOLEAN]
        /\ servo_ctl' \in [Motors -> BOOLEAN]
        /\ ctl' \in [Axes -> Ctl]
        /\ result' \in Errs
    BY ManeuverType
  <1>2. QED
    BY <1>1 DEF TypeOK

LEMMA TypeCorrect == Spec => []TypeOK
  <1>1. Init => TypeOK
    BY IdleType DEF Init, TypeOK, Outputs, Errs
  <1>2. TypeOK /\ [Next]_vars => TypeOK'
    <2> SUFFICES ASSUME TypeOK, [Next]_vars PROVE TypeOK'
      OBVIOUS
    <2> USE DEF TypeOK
    <2>1. ASSUME NEW g \in BOOLEAN, NEW s \in BOOLEAN, Setup(g, s)
          PROVE TypeOK'
      <3>1. ctl' \in [Axes -> Ctl]
        BY <2>1, IdleType DEF Setup
      <3>2. servo_ctl' \in [Motors -> BOOLEAN] /\ claimed' \in [Motors -> BOOLEAN]
        BY <2>1 DEF Setup
      <3>3. output' \in [Motors -> Outputs]
        BY <2>1, ActuatedType DEF Setup, Outputs
      <3>4. attached' \in BOOLEAN /\ configured' \in BOOLEAN
        BY <2>1, Zenon DEF Setup
      <3>5. rate_ok' \in [Axes -> BOOLEAN]
        BY <2>1 DEF Setup
      <3>6. result' \in Errs /\ connected' = connected
        BY <2>1 DEF Setup, Errs
      <3>7. QED
        BY <3>1, <3>2, <3>3, <3>4, <3>5, <3>6
    <2>2. ASSUME NEW ok \in ArgChoices, Straight(ok) \/ Turn(ok)
          PROVE TypeOK'
      <3>1. ok \in BOOLEAN
        BY DEF ArgChoices
      <3>2. rate_ok["distance"] \in BOOLEAN /\ rate_ok["heading"] \in BOOLEAN
        BY DEF Axes
      <3>3. CASE Straight(ok)
        BY <3>1, <3>2, <3>3, ManeuverStepType DEF Straight
      <3>4. CASE Turn(ok)
        BY <3>1, <3>2, <3>4, ManeuverStepType DEF Turn
      <3>5. QED
        BY <2>2, <3>3, <3>4
    <2>3. ASSUME NEW d \in ArgChoices, NEW h \in ArgChoices, Drive(d, h)
          PROVE TypeOK'
      <3> DEFINE idle == \A a \in Axes : ctl[a].type = "none"
      <3>1. idle \in BOOLEAN
        OBVIOUS
      <3>2. \A a \in Axes : TimedStarted(a, idle) \in Ctl
        BY <3>1, StartedType
      <3>3. ctl' \in [Axes -> Ctl]
        BY <2>3, <3>2 DEF Drive
      <3>4. claimed' \in [Motors -> BOOLEAN] /\ servo_ctl' \in [Motors -> BOOLEAN]
        BY <2>3 DEF Drive, ClaimServos
      <3>5. result' \in Errs
        BY <2>3 DEF Drive, Errs
      <3>6. QED
        BY <2>3, <3>3, <3>4, <3>5 DEF Drive
    <2>4. ASSUME NEW d \in ArgChoices, NEW h \in ArgChoices, SetDriveSettings(d, h)
          PROVE TypeOK'
      BY <2>4 DEF SetDriveSettings, ArgChoices, Errs
    <2>5. CASE StopHold
      <3>1. rate_ok["distance"] \in BOOLEAN /\ rate_ok["heading"] \in BOOLEAN
        BY DEF Axes
      <3>2. CASE ~CanSample
        BY <2>5, <3>2 DEF StopHold, Errs
      <3>3. CASE CanSample
        BY <2>5, <3>1, <3>3, ManeuverStepType DEF StopHold
      <3>4. QED
        BY <3>2, <3>3
    <2>6. ASSUME NEW after \in {"coast", "brake"}, StopPassive(after)
          PROVE TypeOK'
      BY <2>6, IdleType, ActuatedType DEF StopPassive, ClaimServos, FirstFail, Outputs, Errs
    <2>7. CASE StopForce
      <3>1. ctl' \in [Axes -> Ctl]
        BY <2>7, IdleType DEF StopForce
      <3>2. CASE attached
        BY <2>7, <3>1, <3>2, ActuatedType DEF StopForce, FirstFail, Outputs, Errs
      <3>3. CASE ~attached
        BY <2>7, <3>1, <3>3 DEF StopForce, Errs
      <3>4. QED
        BY <3>2, <3>3
    <2>8. CASE UpdateNoDevice \/ UpdatePassive \/ UpdateMismatch
      BY <2>8 DEF UpdateNoDevice, UpdatePassive, UpdateMismatch, Errs
    <2>9. CASE UpdateDuty
      BY <2>9, ActuatedType DEF UpdateDuty, Outputs, Errs
    <2>10. CASE UpdateHold
      <3>1. rate_ok["distance"] \in BOOLEAN /\ rate_ok["heading"] \in BOOLEAN
        BY DEF Axes
      <3>2. QED
        BY <2>10, <3>1, ManeuverStepType DEF UpdateHold
    <2>11. ASSUME NEW a \in Axes, Reach(a)
           PROVE TypeOK'
      BY <2>11 DEF Reach, Ctl
    <2>12. ASSUME NEW m \in Motors, ServoRun(m) \/ ServoStop(m) \/ Replug(m)
           PROVE TypeOK'
      BY <2>12 DEF ServoRun, ServoStop, Replug, Outputs
    <2>13. CASE UNCHANGED vars
      BY <2>13 DEF vars
    <2>14. QED
      BY <2>1, <2>2, <2>3, <2>4, <2>5, <2>6, <2>7, <2>8, <2>9, <2>10, <2>11,
         <2>12, <2>13 DEF Next
  <1>3. QED
    BY <1>1, <1>2, PTL DEF Spec

-----------------------------------------------------------------------------
(* Mutual exclusion.  Three shapes of step preserve it: a step that stops  *)
(* both controllers, a step that claims both servos (claim_servos stops   *)
(* their own control), and a step that touches none of the claims, the    *)
(* servos' control or the controllers.                                    *)

LEMMA IdleStep ==
    ASSUME ctl' = [a \in Axes |-> Idle]
    PROVE  NoDoubleControl'
    BY DEF NoDoubleControl, Active, Idle, Axes

LEMMA ClaimStep ==
    ASSUME ClaimServos(TRUE)
    PROVE  NoDoubleControl'
    BY DEF NoDoubleControl, ClaimServos

LEMMA FrameStep ==
    ASSUME NoDoubleControl, UNCHANGED << claimed, servo_ctl, ctl >>
    PROVE  NoDoubleControl'
    BY DEF NoDoubleControl, Active

\* While the drivebase runs both controllers, both servos are claimed and
\* neither runs its own control: pbio_drivebase_claim_servos precedes every
\* controller start in straight, turn, drive and the HOLD actuation, and
\* stop, stop_force and setup stop both controllers.  The user program's
\* single-servo commands are refused on a claimed servo.
THEOREM MutualExclusion == Spec => []NoDoubleControl
  <1>1. Init => NoDoubleControl
    BY DEF Init, NoDoubleControl, Active, Idle, Axes
  <1>2. TypeOK /\ NoDoubleControl /\ [Next]_vars => NoDoubleControl'
    <2> SUFFICES ASSUME TypeOK, NoDoubleControl, [Next]_vars
                 PROVE  NoDoubleControl'
      OBVIOUS
    <2>1. ASSUME NEW g \in BOOLEAN, NEW s \in BOOLEAN, Setup(g, s)
          PROVE NoDoubleControl'
      BY <2>1, IdleStep DEF Setup
    <2>2. ASSUME NEW ok \in ArgChoices, Straight(ok) \/ Turn(ok)
          PROVE NoDoubleControl'
      BY <2>2, ClaimStep DEF Straight, Turn, Maneuver
    <2>3. ASSUME NEW d \in ArgChoices, NEW h \in ArgChoices, Drive(d, h)
          PROVE NoDoubleControl'
      BY <2>3, ClaimStep DEF Drive
    <2>4. ASSUME NEW d \in ArgChoices, NEW h \in ArgChoices, SetDriveSettings(d, h)
          PROVE NoDoubleControl'
      BY <2>4, FrameStep DEF SetDriveSettings
    <2>5. CASE StopHold
      <3>1. CASE ~CanSample
        BY <2>5, <3>1, FrameStep DEF StopHold
      <3>2. CASE CanSample
        BY <2>5, <3>2, ClaimStep DEF StopHold, Maneuver
      <3>3. QED
        BY <3>1, <3>2
    <2>6. ASSUME NEW after \in {"coast", "brake"}, StopPassive(after)
          PROVE NoDoubleControl'
      BY <2>6, IdleStep DEF StopPassive
    <2>7. CASE StopForce
      BY <2>7, IdleStep DEF StopForce
    <2>8. CASE UpdateNoDevice \/ UpdatePassive \/ UpdateMismatch \/ UpdateDuty
      BY <2>8, FrameStep DEF UpdateNoDevice, UpdatePassive, UpdateMismatch, UpdateDuty
    <2>9. CASE UpdateHold
      BY <2>9, ClaimStep DEF UpdateHold, Maneuver
    <2>10. ASSUME NEW a \in Axes, Reach(a)
           PROVE NoDoubleControl'
      <3>1. \A x \in Axes : ctl'[x].type = ctl[x].type
        BY <2>10 DEF Reach, TypeOK, Ctl
      <3>2. Active' = Active
        BY <3>1 DEF Active
      <3>3. QED
        BY <2>10, <3>2 DEF Reach, NoDoubleControl
    <2>11. ASSUME NEW m \in Motors, ServoRun(m) \/ ServoStop(m)
           PROVE NoDoubleControl'
      <3>1. ~Active
        BY <2>11 DEF ServoRun, ServoStop, NoDoubleControl
      <3>2. ~Active'
        BY <2>11, <3>1 DEF ServoRun, ServoStop, Active
      <3>3. QED
        BY <3>2 DEF NoDoubleControl
    <2>12. ASSUME NEW m \in Motors, Replug(m)
           PROVE NoDoubleControl'
      BY <2>12, FrameStep DEF Replug
    <2>13. CASE UNCHANGED vars
      BY <2>13, FrameStep DEF vars
    <2>14. QED
      BY <2>1, <2>2, <2>3, <2>4, <2>5, <2>6, <2>7, <2>8, <2>9, <2>10, <2>11,
         <2>12, <2>13 DEF Next
  <1>3. QED
    BY <1>1, <1>2, TypeCorrect, PTL DEF Spec

-----------------------------------------------------------------------------
(* Reliable motors and accepted arguments (the drivebase run).  Then no    *)
(* motor runs away and every controller starts from a sampled state.      *)
(* Neither property is inductive alone:                                   *)
(*  - a step that ends drivebase control must also coast or brake both    *)
(*    motors, which needs both motors connected and, for stop_force, the  *)
(*    servos attached;                                                    *)
(*  - a step that claims the servos must start both controllers, which    *)
(*    needs the settings of both axes to be accepted once a setup has     *)
(*    succeeded;                                                          *)
(*  - drive() skips the sample only when a controller is active, which    *)
(*    must then mean both are, each started from a sample.                *)

ReliableInv ==
    /\ \A m \in Motors : connected[m]
    /\ configured => attached /\ \A a \in Axes : rate_ok[a]
    /\ (\E a \in Axes : ctl[a].type # "none") => configured /\ Active
    /\ RunawayFree
    /\ StartedFromSample

\* With both motors connected, an actuation reaches both of them.
LEMMA ActuatedAll ==
    ASSUME NEW out, \A m \in Motors : connected[m]
    PROVE  \A m \in Motors : Actuated(out)[m] = out
    BY DEF Actuated, Motors

\* A step that makes every connected motor coast or brake.
LEMMA PassiveOutputs ==
    ASSUME NEW out \in {"coast", "brake"}, \A m \in Motors : connected[m],
           output' = Actuated(out)
    PROVE  \A m \in Motors : output'[m] # "duty"
    BY ActuatedAll

\* A step that stops both controllers keeps the invariant once it leaves
\* no motor on a duty cycle and every setup that succeeded attached the
\* servos with accepted settings.
LEMMA IdleReliable ==
    ASSUME ctl' = [a \in Axes |-> Idle],
           \A m \in Motors : connected'[m],
           \A m \in Motors : output'[m] # "duty",
           configured' => attached' /\ \A a \in Axes : rate_ok'[a]
    PROVE  ReliableInv'
    BY DEF ReliableInv, RunawayFree, StartedFromSample, Idle

\* The maneuver body with every start accepted, from a state that
\* satisfies the invariant: both controllers run after it, each from a
\* sample, and the rest of the invariant is carried over.
LEMMA ManeuverReliable ==
    ASSUME TypeOK, ReliableInv, configured, Maneuver(TRUE, TRUE),
           UNCHANGED << attached, output, connected, configured, rate_ok >>
    PROVE  ReliableInv'
  <1>1. CanSample
    BY DEF ReliableInv, CanSample
  <1>2. ctl' = [a \in Axes |-> AngleStarted(a, TRUE)]
    BY <1>1 DEF Maneuver
  <1>3. \A a \in Axes : ctl'[a].type = "angle" /\ ctl'[a].sampled
    BY <1>2 DEF AngleStarted, ReliableInv, StartedFromSample
  <1> QED
    BY <1>3 DEF ReliableInv, Active, RunawayFree, StartedFromSample

\* A step that leaves the claims, the servos, the outputs, the connections,
\* the configuration and the controllers' types and origins alone.
LEMMA FrameReliable ==
    ASSUME ReliableInv,
           UNCHANGED << attached, servo_ctl, output, connected, configured >>,
           \A a \in Axes : ctl'[a].type = ctl[a].type /\ ctl'[a].sampled = ctl[a].sampled,
           \A a \in Axes : rate_ok'[a] = rate_ok[a] \/ rate_ok'[a]
    PROVE  ReliableInv'
  <1>1. Active' = Active
    BY DEF Active
  <1> QED
    BY <1>1 DEF ReliableInv, RunawayFree, StartedFromSample

LEMMA ReliableInvariant ==
    ASSUME ~CanFail, ~CanUnplug
    PROVE  Spec => []ReliableInv
  <1>1. Init => ReliableInv
    BY DEF Init, ReliableInv, RunawayFree, StartedFromSample, Idle, Axes
  <1>2. TypeOK /\ ReliableInv /\ [Next]_vars => ReliableInv'
    <2> SUFFICES ASSUME TypeOK, ReliableInv, [Next]_vars PROVE ReliableInv'
      OBVIOUS
    <2>0. /\ ArgChoices = {TRUE}
          /\ \A m \in Motors : connected[m]
          /\ CanSample
      BY DEF ArgChoices, ReliableInv, CanSample
    <2>1. ASSUME NEW g \in BOOLEAN, NEW s \in BOOLEAN, Setup(g, s)
          PROVE ReliableInv'
      <3>1. \A m \in Motors : output'[m] # "duty"
        BY <2>1, <2>0, PassiveOutputs DEF Setup
      <3>2. configured' => attached' /\ \A a \in Axes : rate_ok'[a]
        BY <2>1, <2>0 DEF Setup, TypeOK, ReliableInv
      <3> QED
        BY <2>1, <2>0, <3>1, <3>2, IdleReliable DEF Setup
    <2>2. ASSUME NEW ok \in ArgChoices, Straight(ok) \/ Turn(ok)
          PROVE ReliableInv'
      <3>1. configured /\ ok = TRUE /\ rate_ok["distance"] /\ rate_ok["heading"]
        BY <2>2, <2>0 DEF Straight, Turn, ReliableInv, Axes
      <3>2. Maneuver(TRUE, TRUE)
        BY <2>2, <3>1 DEF Straight, Turn
      <3> QED
        BY <2>2, <3>1, <3>2, ManeuverReliable DEF Straight, Turn
    <2>3. ASSUME NEW d \in ArgChoices, NEW h \in ArgChoices, Drive(d, h)
          PROVE ReliableInv'
      <3> DEFINE idle == \A a \in Axes : ctl[a].type = "none"
      <3>1. d = TRUE /\ h = TRUE /\ configured
        BY <2>3, <2>0 DEF Drive
      <3>2. ctl' = [a \in Axes |-> TimedStarted(a, idle)]
        BY <2>3, <2>0, <3>1 DEF Drive
      <3>3. \A a \in Axes : ctl'[a].type = "timed" /\ ctl'[a].sampled
        <4>1. CASE idle
          BY <3>2, <4>1 DEF TimedStarted
        <4>2. CASE ~idle
          <5>1. \A a \in Axes : ctl[a].type # "none" /\ ctl[a].sampled
            BY <4>2 DEF ReliableInv, Active, StartedFromSample
          <5> QED
            BY <3>2, <5>1 DEF TimedStarted
        <4> QED
          BY <4>1, <4>2
      <3> QED
        BY <2>3, <3>1, <3>3 DEF Drive, ReliableInv, Active, RunawayFree,
                                StartedFromSample
    <2>4. ASSUME NEW d \in ArgChoices, NEW h \in ArgChoices, SetDriveSettings(d, h)
          PROVE ReliableInv'
      BY <2>4, <2>0, FrameReliable DEF SetDriveSettings
    <2>5. CASE StopHold
      <3>1. configured /\ rate_ok["distance"] /\ rate_ok["heading"]
        BY <2>5 DEF StopHold, ReliableInv, Axes
      <3>2. Maneuver(TRUE, TRUE)
        BY <2>5, <2>0, <3>1 DEF StopHold
      <3> QED
        BY <2>5, <3>1, <3>2, ManeuverReliable DEF StopHold
    <2>6. ASSUME NEW after \in {"coast", "brake"}, StopPassive(after)
          PROVE ReliableInv'
      <3>1. \A m \in Motors : output'[m] # "duty"
        BY <2>6, <2>0, PassiveOutputs DEF StopPassive
      <3> QED
        BY <2>6, <2>0, <3>1, IdleReliable DEF StopPassive, ReliableInv
    <2>7. CASE StopForce
      <3>1. CASE attached
        <4>1. \A m \in Motors : output'[m] # "duty"
          BY <2>7, <3>1, <2>0, PassiveOutputs DEF StopForce
        <4> QED
          BY <2>7, <2>0, <4>1, IdleReliable DEF StopForce, ReliableInv
      <3>2. CASE ~attached
        <4>1. ~configured /\ ~Active
          BY <3>2 DEF ReliableInv, Active, Axes
        <4>2. UNCHANGED << servo_ctl, output, connected, configured, rate_ok >>
          BY <2>7, <3>2 DEF StopForce
        <4>3. \A a \in Axes : ctl'[a].type = "none"
          BY <2>7 DEF StopForce, Idle
        <4> QED
          BY <4>1, <4>2, <4>3 DEF ReliableInv, RunawayFree, StartedFromSample
      <3> QED
        BY <3>1, <3>2
    <2>8. CASE UpdateNoDevice \/ UpdatePassive \/ UpdateMismatch \/ UpdateDuty
      <3>1. CASE UpdateDuty
        <4>1. Active /\ output' = Actuated("duty")
          BY <3>1 DEF UpdateDuty
        <4> QED
          BY <3>1, <4>1 DEF UpdateDuty, ReliableInv, RunawayFree, StartedFromSample,
                            Active
      <3>2. CASE UpdateNoDevice \/ UpdatePassive \/ UpdateMismatch
        BY <3>2, FrameReliable DEF UpdateNoDevice, UpdatePassive, UpdateMismatch
      <3> QED
        BY <2>8, <3>1, <3>2
    <2>9. CASE UpdateHold
      <3>1. configured /\ rate_ok["distance"] /\ rate_ok["heading"]
        BY <2>9 DEF UpdateHold, ReliableInv, Axes
      <3>2. Maneuver(TRUE, TRUE)
        BY <2>9, <3>1 DEF UpdateHold
      <3> QED
        BY <2>9, <3>1, <3>2, ManeuverReliable DEF UpdateHold
    <2>10. ASSUME NEW a \in Axes, Reach(a)
           PROVE ReliableInv'
      <3>1. \A x \in Axes : ctl'[x].type = ctl[x].type /\ ctl'[x].sampled = ctl[x].sampled
        BY <2>10 DEF Reach, TypeOK, Ctl
      <3> QED
        BY <2>10, <3>1, FrameReliable DEF Reach
    <2>11. ASSUME NEW m \in Motors, ServoRun(m) \/ ServoStop(m) \/ Replug(m)
           PROVE ReliableInv'
      <3>1. ~Replug(m)
        BY DEF Replug
      <3> QED
        BY <2>11, <3>1 DEF ServoRun, ServoStop, ReliableInv, RunawayFree,
                           StartedFromSample, Active, TypeOK
    <2>12. CASE UNCHANGED vars
      BY <2>12 DEF vars, ReliableInv, RunawayFree, StartedFromSample, Active
    <2>13. QED
      BY <2>1, <2>2, <2>3, <2>4, <2>5, <2>6, <2>7, <2>8, <2>9, <2>10, <2>11,
         <2>12 DEF Next
  <1>3. QED
    BY <1>1, <1>2, TypeCorrect, PTL DEF Spec

\* With every controller start accepting its arguments and both motors
\* plugged in, no motor is ever left on a duty cycle that neither its
\* servo nor the drivebase updates (RunawayFree, checked by the drivebase
\* run).  The drivebase_runaway run shows that each hypothesis is needed.
THEOREM RunawayFreeReliable ==
    ASSUME ~CanFail, ~CanUnplug
    PROVE  Spec => []RunawayFree
  <1>1. ReliableInv => RunawayFree
    BY DEF ReliableInv
  <1> QED
    BY <1>1, ReliableInvariant, PTL

(* Every active controller started from a sample, with motors that may  *)
(* be unplugged at any time, as long as no controller start is rejected.  *)
(* StartedFromSample alone is not inductive: drive() skips the sample     *)
(* when a controller is active, so an active controller must mean both    *)
(* are; and a maneuver starts both only if the settings of both axes are  *)
(* accepted, which holds once a setup has succeeded.                      *)
SampledInv ==
    /\ configured => \A a \in Axes : rate_ok[a]
    /\ Active \/ \A a \in Axes : ctl[a].type = "none"
    /\ StartedFromSample

\* A step that stops both controllers.
LEMMA IdleSampled ==
    ASSUME ctl' = [a \in Axes |-> Idle],
           configured' => \A a \in Axes : rate_ok'[a]
    PROVE  SampledInv'
    BY DEF SampledInv, StartedFromSample, Idle

\* The maneuver body with both starts accepted: either the sample fails
\* and nothing starts, or both controllers start, an idle one from the
\* sample and an active one from its own origin.
LEMMA ManeuverSampled ==
    ASSUME SampledInv, Maneuver(TRUE, TRUE),
           UNCHANGED << configured, rate_ok >>
    PROVE  SampledInv'
  <1>1. CASE ~CanSample
    BY <1>1 DEF Maneuver, SampledInv, Active, StartedFromSample
  <1>2. CASE CanSample
    <2>1. ctl' = [a \in Axes |-> AngleStarted(a, TRUE)]
      BY <1>2 DEF Maneuver
    <2>2. \A a \in Axes : ctl'[a].type = "angle" /\ ctl'[a].sampled
      BY <2>1 DEF AngleStarted, SampledInv, StartedFromSample
    <2> QED
      BY <2>2 DEF SampledInv, Active, StartedFromSample
  <1> QED
    BY <1>1, <1>2

LEMMA SampledInvariant ==
    ASSUME ~CanFail
    PROVE  Spec => []SampledInv
  <1>1. Init => SampledInv
    BY DEF Init, SampledInv, StartedFromSample, Idle
  <1>2. SampledInv /\ [Next]_vars => SampledInv'
    <2> SUFFICES ASSUME SampledInv, [Next]_vars PROVE SampledInv'
      OBVIOUS
    <2>0. ArgChoices = {TRUE}
      BY DEF ArgChoices
    <2>1. CASE UNCHANGED vars
      BY <2>1 DEF vars, SampledInv, Active, StartedFromSample
    <2>2. ASSUME NEW g \in BOOLEAN, NEW s \in BOOLEAN, Setup(g, s)
          PROVE SampledInv'
      <3>1. configured' => \A a \in Axes : rate_ok'[a]
        BY <2>2 DEF Setup, SampledInv
      <3> QED
        BY <2>2, <3>1, IdleSampled DEF Setup
    <2>3. ASSUME NEW ok \in ArgChoices, Straight(ok) \/ Turn(ok)
          PROVE SampledInv'
      <3>1. Maneuver(TRUE, TRUE)
        BY <2>3, <2>0 DEF Straight, Turn, SampledInv, Axes
      <3> QED
        BY <2>3, <3>1, ManeuverSampled DEF Straight, Turn
    <2>4. ASSUME NEW d \in ArgChoices, NEW h \in ArgChoices, Drive(d, h)
          PROVE SampledInv'
      <3> DEFINE idle == \A a \in Axes : ctl[a].type = "none"
      <3>1. d = TRUE /\ h = TRUE
        BY <2>4, <2>0
      <3>2. CASE idle /\ ~CanSample
        BY <2>4, <3>1, <3>2 DEF Drive, SampledInv, Active, StartedFromSample
      <3>3. CASE ~(idle /\ ~CanSample)
        <4>1. ctl' = [a \in Axes |-> TimedStarted(a, idle)]
          BY <2>4, <3>1, <3>3 DEF Drive
        <4>2. \A a \in Axes : ctl'[a].type = "timed" /\ ctl'[a].sampled
          <5>1. CASE idle
            BY <4>1, <5>1 DEF TimedStarted
          <5>2. CASE ~idle
            <6>1. \A a \in Axes : ctl[a].type # "none" /\ ctl[a].sampled
              BY <5>2 DEF SampledInv, Active, StartedFromSample
            <6> QED
              BY <4>1, <6>1 DEF TimedStarted
          <5> QED
            BY <5>1, <5>2
        <4> QED
          BY <2>4, <4>2 DEF Drive, SampledInv, Active, StartedFromSample
      <3> QED
        BY <3>2, <3>3
    <2>5. ASSUME NEW d \in ArgChoices, NEW h \in ArgChoices, SetDriveSettings(d, h)
          PROVE SampledInv'
      BY <2>5, <2>0 DEF SetDriveSettings, SampledInv, Active, StartedFromSample
    <2>6. CASE StopHold \/ UpdateHold
      <3>1. configured /\ rate_ok["distance"] /\ rate_ok["heading"]
        BY <2>6 DEF StopHold, UpdateHold, SampledInv, Axes
      <3>2. CASE StopHold /\ ~CanSample
        BY <3>2 DEF StopHold, SampledInv, Active, StartedFromSample
      <3>3. CASE ~(StopHold /\ ~CanSample)
        <4>1. Maneuver(TRUE, TRUE) /\ UNCHANGED << configured, rate_ok >>
          BY <2>6, <3>1, <3>3 DEF StopHold, UpdateHold
        <4> QED
          BY <4>1, ManeuverSampled
      <3> QED
        BY <3>2, <3>3
    <2>7. ASSUME NEW after \in {"coast", "brake"}, StopPassive(after)
          PROVE SampledInv'
      BY <2>7, IdleSampled DEF StopPassive, SampledInv
    <2>8. CASE StopForce
      BY <2>8, IdleSampled DEF StopForce, SampledInv
    <2>9. CASE UpdateNoDevice \/ UpdatePassive \/ UpdateMismatch \/ UpdateDuty
      BY <2>9 DEF UpdateNoDevice, UpdatePassive, UpdateMismatch, UpdateDuty,
                  SampledInv, Active, StartedFromSample
    <2>10. ASSUME NEW a \in Axes, Reach(a)
           PROVE SampledInv'
      <3>1. \A x \in Axes : ctl'[x].type = ctl[x].type /\ ctl'[x].sampled = ctl[x].sampled
        BY <2>10 DEF Reach
      <3> QED
        BY <2>10, <3>1 DEF Reach, SampledInv, Active, StartedFromSample
    <2>11. ASSUME NEW m \in Motors, ServoRun(m) \/ ServoStop(m) \/ Replug(m)
           PROVE SampledInv'
      BY <2>11 DEF ServoRun, ServoStop, Replug, SampledInv, Active,
                   StartedFromSample
    <2> QED
      BY <2>1, <2>2, <2>3, <2>4, <2>5, <2>6, <2>7, <2>8, <2>9, <2>10, <2>11
      DEF Next
  <1> QED
    BY <1>1, <1>2, PTL DEF Spec

\* Every active controller started from a sampled physical state, with
\* motors that may be unplugged, whenever controller starts accept their
\* arguments (StartedFromSample, checked by the drivebase_unplug run):
\* drive() skips drivebase_get_state only when both controllers already
\* run, each from a sample.  The drivebase_uninit run shows that a
\* rejected controller start breaks this.
THEOREM StartedFromSampleReliable ==
    ASSUME ~CanFail
    PROVE  Spec => []StartedFromSample
  <1>1. SampledInv => StartedFromSample
    BY DEF SampledInv
  <1> QED
    BY <1>1, SampledInvariant, PTL

=============================================================================

# TLA+ models of the pybricks control core

This directory holds TLA+ models of the control core of this firmware:
- the two integrators in `src/lib/pbio/src/integrator.c`;
- the drivebase coordinator in `src/lib/pbio/src/drivebase.c`;
- the StopWatch and `wait` in `src/extmod/modtools.c`;
- the drivebase's odometry (`get_state`, `reset_state`) in `src/lib/pbio/src/drivebase.c`;
- the stop path from the System process in `src/lib/pbio/platform/prime_hub/sys.c` to the user program run by `main()` in `src/bricks/nxt/main.c`.

It also holds TLC configurations that model-check these on small instances, and TLAPS proofs of the main safety properties and refinements.

## The system

The firmware runs one cooperative thread: the MicroPython user program and a motor poll loop that runs every control cycle. No call is preempted by another call of the same component, so every model below treats each C function as one atomic step. The concurrency that remains is the interleaving of calls: the user program's commands, the poll loop's `pbio_drivebase_update`, a stop request from the system process, and the physical environment (motors reaching targets, cables pulled out). These come in any order.

| Part | Source | What it does |
|---|---|---|
| Speed Integrator | integrator.c:13-96 | Integral of the speed error for timed control. A pause folds in the error since the last resume (the deferred add). `stalled` checks the time spent paused. |
| Position Integrator | integrator.c:98-212 | Integral of the position error with anti-windup, one cycle behind the error. It also keeps the reference time of the trajectory: time spent paused is subtracted. |
| Drivebase Coordinator | drivebase.c:52-476 | Turns two servos into a distance axis (sum of counts) and a heading axis (difference), each with its own Motion Controller. It claims the servos so that single-servo commands stay out. |
| Settings Adopter | drivebase.c:15-49 | Derives the settings of both axes from those of the two servos. It fails on a mismatch of scale or offset. |
| Drivebase odometry | drivebase.c:52-94, 460-476 | Distance and angle since the last `reset_state`, from the int32 sum and difference of the wheel counts. |
| StopWatch, wait | modtools.c:10-77 | A user-level stopwatch on the uint32 millisecond clock, and a delay. |
| System process | prime_hub/sys.c:27-92 | Installs and clears the user program's callbacks. It calls the stop callback for a power-button press or a stop command. |
| NXT program lifecycle | nxt/main.c:59-132 | Prepares the system, runs the frozen program, and tears down. Its stop callback raises KeyboardInterrupt only while the program runs. |
| Not modelled | modev3devices.c, pbobj.c, pbhub.c, headers | Sensor bindings and glue: I/O. |

How the parts interact:
- The Motion Controller (not under `src/`) owns one integrator of each kind per axis. It calls the integrator operations once per control cycle.
- `pbio_drivebase_update` runs the two controllers of the drivebase and actuates the motors.
- The System process (`prime_hub/sys.c`) turns a stop button press into a call of the user program's stop callback.
- The NXT `main()` installs that callback. The callback makes a KeyboardInterrupt pending, the program ends, and `pbsys_unprepare_user_program` resets every motor.
- In the Drivebase model, a stop that reaches the drivebase while a call is in progress is the `StopForce` action, enabled at every step.

## Modules

### PositionIntegrator (with ReferenceClock, PositionIntegratorProofs)

Variables:
- the fields of `pbio_position_integrator_t`;
- the clock `now`;
- a history variable `stall_age`, the real time for which the integrator has been paused or saturated, capped at `StallTime`.

Actions:
- `Tick` advances the clock by 1..MaxTick, modulo `ClockMod`, standing in for uint32.
- `Pause`, `Resume` and `Reset` are the three functions. `Reset` includes its trailing resume.
- `Update(e, r)` is `pbio_position_integrator_update`. `UpdatedIntegral` translates lines 150-180: the first decrease test, the rate clamp, the second decrease test, the range test and the two final clamps. `TimesLoopTime` stands for `pbio_integrator_times_loop_time`, which is not under `src/`: it is a factor `LoopTime`, and it is marked `spec_modelled`.

`GetRefTime` and `Stalled` are the two queries, as state functions.

`ReferenceClock` is the abstract specification of the reference time: it advances with the clock while running, freezes while paused, and restarts at the wall clock on a reset. `RefClockRefined` checks the refinement `ref_time <- GetRefTime`.

### SpeedIntegrator (with SpeedIntegral)

Variables: the fields of `pbio_speed_integrator_t`, the clock, the current position error `err`, and a history variable `pause_age`.

Actions:
- `Tick` advances the clock and moves the error.
- `Pause`, `Resume` and `Reset` translate the three functions.

`GetError` and `Stalled` are the queries.

`SpeedIntegral` is the abstract promise: the integral grows by the change of the position error while running, and is frozen while paused. `IntegralRefined` checks the refinement `integral <- GetError(err)`.

The paused integral is kept within ±`IntegralBound` by a guard on `Pause`. This bound keeps the state space finite; it stands in for the int32 range.

### StopWatch (with ElapsedTime)

Variables: the fields of `tools_StopWatch_obj_t`, plus a `created` flag and the clock.

Actions:
- `MakeNew` is reset and then resume. Resume reads the `running` field of the fresh object before anything writes it, so both values are allowed; the result is the same either way.
- `Reset`, `Pause` and `Resume`.

`TimeValue` is what `time()` returns. `ElapsedRefined` checks that it implements `ElapsedTime`, an elapsed-time counter modulo 2^32 that `reset` zeroes without pausing or resuming.

`Wait` is `tools_wait`. A positive duration lets the clock advance by at least that many milliseconds; any other duration returns at once. The duration is chosen from -1..MaxTick.

### DrivebaseOdometry (with Odometer, DrivebaseOdometryProofs)

Variables:
- the tacho count of each motor, an `IntMod`-bit signed integer;
- whether each motor is connected;
- `sum_offset` and `dif_offset`;
- the last result.

Actions:
- `ResetState` is `pbio_drivebase_reset_state`. It passes the offsets themselves as the output parameters of `drivebase_get_state`. That function writes them only after all four tacho reads succeed, so a failure (`CanSample` false) leaves both offsets alone.
- `GetState` is `pbio_drivebase_get_state`. Its readings are the state functions `Distance` and `Angle`.
- `Move` turns the wheels by up to `MaxStep` counts each.
- `Replug` toggles a connection.

Every addition wraps (`Wrap`). A signed overflow is undefined in C, and wrapping is what the firmware's build produces.

`Odometer` is the abstract promise: distance and angle grow by `dl + dr` and `dl - dr` modulo the width, and become zero on a reset that can read both wheels. `OdometerRefined` checks the refinement `travelled <- Distance, turned <- Angle, readable <- CanSample`.

Rates and the conversion to user units are left out. The conversion belongs to the Motion Controller, outside `src/`.

### ProgramStop (with ProgramStopProofs)

This module joins two sources at the pbsys API:
- the System process of `prime_hub/sys.c`;
- the program lifecycle of `nxt/main.c`.

The NXT build's own pbsys is not under `src/`. The model pairs the one under `src/` with the one `main()` under `src/`. Both keep the same contract: the callbacks are installed by prepare, cleared by unprepare, and the stop callback is called on a stop request.

Variables:
- `phase`, the point `main()` has reached;
- `stop_func`, meaning `user_stop_func` is set;
- `status_run`;
- `armed`, meaning `mp_interrupt_char > 0`;
- `pending`, a KeyboardInterrupt that is pending;
- `interrupted`;
- `motors_reset`;
- the FIFO `events` of events posted to the process.

Actions:
- `Prepare` covers the init calls, `pbsys_prepare_user_program` (`PrepareUserProgram`), `mp_init` and the imports.
- `Execute` is the call of `pyexec_frozen_module`. pyexec arms the interrupt character.
- `Return`: the program returns by itself.
- `Raise`: the VM raises the pending exception.
- `Teardown` is `mp_deinit` followed by `pbsys_unprepare_user_program` (`UnprepareUserProgram`), which resets the motors.
- `HandleEvent` is one pass of the process loop. It handles the head of the queue: for a power-button status or a stop command it calls `StopFunc`, which is `user_program_stop_func`, if the callback is set.
- `Post(e)` is the HMI or the host posting an event. The 50 ms timer branch calls `pbsys_hmi_poll`, which is not under `src/`; it is what posts the button events.

pyexec and the VM's pending-exception check are not under `src/`. They are modelled from how `main.c` uses them, and marked `spec_modelled`.

### Drivebase

The model keeps the control structure of the coordinator and abstracts its data:
- which axis controllers are active (`ctl`: none, angle maneuver, or timed drive; whether the maneuver is on target; whether it started from a sampled state);
- the claim flag of each servo, and whether its own control runs (`servo_ctl`);
- what each motor outputs (coast, brake, duty);
- whether each motor is plugged in;
- whether the current settings are accepted by a controller start (`rate_ok`);
- the error code of the last call (`result`).

Each public function is one action, and it includes every call it makes:
- `Setup` includes the leading `stop_force`, the two servo stops, the argument checks, the claim release and the settings adoption. It returns at the first failure with what was done before it.
- `Straight`, `Turn` and `Drive` claim both servos, sample (which fails with NoDevice if a motor is unplugged), then start the distance controller and then the heading controller. They return at the first error.
- `StopHold` and `StopPassive` are the two branches of `pbio_drivebase_stop`, and `StopForce` is `pbio_drivebase_stop_force`.
- The five `Update*` actions are the exits of `pbio_drivebase_update`: NoDevice, passive, InvalidOperation, DUTY actuation, HOLD actuation. HOLD actuation restarts a zero straight.
- `SetDriveSettings`.

The collaborators outside `src/` are modelled from the spec and marked `spec_modelled` in the map:
- a controller start may reject its arguments;
- a start on an active controller continues from its reference;
- an angle maneuver reports HOLD once on target (`Reach`);
- every call on an unplugged motor fails;
- stopping a controller leaves the motor's last duty cycle in place;
- the user program may run or stop an unclaimed servo (`ServoRun`, `ServoStop`).

`Replug` plugs a motor cable in or out.

## Runs

| Run | Checks | Result |
|---|---|---|
| position_integrator | `IntegralBounded`, `NoWindupFarFromTarget`, `RefClockRefined` | pass, about 51k states |
| position_stall | `StallNeedsDuration` | violation (finding) |
| speed_integrator | `StallNeedsDuration`, `IntegralRefined` | pass |
| stopwatch | `ElapsedRefined` | pass |
| drivebase | `RunawayFree` with connected motors and accepted arguments | pass, 107 states |
| drivebase_unplug | `StartedFromSample` with accepted arguments, motors unplugged and replugged | pass, 888 states |
| drivebase_failures | `NoDoubleControl` with rejected starts and unplugging | pass |
| drivebase_runaway | `RunawayFree` with failures | violation (finding) |
| drivebase_invalidop | `NoInvalidOp` | violation (finding) |
| drivebase_uninit | `StartedFromSample` | violation (finding) |
| drivebase_odometry | `OdometerRefined` | pass, 16,384 states |
| program_stop | `InterruptOnlyWhileExecuting`, `StopHonoured` | pass, 850 states |

Bounds, and why they are enough:
- The clock is 3 bits (`ClockMod` = 8) and moves 1-2 or 1-3 per step. Every pause that crosses the wraparound is reached, and so is every pause longer or shorter than `StallTime` = 3.
- The position errors {-4, 0, 1, 5} lie on both sides of the rate bound (2) and of the integral bound (6). With `LoopTime` = 2, a single update can saturate the integral, or flip its sign.
- The remaining distances {-3, 0, 3} are inside and outside `IntegralRange` = 1, with both signs (the signed-comparison mutant needs -3).
- For the drivebase, two motors and two axes are the whole system. Every failure point is a nondeterministic choice.
- The odometry runs on 3-bit counts (`IntMod` = 8) with steps of up to 2 counts per wheel. The sum of the counts overflows after one step, and every pair of offsets is reached.
- The event queue holds up to 3 events. That is enough for a stop request to wait behind two others, posted in every phase of `main()`.

Every property has a mutant in `PROJECT.json`: a plausible bug in the mapped code that TLC catches under the run's own configuration.

Fairness is assumed only in `ProgramStop`. There is weak fairness on:
- the straight-line steps of `main()` (`Prepare`, `Execute`, `Teardown`);
- the VM raising a pending exception (`Raise`), because the VM checks for one on every backward branch and call;
- `HandleEvent`, because the VM's poll hook runs the Contiki scheduler, which delivers every queued event.

There is no fairness on:
- `Return`, because a user program may loop forever;
- `Post`, because nobody has to press the button.

Under these assumptions `StopHonoured` says that a stop request queued while the program executes leads to teardown with the motors reset. The Drivebase models assume no fairness: their progress depends on the Motion Controller, which is not under `src/`.

## Findings

1. **Position integrator stall from a stale time** (integrator.c:206). Once the integral saturates while running, `stalled` measures from `time_pause_begin`, the time of the last pause or reset. It can report a stall at the very cycle the integral saturates.
2. **Claim before a call that can fail** (drivebase.c:350, 387, 424). The servos' own control is stopped and the claim is set before the state is read and the controllers start. A failure leaves a motor on its last duty cycle with nothing updating it. Coast and brake with the left motor unplugged do the same to the right motor (drivebase.c:102-111).
3. **InvalidOperation in an ordinary straight** (drivebase.c:333). The heading axis reaches its zero target before the distance axis, the two actuations differ, and update fails.
4. **Uninitialised state in drive()** (drivebase.c:433-452). When exactly one controller is active, the idle one starts from uninitialised locals.

## Proofs

Every theorem is checked by `tlapm` to the last leaf, for every value of the constants that satisfies the module's assumption (`ConstAssumption`, `SpeedConstAssumption`, `StopWatchAssumption`, `DrivebaseAssumption`, `OdometryAssumption`, `ProgramStopAssumption`). These assumptions say only the following:
- the clock modulus is positive;
- the tick is smaller than the modulus;
- the error sets are sets of integers;
- the integer width is even;
- the queue capacity is positive.

The `StopWatch` proofs cover `Wait`: the lemma `WaitStep` shows that a wait is a clock tick or a stutter.

| Module | Theorem | Statement | Argument |
|---|---|---|---|
| PositionIntegratorProofs | `IntegralBoundedInvariant` | `Spec => []IntegralBounded` | The integral is inductive together with `TypeOK`. An update either leaves the integral alone or ends in `Limit(_, IntegralMax)`, and `LimitFacts` bounds that. The other actions keep the integral or zero it. |
| PositionIntegratorProofs | `NoWindup` | `Spec => NoWindupFarFromTarget` | Far from the target, what is added is nothing, or a value chosen because it decreases the magnitude. `Limit` never increases a magnitude. |
| PositionIntegratorProofs | `RefClockRefinement` | `Spec => RefClockRefined` | A tick is `Advance` and pause is `Toggle`. Resume is also `Toggle`: the paused span that resume adds equals `now - time_pause_begin` modulo the clock, so `get_ref_time` does not jump. Reset is `Restart`. |
| SpeedIntegratorProofs | `IntegralRefinement` | `Spec => IntegralRefined` | The fold in pause and the restart point in resume leave `get_error` unchanged. A tick adds exactly the change of the error while running. |
| StopWatchProofs | `StopWatchRefinement` | `Spec => ElapsedRefined` | The same argument as for the reference clock, applied to `time()`. |
| DrivebaseOdometryProofs | `OdometerRefinement` | `Spec => OdometerRefined` | A wheel step is `Roll`. The wrapped sum less the offset equals the wrapped old reading plus `dl + dr`; the lemmas `SumShift` and `DifShift` prove this from `ModArith`. A successful reset is `Zero`, because `Wrap(Sum - Sum) = 0`. A failed reset, a `get_state` and a replug change no reading; a replug is `Plug`. |
| ProgramStopProofs | `InterruptOnlyInProgram` | `Spec => InterruptOnlyWhileExecuting` | The invariant `ArmedWhileExecuting` (`armed` exactly when `phase = "executing"`) holds because only `Execute` arms and both ways out disarm. Only `HandleEvent` can make an interrupt pending, and only when the callback sees `armed`. |
| SpeedIntegratorProofs | `StallNeedsDurationInvariant` | `Spec => []StallNeedsDuration` | It is not inductive alone. It needs `PausedClock`: while paused for less than `stall_time`, the uint32 difference `now - time_pause_begin` equals the real pause, because it cannot have wrapped (`stall_time < ClockMod`). A tick adds `d` on both sides (`ModSubLeft`, `ModAddLeft`, `ModSmall`), and a pause restarts both at 0. |
| DrivebaseProofs | `RunawayFreeReliable` | `~CanFail /\ ~CanUnplug => (Spec => []RunawayFree)` | The inductive invariant `ReliableInv` has five conjuncts: both motors connected; a successful setup has attached the servos with accepted settings; an active controller means both run; `RunawayFree`; `StartedFromSample`. Each step that ends drivebase control coasts or brakes both motors; `stop_force` without attached servos changes no output, and then no controller was running. Each step that claims the servos starts both controllers. |
| DrivebaseProofs | `StartedFromSampleReliable` | `~CanFail => (Spec => []StartedFromSample)` | The inductive invariant `SampledInv` has three conjuncts: a successful setup has accepted settings on both axes; the two controllers are both active or both idle; `StartedFromSample`. A maneuver whose sample fails starts nothing; otherwise it starts both axes. drive() skips the sample only when both controllers run, each from a sample. An unplugged motor only makes a sample fail, so `~CanUnplug` is not needed. |
| DrivebaseProofs | `MutualExclusion` | `Spec => []NoDoubleControl` | Each action is one of three shapes: it stops both controllers (setup, stop, stop_force), or claims both servos (straight, turn, drive, HOLD), or leaves claims, servo control and controllers alone. A single-servo command is refused on a claimed servo. |

Unless the table names another, the inductive invariant of each proof is the property conjoined with `TypeOK`. `TypeOK` is proved first, as the lemma `TypeCorrect` in each module. The properties are not inductive alone: they need the integrality of the errors and the integral, and the domain of the controller map. `ModArith` holds the facts about remainders that the wraparound arguments cite: `ModShift` (a multiple of the modulus does not change a remainder) and its corollaries `ModSubLeft`, `ModSubRight`, `ModAddLeft`. Every one of them is proved from the definition of `%` and `\div`.

The two drivebase theorems carry the hypotheses of their runs (drivebase and drivebase_unplug), and no more. `RunawayFree` fails with rejected starts or an unplugged motor, as the drivebase_runaway run shows. `StartedFromSample` fails with rejected starts, as the drivebase_uninit run shows, but it holds with unplugged motors.

Only model-checked:
- the four violation runs;
- `StopHonoured`, a liveness property.

Liveness, `ENABLED` and induction over data are out of the prover's reach, so `StopHonoured` is checked by TLC only.

## Not modelled

- The numeric parts of the drivebase beyond the odometry: the rates, the unit conversions in `get_state` and `get_drive_settings`, and the telemetry row.
- The arithmetic of the settings adoption, beyond its failure point.
- The sensor bindings (`modev3devices.c`). They pass each call to a driver and convert the units, and keep no control state.
- From the System process, the lights, the light grid and the HMI poll. From `main.c`, the stdin callback (nothing under `src/` calls it) and the display output.
- A stop request handled between `pbsys_prepare_user_program` and the start of the program is dropped. The comment at `main.c:61` says this is intended, so no property requires it to be honoured.
- int32 overflow of the errors, which stay far from the limits.

## Plan

Modules were built in this order: the integrators, the drivebase, the StopWatch, the odometry, and the stop path. Left for later:
- a liveness property for the drivebase under fairness of the poll loop (a claimed drivebase whose maneuvers end is eventually released by a stop).

------------------------ MODULE SpeedIntegratorProofs ------------------------
(***************************************************************************)
(* Proof that the deferred-add speed integrator implements SpeedIntegral  *)
(* for every set of errors and every bound: get_error is the exact        *)
(* integral of the speed error over the running intervals.                *)
(***************************************************************************)
EXTENDS SpeedIntegrator, ModArith, TLAPS

USE SpeedConstAssumption

\* Every reachable state of the speed integrator is well typed: the clock
\* stays in the uint32 model range and the paused integral within its bound.
LEMMA TypeCorrect == Spec => []TypeOK
  <1>1. Init => TypeOK
    <2> SUFFICES ASSUME Init PROVE TypeOK
      OBVIOUS
    <2>1. running \in BOOLEAN
      BY DEF Init
    <2>2. now \in Time /\ time_pause_begin \in Time /\ pause_age \in 0..StallTime
      BY DEF Init, Time
    <2>3. /\ err \in Errors
          /\ speed_err_integral_paused \in -IntegralBound..IntegralBound
          /\ position_error_resumed \in Errors \cup {0}
      BY DEF Init
    <2>4. QED
      BY <2>1, <2>2, <2>3 DEF TypeOK
  <1>2. TypeOK /\ [Next]_vars => TypeOK'
    <2> SUFFICES ASSUME TypeOK, [Next]_vars PROVE TypeOK'
      OBVIOUS
    <2> USE DEF TypeOK, Time
    <2>0. CASE vars' = vars
      BY <2>0 DEF vars
    <2>1. CASE Tick
      <3>1. PICK d \in 1..MaxTick, e \in Errors :
              /\ now' = (now + d) % ClockMod
              /\ err' = e
              /\ pause_age' = IF running THEN 0
                              ELSE IF pause_age + d > StallTime THEN StallTime
                              ELSE pause_age + d
              /\ UNCHANGED << running, speed_err_integral_paused,
                              position_error_resumed, time_pause_begin >>
        BY <2>1 DEF Tick
      <3>2. now' \in Time
        <4>1. now + d \in Int /\ ClockMod \in Nat \ {0}
          OBVIOUS
        <4>2. QED
          BY <3>1, <4>1, ModRange, Zenon
      <3>3. pause_age' \in 0..StallTime
        BY <3>1
      <3>4. running' \in BOOLEAN
        BY <3>1
      <3>5. QED
        BY <3>1, <3>2, <3>3, <3>4
    <2>2. CASE Pause
      <3>1. running' = FALSE /\ pause_age' = NextPauseAge
        BY <2>2, Zenon DEF Pause
      <3>2. pause_age' \in 0..StallTime
        BY <3>1 DEF NextPauseAge
      <3>3. speed_err_integral_paused' \in -IntegralBound..IntegralBound
        BY <2>2 DEF Pause
      <3>4. QED
        BY <2>2, <3>1, <3>2, <3>3 DEF Pause
    <2>3. CASE Resume
      <3>1. running' \in BOOLEAN /\ pause_age' \in 0..StallTime
        BY <2>3 DEF Resume, NextPauseAge
      <3>2. QED
        BY <2>3, <3>1 DEF Resume
    <2>4. CASE Reset
      <3>1. running' \in BOOLEAN /\ pause_age' \in 0..StallTime
        BY <2>4 DEF Reset, NextPauseAge
      <3>2. QED
        BY <2>4, <3>1 DEF Reset
    <2> QED
      BY <2>0, <2>4, <2>3, <2>2, <2>1 DEF Next
  <1> QED
    BY PTL, <1>2, <1>1 DEF Spec

\* While the integrator is paused and the pause is shorter than stall_time,
\* the uint32 difference that stalled() computes is exactly the real time
\* paused: it cannot have wrapped, because stall_time < 2^32.
PausedClock ==
    ~running /\ pause_age < StallTime => TimeSub(now, time_pause_begin) = pause_age

LEMMA PausedClockInvariant == Spec => []PausedClock
  <1>0. ClockMod \in Nat \ {0} /\ 0 % ClockMod = 0
    OBVIOUS
  <1>1. Init => PausedClock
    BY <1>0 DEF Init, PausedClock, TimeSub
  <1>2. TypeOK /\ PausedClock /\ [Next]_vars => PausedClock'
    <2> SUFFICES ASSUME TypeOK, PausedClock, [Next]_vars,
                        ~running', pause_age' < StallTime
                 PROVE  TimeSub(now', time_pause_begin') = pause_age'
      BY DEF PausedClock
    <2> USE DEF TypeOK, Time
    <2>0. CASE vars' = vars
      BY <2>0 DEF vars, PausedClock
    <2>1. CASE Tick
      <3>1. PICK d \in 1..MaxTick, e \in Errors :
              /\ now' = (now + d) % ClockMod
              /\ pause_age' = IF running THEN 0
                              ELSE IF pause_age + d > StallTime THEN StallTime
                              ELSE pause_age + d
              /\ UNCHANGED << running, time_pause_begin >>
        BY <2>1 DEF Tick
      <3>2. ~running /\ pause_age + d < StallTime /\ pause_age' = pause_age + d
        BY <3>1
      <3>3. TimeSub(now, time_pause_begin) = pause_age
        BY <3>2 DEF PausedClock
      <3>0. /\ now + d \in Int /\ time_pause_begin \in Int
            /\ now - time_pause_begin \in Int /\ d \in Int
        OBVIOUS
      <3>4. (((now + d) % ClockMod) - time_pause_begin) % ClockMod
              = (now + d - time_pause_begin) % ClockMod
        <4>1. PICK a \in Int : a = now + d
          BY <3>0
        <4>2. ((a % ClockMod) - time_pause_begin) % ClockMod
                = (a - time_pause_begin) % ClockMod
          BY <1>0, <3>0, ModSubLeft, Zenon
        <4> QED
          BY <4>1, <4>2
      <3>5. (((now - time_pause_begin) % ClockMod) + d) % ClockMod
              = (now - time_pause_begin + d) % ClockMod
        BY <1>0, <3>0, ModAddLeft, Zenon
      <3>6. (pause_age + d) % ClockMod = pause_age + d
        <4>1. pause_age + d \in 0..(ClockMod - 1)
          BY <3>2
        <4> QED
          BY <1>0, <4>1, ModSmall, Zenon
      <3>7. now + d - time_pause_begin = now - time_pause_begin + d
        OBVIOUS
      <3> QED
        BY <3>1, <3>2, <3>3, <3>4, <3>5, <3>6, <3>7 DEF TimeSub
    <2>2. CASE Pause
      <3>1. time_pause_begin' = now /\ now' = now
        BY <2>2 DEF Pause
      <3>2. pause_age' = 0
        BY <2>2 DEF Pause, NextPauseAge
      <3> QED
        BY <1>0, <3>1, <3>2 DEF TimeSub
    <2>3. CASE Resume
      BY <2>3 DEF Resume
    <2>4. CASE Reset
      BY <2>4 DEF Reset
    <2> QED
      BY <2>0, <2>4, <2>3, <2>2, <2>1 DEF Next
  <1> QED
    BY <1>1, <1>2, TypeCorrect, PTL DEF Spec

\* The property the speed_integrator run checks, for every clock width and
\* every stall_time below it: pbio_speed_integrator_stalled reports a stall
\* only after the integrator has been paused for at least stall_time of
\* real time, because the uint32 difference it tests is the real pause
\* until that much time has passed.
THEOREM StallNeedsDurationInvariant == Spec => []StallNeedsDuration
  <1>1. TypeOK /\ PausedClock => StallNeedsDuration
    <2> SUFFICES ASSUME TypeOK, PausedClock, NEW sn \in Speeds, NEW sr \in Speeds,
                        Stalled(sn, sr), pause_age < StallTime
                 PROVE  FALSE
      BY DEF StallNeedsDuration, TypeOK
    <2>1. ~running /\ ~(TimeSub(now, time_pause_begin) < StallTime)
      BY DEF Stalled
    <2>2. TimeSub(now, time_pause_begin) = pause_age
      BY <2>1 DEF PausedClock
    <2> QED
      BY <2>1, <2>2
  <1> QED
    BY <1>1, PausedClockInvariant, TypeCorrect, PTL

\* get_error, read at the current position error, implements SpeedIntegral
\* (the refinement that the speed_integrator run checks): the fold of
\* pbio_speed_integrator_pause and the restart point stored by _resume
\* neither lose nor double-count a running interval, for every choice of
\* the errors.
THEOREM IntegralRefinement == Spec => IntegralRefined
  <1>1. Init => Integral!IntegralInit
    BY DEF Init, Integral!IntegralInit, GetError
  <1>2. TypeOK /\ [Next]_vars => [Integral!IntegralNext]_Integral!integral_vars
    <2> SUFFICES ASSUME TypeOK, [Next]_vars
                 PROVE  [Integral!IntegralNext]_Integral!integral_vars
      OBVIOUS
    <2>0. err \in Int /\ speed_err_integral_paused \in Int
          /\ position_error_resumed \in Int
      BY DEF TypeOK
    <2>9. CASE vars' = vars
      BY <2>9 DEF vars, Integral!integral_vars, GetError
    <2>1. CASE Tick
      <3>1. PICK d \in 1..MaxTick, e \in Errors :
              /\ err' = e
              /\ UNCHANGED << running, speed_err_integral_paused,
                              position_error_resumed >>
        BY <2>1 DEF Tick
      <3>2. e \in Int
        OBVIOUS
      <3>3. GetError(err)' = IF running THEN GetError(err) + (e - err) ELSE GetError(err)
        BY <2>0, <3>1, <3>2 DEF GetError
      <3>4. QED
        BY <3>1, <3>3 DEF Integral!IntegralNext, Integral!Drift
    <2>2. CASE Pause
      <3>1. GetError(err)' = GetError(err)
        BY <2>0, <2>2 DEF Pause, GetError
      <3>2. QED
        BY <2>2, <3>1 DEF Pause, Integral!IntegralNext, Integral!Toggle
    <2>3. CASE Resume
      <3>1. GetError(err)' = GetError(err)
        BY <2>0, <2>3 DEF Resume, GetError
      <3>2. QED
        BY <2>3, <3>1 DEF Resume, Integral!IntegralNext, Integral!Toggle
    <2>4. CASE Reset
      <3>1. GetError(err)' = 0
        BY <2>0, <2>4 DEF Reset, GetError
      <3>2. QED
        BY <2>4, <3>1 DEF Reset, Integral!IntegralNext, Integral!Restart
    <2> QED
      BY <2>9, <2>4, <2>3, <2>2, <2>1 DEF Next
  <1> QED
    BY PTL, TypeCorrect, <1>2, <1>1 DEF IntegralRefined, Integral!IntegralSpec, Spec
=============================================================================

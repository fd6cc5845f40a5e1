--------------------------- MODULE StopWatchProofs ---------------------------
(***************************************************************************)
(* Proof that StopWatch implements ElapsedTime for every clock width:     *)
(* what time() returns follows the clock while running, stands still     *)
(* while paused and is zeroed by reset, across the wraparound.            *)
(***************************************************************************)
EXTENDS StopWatch, ModArith, TLAPS

USE StopWatchAssumption

\* The value time() computes from a clock value a, the start b and the
\* paused total c.
LEMMA TimeSubSub ==
    ASSUME NEW a \in Int, NEW b \in Int, NEW c \in Int
    PROVE  TimeSub(TimeSub(a, b), c) = (a - b - c) % ClockMod
  <1>1. TimeSub(TimeSub(a, b), c) = (((a - b) % ClockMod) - c) % ClockMod
    BY DEF TimeSub
  <1>2. a - b \in Int
    OBVIOUS
  <1>3. QED
    BY <1>1, <1>2, ModSubLeft, Zenon

\* wait() is a tick of the clock, or nothing.
LEMMA WaitStep ==
    ASSUME Wait
    PROVE  Tick \/ UNCHANGED sw_vars
  <1>1. PICK duration \in -1..MaxTick :
          IF duration > 0
          THEN \E d \in duration..MaxTick :
                  /\ now' = (now + d) % ClockMod
                  /\ UNCHANGED << created, running, time_start, time_stop,
                                  time_spent_pausing >>
          ELSE UNCHANGED sw_vars
    BY DEF Wait
  <1>2. CASE duration > 0
    <2>1. PICK d \in duration..MaxTick :
            /\ now' = (now + d) % ClockMod
            /\ UNCHANGED << created, running, time_start, time_stop,
                            time_spent_pausing >>
      BY <1>1, <1>2
    <2>2. d \in 1..MaxTick
      BY <1>2
    <2> QED
      BY <2>1, <2>2 DEF Tick
  <1>3. CASE ~(duration > 0)
    BY <1>1, <1>3
  <1> QED
    BY <1>2, <1>3

-----------------------------------------------------------------------------
LEMMA TypeCorrect == Spec => []TypeOK
  <1>1. Init => TypeOK
    <2> SUFFICES ASSUME Init PROVE TypeOK
      OBVIOUS
    <2>1. created \in BOOLEAN /\ running \in BOOLEAN
      BY DEF Init
    <2>2. now \in Time /\ time_start \in Time /\ time_stop \in Time
          /\ time_spent_pausing \in Time
      BY DEF Init, Time
    <2>3. QED
      BY <2>1, <2>2 DEF TypeOK
  <1>2. TypeOK /\ [Next]_sw_vars => TypeOK'
    <2> SUFFICES ASSUME TypeOK, [Next]_sw_vars PROVE TypeOK'
      OBVIOUS
    <2> USE DEF TypeOK, Time
    <2>1. CASE Tick
      BY <2>1, ModRange DEF Tick
    <2>8. CASE Wait
      <3>1. CASE Tick
        BY <3>1, ModRange DEF Tick
      <3>2. CASE UNCHANGED sw_vars
        BY <3>2 DEF sw_vars
      <3> QED
        BY <2>8, <3>1, <3>2, WaitStep
    <2>2. CASE MakeNew
      <3>1. TimeSub(now, now) \in Time
        BY ModRange DEF TimeSub
      <3>2. running' \in BOOLEAN /\ created' \in BOOLEAN
        BY <2>2, Zenon DEF MakeNew
      <3>3. QED
        BY <2>2, <3>1, <3>2 DEF MakeNew
    <2>3. CASE Reset
      BY <2>3 DEF Reset
    <2>4. CASE Pause
      BY <2>4 DEF Pause
    <2>5. CASE Resume
      <3>1. TimeSub(now, time_stop) \in Int
        BY ModRange DEF TimeSub
      <3>2. time_spent_pausing + TimeSub(now, time_stop) \in Int
        BY <3>1
      <3>3. (time_spent_pausing + TimeSub(now, time_stop)) % ClockMod \in Time
        BY <3>2, ModRange, Zenon
      <3>4. QED
        BY <2>5, <3>3 DEF Resume
    <2>6. CASE UNCHANGED sw_vars
      BY <2>6 DEF sw_vars
    <2>7. QED
      BY <2>1, <2>2, <2>3, <2>4, <2>5, <2>6, <2>8 DEF Next
  <1>3. QED
    BY <1>1, <1>2, PTL DEF Spec

-----------------------------------------------------------------------------
(* The refinement.  Each method of the StopWatch is a step of             *)
(* ElapsedTime: a tick is Pass (time() advances by the tick while        *)
(* running, whatever the wraparound), make_new, pause and resume are      *)
(* Switch (time() does not jump: resume adds exactly now - time_stop to   *)
(* the paused total), and reset is Zero.                                  *)

\* The value of time() in terms of plain differences.
LEMMA TimeValueIs ==
    ASSUME TypeOK
    PROVE  TimeValue = ((IF running THEN now ELSE time_stop)
                          - time_start - time_spent_pausing) % ClockMod
  <1> DEFINE x == IF running THEN now ELSE time_stop
  <1>1. x \in Int /\ time_start \in Int /\ time_spent_pausing \in Int
    BY DEF TypeOK, Time
  <1>2. TimeSub(TimeSub(x, time_start), time_spent_pausing)
          = (x - time_start - time_spent_pausing) % ClockMod
    BY <1>1, TimeSubSub, Zenon
  <1>3. QED
    BY <1>2, Zenon DEF TimeValue

\* A tick of the clock.
LEMMA TickStep ==
    ASSUME TypeOK, Tick
    PROVE  Elapsed!Pass
  <1>1. PICK d \in 1..MaxTick :
          /\ now' = (now + d) % ClockMod
          /\ UNCHANGED << created, running, time_start, time_stop,
                          time_spent_pausing >>
    BY DEF Tick
  <1> DEFINE s == time_start
             p == time_spent_pausing
  <1>2. s \in Int /\ p \in Int /\ now \in Int /\ d \in Int
    BY DEF TypeOK, Time
  <1>3. CASE created /\ running
    <2> DEFINE a == (now + d) % ClockMod
               v == (now - s - p) % ClockMod
    <2>0. a \in Int /\ v \in Int /\ now - s - p \in Int /\ now + d \in Int
      BY <1>2, ModRange
    <2>1. TimeValue = v
      BY <1>3, TimeValueIs
    <2>2. TimeValue' = (a - s - p) % ClockMod
      <3>1. TimeSub(TimeSub(a, s), p) = (a - s - p) % ClockMod
        BY <2>0, <1>2, TimeSubSub, Zenon
      <3>2. QED
        BY <1>1, <1>3, <3>1 DEF TimeValue
    <2>3. (a - s - p) % ClockMod = (now + d - s - p) % ClockMod
      <3>1. a - s - p = a - (s + p) /\ s + p \in Int
        BY <2>0, <1>2
      <3>2. (a - (s + p)) % ClockMod = ((now + d) - (s + p)) % ClockMod
        BY <3>1, <2>0, ModSubLeft, Zenon
      <3>3. QED
        BY <3>1, <3>2, <1>2
    <2>4. (v + d) % ClockMod = (now + d - s - p) % ClockMod
      <3>1. (v + d) % ClockMod = ((now - s - p) + d) % ClockMod
        BY <2>0, <1>2, ModAddLeft, Zenon
      <3>2. QED
        BY <3>1, <1>2
    <2>5. QED
      BY <1>1, <1>3, <2>1, <2>2, <2>3, <2>4 DEF Elapsed!Pass
  <1>4. CASE ~(created /\ running)
    <2>1. (IF created THEN TimeValue ELSE 0)' = IF created THEN TimeValue ELSE 0
      BY <1>1, <1>4 DEF TimeValue
    <2>2. QED
      BY <1>1, <1>4, <2>1 DEF Elapsed!Pass
  <1>5. QED
    BY <1>3, <1>4

\* make_new: the stopwatch appears, running, at time() = 0.
LEMMA MakeNewStep ==
    ASSUME TypeOK, MakeNew
    PROVE  Elapsed!Switch
  <1>1. now \in Int
    BY DEF TypeOK, Time
  <1>2. TimeSub(now, now) = 0
    BY <1>1 DEF TimeSub
  <1>3. time_spent_pausing' = 0 /\ running' = TRUE /\ created' = TRUE
        /\ time_start' = now /\ time_stop' = now /\ now' = now
    BY <1>2 DEF MakeNew
  <1>4. TimeValue' = 0
    BY <1>1, <1>2, <1>3 DEF TimeValue, TimeSub
  <1>5. QED
    BY <1>3, <1>4 DEF MakeNew, Elapsed!Switch

\* reset: time() drops to 0, running or paused as before.
LEMMA ResetStep ==
    ASSUME TypeOK, Reset
    PROVE  Elapsed!Zero
  <1>1. now \in Int
    BY DEF TypeOK, Time
  <1>2. TimeValue' = 0
    BY <1>1 DEF Reset, TimeValue, TimeSub
  <1>3. QED
    BY <1>2 DEF Reset, Elapsed!Zero

\* pause: time() is frozen at the value it had.
LEMMA PauseStep ==
    ASSUME TypeOK, Pause
    PROVE  Elapsed!Switch
  <1>1. TimeValue' = TimeValue
    BY DEF Pause, TimeValue
  <1>2. QED
    BY <1>1 DEF Pause, Elapsed!Switch

\* resume: the paused span is added to the total, so time() does not jump.
LEMMA ResumeStep ==
    ASSUME TypeOK, Resume
    PROVE  Elapsed!Switch
  <1> DEFINE s == time_start
             p == time_spent_pausing
             t == time_stop
             g == TimeSub(now, t)
             p2 == (p + g) % ClockMod
  <1>1. s \in Int /\ p \in Int /\ t \in Int /\ now \in Int
    BY DEF TypeOK, Time
  <1>2. g \in Int /\ p2 \in Int /\ g = (now - t) % ClockMod
    BY <1>1, ModRange DEF TimeSub
  <1>3. TimeValue = (t - s - p) % ClockMod
    BY TimeValueIs DEF Resume
  <1>4. TimeValue' = (now - s - p2) % ClockMod
    <2>1. TimeSub(TimeSub(now, s), p2) = (now - s - p2) % ClockMod
      BY <1>1, <1>2, TimeSubSub, Zenon
    <2>2. QED
      BY <2>1 DEF Resume, TimeValue
  <1>5. (now - s - p2) % ClockMod = (now - s - (p + g)) % ClockMod
    <2>1. now - s \in Int /\ p + g \in Int
      BY <1>1, <1>2
    <2>2. ((now - s) - ((p + g) % ClockMod)) % ClockMod = ((now - s) - (p + g)) % ClockMod
      BY <2>1, ModSubRight, Zenon
    <2>3. QED
      BY <2>2, <1>1, <1>2
  <1>6. (now - s - (p + g)) % ClockMod = (t - s - p) % ClockMod
    <2>1. now - s - p \in Int /\ now - t \in Int
      BY <1>1
    <2>2. ((now - s - p) - ((now - t) % ClockMod)) % ClockMod
            = ((now - s - p) - (now - t)) % ClockMod
      BY <2>1, ModSubRight, Zenon
    <2>3. QED
      BY <2>2, <1>1, <1>2
  <1>7. TimeValue' = TimeValue
    BY <1>3, <1>4, <1>5, <1>6
  <1>8. QED
    BY <1>7 DEF Resume, Elapsed!Switch

\* StopWatch.time() implements ElapsedTime (the refinement that the
\* stopwatch run checks on a 3-bit clock), for every clock width.
THEOREM StopWatchRefinement == Spec => ElapsedRefined
  <1>1. Init => Elapsed!ElapsedInit
    BY DEF Init, Elapsed!ElapsedInit, Time
  <1>2. TypeOK /\ [Next]_sw_vars => [Elapsed!ElapsedNext]_Elapsed!elapsed_vars
    <2> SUFFICES ASSUME TypeOK, [Next]_sw_vars
                 PROVE  [Elapsed!ElapsedNext]_Elapsed!elapsed_vars
      OBVIOUS
    <2>1. CASE Tick
      BY <2>1, TickStep DEF Elapsed!ElapsedNext
    <2>8. CASE Wait
      <3>1. CASE Tick
        BY <3>1, TickStep DEF Elapsed!ElapsedNext
      <3>2. CASE UNCHANGED sw_vars
        BY <3>2 DEF sw_vars, Elapsed!elapsed_vars, TimeValue
      <3> QED
        BY <2>8, <3>1, <3>2, WaitStep
    <2>2. CASE MakeNew
      BY <2>2, MakeNewStep DEF Elapsed!ElapsedNext
    <2>3. CASE Reset
      BY <2>3, ResetStep DEF Elapsed!ElapsedNext
    <2>4. CASE Pause
      BY <2>4, PauseStep DEF Elapsed!ElapsedNext
    <2>5. CASE Resume
      BY <2>5, ResumeStep DEF Elapsed!ElapsedNext
    <2>6. CASE UNCHANGED sw_vars
      BY <2>6 DEF sw_vars, Elapsed!elapsed_vars, TimeValue
    <2>7. QED
      BY <2>1, <2>2, <2>3, <2>4, <2>5, <2>6, <2>8 DEF Next
  <1>3. QED
    BY <1>1, <1>2, TypeCorrect, PTL DEF Spec, ElapsedRefined, Elapsed!ElapsedSpec
=============================================================================

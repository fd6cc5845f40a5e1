----------------------- MODULE DrivebaseOdometryProofs -----------------------
(***************************************************************************)
(* Proof that the drivebase state queries implement Odometer for every    *)
(* even integer width: get_state reports the counts travelled since the  *)
(* last successful reset_state, whatever overflows in between.           *)
(***************************************************************************)
EXTENDS DrivebaseOdometry, ModArith, TLAPS

USE OdometryAssumption

LEMMA HalfModFacts ==
    /\ IntMod \in Nat \ {0}
    /\ HalfMod \in Nat \ {0}
    /\ IntMod = 2 * HalfMod
    /\ HalfMod \in 0..(IntMod - 1)
  <1>1. IntMod \in Int /\ 2 \in Nat \ {0}
    OBVIOUS
  <1>2. IntMod % 2 = IntMod - 2 * (IntMod \div 2)
    BY <1>1, ModDecomp, Zenon
  <1>3. IntMod = 2 * HalfMod
    BY <1>2 DEF HalfMod
  <1>4. HalfMod \in Int
    BY DEF HalfMod
  <1> QED
    BY <1>3, <1>4

\* A wrapped value lies in the signed range.
LEMMA WrapRange ==
    ASSUME NEW x \in Int
    PROVE  Wrap(x) \in Int32
  <1>1. x + HalfMod \in Int /\ IntMod \in Nat \ {0}
    BY HalfModFacts
  <1>2. (x + HalfMod) % IntMod \in 0..(IntMod - 1)
    BY <1>1, ModRange, Zenon
  <1> QED
    BY <1>2, HalfModFacts DEF Wrap, Int32

\* Wrapping an operand first does not change the wrapped result: the
\* firmware's int32 wraparound commutes with + and -.
LEMMA WrapAddLeft ==
    ASSUME NEW x \in Int, NEW y \in Int
    PROVE  Wrap(Wrap(x) + y) = Wrap(x + y)
  <1> DEFINE a == x + HalfMod
  <1>1. a \in Int /\ IntMod \in Nat \ {0}
    BY HalfModFacts
  <1>2. Wrap(x) + y + HalfMod = (a % IntMod) + y
    BY HalfModFacts DEF Wrap
  <1>3. ((a % IntMod) + y) % IntMod = (a + y) % IntMod
    BY <1>1, ModAddLeft, Zenon
  <1> QED
    BY <1>2, <1>3, HalfModFacts DEF Wrap

LEMMA WrapAddRight ==
    ASSUME NEW x \in Int, NEW y \in Int
    PROVE  Wrap(x + Wrap(y)) = Wrap(x + y)
  <1>1. Wrap(y) \in Int
    BY WrapRange DEF Int32
  <1>2. Wrap(Wrap(y) + x) = Wrap(y + x)
    BY WrapAddLeft
  <1> QED
    BY <1>1, <1>2

LEMMA WrapSubRight ==
    ASSUME NEW x \in Int, NEW y \in Int
    PROVE  Wrap(x - Wrap(y)) = Wrap(x - y)
  <1> DEFINE a == x + 2 * HalfMod
             b == y + HalfMod
  <1>1. a \in Int /\ b \in Int /\ IntMod \in Nat \ {0}
    BY HalfModFacts
  <1>2. x - Wrap(y) + HalfMod = a - (b % IntMod)
    BY HalfModFacts DEF Wrap
  <1>3. (a - (b % IntMod)) % IntMod = (a - b) % IntMod
    BY <1>1, ModSubRight, Zenon
  <1>4. a - b = (x - y) + HalfMod
    BY HalfModFacts
  <1> QED
    BY <1>2, <1>3, <1>4 DEF Wrap

LEMMA WrapSubLeft ==
    ASSUME NEW x \in Int, NEW y \in Int
    PROVE  Wrap(Wrap(x) - y) = Wrap(x - y)
  <1> DEFINE a == x + HalfMod
  <1>1. a \in Int /\ IntMod \in Nat \ {0}
    BY HalfModFacts
  <1>2. Wrap(x) - y + HalfMod = (a % IntMod) - y
    BY HalfModFacts DEF Wrap
  <1>3. ((a % IntMod) - y) % IntMod = (a - y) % IntMod
    BY <1>1, ModSubLeft, Zenon
  <1> QED
    BY <1>2, <1>3, HalfModFacts DEF Wrap

LEMMA WrapZero == Wrap(0) = 0
  <1>1. IntMod \in Nat \ {0} /\ HalfMod \in 0..(IntMod - 1)
    BY HalfModFacts
  <1>2. HalfMod % IntMod = HalfMod
    BY <1>1, ModSmall, Zenon
  <1>3. Wrap(0) = (HalfMod % IntMod) - HalfMod
    BY HalfModFacts DEF Wrap
  <1> QED
    BY <1>2, <1>3, HalfModFacts

-----------------------------------------------------------------------------
\* Every reachable state is well typed: counts and offsets are int32.
LEMMA TypeCorrect == Spec => []TypeOK
  <1>1. Init => TypeOK
    <2>1. 0 \in Int32
      BY HalfModFacts DEF Int32
    <2> QED
      BY <2>1 DEF Init, TypeOK
  <1>2. TypeOK /\ [Next]_odom_vars => TypeOK'
    <2> SUFFICES ASSUME TypeOK, [Next]_odom_vars PROVE TypeOK'
      OBVIOUS
    <2> USE DEF TypeOK
    <2>0. CASE odom_vars' = odom_vars
      BY <2>0 DEF odom_vars
    <2>1. CASE Move
      <3>1. PICK dl, dr \in -MaxStep..MaxStep :
              count' = [count EXCEPT ![Left] = Wrap(@ + dl), ![Right] = Wrap(@ + dr)]
        BY <2>1 DEF Move
      <3>2. count[Left] + dl \in Int /\ count[Right] + dr \in Int
        BY DEF Motors, Int32
      <3>3. Wrap(count[Left] + dl) \in Int32 /\ Wrap(count[Right] + dr) \in Int32
        BY <3>2, WrapRange
      <3>4. count' \in [Motors -> Int32]
        BY <3>1, <3>3 DEF Motors
      <3> QED
        BY <2>1, <3>4 DEF Move
    <2>2. CASE ResetState
      <3>1. Sum \in Int32 /\ Dif \in Int32
        BY WrapRange DEF Sum, Dif, Int32, Motors
      <3> QED
        BY <2>2, <3>1 DEF ResetState
    <2>3. CASE GetState
      BY <2>3 DEF GetState
    <2>4. CASE \E m \in Motors : Replug(m)
      BY <2>4 DEF Replug
    <2> QED
      BY <2>0, <2>4, <2>3, <2>2, <2>1 DEF Next
  <1> QED
    BY PTL, <1>2, <1>1 DEF Spec

-----------------------------------------------------------------------------
(* The refinement.  A turn of the wheels by dl and dr counts moves the    *)
(* reported distance by dl + dr and the angle by dl - dr modulo the      *)
(* width, whichever of the int32 sums, differences and subtractions      *)
(* overflowed on the way; reset_state is Zero when it can sample and a   *)
(* stutter when it cannot; get_state changes nothing it reports.         *)

\* The distance after a turn, in terms of the counts before it: p and q
\* are the new left and right counts before wrapping, s the old sum and
\* t the turn, o the offset.
LEMMA SumShift ==
    ASSUME NEW p \in Int, NEW q \in Int, NEW s \in Int, NEW t \in Int,
           NEW o \in Int, p + q = s + t
    PROVE  Wrap(Wrap(Wrap(p) + Wrap(q)) - o) = Wrap(Wrap(Wrap(s) - o) + t)
  <1>1. Wrap(p) \in Int /\ Wrap(q) \in Int /\ Wrap(s) \in Int
    BY WrapRange DEF Int32
  <1>2. Wrap(Wrap(Wrap(p) + Wrap(q)) - o) = Wrap((Wrap(p) + Wrap(q)) - o)
    BY <1>1, WrapSubLeft
  <1>3. Wrap(Wrap(p) + (Wrap(q) - o)) = Wrap(p + (Wrap(q) - o))
    BY <1>1, WrapAddLeft
  <1>4. Wrap((p - o) + Wrap(q)) = Wrap((p - o) + q)
    BY WrapAddRight
  <1>5. Wrap(Wrap(Wrap(s) - o) + t) = Wrap((Wrap(s) - o) + t)
    BY <1>1, WrapAddLeft
  <1>6. Wrap(Wrap(s) + (t - o)) = Wrap(s + (t - o))
    BY WrapAddLeft
  <1> QED
    BY <1>1, <1>2, <1>3, <1>4, <1>5, <1>6

\* The same for the angle, with p - q = s + t.
LEMMA DifShift ==
    ASSUME NEW p \in Int, NEW q \in Int, NEW s \in Int, NEW t \in Int,
           NEW o \in Int, p - q = s + t
    PROVE  Wrap(Wrap(Wrap(p) - Wrap(q)) - o) = Wrap(Wrap(Wrap(s) - o) + t)
  <1>1. Wrap(p) \in Int /\ Wrap(q) \in Int /\ Wrap(s) \in Int
    BY WrapRange DEF Int32
  <1>2. Wrap(Wrap(Wrap(p) - Wrap(q)) - o) = Wrap((Wrap(p) - Wrap(q)) - o)
    <2>1. Wrap(p) - Wrap(q) \in Int
      BY <1>1
    <2> QED
      BY <2>1, WrapSubLeft
  <1>3. Wrap(Wrap(p) + ((0 - Wrap(q)) - o)) = Wrap(p + ((0 - Wrap(q)) - o))
    <2>1. (0 - Wrap(q)) - o \in Int
      BY <1>1
    <2> QED
      BY <2>1, WrapAddLeft
  <1>4. Wrap((p - o) - Wrap(q)) = Wrap((p - o) - q)
    BY WrapSubRight
  <1>5. Wrap(Wrap(Wrap(s) - o) + t) = Wrap((Wrap(s) - o) + t)
    BY <1>1, WrapAddLeft
  <1>6. Wrap(Wrap(s) + (t - o)) = Wrap(s + (t - o))
    BY WrapAddLeft
  <1> QED
    BY <1>1, <1>2, <1>3, <1>4, <1>5, <1>6

\* Odometer's wraparound is the int32 wraparound of the queries.
LEMMA WrappedIsWrap ==
    ASSUME NEW x \in Int
    PROVE  Odo!Wrapped(x) = Wrap(x)
  BY DEF Odo!Wrapped, Odo!HalfMod, Wrap, HalfMod

\* The readings are int32 values.
LEMMA ReadingType ==
    ASSUME TypeOK
    PROVE  /\ Sum \in Int /\ Dif \in Int
           /\ Distance \in Int /\ Angle \in Int
  <1>1. count[Left] \in Int /\ count[Right] \in Int
        /\ sum_offset \in Int /\ dif_offset \in Int
    BY DEF TypeOK, Motors, Int32
  <1>2. Sum \in Int /\ Dif \in Int
    BY <1>1, WrapRange DEF Sum, Dif, Int32
  <1> QED
    BY <1>1, <1>2, WrapRange DEF Distance, Angle, Int32

\* A turn of the wheels is a Roll of the odometer.
LEMMA MoveStep ==
    ASSUME TypeOK, Move
    PROVE  Odo!Roll
  <1>1. PICK dl, dr \in -MaxStep..MaxStep :
          /\ count' = [count EXCEPT ![Left] = Wrap(@ + dl), ![Right] = Wrap(@ + dr)]
          /\ UNCHANGED << connected, sum_offset, dif_offset, result >>
    BY DEF Move
  <1>2. /\ count[Left] \in Int /\ count[Right] \in Int /\ dl \in Int /\ dr \in Int
        /\ sum_offset \in Int /\ dif_offset \in Int
    BY DEF TypeOK, Motors, Int32
  <1>3. count'[Left] = Wrap(count[Left] + dl) /\ count'[Right] = Wrap(count[Right] + dr)
    BY <1>1, OdometryAssumption DEF TypeOK, Motors
  <1>4. Distance' = Wrap(Wrap(Wrap(count[Left] + dl) + Wrap(count[Right] + dr)) - sum_offset)
    BY <1>1, <1>3 DEF Distance, Sum
  <1>5. Angle' = Wrap(Wrap(Wrap(count[Left] + dl) - Wrap(count[Right] + dr)) - dif_offset)
    BY <1>1, <1>3 DEF Angle, Dif
  <1>6. Wrap(Wrap(Wrap(count[Left] + dl) + Wrap(count[Right] + dr)) - sum_offset)
          = Wrap(Wrap(Wrap(count[Left] + count[Right]) - sum_offset) + (dl + dr))
    <2>1. (count[Left] + dl) + (count[Right] + dr)
            = (count[Left] + count[Right]) + (dl + dr)
      BY <1>2
    <2> QED
      BY <1>2, <2>1, SumShift
  <1>7. Wrap(Wrap(Wrap(count[Left] + dl) - Wrap(count[Right] + dr)) - dif_offset)
          = Wrap(Wrap(Wrap(count[Left] - count[Right]) - dif_offset) + (dl - dr))
    <2>1. (count[Left] + dl) - (count[Right] + dr)
            = (count[Left] - count[Right]) + (dl - dr)
      BY <1>2
    <2> QED
      BY <1>2, <2>1, DifShift
  <1>8. Distance' = Wrap(Distance + (dl + dr)) /\ Angle' = Wrap(Angle + (dl - dr))
    BY <1>4, <1>5, <1>6, <1>7 DEF Distance, Angle, Sum, Dif
  <1>9. /\ Odo!Wrapped(Distance + (dl + dr)) = Wrap(Distance + (dl + dr))
        /\ Odo!Wrapped(Angle + (dl - dr)) = Wrap(Angle + (dl - dr))
    BY <1>2, ReadingType, WrappedIsWrap
  <1>10. CanSample' = CanSample
    BY <1>1 DEF CanSample
  <1> QED
    BY <1>8, <1>9, <1>10 DEF Odo!Roll

\* A reset_state that samples zeroes both readings.
LEMMA ResetStep ==
    ASSUME TypeOK, ResetState, CanSample
    PROVE  Odo!Zero
  <1>1. sum_offset' = Sum /\ dif_offset' = Dif
        /\ UNCHANGED << count, connected >>
    BY DEF ResetState
  <1>2. Sum \in Int /\ Dif \in Int
    BY ReadingType
  <1>3. Distance' = Wrap(Sum - Sum) /\ Angle' = Wrap(Dif - Dif)
    BY <1>1 DEF Distance, Angle, Sum, Dif
  <1>4. Distance' = 0 /\ Angle' = 0
    BY <1>2, <1>3, WrapZero
  <1>5. CanSample' = CanSample
    BY <1>1 DEF CanSample
  <1> QED
    BY <1>4, <1>5 DEF Odo!Zero

\* A reset_state that cannot sample leaves both offsets, so it is a stutter.
LEMMA ResetFailStep ==
    ASSUME ResetState, ~CanSample
    PROVE  UNCHANGED Odo!odo_vars
  <1>1. UNCHANGED << count, connected, sum_offset, dif_offset >>
    BY DEF ResetState
  <1> QED
    BY <1>1 DEF Odo!odo_vars, Distance, Angle, Sum, Dif, CanSample

\* Unplugging or replugging a motor changes only whether it can be read.
LEMMA ReplugStep ==
    ASSUME TypeOK, NEW m \in Motors, Replug(m)
    PROVE  Odo!Plug
  <1>1. UNCHANGED << count, sum_offset, dif_offset >>
        /\ connected' = [connected EXCEPT ![m] = ~@]
    BY DEF Replug
  <1>2. CanSample' \in BOOLEAN
    BY <1>1 DEF CanSample
  <1> QED
    BY <1>1, <1>2 DEF Odo!Plug, Distance, Angle, Sum, Dif

\* The queries implement Odometer (the property the odometry run checks):
\* what pbio_drivebase_get_state reports is the distance and angle
\* travelled since the last successful pbio_drivebase_reset_state, for
\* every even integer width, across every int32 overflow of the sum, the
\* difference and the subtraction of the offsets.
THEOREM OdometerRefinement == Spec => OdometerRefined
  <1>1. Init => Odo!OdoInit
    <2> SUFFICES ASSUME Init PROVE Odo!OdoInit
      OBVIOUS
    <2>1. TypeOK
      <3>1. 0 \in Int32
        BY HalfModFacts DEF Int32
      <3> QED
        BY <3>1 DEF Init, TypeOK
    <2>2. Distance = Wrap(Sum - 0) /\ Angle = Wrap(Dif - 0)
      BY DEF Init, Distance, Angle
    <2>3. Distance \in Int32 /\ Angle \in Int32
      BY <2>1, <2>2, ReadingType, WrapRange
    <2>4. CanSample = TRUE
      BY DEF Init, CanSample
    <2> QED
      BY <2>3, <2>4 DEF Odo!OdoInit, Odo!HalfMod, Int32, HalfMod
  <1>2. TypeOK /\ [Next]_odom_vars => [Odo!OdoNext]_Odo!odo_vars
    <2> SUFFICES ASSUME TypeOK, [Next]_odom_vars
                 PROVE  [Odo!OdoNext]_Odo!odo_vars
      OBVIOUS
    <2>0. CASE odom_vars' = odom_vars
      BY <2>0 DEF odom_vars, Odo!odo_vars, Distance, Angle, Sum, Dif, CanSample
    <2>1. CASE Move
      BY <2>1, MoveStep DEF Odo!OdoNext
    <2>2. CASE ResetState /\ CanSample
      BY <2>2, ResetStep DEF Odo!OdoNext
    <2>3. CASE ResetState /\ ~CanSample
      BY <2>3, ResetFailStep
    <2>4. CASE GetState
      <3>1. UNCHANGED << count, connected, sum_offset, dif_offset >>
        BY <2>4 DEF GetState
      <3> QED
        BY <3>1 DEF Odo!odo_vars, Distance, Angle, Sum, Dif, CanSample
    <2>5. CASE \E m \in Motors : Replug(m)
      BY <2>5, ReplugStep DEF Odo!OdoNext
    <2> QED
      BY <2>0, <2>5, <2>4, <2>3, <2>2, <2>1 DEF Next
  <1> QED
    BY PTL, TypeCorrect, <1>2, <1>1
       DEF OdometerRefined, Odo!OdoSpec, Spec
=============================================================================

--------------------------- MODULE SteeringProofs ---------------------------
(***************************************************************************)
(* The wheel encoder and the control law for every size of the counter,    *)
(* every number of readings without a tick, and all distances.             *)
(***************************************************************************)
EXTENDS Steering, TLAPS

(* The encoder.  A difference of counts is that of the ticks up to a turn  *)
(* of the counter.                                                         *)

Congruent(m, n) == m = n \/ m = n + (Top + 1) \/ m = n - (Top + 1)

\* The count is as far from the one read last as the wheel has moved since.
CountOK == Congruent(count, (IF tim2 = "waiting" THEN cnt1 ELSE cnt2) - moved)

\* So were the two counts of the handler when it has read the second.
MeasuredOK == tim2 = "counted" => Congruent(cnt2, cnt1 - measured)

\* Readings without a tick lose one tick at most, and where they have lost it
\* the next one they lose is the opposite one.
DriftOK ==
  /\ drift \in -1 .. 1
  /\ drift = 1 => cnt1 = Top
  /\ drift = -1 => cnt1 = 0

EInv == TypeOKEncoder /\ CountOK /\ MeasuredOK /\ DriftOK /\ VelocityTrue

LEMMA Bounds ==
  /\ Top \in Int /\ MaxTurn \in Int /\ StallReadings \in Int
  /\ 0 <= MaxTurn /\ MaxTurn < Top /\ 1 <= StallReadings
  BY EncoderAssumption

LEMMA EncoderInit == InitEncoder => EInv
<1> SUFFICES ASSUME InitEncoder PROVE EInv
  OBVIOUS
<1>1. TypeOKEncoder
  <2>1. /\ count \in 0 .. Top /\ cnt1 \in 0 .. Top /\ cnt2 \in 0 .. Top
        /\ velocity \in - Top .. Top
        /\ low_velocity_counter \in 0 .. StallReadings - 1
    BY Bounds DEF InitEncoder
  <2>2. moved \in - MaxTurn .. MaxTurn /\ measured \in - MaxTurn .. MaxTurn
    BY Bounds DEF InitEncoder
  <2>3. tim2 \in {"waiting", "counted"} /\ drift \in Int
    BY DEF InitEncoder
  <2>4. down \in BOOLEAN /\ motor_stalling \in BOOLEAN /\ trusted \in BOOLEAN
    BY DEF InitEncoder
  <2>. QED BY <2>1, <2>2, <2>3, <2>4 DEF TypeOKEncoder
<1>2. CountOK
  BY DEF InitEncoder, CountOK, Congruent
<1>3. MeasuredOK
  BY DEF InitEncoder, MeasuredOK
<1>4. DriftOK
  BY DEF InitEncoder, DriftOK
<1>5. VelocityTrue
  BY DEF InitEncoder, VelocityTrue
<1>. QED BY <1>1, <1>2, <1>3, <1>4, <1>5 DEF EInv

\* What the handler computes from two counts that differ by what was measured.
LEMMA Difference ==
  ASSUME TypeOKEncoder, MeasuredOK, tim2 = "counted"
  PROVE  /\ Velocity \in - Top .. Top
         /\ Velocity = 0 => \/ measured = 0 /\ cnt2 = cnt1
                            \/ measured = 1 /\ cnt1 = 0 /\ cnt2 = Top
                            \/ measured = -1 /\ cnt1 = Top /\ cnt2 = 0
         /\ (measured > 0 => down) /\ (measured < 0 => ~down)
            => \/ Velocity = measured
               \/ measured > 0 /\ cnt2 > Top - measured /\ Velocity = measured - 1
               \/ measured < 0 /\ cnt2 < - measured /\ Velocity = measured + 1
<1>1. /\ cnt1 \in 0 .. Top /\ cnt2 \in 0 .. Top /\ measured \in - MaxTurn .. MaxTurn
      /\ Congruent(cnt2, cnt1 - measured) /\ down \in BOOLEAN
  BY DEF TypeOKEncoder, MeasuredOK
<1>2. CASE down
  BY <1>1, <1>2, Bounds DEF Velocity, Forwards, Congruent
<1>3. CASE ~down
  BY <1>1, <1>3, Bounds DEF Velocity, Backwards, Congruent
<1>. QED BY <1>1, <1>2, <1>3

LEMMA TurnStep == ASSUME EInv, Turn PROVE EInv'
<1> USE DEF handler
<1>a. TypeOKEncoder /\ CountOK /\ MeasuredOK /\ DriftOK /\ VelocityTrue
  BY DEF EInv
<1>1. /\ UNCHANGED <<tim2, cnt1, cnt2, velocity, low_velocity_counter, motor_stalling,
                     measured, trusted, drift>>
      /\ moved' \in - MaxTurn .. MaxTurn /\ down' \in BOOLEAN /\ count' \in 0 .. Top
  <2>1. moved \in - MaxTurn .. MaxTurn /\ count \in 0 .. Top
    BY <1>a DEF TypeOKEncoder
  <2>2. CASE TurnForwards
    BY <2>1, <2>2, Bounds DEF TurnForwards
  <2>3. CASE TurnBackwards
    <3>1. UNCHANGED <<tim2, cnt1, cnt2, velocity, low_velocity_counter, motor_stalling,
                      measured, trusted, drift>>
      BY <2>3 DEF TurnBackwards
    <3>2. moved' \in - MaxTurn .. MaxTurn
      BY <2>1, <2>3, Bounds DEF TurnBackwards
    <3>3. count' \in 0 .. Top
      BY <2>1, <2>3, Bounds DEF TurnBackwards
    <3>4. down' \in BOOLEAN
      BY <2>3 DEF TurnBackwards
    <3>. QED BY <3>1, <3>2, <3>3, <3>4
  <2>. QED BY <2>2, <2>3 DEF Turn
<1>2. CountOK'
  <2> DEFINE base == IF tim2 = "waiting" THEN cnt1 ELSE cnt2
  <2>1. /\ base \in 0 .. Top /\ moved \in - MaxTurn .. MaxTurn /\ count \in 0 .. Top
        /\ Congruent(count, base - moved) /\ base' = base
    BY <1>a, <1>1 DEF TypeOKEncoder, CountOK
  <2>2. CASE TurnForwards
    BY <2>1, <2>2, Bounds DEF TurnForwards, CountOK, Congruent
  <2>3. CASE TurnBackwards
    BY <2>1, <2>3, Bounds DEF TurnBackwards, CountOK, Congruent
  <2>. QED BY <2>2, <2>3 DEF Turn
<1>3. TypeOKEncoder'
  BY <1>a, <1>1 DEF TypeOKEncoder
<1>4. MeasuredOK' /\ DriftOK' /\ VelocityTrue'
  BY <1>a, <1>1 DEF MeasuredOK, DriftOK, VelocityTrue, Congruent
<1>. QED BY <1>2, <1>3, <1>4 DEF EInv

LEMMA ReadCountStep == ASSUME EInv, ReadCount PROVE EInv'
<1>1. TypeOKEncoder /\ CountOK /\ MeasuredOK /\ DriftOK /\ VelocityTrue
  BY DEF EInv
<1>2. TypeOKEncoder'
  BY <1>1, Bounds DEF ReadCount, TypeOKEncoder, timer3
<1>3. CountOK' /\ MeasuredOK'
  BY <1>1, Bounds DEF ReadCount, TypeOKEncoder, CountOK, MeasuredOK, Congruent, timer3
<1>4. DriftOK' /\ VelocityTrue'
  BY <1>1 DEF ReadCount, DriftOK, VelocityTrue
<1>. QED BY <1>2, <1>3, <1>4 DEF EInv

LEMMA ReadDirectionStep == ASSUME EInv, ReadDirection PROVE EInv'
<1>1. TypeOKEncoder /\ CountOK /\ MeasuredOK /\ DriftOK /\ tim2 = "counted"
  BY DEF EInv, ReadDirection
<1>2. /\ tim2' = "waiting" /\ velocity' = Velocity /\ cnt1' = cnt2
      /\ UNCHANGED <<count, down, cnt2, moved, measured>>
  BY DEF ReadDirection, timer3
<1>3. TypeOKEncoder'
  <2>1. Velocity \in - Top .. Top
    BY <1>1, Difference
  <2>2. LowReadings \in 0 .. StallReadings
    BY <1>1, Bounds DEF LowReadings, TypeOKEncoder
  <2>3. low_velocity_counter' \in 0 .. StallReadings - 1
    BY <2>2, Bounds DEF ReadDirection
  <2>4. motor_stalling' \in BOOLEAN /\ trusted' \in BOOLEAN /\ drift' \in Int
    BY <1>1, Bounds DEF ReadDirection, TypeOKEncoder
  <2>. QED BY <1>1, <1>2, <2>1, <2>3, <2>4 DEF TypeOKEncoder
<1>4. CountOK' /\ MeasuredOK'
  BY <1>1, <1>2 DEF CountOK, MeasuredOK, Congruent
<1>5. DriftOK'
  <2>1. LowReadings = 0 <=> Velocity # 0
    BY <1>1, Bounds DEF LowReadings, TypeOKEncoder
  <2>2. CASE Velocity # 0
    BY <2>1, <2>2 DEF ReadDirection, DriftOK
  <2>3. CASE Velocity = 0
    <3>1. drift' = drift + measured
      BY <2>1, <2>3 DEF ReadDirection
    <3>. QED BY <1>1, <1>2, <2>3, <3>1, Difference, Bounds DEF DriftOK
  <2>. QED BY <2>2, <2>3
<1>6. VelocityTrue'
  <2>1. trusted' => (measured > 0 => down) /\ (measured < 0 => ~down)
    BY DEF ReadDirection
  <2>. QED BY <1>1, <1>2, <2>1, Difference DEF VelocityTrue
<1>. QED BY <1>3, <1>4, <1>5, <1>6 DEF EInv

LEMMA EncoderStep == ASSUME EInv, [Next]_vars PROVE EInv'
<1>1. CASE UNCHANGED encoder
  BY <1>1 DEF EInv, TypeOKEncoder, CountOK, MeasuredOK, DriftOK, VelocityTrue, Congruent,
     encoder, timer3, handler, history
<1>2. Turn \/ ReadCount \/ ReadDirection \/ UNCHANGED encoder
  BY DEF Next, Handler, Measure, computeNewHeading, Correct, TestMoving, TestStanding,
     DivideTested, DivideAgain, Main, vars
<1>. QED BY <1>1, <1>2, TurnStep, ReadCountStep, ReadDirectionStep

LEMMA EncoderHolds == Spec => []EInv
<1>1. Init => EInv
  BY EncoderInit DEF Init
<1>2. EInv /\ [Next]_vars => EInv'
  BY EncoderStep
<1>. QED BY <1>1, <1>2, PTL DEF Spec

\* A velocity that can be trusted is that of the wheel, to a tick at a wrap.
THEOREM TrueVelocity == Spec => []VelocityTrue
<1>1. EInv => VelocityTrue
  BY DEF EInv
<1>. QED BY <1>1, EncoderHolds, PTL

\* A stall is only reported of a wheel that has not moved by more than a tick.
THEOREM RealStall == Spec => StallIsReal
<1>1. ASSUME EInv, EInv', [Next]_vars
      PROVE  [motor_stalling' # motor_stalling => motor_stalling' /\ drift' \in -1 .. 1]_encoder
  <2> SUFFICES ASSUME motor_stalling' # motor_stalling
               PROVE  motor_stalling' /\ drift' \in -1 .. 1
    BY DEF encoder
  <2>1. drift' \in -1 .. 1
    BY <1>1 DEF EInv, DriftOK
  <2>2. ReadDirection
    BY <1>1 DEF Next, Handler, Turn, TurnForwards, TurnBackwards, ReadCount, Measure,
       computeNewHeading, Correct, TestMoving, TestStanding, DivideTested, DivideAgain,
       Main, vars, encoder, handler
  <2>3. motor_stalling \in BOOLEAN /\ motor_stalling' \in BOOLEAN
    BY <1>1 DEF EInv, TypeOKEncoder
  <2>. QED BY <2>1, <2>2, <2>3 DEF ReadDirection
<1>2. EInv /\ EInv' /\ [Next]_vars
      => [motor_stalling' # motor_stalling => motor_stalling' /\ drift' \in -1 .. 1]_encoder
  BY <1>1
<1>. QED BY <1>2, EncoderHolds, PTL DEF Spec, StallIsReal

-----------------------------------------------------------------------------
(* Left and right.                                                         *)

Readings == [Sensors -> Distances]

LEMMA Corners == 0 \in Sensors /\ 1 \in Sensors /\ 2 \in Sensors /\ 3 \in Sensors
                 /\ \A k \in Sensors : k = 0 \/ k = 1 \/ k = 2 \/ k = 3
  BY DEF Sensors

LEMMA Measured ==
  /\ Distances \subseteq Nat /\ Places \subseteq Readings
  /\ \A r \in Readings : \A k \in Sensors : r[k] \in Distances /\ r[k] \in Nat
<1>1. Distances \subseteq Nat
  BY SteeringAssumption
<1>2. Places \subseteq Readings
  BY SteeringAssumption DEF Readings
<1>. QED BY <1>1, <1>2 DEF Readings

LEMMA Angles ==
  /\ \A d \in - sensor_dist .. sensor_dist : Asin(d) \in Int /\ Asin(- d) = - Asin(d)
  /\ \A l \in Laterals : AtanStill(l) \in Int /\ AtanStill(- l) = - AtanStill(l)
  /\ \A l \in Laterals : \A v \in (- Top .. Top) \ {0} :
        AtanMoving(l, v) \in Int /\ AtanMoving(- l, v) = - AtanMoving(l, v)
<1>1. - RightAngle .. RightAngle \subseteq Int
  BY DEF RightAngle
<1>2. \A d \in - sensor_dist .. sensor_dist : Asin(d) \in Int /\ Asin(- d) = - Asin(d)
  BY <1>1, SteeringAssumption
<1>3. \A l \in Laterals : AtanStill(l) \in Int /\ AtanStill(- l) = - AtanStill(l)
  BY <1>1, SteeringAssumption DEF Laterals
<1>4. \A l \in Laterals : \A v \in (- Top .. Top) \ {0} :
        AtanMoving(l, v) \in Int /\ AtanMoving(- l, v) = - AtanMoving(l, v)
  BY <1>1, SteeringAssumption
<1>. QED BY <1>2, <1>3, <1>4

LEMMA MirrorIs ==
  ASSUME NEW r \in Readings
  PROVE  /\ Mirror(r) \in Readings
         /\ Mirror(r)[0] = r[3] /\ Mirror(r)[1] = r[2]
         /\ Mirror(r)[2] = r[1] /\ Mirror(r)[3] = r[0]
<1>1. \A k \in Sensors : 3 - k \in Sensors
  BY DEF Sensors
<1>2. \A k \in Sensors : Mirror(r)[k] = r[3 - k]
  BY DEF Mirror
<1>3. Mirror(r) \in Readings
  BY <1>1 DEF Mirror, Readings
<1>4. 3 - 0 = 3 /\ 3 - 1 = 2 /\ 3 - 2 = 1 /\ 3 - 3 = 0
  OBVIOUS
<1>. QED BY <1>2, <1>3, <1>4, Corners

\* What the readings are when one rear reading at least is in range.
LEMMA CorrectedIs ==
  ASSUME NEW r \in Readings, r[0] <= treshold \/ r[3] <= treshold
  PROVE  /\ Corrected(r) \in Readings
         /\ Corrected(r)[0] = IF r[0] > treshold THEN r[3] ELSE r[0]
         /\ Corrected(r)[3] = IF r[3] > treshold THEN r[0] ELSE r[3]
         /\ Corrected(r)[1] = r[1] /\ Corrected(r)[2] = r[2]
<1>1. \A k \in Sensors : r[k] \in Distances /\ r[k] \in Nat
  BY Measured
<1>2. r[0] \in Nat /\ r[3] \in Nat /\ treshold \in Nat
  BY <1>1, Corners DEF treshold
<1>3. CASE r[0] > treshold
  <2>1. ~(r[3] > treshold)
    BY <1>2, <1>3
  <2>2. [r EXCEPT ![0] = r[3]] \in Readings
    BY <1>1, Corners DEF Readings
  <2>3. [r EXCEPT ![0] = r[3]][3] = r[3] /\ [r EXCEPT ![0] = r[3]][0] = r[3]
    BY Corners DEF Readings
  <2>4. Corrected(r) = [r EXCEPT ![0] = r[3]]
    BY <1>3, <2>1, <2>3 DEF Corrected
  <2>. QED BY <1>3, <2>1, <2>2, <2>3, <2>4, Corners DEF Readings
<1>4. CASE ~(r[0] > treshold) /\ r[3] > treshold
  <2>1. Corrected(r) = [r EXCEPT ![3] = r[0]]
    BY <1>4 DEF Corrected
  <2>. QED BY <1>1, <1>4, <2>1, Corners DEF Readings
<1>5. CASE ~(r[0] > treshold) /\ ~(r[3] > treshold)
  BY <1>5 DEF Corrected
<1>. QED BY <1>3, <1>4, <1>5

LEMMA CorrectedMirror ==
  ASSUME NEW r \in Readings, r[0] <= treshold \/ r[3] <= treshold
  PROVE  /\ Corrected(r) \in Readings /\ Corrected(Mirror(r)) \in Readings
         /\ Corrected(Mirror(r))[0] = Corrected(r)[3]
         /\ Corrected(Mirror(r))[1] = Corrected(r)[2]
         /\ Corrected(Mirror(r))[2] = Corrected(r)[1]
         /\ Corrected(Mirror(r))[3] = Corrected(r)[0]
<1> DEFINE m == Mirror(r)
<1>1. m \in Readings /\ m[0] = r[3] /\ m[1] = r[2] /\ m[2] = r[1] /\ m[3] = r[0]
  BY MirrorIs
<1>2. m[0] <= treshold \/ m[3] <= treshold
  BY <1>1
<1> HIDE DEF m
<1>3. /\ Corrected(m) \in Readings
      /\ Corrected(m)[0] = IF m[0] > treshold THEN m[3] ELSE m[0]
      /\ Corrected(m)[3] = IF m[3] > treshold THEN m[0] ELSE m[3]
      /\ Corrected(m)[1] = m[1] /\ Corrected(m)[2] = m[2]
  BY <1>1, <1>2, CorrectedIs
<1>. QED BY <1>1, <1>3, CorrectedIs DEF m

LEMMA BetaOdd ==
  ASSUME NEW d \in Int PROVE Beta(d) \in Int /\ Beta(- d) = - Beta(d)
<1>1. CASE d \in - sensor_dist .. sensor_dist
  <2>1. Asin(d) \in Int /\ Asin(- d) = - Asin(d)
    BY <1>1, Angles
  <2>2. Beta(d) = Asin(d) /\ Beta(- d) = Asin(- d)
    BY <1>1 DEF Beta, sensor_dist
  <2>. QED BY <2>1, <2>2
<1>2. CASE d \notin - sensor_dist .. sensor_dist
  BY <1>2 DEF Beta, sensor_dist, RightAngle
<1>. QED BY <1>1, <1>2

LEMMA AtanOdd ==
  ASSUME NEW l \in Laterals, NEW v \in 1 .. Still
  PROVE  Atan(l, v) \in Int /\ Atan(- l, v) = - Atan(l, v)
<1>1. CASE v = Still
  <2>1. Atan(l, v) = AtanStill(l) /\ Atan(- l, v) = AtanStill(- l)
    BY <1>1 DEF Atan
  <2>. QED BY <2>1, Angles
<1>2. CASE v # Still
  <2>1. v \in (- Top .. Top) \ {0}
    BY <1>2, Bounds DEF Still
  <2>2. Atan(l, v) = AtanMoving(l, v) /\ Atan(- l, v) = AtanMoving(- l, v)
    BY <1>2, <2>1 DEF Atan
  <2>. QED BY <2>1, <2>2, Angles
<1>. QED BY <1>1, <1>2

LEMMA HeadingMirror ==
  ASSUME NEW r \in Readings, NEW m \in Readings, NEW v \in 1 .. Still,
         m[0] = r[3], m[1] = r[2], m[2] = r[1], m[3] = r[0]
  PROVE  Heading(m, v) = - Heading(r, v)
<1>1. \A k \in Sensors : r[k] \in Distances /\ r[k] \in Nat
  BY Measured
<1>2. v # 0
  OBVIOUS
<1>3. LateralError(m) = - LateralError(r)
      /\ LateralError(r) \in Laterals
  BY <1>1, Corners DEF LateralError, Laterals
<1>4. OrientationError(r) \in Int /\ OrientationError(m) = - OrientationError(r)
  <2>1. r[0] - r[1] \in Int /\ r[3] - r[2] \in Int
    BY <1>1, Corners
  <2>2. Beta(r[0] - r[1]) \in Int /\ Beta(r[3] - r[2]) \in Int
    BY <2>1, BetaOdd
  <2>. QED BY <2>2 DEF OrientationError
<1>5. Atan(LateralError(r), v) \in Int
      /\ Atan(LateralError(m), v) = - Atan(LateralError(r), v)
  BY <1>3, AtanOdd
<1>6. \A h \in Int : Saturated(- h) = - Saturated(h)
  BY DEF Saturated, max_heading_delta
<1> DEFINE h == OrientationError(r) + 2 * Atan(LateralError(r), v)
<1>7. h \in Int /\ OrientationError(m) + 2 * Atan(LateralError(m), v) = - h
  BY <1>4, <1>5
<1>8. Heading(r, v) = Saturated(h) /\ Heading(m, v) = Saturated(- h)
  BY <1>2, <1>7 DEF Heading
<1>. QED BY <1>6, <1>7, <1>8

\* Left and right are treated alike whenever one rear reading is in range.
THEOREM MirroredPlaces == Spec => []Mirrored
<1>1. ASSUME EInv PROVE Mirrored
  <2> SUFFICES ASSUME NEW r \in Places, r[0] <= treshold \/ r[3] <= treshold,
                      NEW v, v = IF velocity > 0 THEN velocity ELSE Still
               PROVE  Heading(Corrected(Mirror(r)), v) = - Heading(Corrected(r), v)
    BY DEF Mirrored
  <2>1. v \in 1 .. Still
    BY <1>1, Bounds DEF EInv, TypeOKEncoder, Still
  <2>2. r \in Readings
    BY Measured
  <2>. QED BY <2>1, <2>2, CorrectedMirror, HeadingMirror
<1>. QED BY <1>1, EncoderHolds, PTL

-----------------------------------------------------------------------------
(* To the middle.                                                          *)

\* The servo has been set to the heading of the readings, but for a car that has
\* not measured yet, whose readings are all 0.
ServoOK ==
  /\ divisor \in - Top .. Still
  /\ main = "divide" => divisor \in 1 .. Top
  /\ \/ /\ sensorReadings \in Readings
        /\ main = "idle" => pulse \in Pulses(Heading(sensorReadings, divisor))
     \/ main = "idle" /\ LateralError(sensorReadings) = 0

LEMMA CorrectedReadings == ASSUME NEW r \in Readings PROVE Corrected(r) \in Readings
<1> DEFINE left == IF r[0] > treshold THEN [r EXCEPT ![0] = r[3]] ELSE r
<1>1. left \in Readings
  BY Corners DEF Readings
<1>2. [left EXCEPT ![3] = left[0]] \in Readings
  BY <1>1, Corners DEF Readings
<1>. QED BY <1>1, <1>2 DEF Corrected

\* The rules of sign of the angles.
LEMMA Signs ==
  /\ Beta(0) = 0 /\ \A d \in Int : d > 0 => Beta(d) >= 0
  /\ \A l \in Laterals : \A v \in 0 .. Still :
       /\ l > 0 => /\ Atan(l, v) \in Int /\ Atan(l, v) >= 0
                   /\ v = Still \/ Real(v) => Atan(l, v) >= Visible
       /\ l < 0 => - l \in Laterals /\ Atan(l, v) = - Atan(- l, v)
<1>1. Beta(0) = 0
  BY BetaOdd
<1>2. ASSUME NEW d \in Int, d > 0 PROVE Beta(d) >= 0
  <2>1. CASE d \in 1 .. sensor_dist
    <3>1. d \in - sensor_dist .. sensor_dist
      BY <2>1 DEF sensor_dist
    <3>2. Asin(d) >= 0
      BY <1>2, <3>1, SteeringAssumption
    <3>3. Beta(d) = Asin(d)
      BY <2>1 DEF Beta, sensor_dist
    <3>. QED BY <3>2, <3>3
  <2>2. CASE d > sensor_dist
    BY <2>2 DEF Beta, RightAngle
  <2>. QED BY <1>2, <2>1, <2>2 DEF sensor_dist
<1>3. ASSUME NEW l \in Laterals, NEW v \in 0 .. Still, l > 0
      PROVE  /\ Atan(l, v) \in Int /\ Atan(l, v) >= 0
             /\ v = Still \/ Real(v) => Atan(l, v) >= Visible
  <2>1. CASE v = Still
    <3>1. AtanStill(l) \in Int /\ AtanStill(l) >= Visible
      BY <1>3, Angles, SteeringAssumption
    <3>. QED BY <2>1, <3>1 DEF Atan, Visible
  <2>2. CASE v = 0
    BY <1>3, <2>2, Bounds DEF Atan, Still, RightAngle, Visible
  <2>3. CASE v # Still /\ v # 0
    <3>1. v \in (- Top .. Top) \ {0} /\ v > 0
      BY <2>3, Bounds DEF Still
    <3>2. AtanMoving(l, v) \in Int
      BY <3>1, Angles
    <3>3. AtanMoving(l, v) >= IF Real(v) THEN Visible ELSE 0
      BY <1>3, <3>1, SteeringAssumption
    <3>. QED BY <2>3, <3>2, <3>3 DEF Atan, Visible
  <2>. QED BY <2>1, <2>2, <2>3
<1>4. ASSUME NEW l \in Laterals, NEW v \in 0 .. Still, l < 0
      PROVE  - l \in Laterals /\ Atan(l, v) = - Atan(- l, v)
  <2>1. PICK a \in Distances, b \in Distances : l = b - a
    BY DEF Laterals
  <2>2. - l = a - b /\ l \in Int
    BY <2>1, Measured
  <2>3. - l \in Laterals
    BY <2>2 DEF Laterals
  <2>4. CASE v = 0
    BY <1>4, <2>2, <2>3, <2>4, Bounds DEF Atan, Still, RightAngle
  <2>5. CASE v # 0
    <3>1. v \in 1 .. Still
      BY <2>5, Bounds DEF Still
    <3>2. PICK m \in Laterals : m = - l
      BY <2>3
    <3>3. l = - m /\ Atan(- m, v) = - Atan(m, v)
      BY <2>2, <3>1, <3>2, AtanOdd
    <3>. QED BY <3>2, <3>3
  <2>. QED BY <2>3, <2>4, <2>5
<1>. QED BY <1>1, <1>2, <1>3, <1>4

\* Along a wall the errors of orientation add up to nothing, or to the angle of
\* the lateral error.
LEMMA AlongWall ==
  ASSUME NEW r \in Readings,
         \/ r[0] = r[1] /\ r[3] = r[2]
         \/ r[0] = r[3] /\ (r[0] = r[1] \/ r[3] = r[2])
  PROVE  /\ LateralError(r) \in Laterals /\ LateralError(r) \in Int
         /\ OrientationError(r) \in {0, Beta(LateralError(r))}
<1>1. \A k \in {0, 1, 2, 3} : r[k] \in Distances /\ r[k] \in Nat
  BY Measured, Corners
<1>2. LateralError(r) \in Laterals /\ LateralError(r) \in Int /\ LateralError(r) = r[2] - r[1]
  BY <1>1 DEF LateralError, Laterals
<1>3. CASE r[0] = r[1] /\ r[3] = r[2]
  <2>1. r[0] - r[1] = 0 /\ r[3] - r[2] = 0
    BY <1>1, <1>3
  <2>. QED BY <1>2, <2>1, Signs DEF OrientationError
<1>4. CASE r[0] = r[3] /\ r[0] = r[1]
  <2>1. r[0] - r[1] = 0 /\ r[3] - r[2] = - LateralError(r)
    BY <1>1, <1>2, <1>4
  <2>2. Beta(- LateralError(r)) = - Beta(LateralError(r)) /\ Beta(LateralError(r)) \in Int
    BY <1>2, BetaOdd
  <2>3. OrientationError(r) = Beta(LateralError(r))
    BY <2>1, <2>2, Signs DEF OrientationError
  <2>. QED BY <1>2, <2>3
<1>5. CASE r[0] = r[3] /\ r[3] = r[2]
  <2>1. r[0] - r[1] = LateralError(r) /\ r[3] - r[2] = 0
    BY <1>1, <1>2, <1>5
  <2>2. Beta(LateralError(r)) \in Int
    BY <1>2, BetaOdd
  <2>3. OrientationError(r) = Beta(LateralError(r))
    BY <2>1, <2>2, Signs DEF OrientationError
  <2>. QED BY <1>2, <2>3
<1>. QED BY <1>3, <1>4, <1>5

\* The servo follows the sign of the heading, and shows one of 12 half hundredths.
LEMMA ServoFollows ==
  ASSUME NEW g \in Int, NEW p \in Pulses(Saturated(g))
  PROVE  /\ p \in Int
         /\ g >= 0 => p >= 1500
         /\ g >= 2 * Visible => p > 1500
         /\ g <= 0 => p <= 1500
         /\ g < 0 => p < 1500
<1> DEFINE h == Saturated(g)
           q == (1500 * 2 * max_heading_delta + 500 * h) \div (2 * max_heading_delta)
<1>1. /\ h \in - 5424 .. 5424
      /\ g >= 0 => h >= 0
      /\ g >= 12 => h >= 12
      /\ g <= 0 => h <= 0
      /\ g < 0 => h < 0
  BY DEF Saturated, max_heading_delta
<1> HIDE DEF h
<1>2. q = (8136000 + 500 * h) \div 5424
  BY <1>1 DEF max_heading_delta
<1>3. /\ q \in Int
      /\ h >= 0 => q >= 1500
      /\ h >= 12 => q > 1500
      /\ h <= 0 => q <= 1500
      /\ h < 0 => q < 1500
  BY <1>1, <1>2
<1>4. h # NaN /\ p = Clamped(q)
  <2>1. h # NaN
    BY <1>1 DEF NaN, RightAngle
  <2>. QED BY <2>1 DEF Pulses, h
<1>. QED BY <1>1, <1>3, <1>4 DEF Clamped, Visible

LEMMA Steered ==
  ASSUME NEW r \in Readings, NEW v \in 0 .. Still, NEW p \in Pulses(Heading(r, v)),
         \/ r[0] = r[1] /\ r[3] = r[2]
         \/ r[0] = r[3] /\ (r[0] = r[1] \/ r[3] = r[2])
  PROVE  LET shown == v = Still \/ Real(v)
         IN  /\ LateralError(r) > 0 => p > 1500 \/ (~shown /\ p = 1500)
             /\ LateralError(r) < 0 => p < 1500 \/ (~shown /\ p = 1500)
<1> DEFINE l == LateralError(r)
           shown == v = Still \/ Real(v)
           g == OrientationError(r) + 2 * Atan(l, v)
<1>1. l \in Laterals /\ l \in Int /\ OrientationError(r) \in {0, Beta(l)}
  BY AlongWall
<1>2. Beta(l) \in Int /\ Beta(- l) = - Beta(l) /\ (l > 0 => Beta(l) >= 0)
      /\ (l < 0 => Beta(l) <= 0)
  <2>1. Beta(l) \in Int /\ Beta(- l) = - Beta(l)
    BY <1>1, BetaOdd
  <2>2. l > 0 => Beta(l) >= 0
    BY <1>1, Signs
  <2>3. l < 0 => Beta(- l) >= 0
    <3>1. - l \in Int /\ (l < 0 => - l > 0)
      BY <1>1
    <3>. QED BY <3>1, Signs
  <2>. QED BY <2>1, <2>2, <2>3
<1>3. l # 0 => p \in Pulses(Saturated(g))
  BY DEF Heading
<1>4. ASSUME l > 0 PROVE p > 1500 \/ (~shown /\ p = 1500)
  <2>1. Atan(l, v) \in Int /\ Atan(l, v) >= 0 /\ (shown => Atan(l, v) >= Visible)
    BY <1>1, <1>4, Signs
  <2>2. g \in Int /\ g >= 0 /\ (shown => g >= 2 * Visible)
    BY <1>1, <1>2, <1>4, <2>1 DEF Visible
  <2>3. p \in Pulses(Saturated(g))
    BY <1>1, <1>3, <1>4
  <2> HIDE DEF g, l, shown
  <2>4. p >= 1500 /\ (shown => p > 1500)
    BY <2>2, <2>3, ServoFollows
  <2>5. p \in Int
    BY <2>2, <2>3, ServoFollows
  <2>. QED BY <2>4, <2>5
<1>5. ASSUME l < 0 PROVE p < 1500 \/ (~shown /\ p = 1500)
  <2>1. - l \in Laterals /\ - l > 0 /\ Atan(l, v) = - Atan(- l, v)
    BY <1>1, <1>5, Signs
  <2>2. Atan(- l, v) \in Int /\ Atan(- l, v) >= 0 /\ (shown => Atan(- l, v) >= Visible)
    BY <2>1, Signs
  <2>3. g \in Int /\ g <= 0 /\ (shown => g < 0)
    BY <1>1, <1>2, <1>5, <2>1, <2>2 DEF Visible
  <2>4. p \in Pulses(Saturated(g))
    BY <1>1, <1>3, <1>5
  <2> HIDE DEF g, l, shown
  <2>5. p <= 1500 /\ (shown => p < 1500)
    BY <2>3, <2>4, ServoFollows
  <2>6. p \in Int
    BY <2>3, <2>4, ServoFollows
  <2>. QED BY <2>5, <2>6
<1>. QED BY <1>4, <1>5

LEMMA ServoInit == Init => ServoOK
  BY Bounds, Corners DEF Init, InitEncoder, ServoOK, Still, LateralError

LEMMA ServoStep == ASSUME EInv, ServoOK, [Next]_vars PROVE ServoOK'
<1>1. /\ velocity \in - Top .. Top /\ divisor \in - Top .. Still /\ Still \in Int
      /\ - Top .. Top \subseteq - Top .. Still /\ Still \in - Top .. Still
      /\ Top \in Int
  BY Bounds DEF EInv, TypeOKEncoder, ServoOK, Still
<1>2. ASSUME main # "idle"
      PROVE  sensorReadings \in Readings /\ (main = "divide" => divisor \in 1 .. Top)
  BY <1>2 DEF ServoOK
<1>3. CASE Measure
  BY <1>1, <1>3, Measured DEF Measure, Main, ServoOK
<1>4. CASE Correct
  <2>1. main = "correct" /\ main' = "test" /\ divisor' = divisor
    BY <1>4 DEF Correct, Main
  <2>2. sensorReadings' \in Readings
    BY <1>2, <1>4, <2>1, CorrectedReadings DEF Correct
  <2>. QED BY <1>1, <2>1, <2>2 DEF ServoOK
<1>5. CASE TestMoving
  <2>1. /\ main = "test" /\ main' = "divide" /\ divisor' = velocity /\ velocity > 0
        /\ sensorReadings' = sensorReadings
    BY <1>5 DEF TestMoving, Main
  <2>. QED BY <1>1, <1>2, <2>1 DEF ServoOK
<1>6. CASE TestStanding \/ DivideTested \/ DivideAgain
  <2>1. PICK v \in - Top .. Still : main # "idle" /\ main' = "idle" /\ SetServo(v)
    BY <1>1, <1>6 DEF TestStanding, DivideTested, DivideAgain, Main
  <2>. QED BY <1>2, <2>1 DEF ServoOK, SetServo
<1>7. CASE UNCHANGED steering
  BY <1>7 DEF ServoOK, steering
<1>. QED BY <1>3, <1>4, <1>5, <1>6, <1>7 DEF Next, computeNewHeading, vars

\* Along a wall the car is steered to the side that is further away, for all
\* distances and every velocity that is not negative, with the encoder's
\* interrupt anywhere in the computation.
THEOREM ToTheFurtherSide == Spec => []SteersToTheMiddle
<1>1. Init => ServoOK
  BY ServoInit
<1>2. EInv /\ ServoOK /\ [Next]_vars => ServoOK'
  BY ServoStep
<1>3. ServoOK => SteersToTheMiddle
  <2> SUFFICES ASSUME ServoOK, main = "idle", divisor >= 0,
                      LateralError(sensorReadings) # 0
               PROVE  ToTheMiddle
    BY DEF SteersToTheMiddle, ToTheMiddle
  <2>1. sensorReadings \in Readings /\ pulse \in Pulses(Heading(sensorReadings, divisor))
    BY DEF ServoOK
  <2>2. divisor \in 0 .. Still
    BY Bounds DEF ServoOK, Still
  <2>. QED BY <2>1, <2>2, Steered DEF ToTheMiddle
<1>. QED BY <1>1, <1>2, <1>3, EncoderHolds, PTL DEF Spec
=============================================================================

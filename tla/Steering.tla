------------------------------ MODULE Steering ------------------------------
(***************************************************************************)
(* The steering of the car in AUTO (control.c, setServoPWM) with the wheel *)
(* encoder.  The main loop computes a heading from the four distances and  *)
(* the velocity, which the interrupt of TIM2 may write at any time, and    *)
(* sets the servo.                                                         *)
(*                                                                         *)
(* velocity is tested (line 103) and read again as the divisor (line 104); *)
(* it is not volatile, so the build may also use the first value twice.    *)
(* Distances are in centimetres, angles in 1/100 degree; a heading is kept *)
(* doubled, so that the mean of two errors needs no rounding.  Inverse     *)
(* tangent and sine are constants.                                         *)
(*                                                                         *)
(* External: the distances ReadSensorData has measured (module SensorBar). *)
(***************************************************************************)
EXTENDS Encoder, Sequences

CONSTANTS
  Distances,        \* readings, in cm
  Places,           \* the readings that are tried together
  Asin(_),          \* asin(d / sensor_dist)
  AtanMoving(_, _), \* atan(gain * lat_err / (v / 1000)), v in ticks, not 0
  AtanStill(_)      \* atan(gain * lat_err / 2)

sensor_dist == 30
treshold == 55
max_heading_delta == 2712
RightAngle == 9000

\* Left back, left front, right front, right back.
Sensors == 0 .. 3

\* The least angle the servo shows, in whole hundredths: 2712 / 500, rounded up.
Visible == 6

\* The wheel makes MaxTurn ticks between two readings, and the handler may count
\* one more at a wrap.
Real(v) == v <= MaxTurn + 1

\* The lateral errors there can be.
Laterals == {b - a : a \in Distances, b \in Distances}

ASSUME SteeringAssumption ==
  /\ Distances \subseteq Nat
  /\ Places \subseteq [Sensors -> Distances]
  /\ \A d \in - sensor_dist .. sensor_dist :
        /\ Asin(d) \in - RightAngle .. RightAngle /\ Asin(- d) = - Asin(d)
        /\ d > 0 => Asin(d) >= 0
  /\ \A l \in Laterals :
        /\ AtanStill(l) \in - RightAngle .. RightAngle /\ AtanStill(- l) = - AtanStill(l)
        /\ l > 0 => AtanStill(l) >= Visible
  /\ \A l \in Laterals, v \in (- Top .. Top) \ {0} :
        /\ AtanMoving(l, v) \in - RightAngle .. RightAngle
        /\ AtanMoving(- l, v) = - AtanMoving(l, v)
        /\ l > 0 /\ v > 0 => AtanMoving(l, v) >= IF Real(v) THEN Visible ELSE 0

-----------------------------------------------------------------------------
VARIABLES
  main,                     \* where the main loop is
  sensorReadings,
  divisor,                  \* the velocity the heading is computed with
  pulse                     \* TIM4->CCR4, the servo

steering == <<main, sensorReadings, divisor, pulse>>
vars == <<encoder, steering>>

-----------------------------------------------------------------------------
\* What stands for no velocity to divide by, and for a heading that is not a
\* number.
Still == Top + 1
NaN == 10 * RightAngle

\* The rear reading of a side that is out of range is replaced by that of the
\* other side, the left one first, and stays so in the array.
Corrected(r) ==
  LET left == IF r[0] > treshold THEN [r EXCEPT ![0] = r[3]] ELSE r
  IN  IF left[3] > treshold THEN [left EXCEPT ![3] = left[0]] ELSE left

\* The angle to a wall, from the distances of the sensors of one side.
Beta(d) == IF d > sensor_dist THEN RightAngle
           ELSE IF d < - sensor_dist THEN - RightAngle
           ELSE Asin(d)

OrientationError(r) == Beta(r[0] - r[1]) - Beta(r[3] - r[2])

\* Mutant of LateralError: the wrong way round.
LateralErrorSwapped(r) == r[1] - r[2]

LateralError(r) == r[2] - r[1]

\* In floating point a division by 0 is infinite, unless 0 is divided.
Atan(l, v) == IF v = Still THEN AtanStill(l)
              ELSE IF v # 0 THEN AtanMoving(l, v)
              ELSE IF l > 0 THEN RightAngle ELSE - RightAngle

Saturated(h) == IF h > 2 * max_heading_delta THEN 2 * max_heading_delta
                ELSE IF h < - 2 * max_heading_delta THEN - 2 * max_heading_delta
                ELSE h

\* Mutant of Heading: both errors of orientation turn the same way.
HeadingSum(r, v) ==
  IF v = 0 /\ LateralError(r) = 0 THEN NaN
  ELSE Saturated(Beta(r[0] - r[1]) + Beta(r[3] - r[2]) + 2 * Atan(LateralError(r), v))

\* Twice delta, for corrected readings and the divisor v; no comparison holds
\* of NaN, so the saturation leaves it.
Heading(r, v) ==
  IF v = 0 /\ LateralError(r) = 0 THEN NaN
  ELSE Saturated(OrientationError(r) + 2 * Atan(LateralError(r), v))

\* The conversions to uint16_t of getPWM_from_angle, and what it and setServoPWM
\* make of it: that of NaN is undefined.
Clamped(p) == IF p < 1000 THEN 1000 ELSE IF p > 2000 THEN 2000 ELSE p

Pulses(h) ==
  IF h = NaN THEN {Clamped(p) : p \in {0, 1500, 65535}}
  ELSE {Clamped((1500 * 2 * max_heading_delta + 500 * h) \div (2 * max_heading_delta))}

-----------------------------------------------------------------------------
Init ==
  /\ InitEncoder
  /\ main = "idle"
  /\ sensorReadings = [k \in Sensors |-> 0]
  /\ divisor = Still
  /\ pulse = 1500

\* The main thread runs when no handler does.
Main(from, to) == main = from /\ main' = to /\ tim2 = "waiting" /\ UNCHANGED encoder

Measure ==
  /\ Main("idle", "correct")
  /\ sensorReadings' \in Places
  /\ divisor' = Still
  /\ UNCHANGED pulse

Correct ==
  /\ Main("correct", "test")
  /\ sensorReadings' = Corrected(sensorReadings)
  /\ UNCHANGED <<divisor, pulse>>

\* The servo is set to the heading computed with v.
SetServo(v) ==
  /\ divisor' = v
  /\ pulse' \in Pulses(Heading(sensorReadings, v))
  /\ UNCHANGED sensorReadings

TestMoving ==
  /\ velocity > 0
  /\ Main("test", "divide")
  /\ divisor' = velocity
  /\ UNCHANGED <<sensorReadings, pulse>>

TestStanding ==
  /\ velocity <= 0
  /\ Main("test", "idle")
  /\ SetServo(Still)

DivideTested == Main("divide", "idle") /\ SetServo(divisor)
DivideAgain == Main("divide", "idle") /\ SetServo(velocity)

computeNewHeading == Correct \/ TestMoving \/ TestStanding \/ DivideTested \/ DivideAgain

Next ==
  \/ (Turn \/ Handler) /\ UNCHANGED steering
  \/ Measure
  \/ computeNewHeading

Spec == Init /\ [][Next]_vars

-----------------------------------------------------------------------------
\* The same place seen from the other side of the track.
Mirror(r) == [k \in Sensors |-> r[3 - k]]

\* Left and right are treated alike, although the left reading is replaced
\* first and the right one is tested after: the heading of the mirrored place
\* is the opposite one.  Only when both rear readings are out of range the right
\* one stands for both.
Mirrored ==
  main = "test" =>
    \A r \in Places : Corrected(r) = sensorReadings =>
      LET m == Corrected(Mirror(r))
          v == IF velocity > 0 THEN velocity ELSE Still
      IN  r[0] <= treshold \/ r[3] <= treshold =>
            Heading(m, v) = - Heading(Corrected(r), v)

\* Between two walls the car is parallel to, as far as it knows of them, it is
\* steered to the side that is further away: neither a stop between the test and
\* the division (the quotient is infinite), nor a rear reading that stands for the
\* other side's turns it the other way.  A velocity that has become negative in
\* between does (AlwaysToTheMiddle does not hold); one that the wheel cannot have,
\* of a direction misread, only makes the steering too weak to show.
ToTheMiddle ==
  LET r == sensorReadings
      Parallel(j, k) == r[j] = r[k]
      shown == divisor = Still \/ Real(divisor)
  IN  \/ Parallel(0, 1) /\ Parallel(3, 2)
      \/ r[0] = r[3] /\ (Parallel(0, 1) \/ Parallel(3, 2))
      => /\ LateralError(r) > 0 => pulse > 1500 \/ (~shown /\ pulse = 1500)
         /\ LateralError(r) < 0 => pulse < 1500 \/ (~shown /\ pulse = 1500)

AlwaysToTheMiddle == main = "idle" => ToTheMiddle
SteersToTheMiddle == main = "idle" /\ divisor >= 0 => ToTheMiddle
=============================================================================

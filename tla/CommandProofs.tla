---------------------------- MODULE CommandProofs ----------------------------
(***************************************************************************)
(* Packets of any values, with their checksum, and the car for every set   *)
(* of commands and of 16-bit values.                                       *)
(*                                                                         *)
(* The checksum is reasoned about in bytes: a byte is its eight bits, the  *)
(* 16 bits of the accumulator are a pair of bytes, and crc16Add on a pair  *)
(* has a form without shifts (LowPart, HighPart) whose bits are those of   *)
(* eight steps of the division.  A difference between two messages lasts   *)
(* to the end of the division, whence Detected.                            *)
(***************************************************************************)
EXTENDS CarControl, Packet, SequenceTheorems, WellFoundedInduction, TLAPS

-----------------------------------------------------------------------------
(* The car. *)
\* Only a running car in automatic mode brakes.
BrakeOK == pc = "delay" => mode_state = "AUTO" /\ running_state = "CAR_ON"

IInv == TypeOK /\ AutoDrive /\ EchoIsTrue /\ BrakeOK

\* What a callback may leave in the pulse width registers.
LEMMA Limits ==
  /\ \A n \in Int : UInt16(n) \in Int /\ Clamp(n) \in PWM
  /\ \A n \in PWM : Clamp(n) = n
  /\ {Neutral, Cruise, Brake} \subseteq PWM
  BY DEF UInt16, Clamp, PWM, Neutral, Cruise, Brake

LEMMA Speed == \A speed \in Speeds : SpeedPWM(speed) \in PWM
  BY Limits DEF SpeedPWM, Neutral

LEMMA Width == \A n \in Int16 : n \in Int
  BY DEF Int16

LEMMA Steering == \A angle \in Angles : SteeringPWM(angle) \in PWM
<1> TAKE angle \in Angles
<1>1. angle \in Int
  BY CommandAssumption, Width
<1>2. Neutral + 4 * angle \in Int
  BY <1>1 DEF Neutral
<1>3. UInt16(Neutral + 4 * angle) \in Int
  BY <1>2, Limits
<1>. QED BY <1>3, Limits DEF SteeringPWM

LEMMA Pulses ==
  /\ Clamp(Cruise) = Cruise /\ Clamp(Brake) = Brake
  /\ Neutral \in PWM /\ Cruise \in PWM /\ Brake \in PWM
  /\ Cruise # Neutral /\ Brake # Neutral
  /\ \A pwm \in HeadingPWM : Clamp(pwm) \in PWM
  BY Limits, CommandAssumption DEF Neutral, Cruise, Brake, Clamp, PWM

LEMMA InvInit == Init => IInv
  BY Pulses, CommandAssumption
     DEF Init, IInv, TypeOK, AutoDrive, EchoIsTrue, BrakeOK, Commands

LEMMA InvStep ==
  ASSUME IInv, [Next]_vars
  PROVE  IInv'
<1> USE DEF IInv, TypeOK, AutoDrive, EchoIsTrue, BrakeOK, Dispatch, Echo, NoEcho, drive
<1>a. /\ left > 0 => left - 1 \in 0 .. Batch
      /\ Batch \in Nat
  BY CommandAssumption
<1>1. CASE ParseMessages
  BY <1>1, <1>a DEF ParseMessages
<1>2. CASE KeepAliveCallback \/ NoCallback
  BY <1>2, <1>a DEF KeepAliveCallback, NoCallback, Commands, Attached
<1>3. CASE SetModeCallback
  BY <1>3, <1>a, Pulses DEF SetModeCallback, Commands
<1>4. CASE UpdateSpeedCallback
  BY <1>4, <1>a, Speed DEF UpdateSpeedCallback, DrivenByHand, Commands
<1>5. CASE UpdateSteeringAngleCallback
  BY <1>5, <1>a, Steering
     DEF UpdateSteeringAngleCallback, UpdateSteeringAngle, DrivenByHand, Commands
<1>6. CASE StartCallback
  BY <1>6, <1>a, Pulses DEF StartCallback, Commands
<1>7. CASE StopCallbackBrake \/ StopCallbackRelease \/ StopCallbackOff
  BY <1>7, <1>a, Pulses
     DEF StopCallbackBrake, StopCallbackRelease, StopCallbackOff, Commands
<1>8. CASE GainUpdateCallback
  BY <1>8, <1>a DEF GainUpdateCallback, Commands
<1>9. CASE ConnectionTimedOutCallback
  BY <1>9, <1>a, Pulses DEF ConnectionTimedOutCallback, Commands
<1>10. CASE ParseEnd
  BY <1>10 DEF ParseEnd
<1>11. CASE Steer
  BY <1>11, <1>a, Pulses DEF Steer
<1>12. CASE UNCHANGED vars
  BY <1>12 DEF vars
<1>. QED BY <1>1, <1>2, <1>3, <1>4, <1>5, <1>6, <1>7, <1>8, <1>9, <1>10, <1>11,
            <1>12 DEF Next, Callback

LEMMA InvHolds == Spec => []IInv
  BY InvInit, InvStep, PTL DEF Spec

\* The pulse widths stay in 1000..2000 us and the rest has its type, whatever
\* 16-bit speeds and angles the phone sends.
THEOREM TypeCorrect == Spec => []TypeOK
<1>1. IInv => TypeOK
  BY DEF IInv
<1>. QED BY <1>1, InvHolds, PTL

\* In automatic mode the running state alone decides on the throttle.
THEOREM Automatic == Spec => []AutoDrive
<1>1. IInv => AutoDrive
  BY DEF IInv
<1>. QED BY <1>1, InvHolds, PTL

\* In manual mode the pulse widths are what the phone has asked for, or neutral.
LEMMA ManualStep == ASSUME ManualDrive, [Next]_vars PROVE ManualDrive'
<1> DEFINE Asked == {SpeedPWM(speed) : speed \in Speeds} \cup {Neutral}
           Angled == {SteeringPWM(angle) : angle \in Angles} \cup {Neutral}
<1>1. \A speed \in Speeds : SpeedPWM(speed) \in Asked
  OBVIOUS
<1>2. \A angle \in Angles : SteeringPWM(angle) \in Angled
  OBVIOUS
<1>3. Neutral \in Asked /\ Neutral \in Angled
  OBVIOUS
<1>4. mode_state = "MANUAL" => esc \in Asked /\ servo \in Angled
  BY DEF ManualDrive
<1> HIDE DEF Asked, Angled
<1>5. mode_state' = "MANUAL" => esc' \in Asked /\ servo' \in Angled
  <2> USE DEF drive
  <2>1. CASE SetModeCallback \/ StopCallbackRelease
    BY <2>1, <1>3 DEF SetModeCallback, StopCallbackRelease
  <2>2. CASE UpdateSpeedCallback
    BY <2>2, <1>1, <1>4 DEF UpdateSpeedCallback
  <2>3. CASE UpdateSteeringAngleCallback
    BY <2>3, <1>2, <1>4 DEF UpdateSteeringAngleCallback, UpdateSteeringAngle
  <2>4. CASE StartCallback \/ StopCallbackBrake \/ Steer
    BY <2>4, <1>4 DEF StartCallback, StopCallbackBrake, Steer
  <2>5. CASE ConnectionTimedOutCallback
    BY <2>5, <1>3, <1>4 DEF ConnectionTimedOutCallback
  <2>6. CASE \/ ParseMessages \/ KeepAliveCallback \/ StopCallbackOff
             \/ GainUpdateCallback \/ NoCallback \/ ParseEnd \/ UNCHANGED vars
    BY <2>6, <1>4 DEF ParseMessages, KeepAliveCallback, StopCallbackOff,
       GainUpdateCallback, NoCallback, ParseEnd, vars
  <2>. QED BY <2>1, <2>2, <2>3, <2>4, <2>5, <2>6 DEF Next, Callback
<1>. QED BY <1>5 DEF ManualDrive, Asked, Angled

\* Neither the speed, the brake nor the heading of the automatic mode is left when
\* the car is driven by hand.
THEOREM ByHand == Spec => []ManualDrive
<1>1. Init => ManualDrive
  BY DEF Init, ManualDrive
<1>2. ManualDrive /\ [Next]_vars => ManualDrive'
  BY ManualStep
<1>. QED BY <1>1, <1>2, PTL DEF Spec

\* An echo tells the truth until the next command is handled.
THEOREM TrueEcho == Spec => []EchoIsTrue
<1>1. IInv => EchoIsTrue
  BY DEF IInv
<1>. QED BY <1>1, InvHolds, PTL

\* No step gives the motor a throttle while the car is not in running state.
THEOREM Throttle == Spec => ThrottleNeedsStart
<1>1. ASSUME IInv, [Next]_vars
      PROVE  [esc' # esc /\ esc' # Neutral => running_state' = "CAR_ON"]_vars
  <2> SUFFICES ASSUME esc' # esc, esc' # Neutral
               PROVE  running_state' = "CAR_ON"
    OBVIOUS
  <2> USE DEF drive
  <2>1. CASE UpdateSpeedCallback
    BY <2>1, <1>1 DEF UpdateSpeedCallback, DrivenByHand
  <2>2. CASE StartCallback
    BY <2>2 DEF StartCallback
  <2>3. CASE StopCallbackBrake
    BY <2>3 DEF StopCallbackBrake
  <2>4. CASE SetModeCallback \/ StopCallbackRelease \/ ConnectionTimedOutCallback
    BY <2>4 DEF SetModeCallback, StopCallbackRelease, ConnectionTimedOutCallback
  <2>5. CASE \/ ParseMessages \/ KeepAliveCallback \/ UpdateSteeringAngleCallback
             \/ StopCallbackOff \/ GainUpdateCallback \/ NoCallback \/ ParseEnd
             \/ Steer \/ UNCHANGED vars
    BY <2>5 DEF ParseMessages, KeepAliveCallback, UpdateSteeringAngleCallback,
       UpdateSteeringAngle, StopCallbackOff, GainUpdateCallback, NoCallback,
       ParseEnd, Steer, vars
  <2>. QED BY <1>1, <2>1, <2>2, <2>3, <2>4, <2>5 DEF Next, Callback
<1>2. IInv /\ [Next]_vars
      => [esc' # esc /\ esc' # Neutral => running_state' = "CAR_ON"]_vars
  BY <1>1
<1>. QED BY <1>2, InvHolds, PTL DEF Spec, ThrottleNeedsStart

-----------------------------------------------------------------------------
(* Bytes and their bits: ^ bit by bit, and pairs of bytes.                 *)

Byte == 0 .. 255
Weights == {1, 2, 4, 8, 16, 32, 64, 128}

\* The digits of a binary number.
LEMMA Binary ==
  ASSUME NEW x0 \in 0 .. 1, NEW x1 \in 0 .. 1, NEW x2 \in 0 .. 1, NEW x3 \in 0 .. 1,
         NEW x4 \in 0 .. 1, NEW x5 \in 0 .. 1, NEW x6 \in 0 .. 1, NEW x7 \in 0 .. 1,
         NEW n, n = x0 + 2 * x1 + 4 * x2 + 8 * x3 + 16 * x4 + 32 * x5 + 64 * x6 + 128 * x7
  PROVE  /\ n \in Byte
         /\ n % 2 = x0 /\ (n \div 2) % 2 = x1 /\ (n \div 4) % 2 = x2 /\ (n \div 8) % 2 = x3
         /\ (n \div 16) % 2 = x4 /\ (n \div 32) % 2 = x5 /\ (n \div 64) % 2 = x6
         /\ (n \div 128) % 2 = x7
<1>1. n \in Byte
  BY DEF Byte
<1>2. n % 2 = x0 /\ (n \div 2) % 2 = x1 /\ (n \div 4) % 2 = x2 /\ (n \div 8) % 2 = x3
  OBVIOUS
<1>3. (n \div 16) % 2 = x4 /\ (n \div 32) % 2 = x5 /\ (n \div 64) % 2 = x6
         /\ (n \div 128) % 2 = x7
  OBVIOUS
<1>. QED BY <1>1, <1>2, <1>3

\* A byte is the sum of its binary digits.
LEMMA Digits ==
  ASSUME NEW n \in Byte
  PROVE  n = (n % 2) + 2 * ((n \div 2) % 2) + 4 * ((n \div 4) % 2) + 8 * ((n \div 8) % 2)
             + 16 * ((n \div 16) % 2) + 32 * ((n \div 32) % 2) + 64 * ((n \div 64) % 2)
             + 128 * ((n \div 128) % 2)
  BY SMTT(40) DEF Byte

\* The digit of weight w, and Bit.
LEMMA BitIs ==
  ASSUME NEW n \in Nat, NEW w \in Weights
  PROVE  (n \div w) % 2 = IF Bit(n, w) THEN 1 ELSE 0
  BY DEF Bit, Weights

\* A byte is its bits.
LEMMA SameByte ==
  ASSUME NEW a \in Byte, NEW b \in Byte, \A w \in Weights : Bit(a, w) <=> Bit(b, w)
  PROVE  a = b
<1>1. \A w \in Weights : (a \div w) % 2 = (b \div w) % 2
  BY BitIs DEF Byte
<1>2. a % 2 = b % 2
  <2>1. a \div 1 = a /\ b \div 1 = b
    BY DEF Byte
  <2>. QED BY <1>1, <2>1 DEF Weights
<1>3. /\ (a \div 2) % 2 = (b \div 2) % 2 /\ (a \div 4) % 2 = (b \div 4) % 2
      /\ (a \div 8) % 2 = (b \div 8) % 2 /\ (a \div 16) % 2 = (b \div 16) % 2
      /\ (a \div 32) % 2 = (b \div 32) % 2 /\ (a \div 64) % 2 = (b \div 64) % 2
      /\ (a \div 128) % 2 = (b \div 128) % 2
  BY <1>1 DEF Weights
<1>. QED BY <1>2, <1>3, Digits

\* The bits of a ^ b.
LEMMA XorBits ==
  ASSUME NEW a \in Nat, NEW b \in Nat
  PROVE  /\ XorByte(a, b) \in Byte
         /\ \A w \in Weights : Bit(XorByte(a, b), w) <=> ~(Bit(a, w) <=> Bit(b, w))
<1> DEFINE d(w) == IF Bit(a, w) = Bit(b, w) THEN 0 ELSE 1
<1>1. XorByte(a, b) = d(1) + 2 * d(2) + 4 * d(4) + 8 * d(8) + 16 * d(16) + 32 * d(32)
                        + 64 * d(64) + 128 * d(128)
  BY DEF XorByte
<1>2. \A w \in Weights : d(w) \in 0 .. 1
  OBVIOUS
<1>3. d(1) \in 0 .. 1 /\ d(2) \in 0 .. 1 /\ d(4) \in 0 .. 1 /\ d(8) \in 0 .. 1
      /\ d(16) \in 0 .. 1 /\ d(32) \in 0 .. 1 /\ d(64) \in 0 .. 1 /\ d(128) \in 0 .. 1
  OBVIOUS
<1> DEFINE n == XorByte(a, b)
<1> HIDE DEF n
<1>4. n = XorByte(a, b)
  BY DEF n
<1>5. \A w \in Weights : Bit(a, w) = Bit(b, w) <=> d(w) = 0
  OBVIOUS
<1> HIDE DEF d
<1>6. /\ n \in Byte
      /\ n % 2 = d(1) /\ (n \div 2) % 2 = d(2) /\ (n \div 4) % 2 = d(4)
      /\ (n \div 8) % 2 = d(8) /\ (n \div 16) % 2 = d(16) /\ (n \div 32) % 2 = d(32)
      /\ (n \div 64) % 2 = d(64) /\ (n \div 128) % 2 = d(128)
  BY <1>1, <1>3, <1>4, Binary
<1>7. n \div 1 = n
  BY <1>6 DEF Byte
<1>8. \A w \in Weights : (n \div w) % 2 = d(w)
  BY <1>6, <1>7 DEF Weights
<1>9. \A w \in Weights : Bit(n, w) <=> ~(Bit(a, w) <=> Bit(b, w))
  BY <1>2, <1>5, <1>8 DEF Bit
<1>. QED BY <1>4, <1>6, <1>9

\* No bits but those of the low byte count.
LEMMA LowBits ==
  ASSUME NEW h \in Byte, NEW l \in Byte, NEW w \in Weights
  PROVE  Bit(256 * h + l, w) <=> Bit(l, w)
  BY DEF Byte, Weights, Bit

\* Half a byte is a byte.
LEMMA Bytes == \A n \in Byte : n \in Nat /\ n \div 16 \in Byte /\ 0 \in Byte
  BY DEF Byte

\* ^ of bytes is a byte.
LEMMA XorIn == ASSUME NEW a \in Byte, NEW b \in Byte PROVE XorByte(a, b) \in Byte
  BY XorBits, Bytes

\* Zero changes nothing.
LEMMA XorZero == ASSUME NEW a \in Byte PROVE XorByte(a, 0) = a
<1>1. \A w \in Weights : ~Bit(0, w)
  BY DEF Weights, Bit
<1>2. XorByte(a, 0) \in Byte /\ \A w \in Weights : Bit(XorByte(a, 0), w) <=> Bit(a, w)
  <2>1. a \in Nat /\ 0 \in Nat
    BY Bytes
  <2>2. XorByte(a, 0) \in Byte /\ \A w \in Weights : Bit(XorByte(a, 0), w) <=> ~(Bit(a, w) <=> Bit(0, w))
    BY <2>1, XorBits
  <2>. QED BY <1>1, <2>2
<1>. QED BY <1>2, SameByte

Pair(h, l) == 256 * h + l

\* Byte without the interval, which some backends do not unfold.
LEMMA ByteIs == \A h : h \in Byte <=> h \in Int /\ 0 <= h /\ h <= 255
  BY DEF Byte

\* Division of a pair of bytes by 256.
LEMMA Quotients ==
  /\ \A h, l \in Int : 0 <= l /\ l <= 255 => (256 * h + l) % 256 = l
  /\ \A h, l \in Int : 0 <= l /\ l <= 255 => (256 * h + l) \div 256 = h
<1>1. \A h, l \in Int : 0 <= l /\ l <= 255 => (256 * h + l) % 256 = l
  OBVIOUS
<1>2. \A h, l \in Int : 0 <= l /\ l <= 255 => (256 * h + l) \div 256 = h
  OBVIOUS
<1>. QED BY <1>1, <1>2

\* Two bytes make 16 bits, and can be had from them.
LEMMA Pairs ==
  ASSUME NEW h \in Byte, NEW l \in Byte
  PROVE  /\ Pair(h, l) \in Nat /\ Pair(h, l) < 65536
         /\ HighByte(Pair(h, l)) = h /\ LowByte(Pair(h, l)) = l
<1>1. h \in Int /\ l \in Int /\ 0 <= h /\ h <= 255 /\ 0 <= l /\ l <= 255
  BY ByteIs
<1>2. 256 * h + l \in Nat /\ 256 * h + l < 65536
  BY ONLY <1>1
<1>3. (256 * h + l) \div 256 = h
  BY ONLY <1>1, Quotients
<1>4. (256 * h + l) % 256 = l
  BY ONLY <1>1, Quotients
<1>5. Pair(h, l) = 256 * h + l
  BY DEF Pair
<1>6. HighByte(Pair(h, l)) = h
  BY ONLY <1>3, <1>5 DEF HighByte
<1>7. LowByte(Pair(h, l)) = l
  BY ONLY <1>4, <1>5 DEF LowByte
<1>. QED BY ONLY <1>2, <1>5, <1>6, <1>7

\* All 16 bits are a pair of bytes.
LEMMA IsPair ==
  ASSUME NEW c \in Nat, c < 65536
  PROVE  HighByte(c) \in Byte /\ LowByte(c) \in Byte /\ c = Pair(HighByte(c), LowByte(c))
<1> DEFINE q == c \div 256
           r == c % 256
<1>1. q \in Int /\ r \in Int /\ 0 <= r /\ r <= 255 /\ 0 <= q
  OBVIOUS
<1>2. q = c \div 256 /\ r = c % 256
  OBVIOUS
<1> HIDE DEF q, r
<1>3. c = 256 * q + r
  BY ONLY c \in Nat, <1>1, <1>2
<1>4. q <= 255
  BY ONLY c \in Nat, c < 65536, <1>1, <1>3
<1>5. q \in Byte /\ r \in Byte
  BY ONLY <1>1, <1>4, ByteIs
<1>6. HighByte(c) = q /\ LowByte(c) = r
  BY ONLY <1>2 DEF HighByte, LowByte
<1>. QED BY ONLY <1>3, <1>5, <1>6 DEF Pair

\* ^ works on the bytes.
LEMMA XorPairs ==
  ASSUME NEW h \in Byte, NEW l \in Byte, NEW g \in Byte, NEW k \in Byte
  PROVE  Xor(Pair(h, l), Pair(g, k)) = Pair(XorByte(h, g), XorByte(l, k))
<1> DEFINE a == Pair(h, l)
           b == Pair(g, k)
<1>1. a \in Nat /\ b \in Nat /\ HighByte(a) = h /\ HighByte(b) = g
  BY Pairs
<1>2. \A w \in Weights : (Bit(a, w) <=> Bit(l, w)) /\ (Bit(b, w) <=> Bit(k, w))
  BY LowBits DEF Pair
<1> HIDE DEF a, b
<1>3. XorByte(a, b) = XorByte(l, k)
  <2>1. XorByte(a, b) \in Byte /\ XorByte(l, k) \in Byte
    BY <1>1, XorBits, XorIn
  <2>2. \A w \in Weights : Bit(XorByte(a, b), w) <=> Bit(XorByte(l, k), w)
    BY <1>1, <1>2, XorBits, Bytes
  <2>. QED BY <2>1, <2>2, SameByte
<1>4. Xor(a, b) = Pair(XorByte(h, g), XorByte(l, k))
  <2>1. XorByte(l, k) \in Byte /\ XorByte(h, g) \in Byte
    BY XorIn
  <2>2. Xor(a, b) = XorByte(a, b) + 256 * XorByte(HighByte(a), HighByte(b))
    BY DEF Xor
  <2>3. Xor(a, b) = XorByte(l, k) + 256 * XorByte(h, g)
    BY ONLY <1>1, <1>3, <2>2
  <2>4. XorByte(l, k) \in Int /\ XorByte(h, g) \in Int
    BY ONLY <2>1, ByteIs
  <2>5. \A m, n \in Int : m + 256 * n = Pair(n, m)
    BY DEF Pair
  <2>. QED BY ONLY <2>3, <2>4, <2>5
<1>. QED BY <1>4 DEF a, b

-----------------------------------------------------------------------------
(* crc16Add in bytes.                                                      *)

Folded(t) == XorByte(t, t \div 16)
LowPart(t) == XorByte(Folded(t), 32 * (Folded(t) % 8))
HighPart(l, t) == XorByte(XorByte(l, 16 * (Folded(t) % 16)), Folded(t) \div 8)

\* crc16Add on the two bytes of the accumulator: no bit of a byte is lost.
LEMMA AddIs ==
  ASSUME NEW b \in Byte, NEW h \in Byte, NEW l \in Byte
  PROVE  LET t == XorByte(h, b)
         IN  /\ t \in Byte /\ Folded(t) \in Byte
             /\ LowPart(t) \in Byte /\ HighPart(l, t) \in Byte
             /\ crc16Add(b, Pair(h, l)) = Pair(HighPart(l, t), LowPart(t))
<1> DEFINE t == XorByte(h, b)
           u == XorByte(t, t \div 16)
           v == XorByte(l, 16 * (u % 16))
<1>1. t \in Byte
  BY XorIn
<1>2. t \div 16 \in Byte /\ 0 \in Byte
  BY <1>1, Bytes
<1>3. u \in Byte
  BY <1>1, <1>2, XorIn
<1>4. 16 * (u % 16) \in Byte /\ u \div 8 \in Byte /\ 32 * (u % 8) \in Byte
  BY <1>3 DEF Byte
<1>5. v \in Byte
  BY <1>4, XorIn
<1>6. XorByte(v, u \div 8) \in Byte /\ XorByte(u, 32 * (u % 8)) \in Byte
  BY <1>3, <1>4, <1>5, XorIn
<1>a. t = XorByte(h, b) /\ u = XorByte(t, t \div 16) /\ v = XorByte(l, 16 * (u % 16))
  OBVIOUS
<1> HIDE DEF t, u, v
<1>7. Xor(Swapped(Pair(h, l)), b) = Pair(l, t)
  <2>1. Swapped(Pair(h, l)) = Pair(l, h)
    <3>1. HighByte(Pair(h, l)) = h /\ LowByte(Pair(h, l)) = l
      BY Pairs
    <3>. QED BY <3>1 DEF Swapped, Pair, Byte
  <2>2. b = Pair(0, b)
    BY DEF Pair, Byte
  <2>3. Xor(Pair(l, h), Pair(0, b)) = Pair(XorByte(l, 0), t)
    BY <1>2, <1>a, XorPairs
  <2>. QED BY <2>1, <2>2, <2>3, XorZero
<1>8. Xor(Pair(l, t), LowByte(Pair(l, t)) \div 16) = Pair(l, u)
  <2>1. LowByte(Pair(l, t)) = t
    BY <1>1, Pairs
  <2>2. t \div 16 = Pair(0, t \div 16)
    BY <1>2 DEF Pair, Byte
  <2>3. Xor(Pair(l, t), Pair(0, t \div 16)) = Pair(XorByte(l, 0), u)
    BY <1>1, <1>2, <1>a, XorPairs
  <2>. QED BY <2>1, <2>2, <2>3, XorZero
<1>9. Xor(Pair(l, u), Short(Pair(l, u) * 4096)) = Pair(v, u)
  <2>1. Short(Pair(l, u) * 4096) = Pair(16 * (u % 16), 0)
    BY <1>3 DEF Short, Pair, Byte
  <2>2. Xor(Pair(l, u), Pair(16 * (u % 16), 0)) = Pair(v, XorByte(u, 0))
    BY <1>2, <1>3, <1>4, <1>a, XorPairs
  <2>. QED BY <1>3, <2>1, <2>2, XorZero
<1>10. Xor(Pair(v, u), Short(LowByte(Pair(v, u)) * 32))
         = Pair(XorByte(v, u \div 8), XorByte(u, 32 * (u % 8)))
  <2>1. LowByte(Pair(v, u)) = u
    BY <1>3, <1>5, Pairs
  <2>2. Short(u * 32) = Pair(u \div 8, 32 * (u % 8))
    BY <1>3 DEF Short, Pair, Byte
  <2>. QED BY <1>3, <1>4, <1>5, <2>1, <2>2, XorPairs
<1>11. crc16Add(b, Pair(h, l)) = Pair(XorByte(v, u \div 8), XorByte(u, 32 * (u % 8)))
  BY <1>7, <1>8, <1>9, <1>10 DEF crc16Add, u
<1>12. Folded(t) = u /\ LowPart(t) = XorByte(u, 32 * (u % 8)) /\ HighPart(l, t) = XorByte(v, u \div 8)
  BY ONLY <1>a DEF Folded, LowPart, HighPart
<1>13. /\ t \in Byte /\ Folded(t) \in Byte /\ LowPart(t) \in Byte /\ HighPart(l, t) \in Byte
       /\ crc16Add(b, Pair(h, l)) = Pair(HighPart(l, t), LowPart(t))
  BY ONLY <1>1, <1>3, <1>6, <1>11, <1>12
<1>. QED BY ONLY <1>13, <1>a

\* Shifts, bit by bit.
LEMMA Shifts ==
  ASSUME NEW x \in Byte
  PROVE  /\ x \div 16 \in Byte /\ x \div 8 \in Byte /\ 16 * (x % 16) \in Byte /\ 32 * (x % 8) \in Byte
         /\ Bit(x \div 16, 1) <=> Bit(x, 16)
         /\ Bit(x \div 16, 2) <=> Bit(x, 32)
         /\ Bit(x \div 16, 4) <=> Bit(x, 64)
         /\ Bit(x \div 16, 8) <=> Bit(x, 128)
         /\ \A w \in {16, 32, 64, 128} : ~Bit(x \div 16, w)
         /\ Bit(x \div 8, 1) <=> Bit(x, 8)
         /\ Bit(x \div 8, 2) <=> Bit(x, 16)
         /\ Bit(x \div 8, 4) <=> Bit(x, 32)
         /\ Bit(x \div 8, 8) <=> Bit(x, 64)
         /\ Bit(x \div 8, 16) <=> Bit(x, 128)
         /\ \A w \in {32, 64, 128} : ~Bit(x \div 8, w)
         /\ Bit(16 * (x % 16), 16) <=> Bit(x, 1)
         /\ Bit(16 * (x % 16), 32) <=> Bit(x, 2)
         /\ Bit(16 * (x % 16), 64) <=> Bit(x, 4)
         /\ Bit(16 * (x % 16), 128) <=> Bit(x, 8)
         /\ \A w \in {1, 2, 4, 8} : ~Bit(16 * (x % 16), w)
         /\ Bit(32 * (x % 8), 32) <=> Bit(x, 1)
         /\ Bit(32 * (x % 8), 64) <=> Bit(x, 2)
         /\ Bit(32 * (x % 8), 128) <=> Bit(x, 4)
         /\ \A w \in {1, 2, 4, 8, 16} : ~Bit(32 * (x % 8), w)
<1>1. x \in Int /\ 0 <= x /\ x <= 255
  BY ByteIs
<1>2. /\ x \div 16 \in Byte /\ x \div 8 \in Byte /\ 16 * (x % 16) \in Byte /\ 32 * (x % 8) \in Byte
  BY ONLY <1>1, ByteIs
<1>3. /\ Bit(x \div 16, 1) <=> Bit(x, 16)
      /\ Bit(x \div 16, 2) <=> Bit(x, 32)
      /\ Bit(x \div 16, 4) <=> Bit(x, 64)
      /\ Bit(x \div 16, 8) <=> Bit(x, 128)
  BY ONLY <1>1 DEF Bit
<1>4. \A w \in {16, 32, 64, 128} : ~Bit(x \div 16, w)
  BY ONLY <1>1 DEF Bit
<1>5. /\ Bit(x \div 8, 1) <=> Bit(x, 8)
      /\ Bit(x \div 8, 2) <=> Bit(x, 16)
      /\ Bit(x \div 8, 4) <=> Bit(x, 32)
      /\ Bit(x \div 8, 8) <=> Bit(x, 64)
      /\ Bit(x \div 8, 16) <=> Bit(x, 128)
  BY ONLY <1>1 DEF Bit
<1>6. \A w \in {32, 64, 128} : ~Bit(x \div 8, w)
  BY ONLY <1>1 DEF Bit
<1>7. /\ Bit(16 * (x % 16), 16) <=> Bit(x, 1)
      /\ Bit(16 * (x % 16), 32) <=> Bit(x, 2)
      /\ Bit(16 * (x % 16), 64) <=> Bit(x, 4)
      /\ Bit(16 * (x % 16), 128) <=> Bit(x, 8)
  BY ONLY <1>1 DEF Bit
<1>8. \A w \in {1, 2, 4, 8} : ~Bit(16 * (x % 16), w)
  BY ONLY <1>1 DEF Bit
<1>9. /\ Bit(32 * (x % 8), 32) <=> Bit(x, 1)
      /\ Bit(32 * (x % 8), 64) <=> Bit(x, 2)
      /\ Bit(32 * (x % 8), 128) <=> Bit(x, 4)
  BY ONLY <1>1 DEF Bit
<1>10. \A w \in {1, 2, 4, 8, 16} : ~Bit(32 * (x % 8), w)
  BY ONLY <1>1 DEF Bit
<1>. QED BY ONLY <1>2, <1>3, <1>4, <1>5, <1>6, <1>7, <1>8, <1>9, <1>10

\* The bits of ^.
LEMMA XorByteBits ==
  ASSUME NEW a \in Byte, NEW b \in Byte
  PROVE  /\ XorByte(a, b) \in Byte
         /\ \A w \in Weights : Bit(XorByte(a, b), w) <=> ~(Bit(a, w) <=> Bit(b, w))
  BY XorBits, Bytes

\* Which bits of t decide a bit of Folded(t), and of the two bytes of crc16Add.
LEMMA FoldedBits ==
  ASSUME NEW t \in Byte
  PROVE  /\ Folded(t) \in Byte
         /\ Bit(Folded(t), 1) <=> ~(Bit(t, 1) <=> Bit(t, 16))
         /\ Bit(Folded(t), 2) <=> ~(Bit(t, 2) <=> Bit(t, 32))
         /\ Bit(Folded(t), 4) <=> ~(Bit(t, 4) <=> Bit(t, 64))
         /\ Bit(Folded(t), 8) <=> ~(Bit(t, 8) <=> Bit(t, 128))
         /\ \A w \in {16, 32, 64, 128} : Bit(Folded(t), w) <=> Bit(t, w)
<1> DEFINE s == t \div 16
<1>1. s \in Byte /\ Folded(t) = XorByte(t, s)
  BY Shifts DEF Folded
<1>2. /\ Folded(t) \in Byte
      /\ \A w \in Weights : Bit(Folded(t), w) <=> ~(Bit(t, w) <=> Bit(s, w))
  BY ONLY <1>1, t \in Byte, XorByteBits
<1>3. /\ Bit(s, 1) <=> Bit(t, 16)
      /\ Bit(s, 2) <=> Bit(t, 32)
      /\ Bit(s, 4) <=> Bit(t, 64)
      /\ Bit(s, 8) <=> Bit(t, 128)
      /\ \A w \in {16, 32, 64, 128} : ~Bit(s, w)
  BY Shifts
<1> HIDE DEF s
<1>. QED BY ONLY <1>2, <1>3 DEF Weights

\* The bits of the new low byte.
LEMMA LowPartBits ==
  ASSUME NEW t \in Byte
  PROVE  LET f == Folded(t)
             r == LowPart(t)
         IN  /\ r \in Byte
             /\ \A w \in {1, 2, 4, 8, 16} : Bit(r, w) <=> Bit(f, w)
             /\ Bit(r, 32) <=> ~(Bit(f, 32) <=> Bit(f, 1))
             /\ Bit(r, 64) <=> ~(Bit(f, 64) <=> Bit(f, 2))
             /\ Bit(r, 128) <=> ~(Bit(f, 128) <=> Bit(f, 4))
<1> DEFINE f == Folded(t)
           r == LowPart(t)
           s == 32 * (f % 8)
<1>1. f \in Byte
  BY FoldedBits
<1>2. s \in Byte /\ r = XorByte(f, s)
  BY <1>1, Shifts DEF LowPart
<1>3. /\ Bit(s, 32) <=> Bit(f, 1)
      /\ Bit(s, 64) <=> Bit(f, 2)
      /\ Bit(s, 128) <=> Bit(f, 4)
      /\ \A w \in {1, 2, 4, 8, 16} : ~Bit(s, w)
  BY <1>1, Shifts
<1> HIDE DEF s, r, f
<1>4. r \in Byte /\ \A w \in Weights : Bit(r, w) <=> ~(Bit(f, w) <=> Bit(s, w))
  BY ONLY <1>1, <1>2, XorByteBits
<1>5. /\ r \in Byte
      /\ \A w \in {1, 2, 4, 8, 16} : Bit(r, w) <=> Bit(f, w)
      /\ Bit(r, 32) <=> ~(Bit(f, 32) <=> Bit(f, 1))
      /\ Bit(r, 64) <=> ~(Bit(f, 64) <=> Bit(f, 2))
      /\ Bit(r, 128) <=> ~(Bit(f, 128) <=> Bit(f, 4))
  BY ONLY <1>3, <1>4 DEF Weights
<1>. QED BY <1>5 DEF f, r

\* The bits of the new high byte.
LEMMA HighPartBits ==
  ASSUME NEW t \in Byte, NEW l \in Byte
  PROVE  LET f == Folded(t)
             r == HighPart(l, t)
         IN  /\ r \in Byte
             /\ Bit(r, 1) <=> ~(Bit(l, 1) <=> Bit(f, 8))
             /\ Bit(r, 2) <=> ~(Bit(l, 2) <=> Bit(f, 16))
             /\ Bit(r, 4) <=> ~(Bit(l, 4) <=> Bit(f, 32))
             /\ Bit(r, 8) <=> ~(Bit(l, 8) <=> Bit(f, 64))
             /\ Bit(r, 16) <=> ~(Bit(l, 16) <=> ~(Bit(f, 1) <=> Bit(f, 128)))
             /\ Bit(r, 32) <=> ~(Bit(l, 32) <=> Bit(f, 2))
             /\ Bit(r, 64) <=> ~(Bit(l, 64) <=> Bit(f, 4))
             /\ Bit(r, 128) <=> ~(Bit(l, 128) <=> Bit(f, 8))
<1> DEFINE f == Folded(t)
           r == HighPart(l, t)
           s == 16 * (f % 16)
           q == f \div 8
           m == XorByte(l, s)
<1>1. f \in Byte
  BY FoldedBits
<1>2. s \in Byte /\ q \in Byte /\ r = XorByte(m, q) /\ m = XorByte(l, s)
  BY <1>1, Shifts DEF HighPart
<1>3. /\ Bit(s, 16) <=> Bit(f, 1)
      /\ Bit(s, 32) <=> Bit(f, 2)
      /\ Bit(s, 64) <=> Bit(f, 4)
      /\ Bit(s, 128) <=> Bit(f, 8)
      /\ \A w \in {1, 2, 4, 8} : ~Bit(s, w)
  BY <1>1, Shifts
<1>4. /\ Bit(q, 1) <=> Bit(f, 8)
      /\ Bit(q, 2) <=> Bit(f, 16)
      /\ Bit(q, 4) <=> Bit(f, 32)
      /\ Bit(q, 8) <=> Bit(f, 64)
      /\ Bit(q, 16) <=> Bit(f, 128)
      /\ \A w \in {32, 64, 128} : ~Bit(q, w)
  BY <1>1, Shifts
<1> HIDE DEF s, r, f, q, m
<1>5. m \in Byte /\ \A w \in Weights : Bit(m, w) <=> ~(Bit(l, w) <=> Bit(s, w))
  BY ONLY l \in Byte, <1>2, XorByteBits
<1>6. r \in Byte /\ \A w \in Weights : Bit(r, w) <=> ~(Bit(m, w) <=> Bit(q, w))
  BY ONLY <1>2, <1>5, XorByteBits
<1>7. /\ r \in Byte
      /\ Bit(r, 1) <=> ~(Bit(l, 1) <=> Bit(f, 8))
      /\ Bit(r, 2) <=> ~(Bit(l, 2) <=> Bit(f, 16))
      /\ Bit(r, 4) <=> ~(Bit(l, 4) <=> Bit(f, 32))
      /\ Bit(r, 8) <=> ~(Bit(l, 8) <=> Bit(f, 64))
      /\ Bit(r, 16) <=> ~(Bit(l, 16) <=> ~(Bit(f, 1) <=> Bit(f, 128)))
      /\ Bit(r, 32) <=> ~(Bit(l, 32) <=> Bit(f, 2))
      /\ Bit(r, 64) <=> ~(Bit(l, 64) <=> Bit(f, 4))
      /\ Bit(r, 128) <=> ~(Bit(l, 128) <=> Bit(f, 8))
  BY ONLY <1>3, <1>4, <1>5, <1>6 DEF Weights
<1>. QED BY <1>7 DEF f, r

SameBits(a, b) ==
  /\ Bit(a, 1) <=> Bit(b, 1)
  /\ Bit(a, 2) <=> Bit(b, 2)
  /\ Bit(a, 4) <=> Bit(b, 4)
  /\ Bit(a, 8) <=> Bit(b, 8)
  /\ Bit(a, 16) <=> Bit(b, 16)
  /\ Bit(a, 32) <=> Bit(b, 32)
  /\ Bit(a, 64) <=> Bit(b, 64)
  /\ Bit(a, 128) <=> Bit(b, 128)

\* Bytes with the same bits are the same.
LEMMA SameBitsSame ==
  ASSUME NEW a \in Byte, NEW b \in Byte
  PROVE  a = b <=> SameBits(a, b)
  BY SameByte DEF SameBits, Weights

\* The low byte of a step tells t.
LEMMA LowPartTells ==
  ASSUME NEW t \in Byte, NEW s \in Byte, LowPart(t) = LowPart(s)
  PROVE  t = s
<1> DEFINE f == Folded(t)
           g == Folded(s)
<1>1. SameBits(f, g)
  <2>1. LowPart(t) \in Byte
    BY LowPartBits
  <2>2. SameBits(LowPart(t), LowPart(s))
    BY <2>1, SameBitsSame
  <2> HIDE DEF f, g
  <2>3. \A w \in {1, 2, 4, 8, 16} : Bit(f, w) <=> Bit(g, w)
    BY <2>2, LowPartBits DEF SameBits, f, g
  <2>4. \A w \in {32, 64, 128} : Bit(f, w) <=> Bit(g, w)
    BY <2>2, <2>3, LowPartBits DEF SameBits, f, g
  <2>. QED BY <2>3, <2>4 DEF SameBits
<1>2. SameBits(t, s)
  BY <1>1, FoldedBits DEF SameBits
<1>. QED BY <1>2, SameBitsSame

\* The high byte tells the low byte before, once t is known.
LEMMA HighPartTells ==
  ASSUME NEW t \in Byte, NEW l \in Byte, NEW k \in Byte, HighPart(l, t) = HighPart(k, t)
  PROVE  l = k
<1>1. SameBits(HighPart(l, t), HighPart(k, t))
  BY DEF SameBits
<1>2. SameBits(l, k)
  BY <1>1, HighPartBits DEF SameBits
<1>. QED BY <1>2, SameBitsSame

\* ^ with a byte loses nothing.
LEMMA XorTells ==
  ASSUME NEW a \in Byte, NEW b \in Byte, NEW c \in Byte
  PROVE  /\ XorByte(a, c) = XorByte(b, c) => a = b
         /\ XorByte(c, a) = XorByte(c, b) => a = b
<1>1. ASSUME XorByte(a, c) = XorByte(b, c) PROVE a = b
  <2>1. SameBits(XorByte(a, c), XorByte(b, c))
    BY <1>1 DEF SameBits
  <2>2. SameBits(a, b)
    BY <2>1, XorByteBits DEF SameBits, Weights
  <2>. QED BY <2>2, SameBitsSame
<1>2. ASSUME XorByte(c, a) = XorByte(c, b) PROVE a = b
  <2>1. SameBits(XorByte(c, a), XorByte(c, b))
    BY <1>2 DEF SameBits
  <2>2. SameBits(a, b)
    BY <2>1, XorByteBits DEF SameBits, Weights
  <2>. QED BY <2>2, SameBitsSame
<1>. QED BY <1>1, <1>2

\* Two inputs that give the same high byte are the same, or are the one pair of
\* bytes apart that the line can change unnoticed.
LEMMA HighPartAlmostTells ==
  ASSUME NEW t \in Byte, NEW s \in Byte, NEW l \in Byte, HighPart(l, t) = HighPart(l, s), t # s
  PROVE  s = XorByte(t, 137) /\ LowPart(s) = XorByte(LowPart(t), 161)
<1> DEFINE f == Folded(t)
           g == Folded(s)
<1>1. 137 \in Byte /\ 161 \in Byte
  BY DEF Byte
<1>2. /\ Bit(137, 1) /\ ~Bit(137, 2) /\ ~Bit(137, 4) /\ Bit(137, 8)
      /\ ~Bit(137, 16) /\ ~Bit(137, 32) /\ ~Bit(137, 64) /\ Bit(137, 128)
  BY DEF Bit
<1>3. /\ Bit(161, 1) /\ ~Bit(161, 2) /\ ~Bit(161, 4) /\ ~Bit(161, 8)
      /\ ~Bit(161, 16) /\ Bit(161, 32) /\ ~Bit(161, 64) /\ Bit(161, 128)
  BY DEF Bit
<1>4. SameBits(HighPart(l, t), HighPart(l, s))
  BY DEF SameBits
<1>5. /\ \A w \in {2, 4, 8, 16, 32, 64} : Bit(f, w) <=> Bit(g, w)
      /\ ~(Bit(f, 1) <=> Bit(f, 128)) <=> ~(Bit(g, 1) <=> Bit(g, 128))
  <2> HIDE DEF f, g
  <2>1. /\ \A w \in {16, 32, 64} : Bit(f, w) <=> Bit(g, w)
        /\ ~(Bit(f, 1) <=> Bit(f, 128)) <=> ~(Bit(g, 1) <=> Bit(g, 128))
    BY <1>4, HighPartBits DEF SameBits, f, g
  <2>2. \A w \in {2, 4, 8} : Bit(f, w) <=> Bit(g, w)
    BY <1>4, HighPartBits DEF SameBits, f, g
  <2>. QED BY <2>1, <2>2
<1>6. ~(Bit(f, 128) <=> Bit(g, 128))
  <2> SUFFICES ASSUME Bit(f, 128) <=> Bit(g, 128) PROVE FALSE
    OBVIOUS
  <2>1. SameBits(f, g)
    BY <1>5 DEF SameBits
  <2>2. SameBits(t, s)
    BY <2>1, FoldedBits DEF SameBits
  <2>. QED BY <2>2, SameBitsSame
<1>7. SameBits(s, XorByte(t, 137))
  BY <1>1, <1>2, <1>5, <1>6, FoldedBits, XorByteBits DEF SameBits, Weights
<1>8. SameBits(LowPart(s), XorByte(LowPart(t), 161))
  <2>1. /\ LowPart(t) \in Byte /\ LowPart(s) \in Byte
        /\ \A w \in {1, 2, 4, 8, 16} : Bit(LowPart(t), w) <=> Bit(f, w)
        /\ \A w \in {1, 2, 4, 8, 16} : Bit(LowPart(s), w) <=> Bit(g, w)
        /\ Bit(LowPart(t), 32) <=> ~(Bit(f, 32) <=> Bit(f, 1))
        /\ Bit(LowPart(t), 64) <=> ~(Bit(f, 64) <=> Bit(f, 2))
        /\ Bit(LowPart(t), 128) <=> ~(Bit(f, 128) <=> Bit(f, 4))
        /\ Bit(LowPart(s), 32) <=> ~(Bit(g, 32) <=> Bit(g, 1))
        /\ Bit(LowPart(s), 64) <=> ~(Bit(g, 64) <=> Bit(g, 2))
        /\ Bit(LowPart(s), 128) <=> ~(Bit(g, 128) <=> Bit(g, 4))
    BY LowPartBits
  <2>2. \A w \in Weights : Bit(XorByte(LowPart(t), 161), w) <=> ~(Bit(LowPart(t), w) <=> Bit(161, w))
    BY <1>1, <2>1, XorByteBits
  <2> HIDE DEF f, g
  <2>. QED BY ONLY <1>3, <1>5, <1>6, <2>1, <2>2 DEF SameBits, Weights
<1>9. XorByte(t, 137) \in Byte /\ XorByte(LowPart(t), 161) \in Byte /\ LowPart(s) \in Byte
  BY <1>1, LowPartBits, XorByteBits
<1>. QED BY <1>7, <1>8, <1>9, SameBitsSame

-----------------------------------------------------------------------------
(* The eight steps of the division are one crc16Add.                       *)

\* A shift by one bit.
LEMMA Doubled ==
  ASSUME NEW h \in Byte, NEW l \in Byte
  PROVE  LET g == 2 * (h % 128) + l \div 128
             k == 2 * (l % 128)
         IN  /\ g \in Byte /\ k \in Byte
             /\ Short(2 * Pair(h, l)) = Pair(g, k)
             /\ Bit(Pair(h, l), 32768) <=> Bit(h, 128)
             /\ Bit(g, 1) <=> Bit(l, 128)
             /\ Bit(g, 2) <=> Bit(h, 1)
             /\ Bit(g, 4) <=> Bit(h, 2)
             /\ Bit(g, 8) <=> Bit(h, 4)
             /\ Bit(g, 16) <=> Bit(h, 8)
             /\ Bit(g, 32) <=> Bit(h, 16)
             /\ Bit(g, 64) <=> Bit(h, 32)
             /\ Bit(g, 128) <=> Bit(h, 64)
             /\ ~Bit(k, 1)
             /\ Bit(k, 2) <=> Bit(l, 1)
             /\ Bit(k, 4) <=> Bit(l, 2)
             /\ Bit(k, 8) <=> Bit(l, 4)
             /\ Bit(k, 16) <=> Bit(l, 8)
             /\ Bit(k, 32) <=> Bit(l, 16)
             /\ Bit(k, 64) <=> Bit(l, 32)
             /\ Bit(k, 128) <=> Bit(l, 64)
<1> DEFINE a == h % 128
           b == l \div 128
           c == l % 128
           g == 2 * a + b
           k == 2 * c
<1>1. h \in Int /\ 0 <= h /\ h <= 255 /\ l \in Int /\ 0 <= l /\ l <= 255
  BY ByteIs
<1>2. /\ a \in Int /\ 0 <= a /\ a < 128 /\ b \in Int /\ 0 <= b /\ b < 2
      /\ c \in Int /\ 0 <= c /\ c < 128
  BY ONLY <1>1
<1>3. g \in Byte /\ k \in Byte
  BY ONLY <1>2, ByteIs
<1>4. Short(2 * Pair(h, l)) = Pair(g, k)
  <2>1. (2 * (256 * h + l)) % 65536 = 256 * g + k
    BY ONLY <1>1
  <2>2. Short(2 * (256 * h + l)) = 256 * g + k
    BY ONLY <2>1 DEF Short
  <2> HIDE DEF g, k
  <2>. QED BY ONLY <2>2 DEF Pair
<1>5. Bit(Pair(h, l), 32768) <=> Bit(h, 128)
  <2>1. ((256 * h + l) \div 32768) % 2 = 1 <=> (h \div 128) % 2 = 1
    BY ONLY <1>1
  <2>. QED BY ONLY <2>1 DEF Pair, Bit
<1>6. /\ Bit(g, 1) <=> Bit(l, 128)
      /\ Bit(g, 2) <=> Bit(h, 1)
      /\ Bit(g, 4) <=> Bit(h, 2)
      /\ Bit(g, 8) <=> Bit(h, 4)
      /\ Bit(g, 16) <=> Bit(h, 8)
      /\ Bit(g, 32) <=> Bit(h, 16)
      /\ Bit(g, 64) <=> Bit(h, 32)
      /\ Bit(g, 128) <=> Bit(h, 64)
  BY ONLY <1>1 DEF Bit
<1>7. /\ ~Bit(k, 1)
      /\ Bit(k, 2) <=> Bit(l, 1)
      /\ Bit(k, 4) <=> Bit(l, 2)
      /\ Bit(k, 8) <=> Bit(l, 4)
      /\ Bit(k, 16) <=> Bit(l, 8)
      /\ Bit(k, 32) <=> Bit(l, 16)
      /\ Bit(k, 64) <=> Bit(l, 32)
      /\ Bit(k, 128) <=> Bit(l, 64)
  BY ONLY <1>1 DEF Bit
<1>. QED BY ONLY <1>3, <1>4, <1>5, <1>6, <1>7

\* What a step of the division does to the bits: <<h, l>> becomes <<g, k>>, and q is
\* the bit of the quotient.
Divided(h, l, q, g, k) ==
  /\ Bit(g, 1) <=> Bit(l, 128)
  /\ Bit(g, 2) <=> Bit(h, 1)
  /\ Bit(g, 4) <=> Bit(h, 2)
  /\ Bit(g, 8) <=> Bit(h, 4)
  /\ Bit(g, 16) <=> ~(Bit(h, 8) <=> q)
  /\ Bit(g, 32) <=> Bit(h, 16)
  /\ Bit(g, 64) <=> Bit(h, 32)
  /\ Bit(g, 128) <=> Bit(h, 64)
  /\ Bit(k, 1) <=> q
  /\ Bit(k, 2) <=> Bit(l, 1)
  /\ Bit(k, 4) <=> Bit(l, 2)
  /\ Bit(k, 8) <=> Bit(l, 4)
  /\ Bit(k, 16) <=> Bit(l, 8)
  /\ Bit(k, 32) <=> ~(Bit(l, 16) <=> q)
  /\ Bit(k, 64) <=> Bit(l, 32)
  /\ Bit(k, 128) <=> Bit(l, 64)

\* One bit of the division, on the two bytes of the remainder.
LEMMA DivideBits ==
  ASSUME NEW h \in Byte, NEW l \in Byte, NEW bit \in BOOLEAN
  PROVE  \E g \in Byte, k \in Byte :
           /\ Divide(Pair(h, l), bit) = Pair(g, k)
           /\ Divided(h, l, ~(Bit(h, 128) <=> bit), g, k)
<1> DEFINE a == 2 * (h % 128) + l \div 128
           b == 2 * (l % 128)
<1>1. /\ a \in Byte /\ b \in Byte /\ Short(2 * Pair(h, l)) = Pair(a, b)
      /\ Bit(Pair(h, l), 32768) <=> Bit(h, 128)
      /\ Divided(h, l, FALSE, a, b)
  BY Doubled DEF Divided
<1> HIDE DEF a, b
<1>2. CASE Bit(h, 128) <=> bit
  <2>0. Bit(Pair(h, l), 32768) = bit
    <3> DEFINE m == Pair(h, l) \div 32768
    <3>1. (m % 2 = 1) <=> bit
      BY <1>1, <1>2 DEF Bit
    <3> HIDE DEF m
    <3>2. (m % 2 = 1) = bit
      BY <3>1
    <3>. QED BY <3>2 DEF Bit, m
  <2>1. Divide(Pair(h, l), bit) = Pair(a, b)
    BY <1>1, <2>0 DEF Divide
  <2>2. Divided(h, l, ~(Bit(h, 128) <=> bit), a, b)
    BY <1>1, <1>2 DEF Divided
  <2>. QED BY <1>1, <2>1, <2>2
<1>3. CASE ~(Bit(h, 128) <=> bit)
  <2> DEFINE g == XorByte(a, 16)
             k == XorByte(b, 33)
  <2>1. 16 \in Byte /\ 33 \in Byte /\ Polynomial = Pair(16, 33)
    BY DEF Byte, Polynomial, Pair
  <2>2. Divide(Pair(h, l), bit) = Pair(g, k)
    <3>1. Divide(Pair(h, l), bit) = Xor(Pair(a, b), Polynomial)
      BY <1>1, <1>3 DEF Divide
    <3>. QED BY <1>1, <2>1, <3>1, XorPairs
  <2>3. /\ ~Bit(16, 1) /\ ~Bit(16, 2) /\ ~Bit(16, 4) /\ ~Bit(16, 8)
        /\ Bit(16, 16) /\ ~Bit(16, 32) /\ ~Bit(16, 64) /\ ~Bit(16, 128)
    BY DEF Bit
  <2>4. /\ Bit(33, 1) /\ ~Bit(33, 2) /\ ~Bit(33, 4) /\ ~Bit(33, 8)
        /\ ~Bit(33, 16) /\ Bit(33, 32) /\ ~Bit(33, 64) /\ ~Bit(33, 128)
    BY DEF Bit
  <2>5. /\ g \in Byte /\ k \in Byte
        /\ \A w \in Weights : Bit(g, w) <=> ~(Bit(a, w) <=> Bit(16, w))
        /\ \A w \in Weights : Bit(k, w) <=> ~(Bit(b, w) <=> Bit(33, w))
    BY <1>1, <2>1, XorByteBits
  <2> HIDE DEF g, k
  <2>6. Divided(h, l, TRUE, g, k)
    BY <1>1, <2>3, <2>4, <2>5 DEF Divided, Weights
  <2>7. Divided(h, l, ~(Bit(h, 128) <=> bit), g, k)
    BY <1>3, <2>6 DEF Divided
  <2>. QED BY <2>2, <2>5, <2>7
<1>. QED BY <1>2, <1>3

\* Eight steps of the division are one step of crc16Add.
LEMMA AddIsDivision ==
  ASSUME NEW b \in Byte, NEW h \in Byte, NEW l \in Byte
  PROVE  DivideByte(Pair(h, l), b) = crc16Add(b, Pair(h, l))
<1>a. \A i, j \in Byte, w \in Weights : \E g \in Byte, k \in Byte :
        /\ Divide(Pair(i, j), Bit(b, w)) = Pair(g, k)
        /\ Divided(i, j, ~(Bit(i, 128) <=> Bit(b, w)), g, k)
  <2> TAKE i, j \in Byte, w \in Weights
  <2>1. Bit(b, w) \in BOOLEAN
    BY DEF Bit
  <2> DEFINE bit == Bit(b, w)
  <2> HIDE DEF bit
  <2>2. \E g \in Byte, k \in Byte :
          /\ Divide(Pair(i, j), bit) = Pair(g, k)
          /\ Divided(i, j, ~(Bit(i, 128) <=> bit), g, k)
    BY <2>1, DivideBits DEF bit
  <2>. QED BY <2>2 DEF bit
<1>b. 1 \in Weights /\ 2 \in Weights /\ 4 \in Weights /\ 8 \in Weights /\ 16 \in Weights
      /\ 32 \in Weights /\ 64 \in Weights /\ 128 \in Weights
  BY DEF Weights
<1>1. PICK g1 \in Byte, k1 \in Byte :
       /\ Divide(Pair(h, l), Bit(b, 128)) = Pair(g1, k1)
       /\ Divided(h, l, ~(Bit(h, 128) <=> Bit(b, 128)), g1, k1)
  BY ONLY h \in Byte, l \in Byte, <1>a, <1>b
<1>2. PICK g2 \in Byte, k2 \in Byte :
       /\ Divide(Pair(g1, k1), Bit(b, 64)) = Pair(g2, k2)
       /\ Divided(g1, k1, ~(Bit(g1, 128) <=> Bit(b, 64)), g2, k2)
  BY ONLY g1 \in Byte, k1 \in Byte, <1>a, <1>b
<1>3. PICK g3 \in Byte, k3 \in Byte :
       /\ Divide(Pair(g2, k2), Bit(b, 32)) = Pair(g3, k3)
       /\ Divided(g2, k2, ~(Bit(g2, 128) <=> Bit(b, 32)), g3, k3)
  BY ONLY g2 \in Byte, k2 \in Byte, <1>a, <1>b
<1>4. PICK g4 \in Byte, k4 \in Byte :
       /\ Divide(Pair(g3, k3), Bit(b, 16)) = Pair(g4, k4)
       /\ Divided(g3, k3, ~(Bit(g3, 128) <=> Bit(b, 16)), g4, k4)
  BY ONLY g3 \in Byte, k3 \in Byte, <1>a, <1>b
<1>5. PICK g5 \in Byte, k5 \in Byte :
       /\ Divide(Pair(g4, k4), Bit(b, 8)) = Pair(g5, k5)
       /\ Divided(g4, k4, ~(Bit(g4, 128) <=> Bit(b, 8)), g5, k5)
  BY ONLY g4 \in Byte, k4 \in Byte, <1>a, <1>b
<1>6. PICK g6 \in Byte, k6 \in Byte :
       /\ Divide(Pair(g5, k5), Bit(b, 4)) = Pair(g6, k6)
       /\ Divided(g5, k5, ~(Bit(g5, 128) <=> Bit(b, 4)), g6, k6)
  BY ONLY g5 \in Byte, k5 \in Byte, <1>a, <1>b
<1>7. PICK g7 \in Byte, k7 \in Byte :
       /\ Divide(Pair(g6, k6), Bit(b, 2)) = Pair(g7, k7)
       /\ Divided(g6, k6, ~(Bit(g6, 128) <=> Bit(b, 2)), g7, k7)
  BY ONLY g6 \in Byte, k6 \in Byte, <1>a, <1>b
<1>8. PICK g8 \in Byte, k8 \in Byte :
       /\ Divide(Pair(g7, k7), Bit(b, 1)) = Pair(g8, k8)
       /\ Divided(g7, k7, ~(Bit(g7, 128) <=> Bit(b, 1)), g8, k8)
  BY ONLY g7 \in Byte, k7 \in Byte, <1>a, <1>b
<1>9. DivideByte(Pair(h, l), b) = Pair(g8, k8)
  BY ONLY <1>1, <1>2, <1>3, <1>4, <1>5, <1>6, <1>7, <1>8 DEF DivideByte
<1> DEFINE t == XorByte(h, b)
           f == Folded(t)
<1>10. /\ t \in Byte /\ f \in Byte /\ LowPart(t) \in Byte /\ HighPart(l, t) \in Byte
       /\ crc16Add(b, Pair(h, l)) = Pair(HighPart(l, t), LowPart(t))
  BY AddIs
<1>11. \A w \in Weights : Bit(t, w) <=> ~(Bit(h, w) <=> Bit(b, w))
  BY XorByteBits
<1>12. /\ Bit(f, 1) <=> ~(Bit(t, 1) <=> Bit(t, 16))
       /\ Bit(f, 2) <=> ~(Bit(t, 2) <=> Bit(t, 32))
       /\ Bit(f, 4) <=> ~(Bit(t, 4) <=> Bit(t, 64))
       /\ Bit(f, 8) <=> ~(Bit(t, 8) <=> Bit(t, 128))
       /\ \A w \in {16, 32, 64, 128} : Bit(f, w) <=> Bit(t, w)
  BY <1>10, FoldedBits
<1> DEFINE r == LowPart(t)
           s == HighPart(l, t)
<1>13. /\ \A w \in {1, 2, 4, 8, 16} : Bit(r, w) <=> Bit(f, w)
       /\ Bit(r, 32) <=> ~(Bit(f, 32) <=> Bit(f, 1))
       /\ Bit(r, 64) <=> ~(Bit(f, 64) <=> Bit(f, 2))
       /\ Bit(r, 128) <=> ~(Bit(f, 128) <=> Bit(f, 4))
  BY <1>10, LowPartBits
<1>14. /\ Bit(s, 1) <=> ~(Bit(l, 1) <=> Bit(f, 8))
       /\ Bit(s, 2) <=> ~(Bit(l, 2) <=> Bit(f, 16))
       /\ Bit(s, 4) <=> ~(Bit(l, 4) <=> Bit(f, 32))
       /\ Bit(s, 8) <=> ~(Bit(l, 8) <=> Bit(f, 64))
       /\ Bit(s, 16) <=> ~(Bit(l, 16) <=> ~(Bit(f, 1) <=> Bit(f, 128)))
       /\ Bit(s, 32) <=> ~(Bit(l, 32) <=> Bit(f, 2))
       /\ Bit(s, 64) <=> ~(Bit(l, 64) <=> Bit(f, 4))
       /\ Bit(s, 128) <=> ~(Bit(l, 128) <=> Bit(f, 8))
  BY <1>10, HighPartBits
<1> HIDE DEF t, f, r, s
<1>15. SameBits(k8, r)
  BY ONLY <1>1, <1>2, <1>3, <1>4, <1>5, <1>6, <1>7, <1>8, <1>11, <1>12, <1>13
     DEF SameBits, Divided, Weights
<1>16. SameBits(g8, s)
  BY ONLY <1>1, <1>2, <1>3, <1>4, <1>5, <1>6, <1>7, <1>8, <1>11, <1>12, <1>14
     DEF SameBits, Divided, Weights
<1>17. k8 = r /\ g8 = s
  BY <1>10, <1>15, <1>16, SameBitsSame DEF r, s
<1>. QED BY ONLY <1>9, <1>10, <1>17 DEF r, s

-----------------------------------------------------------------------------
(* Induction, and the checksum as a sequence of steps.                     *)

\* A set of naturals has a least member.
LEMMA Least == ASSUME NEW T, T \subseteq Nat, T # {} PROVE \E x \in T : \A y \in T : ~(y < x)
<1> DEFINE R == {ss \in Nat \X Nat : ss[1] < ss[2]}
<1>1. IsWellFoundedOn(R, Nat)
  BY NatLessThanWellFounded DEF OpToRel
<1> HIDE DEF R
<1>2. \E x \in T : \A y \in T : ~ (<<y, x>> \in R)
  BY <1>1, WFMin
<1> USE DEF R
<1>3. QED
 BY <1>2

\* Induction, as a property of a set.
LEMMA NatSet == ASSUME NEW S, 0 \in S, \A n \in Nat : n \in S => n+1 \in S PROVE Nat \subseteq S
<1> DEFINE T == Nat \ S
<1>1. SUFFICES ASSUME T # {} PROVE FALSE
  OBVIOUS
<1>2. PICK x \in T : \A y \in T : ~(y < x)
  BY <1>1, Least
<1>3. x \in Nat /\ x # 0 /\ x - 1 \in Nat /\ x - 1 < x
  BY <1>2
<1>4. x - 1 \in S
  BY <1>2, <1>3
<1>. QED BY <1>2, <1>3, <1>4

Word == {c \in Nat : c < 65536}

\* A function defined by recursion exists.
LEMMA Recursion ==
  ASSUME NEW a \in Word, NEW n \in Nat, NEW G \in [(1 .. n) \X Word -> Word]
  PROVE  \E f \in [0 .. n -> Word] : f[0] = a /\ \A i \in 1 .. n : f[i] = G[<<i, f[i - 1]>>]
<1> DEFINE Built(m) == \E f \in [0 .. m -> Word] : f[0] = a /\ \A i \in 1 .. m : f[i] = G[<<i, f[i - 1]>>]
           T == {m \in Nat : m <= n => Built(m)}
<1>1. Built(0)
  <2>1. [i \in 0 .. 0 |-> a] \in [0 .. 0 -> Word]
    OBVIOUS
  <2> DEFINE f == [i \in 0 .. 0 |-> a]
  <2>2. f \in [0 .. 0 -> Word] /\ f[0] = a /\ \A i \in 1 .. 0 : f[i] = G[<<i, f[i - 1]>>]
    BY <2>1
  <2> HIDE DEF f
  <2>. QED BY <2>2
<1>2. ASSUME NEW m \in Nat, m + 1 <= n, Built(m) PROVE Built(m + 1)
  <2>1. PICK f \in [0 .. m -> Word] : f[0] = a /\ \A i \in 1 .. m : f[i] = G[<<i, f[i - 1]>>]
    BY <1>2
  <2> DEFINE g == [i \in 0 .. m + 1 |-> IF i = m + 1 THEN G[<<m + 1, f[m]>>] ELSE f[i]]
  <2>2. G[<<m + 1, f[m]>>] \in Word
    <3>1. m + 1 \in 1 .. n /\ f[m] \in Word
      BY <1>2, <2>1
    <3>. QED BY <3>1
  <2>3. g \in [0 .. m + 1 -> Word]
    BY <2>1, <2>2
  <2>4. g[0] = a
    BY <2>1
  <2>5. ASSUME NEW i \in 1 .. m + 1 PROVE g[i] = G[<<i, g[i - 1]>>]
    <3>1. i - 1 \in 0 .. m + 1 /\ i - 1 # m + 1 /\ g[i - 1] = f[i - 1]
      OBVIOUS
    <3>2. CASE i = m + 1
      BY <3>1, <3>2
    <3>3. CASE i # m + 1
      <4>1. i \in 1 .. m /\ g[i] = f[i]
        BY <3>3
      <4>. QED BY <2>1, <3>1, <4>1
    <3>. QED BY <3>2, <3>3
  <2> HIDE DEF g
  <2>. QED BY <2>3, <2>4, <2>5
<1> HIDE DEF Built
<1>3. 0 \in T /\ \A m \in Nat : m \in T => m + 1 \in T
  BY <1>1, <1>2
<1>4. n \in T
  BY <1>3, NatSet
<1>. QED BY <1>4 DEF Built

\* What crc16Data computes, byte by byte.
LEMMA CrcSteps ==
  ASSUME NEW data \in Seq(Byte), NEW acc \in Word,
         \A b \in Byte, c \in Word : crc16Add(b, c) \in Word
  PROVE  \E f \in [0 .. Len(data) -> Word] :
           /\ f[0] = acc
           /\ \A i \in 1 .. Len(data) : f[i] = crc16Add(data[i], f[i - 1])
           /\ crc16Data(data, acc) = f[Len(data)]
<1> DEFINE n == Len(data)
           G == [p \in (1 .. n) \X Word |-> crc16Add(data[p[1]], p[2])]
<1>1. n \in Nat /\ \A i \in 1 .. n : data[i] \in Byte
  OBVIOUS
<1>2. G \in [(1 .. n) \X Word -> Word]
  BY <1>1
<1>3. PICK f \in [0 .. n -> Word] : f[0] = acc /\ \A i \in 1 .. n : f[i] = G[<<i, f[i - 1]>>]
  <2> HIDE DEF n, G
  <2>1. \E f \in [0 .. n -> Word] : f[0] = acc /\ \A i \in 1 .. n : f[i] = G[<<i, f[i - 1]>>]
    <3>1. n \in Nat
      BY ONLY <1>1
    <3>2. acc \in Word
      OBVIOUS
    <3>3. \A g \in [(1 .. n) \X Word -> Word] : \E f \in [0 .. n -> Word] : f[0] = acc /\ \A i \in 1 .. n : f[i] = g[<<i, f[i - 1]>>]
      BY ONLY <3>1, <3>2, Recursion
    <3>. QED BY ONLY <3>3, <1>2
  <2>. QED BY ONLY <2>1
<1>4. \A i \in 1 .. n : f[i] = crc16Add(data[i], f[i - 1])
  <2> TAKE i \in 1 .. n
  <2>1. f[i - 1] \in Word
    BY <1>1, <1>3
  <2>. QED BY <1>3, <2>1
<1>5. f = [i \in 0 .. n |-> IF i = 0 THEN acc ELSE crc16Add(data[i], f[i - 1])]
  BY <1>1, <1>3, <1>4
<1> DEFINE crc == CHOOSE g : g = [i \in 0 .. n |-> IF i = 0 THEN acc ELSE crc16Add(data[i], g[i - 1])]
<1>6. crc16Data(data, acc) = crc[n]
  BY DEF crc16Data
<1>7. crc = [i \in 0 .. n |-> IF i = 0 THEN acc ELSE crc16Add(data[i], crc[i - 1])]
  BY <1>5
<1> HIDE DEF crc, n
<1>8. crc[0] = acc /\ \A i \in 1 .. n : crc[i] = crc16Add(data[i], crc[i - 1])
  BY <1>1, <1>7
<1> DEFINE T == {i \in Nat : i <= n => crc[i] = f[i]}
<1>9. 0 \in T
  BY <1>3, <1>8
<1>10. ASSUME NEW i \in Nat, i \in T PROVE i + 1 \in T
  <2> SUFFICES ASSUME i + 1 <= n PROVE crc[i + 1] = f[i + 1]
    OBVIOUS
  <2>1. i + 1 \in 1 .. n /\ (i + 1) - 1 = i /\ crc[i] = f[i]
    BY <1>1, <1>10
  <2>. QED BY <1>4, <1>8, <2>1
<1>11. n \in T
  <2> HIDE DEF T
  <2>. QED BY <1>1, <1>9, <1>10, NatSet
<1>12. crc[n] = f[n]
  BY <1>1, <1>11
<1>. QED BY <1>3, <1>4, <1>6, <1>12 DEF n

-----------------------------------------------------------------------------
(* What a difference in one step tells about its operands.                 *)

\* Word without the set.
LEMMA WordIs == \A c : c \in Word <=> c \in Nat /\ c < 65536
  BY DEF Word

\* 16 bits and their two bytes.
LEMMA WordPairs ==
  /\ \A h, l \in Byte : Pair(h, l) \in Word /\ HighByte(Pair(h, l)) = h /\ LowByte(Pair(h, l)) = l
  /\ \A c \in Word : HighByte(c) \in Byte /\ LowByte(c) \in Byte /\ c = Pair(HighByte(c), LowByte(c))
<1>1. \A h, l \in Byte : Pair(h, l) \in Word /\ HighByte(Pair(h, l)) = h /\ LowByte(Pair(h, l)) = l
  BY Pairs, WordIs
<1>2. \A c \in Word : HighByte(c) \in Byte /\ LowByte(c) \in Byte /\ c = Pair(HighByte(c), LowByte(c))
  BY IsPair, WordIs
<1>. QED BY <1>1, <1>2

\* crc16Add on the accumulator as a whole.
LEMMA AddWord ==
  ASSUME NEW b \in Byte, NEW c \in Word
  PROVE  LET t == XorByte(HighByte(c), b)
         IN  /\ t \in Byte /\ crc16Add(b, c) \in Word
             /\ HighByte(crc16Add(b, c)) = HighPart(LowByte(c), t)
             /\ LowByte(crc16Add(b, c)) = LowPart(t)
             /\ DivideByte(c, b) = crc16Add(b, c)
<1> DEFINE h == HighByte(c)
           l == LowByte(c)
           t == XorByte(h, b)
<1>1. h \in Byte /\ l \in Byte /\ c = Pair(h, l)
  BY WordPairs
<1>2. /\ t \in Byte /\ LowPart(t) \in Byte /\ HighPart(l, t) \in Byte
      /\ crc16Add(b, Pair(h, l)) = Pair(HighPart(l, t), LowPart(t))
  BY <1>1, AddIs
<1>3. DivideByte(Pair(h, l), b) = crc16Add(b, Pair(h, l))
  BY <1>1, AddIsDivision
<1> HIDE DEF h, l, t
<1>4. /\ t \in Byte /\ crc16Add(b, c) \in Word
      /\ HighByte(crc16Add(b, c)) = HighPart(l, t)
      /\ LowByte(crc16Add(b, c)) = LowPart(t)
      /\ DivideByte(c, b) = crc16Add(b, c)
  BY <1>1, <1>2, <1>3, WordPairs
<1>. QED BY <1>4 DEF h, l, t

\* A difference of the accumulators stays; one of the data is seen at once and
\* not made good by the next byte.
LEMMA Difference ==
  ASSUME NEW b \in Byte, NEW d \in Byte, NEW c \in Word, NEW e \in Word,
         crc16Add(b, c) = crc16Add(d, e)
  PROVE  /\ LowByte(c) = LowByte(e)
         /\ b = d => c = e
         /\ c = e => b = d
<1> DEFINE t == XorByte(HighByte(c), b)
           s == XorByte(HighByte(e), d)
<1>1. t \in Byte /\ s \in Byte /\ LowPart(t) = LowPart(s)
  BY AddWord
<1>2. HighPart(LowByte(c), t) = HighPart(LowByte(e), s)
  BY AddWord
<1>3. /\ HighByte(c) \in Byte /\ LowByte(c) \in Byte /\ c = Pair(HighByte(c), LowByte(c))
      /\ HighByte(e) \in Byte /\ LowByte(e) \in Byte /\ e = Pair(HighByte(e), LowByte(e))
  BY WordPairs
<1> HIDE DEF t, s
<1>4. t = s
  BY <1>1, LowPartTells
<1>5. LowByte(c) = LowByte(e)
  BY <1>1, <1>2, <1>3, <1>4, HighPartTells
<1>6. b = d => HighByte(c) = HighByte(e)
  BY <1>3, <1>4, XorTells DEF t, s
<1>7. c = e => b = d
  BY <1>3, <1>4, XorTells DEF t, s
<1>. QED BY ONLY <1>3, <1>5, <1>6, <1>7

\* ^ can be solved for an operand.
LEMMA Xor137 ==
  ASSUME NEW h \in Byte, NEW b \in Byte, NEW d \in Byte, NEW x \in Byte,
         XorByte(h, d) = XorByte(XorByte(h, b), x)
  PROVE  d = XorByte(b, x)
<1>1. XorByte(h, b) \in Byte /\ XorByte(b, x) \in Byte /\ XorByte(h, d) \in Byte
  BY XorByteBits
<1>2. \A w \in Weights : Bit(XorByte(h, d), w) <=> ~(Bit(XorByte(h, b), w) <=> Bit(x, w))
  BY <1>1, XorByteBits
<1>3. \A w \in Weights : /\ Bit(XorByte(h, d), w) <=> ~(Bit(h, w) <=> Bit(d, w))
                         /\ Bit(XorByte(h, b), w) <=> ~(Bit(h, w) <=> Bit(b, w))
                         /\ Bit(XorByte(b, x), w) <=> ~(Bit(b, w) <=> Bit(x, w))
  BY XorByteBits
<1>4. \A w \in Weights : Bit(d, w) <=> Bit(XorByte(b, x), w)
  BY ONLY <1>2, <1>3
<1>. QED BY <1>1, <1>4, SameByte

\* Two bytes that leave the same high byte.
LEMMA SameHigh ==
  ASSUME NEW b \in Byte, NEW d \in Byte, NEW c \in Word, b # d,
         HighByte(crc16Add(b, c)) = HighByte(crc16Add(d, c))
  PROVE  /\ d = XorByte(b, 137)
         /\ LowByte(crc16Add(d, c)) = XorByte(LowByte(crc16Add(b, c)), 161)
<1> DEFINE h == HighByte(c)
           t == XorByte(h, b)
           s == XorByte(h, d)
<1>0. 137 \in Byte
  BY DEF Byte
<1>1. /\ t \in Byte /\ s \in Byte /\ h \in Byte /\ LowByte(c) \in Byte /\ 137 \in Byte
      /\ HighPart(LowByte(c), t) = HighPart(LowByte(c), s)
      /\ LowByte(crc16Add(b, c)) = LowPart(t) /\ LowByte(crc16Add(d, c)) = LowPart(s)
  BY <1>0, AddWord, WordPairs
<1>2. t # s
  BY <1>1, XorTells
<1>3. s = XorByte(t, 137) /\ LowPart(s) = XorByte(LowPart(t), 161)
  <2> HIDE DEF t, s
  <2>. QED BY <1>1, <1>2, HighPartAlmostTells
<1>4. d = XorByte(b, 137)
  BY <1>1, <1>3, Xor137
<1>. QED BY <1>1, <1>3, <1>4

\* The first bytes of a message.
LEMMA Prefix ==
  ASSUME NEW m \in Seq(Byte), NEW n \in Nat, n <= Len(m)
  PROVE  /\ SubSeq(m, 1, n) \in Seq(Byte) /\ Len(SubSeq(m, 1, n)) = n
         /\ \A i \in 1 .. n : SubSeq(m, 1, n)[i] = m[i]
  OBVIOUS

\* The checksum of the first n bytes of a message, byte by byte.
LEMMA PrefixSteps ==
  ASSUME NEW m \in Seq(Byte), NEW n \in Nat, n <= Len(m)
  PROVE  \E f \in [0 .. n -> Word] :
           /\ f[0] = 0
           /\ \A i \in 1 .. n : f[i] = crc16Add(m[i], f[i - 1])
           /\ crc16Data(SubSeq(m, 1, n), 0) = f[n]
<1> DEFINE data == SubSeq(m, 1, n)
<1>1. data \in Seq(Byte) /\ Len(data) = n /\ \A i \in 1 .. n : data[i] = m[i]
  BY Prefix
<1>2. 0 \in Word /\ \A b \in Byte, c \in Word : crc16Add(b, c) \in Word
  <2>1. 0 \in Word
    BY DEF Word
  <2>2. \A b \in Byte, c \in Word : crc16Add(b, c) \in Word
    BY AddWord
  <2>. QED BY <2>1, <2>2
<1> HIDE DEF data
<1>3. \E f \in [0 .. Len(data) -> Word] :
           /\ f[0] = 0
           /\ \A i \in 1 .. Len(data) : f[i] = crc16Add(data[i], f[i - 1])
           /\ crc16Data(data, 0) = f[Len(data)]
  BY <1>1, <1>2, CrcSteps
<1>. QED BY <1>1, <1>3 DEF data

\* f runs through the accumulators of the first n bytes of m.
Steps(f, m, n) ==
  /\ f \in [0 .. n -> Word]
  /\ \A i \in 1 .. n : m[i] \in Byte /\ f[i] = crc16Add(m[i], f[i - 1])

\* A difference of the accumulators lasts to the end when the rest is the same.
LEMMA Lasting ==
  ASSUME NEW n \in Nat, NEW k \in 0 .. n, NEW m, NEW w,
         NEW f, NEW g, Steps(f, m, n), Steps(g, w, n),
         \A i \in k + 1 .. n : m[i] = w[i],
         f[n] = g[n]
  PROVE  f[k] = g[k]
<1>0. /\ f \in [0 .. n -> Word] /\ g \in [0 .. n -> Word]
      /\ \A i \in 1 .. n : m[i] \in Byte /\ f[i] = crc16Add(m[i], f[i - 1])
      /\ \A i \in 1 .. n : w[i] \in Byte /\ g[i] = crc16Add(w[i], g[i - 1])
  BY DEF Steps
<1> DEFINE T == {i \in Nat : k + i <= n => f[k + i] # g[k + i]}
<1> SUFFICES ASSUME f[k] # g[k] PROVE FALSE
  OBVIOUS
<1>1. 0 \in T
  OBVIOUS
<1>2. ASSUME NEW i \in Nat, i \in T PROVE i + 1 \in T
  <2> SUFFICES ASSUME k + (i + 1) <= n, f[k + (i + 1)] = g[k + (i + 1)] PROVE FALSE
    OBVIOUS
  <2> DEFINE j == k + (i + 1)
  <2>1. j \in 1 .. n /\ j \in k + 1 .. n /\ j - 1 \in 0 .. n /\ j - 1 = k + i /\ k + i <= n
    OBVIOUS
  <2>2. f[j - 1] # g[j - 1]
    BY <1>2, <2>1
  <2> HIDE DEF j
  <2>3. crc16Add(m[j], f[j - 1]) = crc16Add(m[j], g[j - 1]) /\ m[j] \in Byte
    BY <1>0, <2>1 DEF j
  <2>4. f[j - 1] \in Word /\ g[j - 1] \in Word
    BY <1>0, <2>1
  <2>5. f[j - 1] = g[j - 1]
    BY <2>3, <2>4, Difference
  <2>. QED BY <2>2, <2>5
<1>3. n - k \in T
  <2> HIDE DEF T
  <2>1. Nat \subseteq T
    BY <1>1, <1>2, NatSet
  <2>. QED BY <2>1
<1>. QED BY <1>3

\* The accumulators agree as long as the bytes do.
LEMMA Agreeing ==
  ASSUME NEW n \in Nat, NEW k \in 0 .. n, NEW m, NEW w,
         NEW f, NEW g, Steps(f, m, n), Steps(g, w, n), f[0] = g[0],
         \A i \in 1 .. k : m[i] = w[i]
  PROVE  f[k] = g[k]
<1>0. /\ \A i \in 1 .. n : f[i] = crc16Add(m[i], f[i - 1])
      /\ \A i \in 1 .. n : g[i] = crc16Add(w[i], g[i - 1])
  BY DEF Steps
<1> DEFINE T == {i \in Nat : i <= k => f[i] = g[i]}
<1>1. 0 \in T
  OBVIOUS
<1>2. ASSUME NEW i \in Nat, i \in T PROVE i + 1 \in T
  <2> SUFFICES ASSUME i + 1 <= k PROVE f[i + 1] = g[i + 1]
    OBVIOUS
  <2>1. i + 1 \in 1 .. n /\ i + 1 \in 1 .. k /\ (i + 1) - 1 = i /\ f[i] = g[i]
    BY <1>2
  <2>. QED BY <1>0, <2>1
<1>3. k \in T
  <2> HIDE DEF T
  <2>1. Nat \subseteq T
    BY <1>1, <1>2, NatSet
  <2>. QED BY <2>1
<1>. QED BY <1>3

\* At most one byte differs, or two next to each other.
Spoilt(m, w, k) ==
  Len(w) = Len(m) /\ \A j \in 1 .. Len(m) : w[j] # m[j] => j = k - 1 \/ j = k

\* The end of two intact messages that differ in the last byte before the checksum
\* and perhaps in its first.
LEMMA Straddle ==
  ASSUME NEW m \in Seq(Byte), NEW w \in Seq(Byte), NEW n \in Nat \ {0},
         Len(m) = n + 2, Len(w) = n + 2,
         \A j \in 1 .. n + 2 : w[j] # m[j] => j = n \/ j = n + 1,
         w[n] # m[n],
         NEW c \in Word,
         Pair(m[n + 2], m[n + 1]) = crc16Add(m[n], c),
         Pair(w[n + 2], w[n + 1]) = crc16Add(w[n], c)
  PROVE  w = Unnoticed(m)
<1>1. /\ n \in 1 .. n + 2 /\ n + 1 \in 1 .. n + 2 /\ n + 2 \in 1 .. n + 2 /\ Len(m) - 2 = n
      /\ n + 2 # n /\ n + 2 # n + 1 /\ n # n + 1
  OBVIOUS
<1>2. /\ m[n] \in Byte /\ m[n + 1] \in Byte /\ m[n + 2] \in Byte
      /\ w[n] \in Byte /\ w[n + 1] \in Byte /\ w[n + 2] \in Byte
  BY <1>1
<1>3. w[n + 2] = m[n + 2]
  BY <1>1
<1>4. /\ HighByte(crc16Add(m[n], c)) = m[n + 2] /\ LowByte(crc16Add(m[n], c)) = m[n + 1]
      /\ HighByte(crc16Add(w[n], c)) = w[n + 2] /\ LowByte(crc16Add(w[n], c)) = w[n + 1]
  BY <1>2, WordPairs
<1>5. w[n] = XorByte(m[n], 137) /\ w[n + 1] = XorByte(m[n + 1], 161)
  BY <1>2, <1>3, <1>4, SameHigh
<1> DEFINE u == [m EXCEPT ![n] = XorByte(@, 137), ![n + 1] = XorByte(@, 161)]
<1>6. u = Unnoticed(m)
  BY <1>1 DEF Unnoticed
<1>7. u \in [1 .. n + 2 -> Byte] /\ w \in [1 .. n + 2 -> Byte]
  <2>1. m \in [1 .. n + 2 -> Byte] /\ w \in [1 .. n + 2 -> Byte]
    OBVIOUS
  <2>2. XorByte(m[n], 137) \in Byte /\ XorByte(m[n + 1], 161) \in Byte
    BY <1>2, <1>5
  <2>. QED BY <1>1, <2>1, <2>2
<1>8. \A j \in 1 .. n + 2 : u[j] = w[j]
  <2> TAKE j \in 1 .. n + 2
  <2>1. CASE j = n
    BY <1>1, <1>5, <2>1
  <2>2. CASE j = n + 1
    BY <1>1, <1>5, <2>2
  <2>3. CASE j # n /\ j # n + 1
    BY <2>3
  <2>. QED BY <2>1, <2>2, <2>3
<1> HIDE DEF u
<1>9. u = w
  BY <1>7, <1>8
<1>. QED BY <1>6, <1>9

\* Two bytes that leave the same low byte are the same.
LEMMA SameLow ==
  ASSUME NEW b \in Byte, NEW d \in Byte, NEW c \in Word,
         LowByte(crc16Add(b, c)) = LowByte(crc16Add(d, c))
  PROVE  b = d
<1> DEFINE t == XorByte(HighByte(c), b)
           s == XorByte(HighByte(c), d)
<1>1. t \in Byte /\ s \in Byte /\ LowPart(t) = LowPart(s) /\ HighByte(c) \in Byte
  BY AddWord, WordPairs
<1>2. t = s
  <2> HIDE DEF t, s
  <2>. QED BY <1>1, LowPartTells
<1>. QED BY <1>1, <1>2, XorTells

\* Of two intact messages that differ in one byte or in two neighbours, one is the
\* other with the pattern of Unnoticed.
LEMMA Detected ==
  ASSUME NEW m \in Seq(Byte), NEW w \in Seq(Byte), Len(m) > 2, NEW k \in Int,
         Spoilt(m, w, k), IsIntact(m), IsIntact(w)
  PROVE  w = m \/ w = Unnoticed(m)
<1> DEFINE n == Len(m) - 2
<1>1. n \in Nat \ {0} /\ Len(m) = n + 2 /\ Len(w) = n + 2 /\ n <= Len(m) /\ n <= Len(w)
  BY DEF Spoilt
<1> HIDE DEF n
<1>2. PICK f \in [0 .. n -> Word] : /\ f[0] = 0
                                    /\ \A i \in 1 .. n : f[i] = crc16Add(m[i], f[i - 1])
                                    /\ crc16Data(SubSeq(m, 1, n), 0) = f[n]
  BY <1>1, PrefixSteps
<1>3. PICK g \in [0 .. n -> Word] : /\ g[0] = 0
                                    /\ \A i \in 1 .. n : g[i] = crc16Add(w[i], g[i - 1])
                                    /\ crc16Data(SubSeq(w, 1, n), 0) = g[n]
  BY <1>1, PrefixSteps
<1>4. \A j \in 1 .. n + 2 : m[j] \in Byte /\ w[j] \in Byte /\ (w[j] # m[j] => j = k - 1 \/ j = k)
  BY <1>1 DEF Spoilt
<1>5. Pair(m[n + 2], m[n + 1]) = f[n] /\ Pair(w[n + 2], w[n + 1]) = g[n]
  <2>1. /\ n + 1 \in 1 .. n + 2 /\ n + 2 \in 1 .. n + 2
        /\ Len(m) - 2 = n /\ Len(w) - 2 = n
    BY <1>1
  <2>2. m[n + 1] + 256 * m[n + 2] = f[n] /\ w[n + 1] + 256 * w[n + 2] = g[n]
    BY <1>2, <1>3, <2>1 DEF IsIntact
  <2>3. /\ m[n + 1] \in Int /\ m[n + 2] \in Int /\ w[n + 1] \in Int /\ w[n + 2] \in Int
    BY <1>4, <2>1, ByteIs
  <2>4. \A i, j \in Int : i + 256 * j = Pair(j, i)
    BY DEF Pair
  <2>. QED BY <2>2, <2>3, <2>4
<1>s. Steps(f, m, n) /\ Steps(g, w, n)
  BY <1>1, <1>2, <1>3, <1>4 DEF Steps
<1>6. CASE \A j \in 1 .. n : w[j] = m[j]
  <2>1. f[n] = g[n]
    <3>1. n \in Nat /\ n \in 0 .. n /\ f[0] = g[0]
      BY <1>1, <1>2, <1>3
    <3>2. \A j \in 1 .. n : m[j] = w[j]
      BY <1>6
    <3>. QED BY ONLY <1>s, <3>1, <3>2, Agreeing
  <2>2. w[n + 1] = m[n + 1] /\ w[n + 2] = m[n + 2]
    <3>1. n + 1 \in 1 .. n + 2 /\ n + 2 \in 1 .. n + 2
      BY <1>1
    <3>. QED BY <1>4, <1>5, <2>1, <3>1, WordPairs
  <2>3. \A j \in 1 .. n + 2 : w[j] = m[j]
    BY <1>1, <1>6, <2>2
  <2>4. m \in [1 .. n + 2 -> Byte] /\ w \in [1 .. n + 2 -> Byte]
    BY <1>1
  <2>5. n + 2 \in Nat
    BY <1>1
  <2>. QED BY ONLY <2>3, <2>4, <2>5
<1>7. ASSUME NEW j \in 1 .. n, w[j] # m[j], \A i \in 1 .. j - 1 : w[i] = m[i]
      PROVE w = Unnoticed(m)
  <2>1. j = k - 1 \/ j = k
    BY <1>1, <1>4, <1>7
  <2>2. j - 1 \in 0 .. n /\ j \in 0 .. n
    BY <1>1
  <2>3. f[j - 1] = g[j - 1]
    <3>1. n \in Nat /\ f[0] = g[0]
      BY <1>1, <1>2, <1>3
    <3>2. \A i \in 1 .. j - 1 : m[i] = w[i]
      BY <1>7
    <3> DEFINE p == j - 1
    <3>3. p \in 0 .. n /\ \A i \in 1 .. p : m[i] = w[i]
      BY ONLY <2>2, <3>2
    <3> HIDE DEF p
    <3>4. f[p] = g[p]
      BY ONLY <1>s, <3>1, <3>3, Agreeing
    <3>. QED BY ONLY <3>4 DEF p
  <2>4. f[j] # g[j]
    <3>1. f[j] = crc16Add(m[j], f[j - 1]) /\ g[j] = crc16Add(w[j], f[j - 1]) /\ f[j - 1] \in Word
          /\ m[j] \in Byte /\ w[j] \in Byte
      BY <1>1, <1>2, <1>3, <1>4, <2>2, <2>3
    <3>. QED BY <1>7, <3>1, Difference
  <2>5. CASE f[n] = g[n]
    <3>1. j # n
      BY <2>4, <2>5
    <3>2. j + 1 \in 1 .. n /\ (j + 1) - 1 = j
      BY <1>1, <3>1
    <3>3. \A i \in (j + 1) + 1 .. n : m[i] = w[i]
      BY <1>1, <1>4, <2>1
    <3>4. f[j + 1] = g[j + 1]
      <4>1. j + 1 \in 0 .. n
        BY <3>2
      <4>2. n \in Nat
        BY <1>1
      <4> DEFINE p == j + 1
      <4>3. p \in 0 .. n /\ \A i \in p + 1 .. n : m[i] = w[i]
        BY ONLY <3>3, <4>1
      <4> HIDE DEF p
      <4>4. f[p] = g[p]
        BY ONLY <1>s, <2>5, <4>2, <4>3, Lasting
      <4>. QED BY ONLY <4>4 DEF p
    <3>5. LowByte(f[j]) = LowByte(g[j])
      <4>1. /\ crc16Add(m[j + 1], f[j]) = crc16Add(w[j + 1], g[j])
            /\ m[j + 1] \in Byte /\ w[j + 1] \in Byte /\ f[j] \in Word /\ g[j] \in Word
        BY <1>1, <1>2, <1>3, <1>4, <2>2, <3>2, <3>4
      <4>. QED BY <4>1, Difference
    <3>6. /\ LowByte(crc16Add(m[j], f[j - 1])) = LowByte(crc16Add(w[j], f[j - 1]))
          /\ m[j] \in Byte /\ w[j] \in Byte /\ f[j - 1] \in Word
      BY <1>1, <1>2, <1>3, <1>4, <2>2, <2>3, <3>5
    <3>7. FALSE
      BY <1>7, <3>6, SameLow
    <3>. QED BY <3>7
  <2>6. CASE f[n] # g[n]
    <3>1. w[n + 1] # m[n + 1] \/ w[n + 2] # m[n + 2]
      BY <1>5, <2>6
    <3>2. j = n /\ k = n + 1
      BY <1>1, <1>4, <2>1, <3>1
    <3>3. \A i \in 1 .. n + 2 : w[i] # m[i] => i = n \/ i = n + 1
      BY <1>4, <3>2
    <3>4. /\ Pair(m[n + 2], m[n + 1]) = crc16Add(m[n], f[n - 1])
          /\ Pair(w[n + 2], w[n + 1]) = crc16Add(w[n], f[n - 1])
          /\ f[n - 1] \in Word /\ w[n] # m[n]
      BY <1>1, <1>2, <1>3, <1>5, <1>7, <2>2, <2>3, <3>2
    <3>. QED BY <1>1, <3>3, <3>4, Straddle
  <2>. QED BY <2>5, <2>6
<1>8. CASE \E j \in 1 .. n : w[j] # m[j]
  <2> DEFINE D == {j \in 1 .. n : w[j] # m[j]}
  <2>1. PICK j \in D : \A i \in D : ~(i < j)
    <3>1. D \subseteq Nat /\ D # {}
      BY <1>1, <1>8
    <3> HIDE DEF D
    <3>. QED BY <3>1, Least
  <2>2. \A i \in 1 .. j - 1 : w[i] = m[i]
    BY <1>1, <2>1
  <2>. QED BY <1>7, <2>1, <2>2
<1>. QED BY <1>6, <1>8

-----------------------------------------------------------------------------
(* The checksum is the remainder.                                          *)

\* The checksum of any bytes is the remainder of the division.
LEMMA CrcIsRemainder ==
  ASSUME NEW data \in Seq(Byte)
  PROVE  crc16Data(data, 0) = Remainder(data)
<1> DEFINE n == Len(data)
<1>1. n \in Nat /\ \A i \in 1 .. n : data[i] \in Byte
  OBVIOUS
<1>2. 0 \in Word /\ \A b \in Byte, c \in Word : crc16Add(b, c) \in Word
  <2>1. 0 \in Word
    BY DEF Word
  <2>2. \A b \in Byte, c \in Word : crc16Add(b, c) \in Word
    BY AddWord
  <2>. QED BY <2>1, <2>2
<1>3. PICK f \in [0 .. n -> Word] : /\ f[0] = 0
                                    /\ \A i \in 1 .. n : f[i] = crc16Add(data[i], f[i - 1])
                                    /\ crc16Data(data, 0) = f[n]
  BY <1>2, CrcSteps
<1>4. \A i \in 1 .. n : f[i] = DivideByte(f[i - 1], data[i])
  <2> TAKE i \in 1 .. n
  <2>1. f[i] = crc16Add(data[i], f[i - 1]) /\ f[i - 1] \in Word /\ data[i] \in Byte
    BY <1>1, <1>3
  <2>. QED BY <2>1, AddWord
<1>5. f = [i \in 0 .. n |-> IF i = 0 THEN 0 ELSE DivideByte(f[i - 1], data[i])]
  BY <1>1, <1>3, <1>4
<1> DEFINE rem == CHOOSE g : g = [i \in 0 .. n |-> IF i = 0 THEN 0 ELSE DivideByte(g[i - 1], data[i])]
<1>6. Remainder(data) = rem[n]
  BY DEF Remainder
<1>7. rem = [i \in 0 .. n |-> IF i = 0 THEN 0 ELSE DivideByte(rem[i - 1], data[i])]
  BY <1>5
<1> HIDE DEF rem, n
<1>8. rem[0] = 0 /\ \A i \in 1 .. n : rem[i] = DivideByte(rem[i - 1], data[i])
  BY <1>1, <1>7
<1> DEFINE T == {i \in Nat : i <= n => rem[i] = f[i]}
<1>9. 0 \in T
  BY <1>3, <1>8
<1>10. ASSUME NEW i \in Nat, i \in T PROVE i + 1 \in T
  <2> SUFFICES ASSUME i + 1 <= n PROVE rem[i + 1] = f[i + 1]
    OBVIOUS
  <2>1. i + 1 \in 1 .. n /\ (i + 1) - 1 = i /\ rem[i] = f[i]
    BY <1>1, <1>10
  <2>. QED BY <1>4, <1>8, <2>1
<1>11. n \in T
  <2> HIDE DEF T
  <2>. QED BY <1>1, <1>9, <1>10, NatSet
<1>. QED BY <1>1, <1>3, <1>6, <1>11

-----------------------------------------------------------------------------
(* Messages and values, byte by byte.                                      *)

PacketType == [cmd : Byte, payload : Seq(Byte), crc : Word, _cpos : Nat]

\* What stands where in a concatenation.
LEMMA Join ==
  ASSUME NEW S, NEW a \in Seq(S), NEW b \in Seq(S), NEW c, c = a \o b
  PROVE  /\ c \in Seq(S) /\ Len(c) = Len(a) + Len(b)
         /\ \A k \in 1 .. Len(a) + Len(b) : c[k] = IF k <= Len(a) THEN a[k] ELSE b[k - Len(a)]
  BY ConcatProperties

\* A message, byte by byte.
LEMMA MessageIs ==
  ASSUME NEW p \in PacketType, Len(p.payload) <= 255
  PROVE  LET n == Len(p.payload)
             m == Message(p)
         IN  /\ m \in Seq(Byte) /\ Len(m) = n + 4
             /\ m[1] = p.cmd /\ m[2] = n
             /\ \A i \in 1 .. n : m[i + 2] = p.payload[i]
             /\ m[n + 3] = LowByte(p.crc) /\ m[n + 4] = HighByte(p.crc)
             /\ Header(p) \o p.payload \in Seq(Byte)
             /\ SubSeq(m, 1, Len(m) - 2) = Header(p) \o p.payload
             /\ SubSeq(m, 3, Len(m) - 2) = p.payload
<1> DEFINE n == Len(p.payload)
           body == Header(p) \o p.payload
           tail == <<LowByte(p.crc), HighByte(p.crc)>>
           m == Message(p)
<1>1. p.payload \in Seq(Byte) /\ p.cmd \in Byte /\ p.crc \in Word /\ n \in Nat /\ n \in Byte
  <2>1. p.payload \in Seq(Byte) /\ p.cmd \in Byte /\ p.crc \in Word
    BY DEF PacketType
  <2>2. n \in Nat
    BY <2>1
  <2>. QED BY <2>1, <2>2, ByteIs
<1>2. /\ Header(p) \in Seq(Byte) /\ Len(Header(p)) = 2
      /\ Header(p)[1] = p.cmd /\ Header(p)[2] = n
  BY <1>1 DEF Header
<1>3. tail \in Seq(Byte) /\ Len(tail) = 2 /\ tail[1] = LowByte(p.crc) /\ tail[2] = HighByte(p.crc)
  BY <1>1, WordPairs
<1>4. m = body \o tail
  BY DEF Message
<1> HIDE DEF m, tail
<1>n. n = Len(p.payload) /\ n \in Nat
  BY <1>1
<1>5. /\ body \in Seq(Byte) /\ Len(body) = n + 2
      /\ \A k \in 1 .. n + 2 : body[k] = IF k <= 2 THEN Header(p)[k] ELSE p.payload[k - 2]
  <2>1. /\ body \in Seq(Byte) /\ Len(body) = Len(Header(p)) + Len(p.payload)
        /\ \A k \in 1 .. Len(Header(p)) + Len(p.payload) :
             body[k] = IF k <= Len(Header(p)) THEN Header(p)[k] ELSE p.payload[k - Len(Header(p))]
    <3>1. p.payload \in Seq(Byte) /\ Header(p) \in Seq(Byte) /\ body = Header(p) \o p.payload
      BY <1>1, <1>2
    <3>. QED BY ONLY <3>1, Join
  <2>2. Len(Header(p)) + Len(p.payload) = n + 2
    BY <1>1, <1>2
  <2>. QED BY <1>2, <2>1, <2>2
<1> HIDE DEF body
<1>6. /\ m \in Seq(Byte) /\ Len(m) = n + 4
      /\ \A k \in 1 .. n + 4 : m[k] = IF k <= n + 2 THEN body[k] ELSE tail[k - (n + 2)]
  <2>1. /\ m \in Seq(Byte) /\ Len(m) = Len(body) + Len(tail)
        /\ \A k \in 1 .. Len(body) + Len(tail) :
             m[k] = IF k <= Len(body) THEN body[k] ELSE tail[k - Len(body)]
    <3>1. body \in Seq(Byte) /\ tail \in Seq(Byte) /\ m = body \o tail
      BY ONLY <1>3, <1>4, <1>5
    <3>. QED BY ONLY <3>1, Join
  <2>2. Len(body) + Len(tail) = n + 4
    BY ONLY <1>n, <1>3, <1>5
  <2>. QED BY ONLY <1>5, <2>1, <2>2
<1>7. m[1] = p.cmd /\ m[2] = n
  <2>1. 1 \in 1 .. n + 4 /\ 2 \in 1 .. n + 4 /\ 1 \in 1 .. n + 2 /\ 2 \in 1 .. n + 2
        /\ 1 <= n + 2 /\ 2 <= n + 2
    BY ONLY <1>n
  <2>2. m[1] = body[1] /\ m[2] = body[2]
    BY ONLY <1>6, <2>1
  <2>3. body[1] = Header(p)[1] /\ body[2] = Header(p)[2]
    BY ONLY <1>5, <2>1
  <2>. QED BY ONLY <1>2, <2>2, <2>3
<1>8. \A i \in 1 .. n : m[i + 2] = p.payload[i]
  <2> TAKE i \in 1 .. n
  <2>1. i + 2 \in 1 .. n + 4 /\ i + 2 \in 1 .. n + 2 /\ ~(i + 2 <= 2) /\ (i + 2) - 2 = i
    BY <1>1
  <2>. QED BY <1>5, <1>6, <2>1
<1>9. m[n + 3] = LowByte(p.crc) /\ m[n + 4] = HighByte(p.crc)
  <2>1. /\ n + 3 \in 1 .. n + 4 /\ n + 4 \in 1 .. n + 4 /\ ~(n + 3 <= n + 2) /\ ~(n + 4 <= n + 2)
        /\ (n + 3) - (n + 2) = 1 /\ (n + 4) - (n + 2) = 2
    BY ONLY <1>n
  <2>2. m[n + 3] = tail[(n + 3) - (n + 2)] /\ m[n + 4] = tail[(n + 4) - (n + 2)]
    BY ONLY <1>6, <2>1
  <2>. QED BY ONLY <1>3, <2>1, <2>2
<1>10. SubSeq(m, 1, Len(m) - 2) = body
  <2>1. Len(m) - 2 = n + 2 /\ n + 2 \in Nat /\ n + 2 <= Len(m)
    BY <1>1, <1>6
  <2>2. SubSeq(m, 1, n + 2) \in Seq(Byte) /\ Len(SubSeq(m, 1, n + 2)) = n + 2
        /\ \A i \in 1 .. n + 2 : SubSeq(m, 1, n + 2)[i] = m[i]
    BY <1>6, <2>1, Prefix
  <2>3. \A i \in 1 .. n + 2 : m[i] = body[i]
    BY <1>1, <1>6
  <2>. QED BY <1>5, <2>1, <2>2, <2>3, SeqEqual
<1>11. SubSeq(m, 3, Len(m) - 2) = p.payload
  <2> DEFINE s == SubSeq(m, 3, n + 2)
  <2>1. Len(m) - 2 = n + 2
    BY <1>1, <1>6
  <2>2. s \in Seq(Byte) /\ Len(s) = n /\ \A i \in 1 .. n : s[i] = m[i + 2]
    BY <1>1, <1>6
  <2> HIDE DEF s
  <2>3. s = p.payload
    BY <1>1, <1>8, <2>2, SeqEqual
  <2>. QED BY <2>1, <2>3 DEF s
<1>. QED BY <1>1, <1>5, <1>6, <1>7, <1>8, <1>9, <1>10, <1>11 DEF m, body

\* Two bytes, the lowest one first.
LEMMA Digits2 ==
  ASSUME NEW n \in Nat, n \div 256 < 256
  PROVE  n = (n % 256) + ((n \div 256) % 256) * 256
<1> DEFINE q == n \div 256
           r == n % 256
<1>1. q \in Nat /\ r \in Nat /\ q = n \div 256 /\ r = n % 256 /\ q < 256
  OBVIOUS
<1> HIDE DEF q, r
<1>2. n = 256 * q + r
  BY ONLY n \in Nat, <1>1
<1>3. q % 256 = q
  BY ONLY <1>1
<1>. QED BY <1>1, <1>2, <1>3

Top(n) == n \div 16777216
FourBytes(n) ==
  (n % 256) + ((n \div 256) % 256) * 256 + ((n \div 65536) % 256) * 65536 + (Top(n) % 256) * 16777216

\* Four bytes, the lowest one first.
LEMMA Digits4 ==
  ASSUME NEW n \in Nat, Top(n) < 256
  PROVE  n = FourBytes(n)
<1> DEFINE a == n \div 256
           b == n \div 65536
           c == Top(n)
           r == n % 256
           s == a % 256
           t == b % 256
<1>1. /\ a \in Nat /\ b \in Nat /\ c \in Nat /\ r \in Nat /\ a = n \div 256 /\ r = n % 256
      /\ c = n \div 16777216 /\ c < 256 /\ b = n \div 65536
  BY DEF Top
<1>2. s \in Nat /\ t \in Nat /\ s = a % 256 /\ t = b % 256
  OBVIOUS
<1> HIDE DEF a, b, c, r, s, t
<1>3. b = a \div 256
  BY ONLY n \in Nat, <1>1
<1>4. c = b \div 256
  BY ONLY n \in Nat, <1>1
<1>5. n = 256 * a + r
  BY ONLY n \in Nat, <1>1
<1>6. a = 256 * b + s
  BY ONLY <1>1, <1>2, <1>3
<1>7. b = 256 * c + t
  BY ONLY <1>1, <1>2, <1>4
<1>8. c % 256 = c
  BY ONLY <1>1
<1>9. n = r + s * 256 + t * 65536 + c * 16777216
  BY ONLY <1>1, <1>2, <1>5, <1>6, <1>7
<1>10. Top(n) % 256 = c /\ (n \div 256) % 256 = s /\ (n \div 65536) % 256 = t /\ n % 256 = r
  BY ONLY <1>1, <1>2, <1>8 DEF Top
<1>. QED BY ONLY <1>9, <1>10 DEF FourBytes

\* The bytes that putByte, putShort and putInt append.
LEMMA BytesAre ==
  ASSUME NEW v \in Values
  PROVE  /\ v.size \in {1, 2, 4} /\ v.data \in Nat
         /\ BytesOf(v.data, v.size) \in Seq(Byte) /\ Len(BytesOf(v.data, v.size)) = v.size
<1>1. v.size \in {1, 2, 4} /\ v.data \in Nat
  BY PacketAssumption
<1>2. \A k \in 1 .. v.size : (v.data \div Place[k]) % 256 \in Byte
  <2> TAKE k \in 1 .. v.size
  <2>1. k \in {1, 2, 3, 4}
    BY <1>1
  <2>2. Place[k] \in {1, 256, 65536, 16777216}
    BY <2>1 DEF Place
  <2>3. \A n \in Nat, a \in {1, 256, 65536, 16777216} : (n \div a) % 256 \in Int /\ 0 <= (n \div a) % 256 /\ (n \div a) % 256 <= 255
    OBVIOUS
  <2>. QED BY <1>1, <2>2, <2>3, ByteIs
<1>3. BytesOf(v.data, v.size) \in [1 .. v.size -> Byte] /\ v.size \in Nat
  BY <1>1, <1>2 DEF BytesOf
<1>. QED BY <1>1, <1>3

\* A value is read back, wherever in the payload its bytes are.
LEMMA ReadsBack ==
  ASSUME NEW v \in Values, NEW p, p._cpos \in Nat,
         \A k \in 1 .. v.size : p.payload[p._cpos + k] = BytesOf(v.data, v.size)[k]
  PROVE  Get(p, v.size, "leftFirst") = v.data
<1>1. v.size \in {1, 2, 4} /\ v.data \in Nat /\ v.data \div Place[v.size] < 256
  BY PacketAssumption
<1> DEFINE At(k) == p.payload[p._cpos + k]
           n == v.data
<1>2. Place[1] = 1 /\ Place[2] = 256 /\ Place[3] = 65536 /\ Place[4] = 16777216
  BY DEF Place
<1>3. \A k \in 1 .. v.size : At(k) = (n \div Place[k]) % 256
  BY DEF BytesOf
<1>4. /\ v.size = 1 => Get(p, v.size, "leftFirst") = At(1)
      /\ v.size = 2 => Get(p, v.size, "leftFirst") = At(1) + At(2) * 256
      /\ v.size = 4 => Get(p, v.size, "leftFirst") = At(1) + At(2) * 256 + At(3) * 65536 + At(4) * 16777216
  BY <1>2 DEF Get
<1> HIDE DEF At, n
<1>5. n \in Nat /\ n = v.data
  BY <1>1 DEF n
<1>6. n \div 1 = n
  BY ONLY <1>5
<1>7. CASE v.size = 1
  <2>1. At(1) = n % 256
    BY <1>2, <1>3, <1>6, <1>7
  <2>2. n < 256
    BY <1>1, <1>2, <1>5, <1>6, <1>7
  <2>3. n % 256 = n
    BY ONLY <1>5, <2>2
  <2>. QED BY <1>4, <1>5, <1>7, <2>1, <2>3
<1>8. CASE v.size = 2
  <2>1. At(1) = n % 256 /\ At(2) = (n \div 256) % 256
    BY <1>2, <1>3, <1>6, <1>8
  <2>2. n \div 256 < 256
    BY <1>1, <1>2, <1>5, <1>8
  <2>3. n = (n % 256) + ((n \div 256) % 256) * 256
    BY ONLY <1>5, <2>2, Digits2
  <2>. QED BY ONLY <1>4, <1>5, <1>8, <2>1, <2>3
<1>9. CASE v.size = 4
  <2>1. At(1) = n % 256 /\ At(2) = (n \div 256) % 256
        /\ At(3) = (n \div 65536) % 256 /\ At(4) = (n \div 16777216) % 256
    BY <1>2, <1>3, <1>6, <1>9
  <2>2. Top(n) < 256
    BY <1>1, <1>2, <1>5, <1>9 DEF Top
  <2>3. n = FourBytes(n)
    BY ONLY <1>5, <2>2, Digits4
  <2> DEFINE a1 == n % 256
             a2 == (n \div 256) % 256
             a3 == (n \div 65536) % 256
             a4 == (n \div 16777216) % 256
  <2>4. a1 \in Int /\ a2 \in Int /\ a3 \in Int /\ a4 \in Int
    BY ONLY <1>5
  <2>5. At(1) = a1 /\ At(2) = a2 /\ At(3) = a3 /\ At(4) = a4
    BY ONLY <2>1
  <2>6. n = a1 + a2 * 256 + a3 * 65536 + a4 * 16777216
    BY ONLY <2>3 DEF FourBytes, Top
  <2> HIDE DEF a1, a2, a3, a4
  <2>7. At(1) + At(2) * 256 + At(3) * 65536 + At(4) * 16777216
          = a1 + a2 * 256 + a3 * 65536 + a4 * 16777216
    BY ONLY <2>4, <2>5
  <2>. QED BY ONLY <1>4, <1>5, <1>9, <2>6, <2>7
<1>. QED BY <1>1, <1>7, <1>8, <1>9

-----------------------------------------------------------------------------
(* The life of a packet.                                                   *)

Sendable(m) == IsIntact(m) \/ (m[1] = KEEPALIVE /\ Len(m) = 4)

OnLine == stage \in {"underway", "accepted", "refused"}

PacketOK ==
  /\ stage \in {"filled", "sealed", "underway", "accepted", "refused"}
  /\ packet \in PacketType
  /\ stage \in {"filled", "sealed"} => Len(packet.payload) <= 255
  /\ stage = "sealed" => packet.crc = crc16Data(Header(packet) \o packet.payload, 0)

\* The message on the line and what has become of it.
LineOK ==
  OnLine =>
    /\ sent \in Seq(Byte) /\ Len(sent) >= 4 /\ Sendable(sent)
    /\ wire \in Seq(Byte) /\ \E k \in Int : Spoilt(sent, wire, k)
    /\ stage = "accepted" => IsIntact(wire)
    /\ stage = "refused" => ~IsIntact(wire)

\* The values lie in the payload one behind the other: value i behind the byte at[i - 1].
\* As many have been read as _cpos says.
LaidOut(at) ==
  /\ at \in [0 .. Len(in) -> Nat]
  /\ at[0] = 0 /\ at[Len(in)] = Len(packet.payload) /\ at[Len(out)] = packet._cpos
  /\ \A i \in 1 .. Len(in) :
       /\ at[i] = at[i - 1] + in[i].size
       /\ \A k \in 1 .. in[i].size :
            packet.payload[at[i - 1] + k] = BytesOf(in[i].data, in[i].size)[k]

ValuesOK ==
  /\ in \in Seq(Values) /\ (\E S : out \in Seq(S)) /\ Len(out) <= Len(in)
  /\ stage # "accepted" => out = <<>>
  /\ stage = "underway" =>
       /\ sent = Message(packet)
       /\ Len(packet.payload) <= 255
  /\ stage \in {"filled", "sealed", "underway"} \/ (stage = "accepted" /\ wire = sent)
       => \E at : LaidOut(at)
  /\ EvalOrders \subseteq {"leftFirst"} => \A k \in 1 .. Len(out) : out[k] = in[k].data

PacketInv == PacketOK /\ LineOK /\ ValuesOK

\* crc16Add keeps 16 bits.
LEMMA AddTypes == 0 \in Word /\ 0 \in Byte /\ \A b \in Byte, c \in Word : crc16Add(b, c) \in Word
<1>1. 0 \in Word
  BY DEF Word
<1>2. 0 \in Byte
  BY DEF Byte
<1>3. \A b \in Byte, c \in Word : crc16Add(b, c) \in Word
  BY AddWord
<1>. QED BY <1>1, <1>2, <1>3

\* The checksum of any bytes has 16 bits.
LEMMA DataWord == ASSUME NEW data \in Seq(Byte) PROVE crc16Data(data, 0) \in Word
<1>1. PICK f \in [0 .. Len(data) -> Word] : crc16Data(data, 0) = f[Len(data)]
  BY AddTypes, CrcSteps
<1>. QED BY <1>1

\* The checksum, as it stands in a message, is two bytes, whatever it is taken of:
\* the hypothesis of what PhoneProofs says of the commands on the line.
THEOREM TwoBytes == \A data \in Seq(Byte) : CrcBytes(data) \in Seq(Byte) /\ Len(CrcBytes(data)) = 2
<1> SUFFICES ASSUME NEW data \in Seq(Byte)
             PROVE  CrcBytes(data) \in Seq(Byte) /\ Len(CrcBytes(data)) = 2
  OBVIOUS
<1> DEFINE crc == crc16Data(data, 0)
           low == LowByte(crc)
           high == HighByte(crc)
<1>1. low \in Byte /\ high \in Byte
  BY DataWord, WordPairs
<1>2. CrcBytes(data) = <<low, high>>
  BY DEF CrcBytes
<1> HIDE DEF low, high
<1>3. <<low, high>> \in Seq(Byte) /\ Len(<<low, high>>) = 2
  BY <1>1
<1>. QED BY <1>2, <1>3

\* An empty packet with its command.
LEMMA PacketInit == InitPacket => PacketInv
<1> SUFFICES ASSUME InitPacket PROVE PacketInv
  OBVIOUS
<1>1. PICK c \in Cmds : packet = setCommand(clearPacket, c)
  BY DEF InitPacket
<1>2. /\ c \in Byte /\ <<>> \in Seq(Byte) /\ Len(<<>>) = 0
  BY PacketAssumption DEF Byte
<1>3. packet = [cmd |-> c, payload |-> <<>>, crc |-> crc16Add(c, 0), _cpos |-> 0]
  BY <1>1 DEF setCommand, clearPacket
<1>4. packet \in PacketType
  BY <1>2, <1>3, AddTypes DEF PacketType
<1>5. stage = "filled" /\ in = <<>> /\ out = <<>>
  BY DEF InitPacket
<1>6. PacketOK /\ LineOK
  BY <1>2, <1>3, <1>4, <1>5 DEF PacketOK, LineOK, OnLine
<1>7. ValuesOK
  <2> DEFINE at == [i \in 0 .. 0 |-> 0]
  <2>1. at \in [0 .. 0 -> Nat] /\ at[0] = 0
    OBVIOUS
  <2> HIDE DEF at
  <2>2. LaidOut(at)
    BY <1>2, <1>3, <1>5, <2>1 DEF LaidOut
  <2>3. Len(<<>>) = 0 /\ <<>> \in Seq(Nat) /\ <<>> \in Seq(Values)
    OBVIOUS
  <2>4. \E S : out \in Seq(S)
    BY <1>5, <2>3
  <2>. QED BY <1>5, <2>2, <2>3, <2>4 DEF ValuesOK
<1>. QED BY <1>6, <1>7 DEF PacketInv

\* A value is put behind the others.
LEMMA FillStep == ASSUME PacketInv, NEW v \in Values, Fill(v) PROVE PacketInv'
<1> DEFINE b == BytesOf(v.data, v.size)
           p == packet.payload
           q == p \o b
<1>1. /\ v.size \in {1, 2, 4} /\ v.data \in Nat /\ b \in Seq(Byte) /\ Len(b) = v.size
  BY BytesAre
<1>2. packet \in PacketType /\ p \in Seq(Byte) /\ Len(p) + v.size <= MaxPayload /\ MaxPayload <= 255
  BY PacketAssumption DEF PacketInv, PacketOK, PacketType, Fill
<1>3. packet' = [packet EXCEPT !.payload = q]
  BY DEF Fill, Put
<1>4. /\ q \in Seq(Byte) /\ Len(q) = Len(p) + Len(b)
      /\ \A k \in 1 .. Len(p) + Len(b) : q[k] = IF k <= Len(p) THEN p[k] ELSE b[k - Len(p)]
  <2>1. p \in Seq(Byte) /\ b \in Seq(Byte) /\ q = p \o b
    BY <1>1, <1>2
  <2> HIDE DEF p, b, q
  <2>. QED BY ONLY <2>1, Join
<1>5. Len(q) = Len(p) + v.size /\ Len(q) <= 255 /\ Len(p) \in Nat
  <2>1. Len(p) \in Nat /\ MaxPayload \in Nat
    BY <1>2, PacketAssumption
  <2>2. v.size \in Nat
    BY <1>1
  <2> HIDE DEF p, b, q
  <2>. QED BY ONLY <1>1, <1>2, <1>4, <2>1, <2>2
<1>6. /\ packet' \in PacketType /\ packet'.payload = q /\ packet'._cpos = packet._cpos
      /\ packet._cpos \in Nat
  BY <1>2, <1>3, <1>4 DEF PacketType
<1>7. stage = "filled" /\ stage' = "filled" /\ in' = Append(in, v) /\ out' = out /\ out = <<>>
  BY DEF Fill, PacketInv, ValuesOK
<1>8. PacketOK' /\ LineOK'
  BY <1>5, <1>6, <1>7 DEF PacketOK, LineOK, OnLine
<1>9. /\ in \in Seq(Values) /\ in' \in Seq(Values) /\ Len(in') = Len(in) + 1
      /\ \A i \in 1 .. Len(in) : in'[i] = in[i]
      /\ in'[Len(in) + 1] = v
      /\ Len(in) \in Nat
  BY <1>7 DEF PacketInv, ValuesOK
<1>10. PICK at : LaidOut(at)
  BY <1>7 DEF PacketInv, ValuesOK
<1>n. PICK n \in Nat : n = Len(in)
  BY <1>9
<1>t. PICK to : to = [i \in 0 .. n + 1 |-> IF i = n + 1 THEN at[n] + v.size ELSE at[i]]
  OBVIOUS
<1>11. LaidOut(to)'
  <2>1. /\ at \in [0 .. n -> Nat] /\ at[0] = 0 /\ at[n] = Len(p) /\ at[Len(out)] = packet._cpos
        /\ \A i \in 1 .. n : at[i] = at[i - 1] + in[i].size
        /\ \A i \in 1 .. n : \A k \in 1 .. in[i].size :
              p[at[i - 1] + k] = BytesOf(in[i].data, in[i].size)[k]
    BY <1>10, <1>n DEF LaidOut
  <2>2. \A i \in 1 .. n : in[i] \in Values /\ in[i].size \in {1, 2, 4}
    BY <1>9, <1>n, BytesAre
  <2>2a. \A i \in 1 .. n : in[i].size \in Nat
    BY <2>2
  <2>2b. \A i \in 1 .. n : at[i] = at[i - 1] + in[i].size
    BY <2>1
  <2>3. Len(out) = 0 /\ Len(out') = 0
    BY <1>7
  <2>4. to \in [0 .. n + 1 -> Nat]
    BY <1>1, <1>t, <2>1
  <2>5. to[0] = 0 /\ to[n + 1] = Len(q) /\ \A i \in 0 .. n : to[i] = at[i]
    BY <1>5, <1>t, <2>1
  <2> HIDE DEF p, q, b
  <2>6. \A i \in 1 .. n + 1 : to[i] = to[i - 1] + in'[i].size
    <3> TAKE i \in 1 .. n + 1
    <3>1. CASE i = n + 1
      BY <1>5, <1>9, <1>n, <2>1, <2>5, <3>1
    <3>2. CASE i # n + 1
      <4>1. i \in 1 .. n /\ i - 1 \in 0 .. n /\ i \in 0 .. n
        BY <1>9, <1>n, <3>2
      <4>. QED BY <1>9, <1>n, <2>1, <2>5, <4>1
    <3>. QED BY <3>1, <3>2
  <2>7. \A i \in 0 .. n : at[i] <= Len(p)
    <3> DEFINE T == {j \in Nat : j <= n => at[n - j] <= Len(p)}
    <3>1. 0 \in T
      BY <1>5, <1>9, <1>n, <2>1
    <3>2. ASSUME NEW j \in Nat, j \in T PROVE j + 1 \in T
      <4> SUFFICES ASSUME j + 1 <= n PROVE at[n - (j + 1)] <= Len(p)
        OBVIOUS
      <4>1. n - j \in 1 .. n /\ n - (j + 1) = (n - j) - 1 /\ n - (j + 1) \in 0 .. n
        BY <1>9, <1>n
      <4>2. at[n - j] <= Len(p)
        BY <3>2, <4>1
      <4> DEFINE i == n - j
      <4>3. i \in 1 .. n /\ i - 1 \in 0 .. n /\ i \in 0 .. n
        BY <4>1
      <4> HIDE DEF i
      <4>4. at[i] = at[i - 1] + in[i].size /\ in[i].size \in Nat
        BY ONLY <2>2a, <2>2b, <4>3
      <4>5. at[i - 1] \in Nat /\ at[i] \in Nat
        BY <2>1, <4>3
      <4>6. at[i - 1] <= Len(p)
        <5>1. at[i] <= Len(p)
          BY <4>2 DEF i
        <5>. QED BY ONLY <1>5, <4>4, <4>5, <5>1
      <4>. QED BY <4>1, <4>6 DEF i
    <3>3. Nat \subseteq T
      <4> HIDE DEF T
      <4>. QED BY <3>1, <3>2, NatSet
    <3> TAKE i \in 0 .. n
    <3>4. n - i \in T /\ n - i <= n /\ n - (n - i) = i
      BY <1>9, <1>n, <3>3
    <3>. QED BY <3>4
  <2>8. ASSUME NEW i \in 1 .. n + 1, NEW k \in 1 .. in'[i].size
        PROVE q[to[i - 1] + k] = BytesOf(in'[i].data, in'[i].size)[k]
    <3>1. CASE i = n + 1
      <4>1. to[i - 1] = Len(p) /\ in'[i] = v /\ k \in 1 .. v.size
        BY <1>9, <1>n, <2>1, <2>5, <2>8, <3>1
      <4>2. /\ Len(p) + k \in 1 .. Len(p) + Len(b) /\ ~(Len(p) + k <= Len(p))
            /\ (Len(p) + k) - Len(p) = k
        BY <1>1, <1>5, <4>1
      <4>3. q[Len(p) + k] = b[k]
        BY <1>4, <4>2
      <4>. QED BY <4>1, <4>3 DEF b
    <3>2. CASE i # n + 1
      <4>1. i \in 1 .. n /\ i - 1 \in 0 .. n /\ i \in 0 .. n
        BY <1>9, <1>n, <3>2
      <4>2. to[i - 1] = at[i - 1] /\ in'[i] = in[i] /\ k \in 1 .. in[i].size
        BY <1>9, <1>n, <2>5, <2>8, <4>1
      <4>3. at[i - 1] + k <= at[i] /\ at[i] <= Len(p) /\ at[i - 1] \in Nat /\ at[i] \in Nat
        <5>1. at[i - 1] \in Nat /\ at[i] \in Nat /\ at[i] <= Len(p)
          BY <2>1, <2>7, <4>1
        <5>2. in[i].size \in Nat /\ at[i] = at[i - 1] + in[i].size
          BY ONLY <2>2a, <2>2b, <4>1
        <5>. QED BY ONLY <4>2, <5>1, <5>2
      <4>4. at[i - 1] + k \in 1 .. Len(p) + Len(b) /\ at[i - 1] + k <= Len(p)
        <5>1. in[i].size \in Nat /\ Len(b) \in Nat
          BY <1>1, <2>2, <4>1
        <5>2. k \in 1 .. in[i].size
          BY <4>2
        <5>. QED BY ONLY <1>5, <4>3, <5>1, <5>2
      <4>5. q[at[i - 1] + k] = p[at[i - 1] + k]
        BY <1>4, <4>4
      <4>. QED BY <2>1, <4>1, <4>2, <4>5
    <3>. QED BY <3>1, <3>2
  <2>9. to[Len(out')] = packet'._cpos
    BY <1>6, <2>1, <2>3, <2>5
  <2>10. packet'.payload = q /\ Len(in') = n + 1
    BY <1>6, <1>9, <1>n DEF q
  <2>. QED BY <2>4, <2>5, <2>6, <2>8, <2>9, <2>10 DEF LaidOut
<1>12. ValuesOK'
  <2>1. Len(<<>>) = 0 /\ <<>> \in Seq(Nat)
    OBVIOUS
  <2>. QED BY <1>7, <1>9, <1>n, <1>11, <2>1 DEF ValuesOK
<1>. QED BY <1>8, <1>12 DEF PacketInv

\* The checksum is put in, and the values stay where they are.
LEMMA SealStep == ASSUME PacketInv, Seal PROVE PacketInv'
<1>1. /\ stage = "filled" /\ stage' = "sealed" /\ packet' = updateCrc(packet)
      /\ in' = in /\ out' = out
  BY DEF Seal
<1>2. packet \in PacketType /\ Len(packet.payload) <= 255
  BY <1>1 DEF PacketInv, PacketOK
<1> DEFINE crc == crc16Data(Header(packet) \o packet.payload, 0)
<1>3. crc \in Word
  <2>1. Header(packet) \o packet.payload \in Seq(Byte)
    BY <1>2, MessageIs
  <2>. QED BY <2>1, DataWord
<1>4. /\ packet' \in PacketType /\ packet'.crc = crc
      /\ packet'.cmd = packet.cmd /\ packet'.payload = packet.payload
      /\ packet'._cpos = packet._cpos
  <2>1. packet' = [packet EXCEPT !.crc = crc]
    BY <1>1 DEF updateCrc
  <2> HIDE DEF crc
  <2>. QED BY ONLY <1>2, <1>3, <2>1 DEF PacketType
<1>5. Header(packet') = Header(packet)
  BY <1>4 DEF Header
<1>6. PacketOK'
  BY <1>1, <1>2, <1>4, <1>5 DEF PacketOK
<1>7. LineOK'
  BY <1>1 DEF LineOK, OnLine
<1>8. ValuesOK'
  <2>1. PICK at : LaidOut(at)
    BY <1>1 DEF PacketInv, ValuesOK
  <2>2. LaidOut(at)'
    BY <1>1, <1>4, <2>1 DEF LaidOut
  <2>. QED BY <1>1, <2>2 DEF PacketInv, ValuesOK
<1>. QED BY <1>6, <1>7, <1>8 DEF PacketInv

\* What is sent has the checksum that belongs to it, unless ESPSendKeepAliveMSG
\* sends it.
LEMMA TransmitStep ==
  ASSUME PacketInv, Send \/ ESPSendKeepAliveMSG
  PROVE  PacketInv'
<1>1. /\ stage \in {"filled", "sealed"} /\ stage' = "underway"
      /\ sent' = Message(packet) /\ wire' = Message(packet)
      /\ packet' = packet /\ in' = in /\ out' = out
  BY DEF Send, ESPSendKeepAliveMSG, Transmit
<1>2. packet \in PacketType /\ Len(packet.payload) <= 255
  BY <1>1 DEF PacketInv, PacketOK
<1> DEFINE m == Message(packet)
           n == Len(packet.payload)
<1>3. /\ m \in Seq(Byte) /\ Len(m) = n + 4 /\ m[1] = packet.cmd /\ m[2] = n
      /\ m[n + 3] = LowByte(packet.crc) /\ m[n + 4] = HighByte(packet.crc)
      /\ SubSeq(m, 1, Len(m) - 2) = Header(packet) \o packet.payload
      /\ n \in Nat /\ packet.crc \in Word
  <2>1. n \in Nat /\ packet.crc \in Word
    BY <1>2 DEF PacketType
  <2>. QED BY <1>2, <2>1, MessageIs
<1>4. Sendable(m)
  <2>1. CASE Send
    <3>1. packet.crc = crc16Data(Header(packet) \o packet.payload, 0)
      BY <2>1 DEF Send, PacketInv, PacketOK
    <3>2. m[n + 3] + 256 * m[n + 4] = packet.crc
      <4>1. /\ HighByte(packet.crc) \in Byte /\ LowByte(packet.crc) \in Byte
            /\ packet.crc = Pair(HighByte(packet.crc), LowByte(packet.crc))
        BY <1>3, WordPairs
      <4> DEFINE h == HighByte(packet.crc)
                 l == LowByte(packet.crc)
      <4>2. h \in Int /\ l \in Int
        BY <4>1, ByteIs
      <4>3. packet.crc = 256 * h + l
        BY <4>1 DEF Pair
      <4> HIDE DEF h, l
      <4>4. l + 256 * h = packet.crc
        BY ONLY <4>2, <4>3
      <4>. QED BY <1>3, <4>4 DEF h, l
    <3> HIDE DEF m, n
    <3>3. (Len(m) - 2) + 1 = n + 3 /\ (Len(m) - 2) + 2 = n + 4 /\ m[2] + 4 = Len(m)
      BY <1>3
    <3>4. IsIntact(m)
      BY <1>3, <3>1, <3>2, <3>3 DEF IsIntact
    <3>. QED BY <3>4 DEF Sendable
  <2>2. CASE ESPSendKeepAliveMSG
    <3>1. packet.cmd = KEEPALIVE /\ n = 0
      BY <2>2 DEF ESPSendKeepAliveMSG
    <3>. QED BY <1>3, <3>1 DEF Sendable
  <2>. QED BY <2>1, <2>2
<1>5. Spoilt(m, m, 0)
  BY DEF Spoilt
<1>6. sent' = m /\ wire' = m
  BY <1>1
<1>7. PacketOK'
  BY <1>1, <1>2 DEF PacketOK
<1>8. LineOK'
  <2>1. Len(m) >= 4
    BY <1>3
  <2> HIDE DEF m
  <2>. QED BY <1>1, <1>3, <1>4, <1>5, <1>6, <2>1 DEF LineOK, OnLine
<1>9. ValuesOK'
  <2>1. PICK at : LaidOut(at)
    BY <1>1 DEF PacketInv, ValuesOK
  <2>2. LaidOut(at)'
    BY <1>1, <2>1 DEF LaidOut
  <2>3. out = <<>>
    BY <1>1 DEF PacketInv, ValuesOK
  <2>. QED BY <1>1, <1>2, <2>2, <2>3 DEF PacketInv, ValuesOK
<1>. QED BY <1>7, <1>8, <1>9 DEF PacketInv

\* The line spoils a byte, or the one behind a spoilt one.
LEMMA SpoilStep ==
  ASSUME PacketInv, NEW k \in DOMAIN wire, NEW e \in Errors, Spoil(k, e)
  PROVE  PacketInv'
<1>1. /\ stage = "underway" /\ stage' = "underway" /\ packet' = packet
      /\ sent' = sent /\ in' = in /\ out' = out
      /\ \A j \in DOMAIN wire : wire[j] # sent[j] => j = k - 1
      /\ wire' = [wire EXCEPT ![k] = XorByte(wire[k], e)]
  BY DEF Spoil
<1>2. /\ sent \in Seq(Byte) /\ Len(sent) >= 4 /\ Sendable(sent)
      /\ wire \in Seq(Byte) /\ Len(wire) = Len(sent)
  BY <1>1 DEF PacketInv, LineOK, OnLine, Spoilt
<1>3. k \in 1 .. Len(wire) /\ wire[k] \in Byte /\ e \in Byte
  <2>1. k \in 1 .. Len(wire)
    BY <1>2
  <2>2. e \in Byte
    BY PacketAssumption, ByteIs
  <2>. QED BY <1>2, <2>1, <2>2
<1>4. XorByte(wire[k], e) \in Byte
  BY <1>3, XorIn
<1>5. /\ wire' \in Seq(Byte) /\ Len(wire') = Len(wire)
      /\ \A j \in 1 .. Len(wire) : j # k => wire'[j] = wire[j]
  BY <1>1, <1>2, <1>3, <1>4
<1>6. Spoilt(sent, wire', k)
  <2>1. \A j \in 1 .. Len(sent) : wire'[j] # sent[j] => j = k - 1 \/ j = k
    BY <1>1, <1>2, <1>5
  <2>. QED BY <1>2, <1>5, <2>1 DEF Spoilt
<1>7. PacketOK'
  BY <1>1 DEF PacketInv, PacketOK
<1>8. LineOK'
  <2>1. k \in Int
    BY <1>3
  <2>. QED BY <1>1, <1>2, <1>5, <1>6, <2>1 DEF LineOK, OnLine
<1>9. ValuesOK'
  <2>1. PICK at : LaidOut(at)
    BY <1>1 DEF PacketInv, ValuesOK
  <2>2. LaidOut(at)'
    BY <1>1, <2>1 DEF LaidOut
  <2>. QED BY <1>1, <2>2 DEF PacketInv, ValuesOK
<1>. QED BY <1>7, <1>8, <1>9 DEF PacketInv

\* Of a message that was not spoilt the receiver makes the packet that was sent.
LEMMA ReceiveStep == ASSUME PacketInv, Receive PROVE PacketInv'
<1>1. /\ stage = "underway" /\ sent' = sent /\ wire' = wire /\ in' = in /\ out' = out
      /\ \/ IsIntact(wire) /\ stage' = "accepted" /\ packet' = Received(wire)
         \/ ~IsIntact(wire) /\ stage' = "refused" /\ packet' = packet
  BY DEF Receive
<1>2. packet \in PacketType /\ wire \in Seq(Byte) /\ Len(wire) >= 4
  BY <1>1 DEF PacketInv, PacketOK, LineOK, OnLine, Spoilt
<1>3. Received(wire) \in PacketType
  <2> DEFINE n == Len(wire)
             h == wire[n]
             l == wire[n - 1]
             s == SubSeq(wire, 3, n - 2)
  <2>1. n \in Nat /\ 1 \in 1 .. n /\ n - 1 \in 1 .. n /\ n \in 1 .. n
    BY <1>2
  <2>2. wire[1] \in Byte /\ h \in Byte /\ l \in Byte /\ s \in Seq(Byte)
    <3>1. wire[1] \in Byte /\ h \in Byte /\ l \in Byte
      BY <1>2, <2>1
    <3>2. s \in Seq(Byte)
      BY <1>2
    <3>. QED BY <3>1, <3>2
  <2>3. Received(wire) = [cmd |-> wire[1], payload |-> s, crc |-> l + 256 * h, _cpos |-> 0]
    BY DEF Received
  <2> HIDE DEF n, h, l, s
  <2>4. l + 256 * h = Pair(h, l)
    <3>1. h \in Int /\ l \in Int
      BY <2>2, ByteIs
    <3>. QED BY ONLY <3>1 DEF Pair
  <2>5. l + 256 * h \in Word
    BY <2>2, <2>4, WordPairs
  <2>. QED BY ONLY <2>2, <2>3, <2>5 DEF PacketType
<1>4. PacketOK'
  BY <1>1, <1>2, <1>3 DEF PacketOK
<1>5. LineOK'
  BY <1>1 DEF PacketInv, LineOK, OnLine
<1>6. ASSUME stage' = "accepted", wire = sent
      PROVE  \E at : LaidOut(at)'
  <2>1. PICK at : LaidOut(at)
    BY <1>1 DEF PacketInv, ValuesOK
  <2>2. out = <<>> /\ sent = Message(packet) /\ Len(packet.payload) <= 255
    BY <1>1 DEF PacketInv, ValuesOK
  <2>3. SubSeq(wire, 3, Len(wire) - 2) = packet.payload
    BY <1>2, <1>6, <2>2, MessageIs
  <2>4. packet'.payload = packet.payload /\ packet'._cpos = 0
    <3>1. packet' = Received(wire)
      BY <1>1, <1>6
    <3>2. Received(wire).payload = SubSeq(wire, 3, Len(wire) - 2) /\ Received(wire)._cpos = 0
      BY DEF Received
    <3>. QED BY <2>3, <3>1, <3>2
  <2>5. Len(out) = 0
    BY <2>2
  <2>6. LaidOut(at)'
    BY <1>1, <2>1, <2>4, <2>5 DEF LaidOut
  <2>. QED BY <2>6
<1>7. ValuesOK'
  BY <1>1, <1>6 DEF PacketInv, ValuesOK
<1>. QED BY <1>4, <1>5, <1>7 DEF PacketInv

\* The next value is read from where its bytes lie.
LEMMA ReadStep ==
  ASSUME PacketInv, NEW order \in EvalOrders, Read(order)
  PROVE  PacketInv'
<1> DEFINE n == Len(out)
           v == in[n + 1]
<1>1. /\ stage = "accepted" /\ stage' = "accepted" /\ wire = sent /\ n < Len(in)
      /\ sent' = sent /\ wire' = wire /\ in' = in
      /\ out' = Append(out, Get(packet, v.size, order))
      /\ packet' = [packet EXCEPT !._cpos = packet._cpos + v.size]
  BY DEF Read
<1>2. /\ packet \in PacketType /\ in \in Seq(Values) 
  BY DEF PacketInv, PacketOK, ValuesOK
<1>2a. PICK S : out \in Seq(S)
  BY DEF PacketInv, ValuesOK
<1>3. n \in Nat /\ n + 1 \in 1 .. Len(in) /\ (n + 1) - 1 = n
  BY <1>1, <1>2, <1>2a
<1>4. v \in Values /\ v.size \in Nat /\ v.data \in Nat
  <2>1. v \in Values
    BY <1>2, <1>3
  <2>. QED BY <2>1, BytesAre
<1>5. PICK at : LaidOut(at)
  BY <1>1 DEF PacketInv, ValuesOK
<1>6. /\ at[n] = packet._cpos /\ at[n + 1] = at[n] + v.size
      /\ \A k \in 1 .. v.size : packet.payload[at[n] + k] = BytesOf(v.data, v.size)[k]
  <2>1. at[n] = packet._cpos
    BY <1>5 DEF LaidOut
  <2>2. /\ at[n + 1] = at[(n + 1) - 1] + in[n + 1].size
        /\ \A k \in 1 .. in[n + 1].size :
             packet.payload[at[(n + 1) - 1] + k] = BytesOf(in[n + 1].data, in[n + 1].size)[k]
    BY <1>3, <1>5 DEF LaidOut
  <2>. QED BY <1>3, <2>1, <2>2
<1>7. packet._cpos \in Nat
  BY <1>2 DEF PacketType
<1>8. EvalOrders \subseteq {"leftFirst"} => Get(packet, v.size, order) = v.data
  <2> SUFFICES ASSUME EvalOrders \subseteq {"leftFirst"} PROVE Get(packet, v.size, order) = v.data
    OBVIOUS
  <2>1. order = "leftFirst"
    OBVIOUS
  <2>. QED BY <1>4, <1>6, <1>7, <2>1, ReadsBack
<1>9. /\ packet' \in PacketType /\ packet'._cpos = at[n + 1] /\ packet'.payload = packet.payload
  <2>1. packet._cpos + v.size \in Nat /\ packet._cpos + v.size = at[n + 1]
    BY <1>4, <1>6, <1>7
  <2> HIDE DEF v, n
  <2>. QED BY <1>1, <1>2, <2>1 DEF PacketType
<1>10. /\ \E T : out' \in Seq(T)
       /\ Len(out') = n + 1
       /\ \A k \in 1 .. n : out'[k] = out[k]
       /\ out'[n + 1] = Get(packet, v.size, order)
  <2> DEFINE x == Get(packet, v.size, order)
             T == S \cup {x}
  <2>1. out \in Seq(T) /\ x \in T /\ out' = Append(out, x)
    BY <1>1, <1>2a
  <2> HIDE DEF x, T
  <2>2. out' \in Seq(T)
    BY <2>1
  <2>3. Len(out') = n + 1 /\ out'[n + 1] = x /\ \A k \in 1 .. n : out'[k] = out[k]
    BY <2>1
  <2>. QED BY <2>2, <2>3 DEF x
<1>11. PacketOK'
  BY <1>1, <1>9 DEF PacketOK
<1>12. LineOK'
  BY <1>1 DEF PacketInv, LineOK, OnLine
<1>13. LaidOut(at)'
  BY <1>1, <1>5, <1>9, <1>10 DEF LaidOut
<1>14. ValuesOK'
  <2>1. ASSUME EvalOrders \subseteq {"leftFirst"}, NEW k \in 1 .. Len(out')
        PROVE  out'[k] = in[k].data
    <3>1. k \in 1 .. n \/ k = n + 1
      BY <1>3, <1>10
    <3>2. k \in 1 .. n => out[k] = in[k].data
      BY <2>1 DEF PacketInv, ValuesOK
    <3>. QED BY <1>8, <1>10, <2>1, <3>1, <3>2
  <2>2. Len(out') <= Len(in)
    BY <1>1, <1>3, <1>10
  <2>. QED BY <1>1, <1>2, <1>10, <1>13, <2>1, <2>2 DEF ValuesOK
<1>. QED BY <1>11, <1>12, <1>14 DEF PacketInv

\* Every step keeps the invariant.
LEMMA PacketInduct == PacketInv /\ [PacketNext]_packetVars => PacketInv'
<1> SUFFICES ASSUME PacketInv, [PacketNext]_packetVars PROVE PacketInv'
  OBVIOUS
<1>1. CASE \E v \in Values : Fill(v)
  BY <1>1, FillStep
<1>2. CASE Seal
  BY <1>2, SealStep
<1>3. CASE Send \/ ESPSendKeepAliveMSG
  BY <1>3, TransmitStep
<1>4. CASE \E k \in DOMAIN wire, e \in Errors : Spoil(k, e)
  BY <1>4, SpoilStep
<1>5. CASE Receive
  BY <1>5, ReceiveStep
<1>6. CASE \E order \in EvalOrders : Read(order)
  BY <1>6, ReadStep
<1>7. CASE UNCHANGED packetVars
  <2>1. stage' = stage /\ packet' = packet /\ sent' = sent /\ wire' = wire /\ in' = in /\ out' = out
    BY <1>7 DEF packetVars
  <2>. QED BY <2>1 DEF PacketInv, PacketOK, LineOK, OnLine, ValuesOK, LaidOut
<1>. QED BY <1>1, <1>2, <1>3, <1>4, <1>5, <1>6, <1>7 DEF PacketNext



-----------------------------------------------------------------------------
(* The theorems about packets.                                             *)

\* The inductive invariant of the life of a packet.
THEOREM PacketInvariance == PacketSpec => []PacketInv
<1>1. InitPacket => PacketInv
  BY PacketInit
<1>2. PacketInv /\ [PacketNext]_packetVars => PacketInv'
  BY PacketInduct
<1>. QED BY <1>1, <1>2, PTL DEF PacketSpec

\* The shifts of crc16Add are the division by the polynomial, whatever the packet.
THEOREM Division == PacketSpec => []IsDivision
<1>1. PacketInv => IsDivision
  <2> SUFFICES ASSUME PacketInv, stage = "sealed"
               PROVE  packet.crc = Remainder(Header(packet) \o packet.payload)
    BY DEF IsDivision
  <2>1. /\ packet \in PacketType /\ Len(packet.payload) <= 255
        /\ packet.crc = crc16Data(Header(packet) \o packet.payload, 0)
    BY DEF PacketInv, PacketOK
  <2>2. Header(packet) \o packet.payload \in Seq(Byte)
    BY <2>1, MessageIs
  <2>. QED BY <2>1, <2>2, CrcIsRemainder
<1>. QED BY <1>1, PacketInvariance, PTL

\* Damage to one byte or to two neighbours is noticed, in messages of every length and
\* whatever the damage, but for the one pattern of Unnoticed.
THEOREM Damage == PacketSpec => []DamageDetected
<1>1. PacketInv => DamageDetected
  <2> SUFFICES ASSUME PacketInv PROVE DamageDetected
    OBVIOUS
  <2>1. ASSUME stage = "accepted", IsIntact(sent)
        PROVE  wire = sent \/ wire = Unnoticed(sent)
    <3>1. /\ sent \in Seq(Byte) /\ Len(sent) >= 4 /\ wire \in Seq(Byte) /\ IsIntact(wire)
          /\ \E k \in Int : Spoilt(sent, wire, k)
      BY <2>1 DEF PacketInv, LineOK, OnLine
    <3>2. Len(sent) > 2
      BY <3>1
    <3>. QED BY <2>1, <3>1, <3>2, Detected
  <2>2. ASSUME stage = "refused", wire = sent
        PROVE  sent[1] = KEEPALIVE /\ Len(sent) = 4
    BY <2>2 DEF PacketInv, LineOK, OnLine, Sendable
  <2>. QED BY <2>1, <2>2 DEF DamageDetected
<1>. QED BY <1>1, PacketInvariance, PTL

\* What is read from an accepted packet is what was put in, of any values in any
\* number, if the increments of _cpos are evaluated from left to right.
THEOREM ReadBack ==
  ASSUME EvalOrders \subseteq {"leftFirst"}
  PROVE  PacketSpec => []RoundTrip
<1>1. PacketInv => RoundTrip
  <2> SUFFICES ASSUME PacketInv, NEW k \in DOMAIN out PROVE out[k] = in[k].data
    BY DEF RoundTrip
  <2>1. PICK S : out \in Seq(S)
    BY DEF PacketInv, ValuesOK
  <2>2. k \in 1 .. Len(out)
    BY <2>1
  <2>. QED BY <2>2 DEF PacketInv, ValuesOK
<1>. QED BY <1>1, PacketInvariance, PTL
=============================================================================

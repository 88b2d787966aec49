-------------------------- MODULE SensorBarProofs --------------------------
(***************************************************************************)
(* The measurement for any number of sensors, wired in any way and         *)
(* measured in any order, when no interrupt takes as long as a trigger.    *)
(***************************************************************************)
EXTENDS SensorBar, TLAPS

active == currently_active_sensor
Waiting == pc \in {"wait", "look"}

\* The sensor being measured is the one the loop has come to.
OrderOK == pc # "idle" => i \in 1 .. NUM_SENSORS /\ active = sensor_order[i]

\* The multiplexer has been switched as far as the loop has come.
LineOK ==
  /\ pc = "select1" => line % 2 = mux_map[active] % 2
  /\ pc = "select2" => line % 4 = mux_map[active] % 4
  /\ pc \in {"start", "raise", "clear", "wait", "look", "compute"} => line = mux_map[active]

\* The timer runs while the trigger pin is high, and the wait for the echo only
\* ends when it has expired.
TimerOK ==
  /\ pc = "raise" => tim1 = "running"
  /\ pc = "clear" => tim1 = "running" /\ pin[active]
  /\ Waiting /\ tim1 # "off" => pin[active] /\ ~expired
  /\ pc \notin {"raise", "clear", "wait", "look"} => tim1 = "off"

\* A sensor that is not idle is the one being measured, or a timeout has been
\* noted, which will switch all of them off; those still to be measured are idle.
LateOK ==
  /\ \A k \in Sensors :
        echo[k] # "idle" => need_restart \/ (Waiting /\ k = active /\ tim1 = "off")
  /\ pc # "idle" => \A n \in i + 1 .. NUM_SENSORS : echo[sensor_order[n]] = "idle"
  /\ pc \in {"select0", "select1", "select2", "start", "raise", "clear"}
       \/ (Waiting /\ tim1 # "off") => echo[active] = "idle"

\* From the start of the wait on, the edges are those of the active sensor: before
\* its pulse, during it, after it, and when the handler has seen both edges.
Before == echo[active] # "high" /\ ~cc2 /\ ~cc1 /\ ~sensor_read_done
Rising == IF cc2 THEN ccr2 = active ELSE cnt1 = active
During == echo[active] = "high" /\ Rising /\ ~cc1 /\ ~sensor_read_done
Fallen == echo[active] = "idle" /\ Rising /\ cc1 /\ ccr1 = active /\ ~sensor_read_done
Seen == echo[active] = "idle" /\ ~cc2 /\ ~cc1 /\ sensor_read_done

CaptureOK ==
  Waiting \/ pc = "compute" =>
    /\ Before \/ During \/ Fallen \/ Seen
    /\ Fallen \/ Seen => tim1 = "off"
    /\ Seen => pulse_duration = <<active, active>>
               \/ (pc = "compute" /\ pulse_duration = Timeout)
    /\ pc = "compute" /\ ~Seen => pulse_duration = Timeout

IInv ==
  /\ TypeOK /\ OrderOK /\ LineOK /\ TimerOK /\ LateOK /\ CaptureOK
  /\ TriggerEnds /\ ReadingsAreOwn

-----------------------------------------------------------------------------
(* The multiplexer and the capture unit.                                   *)

LEMMA Wiring ==
  /\ NUM_SENSORS \in Nat /\ NUM_SENSORS >= 1
  /\ \A k \in Sensors : mux_map[k] \in 0 .. 7
  /\ \A j, k \in Sensors : mux_map[j] = mux_map[k] => j = k
  /\ \A n \in 1 .. NUM_SENSORS : sensor_order[n] \in Sensors
  /\ \A m, n \in 1 .. NUM_SENSORS : sensor_order[m] = sensor_order[n] => m = n
  BY SensorAssumption

\* On the line of a sensor only that sensor is heard.
LEMMA OwnLine ==
  ASSUME NEW k \in Sensors, NEW e
  PROVE  Input(mux_map[k], e) <=> e[k] = "high"
  BY Wiring DEF Input

LEMMA Captured ==
  ASSUME NEW to, NEW e, NEW edge, Change(to, e, edge)
  PROVE  /\ line' = to /\ echo' = e
         /\ Input(to, e) /\ ~Input(line, echo)
              => cc2' = TRUE /\ ccr2' = edge /\ cc1' = cc1 /\ ccr1' = ccr1
         /\ Input(line, echo) /\ ~Input(to, e)
              => cc1' = TRUE /\ ccr1' = edge /\ cc2' = cc2 /\ ccr2' = ccr2
         /\ (Input(line, echo) <=> Input(to, e)) => UNCHANGED <<cc1, cc2, ccr1, ccr2>>
<1>1. CASE Input(to, e) /\ ~Input(line, echo)
  BY <1>1 DEF Change
<1>2. CASE Input(line, echo) /\ ~Input(to, e)
  BY <1>2 DEF Change
<1>3. CASE Input(line, echo) <=> Input(to, e)
  BY <1>3 DEF Change, capture
<1>. QED BY <1>1, <1>2, <1>3

LEMMA CapturedType ==
  ASSUME TypeOK, NEW to, NEW e, NEW edge \in Edges, Change(to, e, edge)
  PROVE  cc1' \in BOOLEAN /\ cc2' \in BOOLEAN /\ ccr1' \in Edges /\ ccr2' \in Edges
<1>1. cc1 \in BOOLEAN /\ cc2 \in BOOLEAN /\ ccr1 \in Edges /\ ccr2 \in Edges
  BY DEF TypeOK
<1>2. CASE Input(to, e) /\ ~Input(line, echo)
  BY <1>1, <1>2 DEF Change
<1>3. CASE Input(line, echo) /\ ~Input(to, e)
  BY <1>1, <1>3 DEF Change
<1>4. CASE Input(line, echo) <=> Input(to, e)
  BY <1>1, <1>4 DEF Change, capture
<1>. QED BY <1>2, <1>3, <1>4

\* Line a with one of its bits from line b.  Three bits make a line.
WithBit(a, b, bit) == a + bit * (((b \div bit) % 2) - ((a \div bit) % 2))

LEMMA Bits ==
  ASSUME NEW a \in 0 .. 7, NEW b \in 0 .. 7
  PROVE  /\ WithBit(a, b, 1) \in 0 .. 7 /\ WithBit(a, b, 1) % 2 = b % 2
         /\ a % 2 = b % 2 => WithBit(a, b, 2) \in 0 .. 7 /\ WithBit(a, b, 2) % 4 = b % 4
         /\ a % 4 = b % 4 => WithBit(a, b, 4) = b
<1>1. ASSUME NEW n \in 0 .. 7
      PROVE  \E x, y, z \in {0, 1} : n = x + 2 * y + 4 * z
  <2>1. n \in {0, 1, 2, 3, 4, 5, 6, 7}
    OBVIOUS
  <2>. QED BY <2>1
<1>2. ASSUME NEW x \in {0, 1}, NEW y \in {0, 1}, NEW z \in {0, 1}
      PROVE  LET n == x + 2 * y + 4 * z
             IN  /\ n % 2 = x /\ n % 4 = x + 2 * y /\ n \in 0 .. 7
                 /\ (n \div 1) % 2 = x /\ (n \div 2) % 2 = y /\ (n \div 4) % 2 = z
  <2>1. x = 0 \/ x = 1
    OBVIOUS
  <2>2. y = 0 \/ y = 1
    OBVIOUS
  <2>3. z = 0 \/ z = 1
    OBVIOUS
  <2>. QED BY <2>1, <2>2, <2>3
<1>3. PICK x, y, z \in {0, 1} : a = x + 2 * y + 4 * z
  BY <1>1
<1>4. PICK u, v, w \in {0, 1} : b = u + 2 * v + 4 * w
  BY <1>1
<1>5. /\ a % 2 = x /\ a % 4 = x + 2 * y
      /\ (a \div 1) % 2 = x /\ (a \div 2) % 2 = y /\ (a \div 4) % 2 = z
  BY <1>2, <1>3
<1>6. /\ b % 2 = u /\ b % 4 = u + 2 * v
      /\ (b \div 1) % 2 = u /\ (b \div 2) % 2 = v /\ (b \div 4) % 2 = w
  BY <1>2, <1>4
<1>7. /\ a + 1 * (u - x) = u + 2 * y + 4 * z
      /\ a + 2 * (v - y) = x + 2 * v + 4 * z
      /\ a + 4 * (w - z) = x + 2 * y + 4 * w
  BY <1>3
<1>8. /\ (u + 2 * y + 4 * z) % 2 = u /\ (x + 2 * v + 4 * z) % 4 = x + 2 * v
      /\ u + 2 * y + 4 * z \in 0 .. 7 /\ x + 2 * v + 4 * z \in 0 .. 7
  BY <1>2
<1>9. /\ WithBit(a, b, 1) = u + 2 * y + 4 * z
      /\ WithBit(a, b, 2) = x + 2 * v + 4 * z
      /\ WithBit(a, b, 4) = x + 2 * y + 4 * w
  <2>1. /\ ((b \div 1) % 2) - ((a \div 1) % 2) = u - x
        /\ ((b \div 2) % 2) - ((a \div 2) % 2) = v - y
        /\ ((b \div 4) % 2) - ((a \div 4) % 2) = w - z
    BY <1>5, <1>6
  <2>. QED BY <2>1, <1>7 DEF WithBit
<1>10. a % 2 = b % 2 => x = u
  BY <1>5, <1>6
<1>11. a % 4 = b % 4 => x = u /\ y = v
  BY <1>5, <1>6
<1>. QED BY <1>4, <1>6, <1>8, <1>9, <1>10, <1>11

-----------------------------------------------------------------------------
(* The steps of the main thread.                                           *)

LEMMA StartTimerStep == ASSUME IInv, StartTimer PROVE IInv'
<1>1. TypeOK /\ OrderOK /\ LineOK /\ TimerOK /\ LateOK /\ CaptureOK
      /\ TriggerEnds /\ ReadingsAreOwn
  BY DEF IInv
<1>2. TypeOK'
  BY <1>1 DEF StartTimer, Main, result, capture, TypeOK, OrderOK, active
<1>3. OrderOK'
  BY <1>1 DEF StartTimer, Main, result, capture, OrderOK, active
<1>4. LineOK'
  BY <1>1 DEF StartTimer, Main, result, capture, LineOK, active, TypeOK
<1>5. TimerOK'
  BY <1>1 DEF StartTimer, Main, result, capture, TimerOK, Waiting, active,
     TypeOK
<1>6. LateOK'
  BY <1>1 DEF StartTimer, Main, result, capture, LateOK, Waiting, active,
     TypeOK, OrderOK
<1>7. CaptureOK'
  BY <1>1 DEF StartTimer, Main, result, capture, CaptureOK, Before, During,
     Fallen, Seen, Rising, Waiting, active, TypeOK, TimerOK, LateOK, LineOK
<1>8. TriggerEnds'
  BY <1>1 DEF StartTimer, Main, result, capture, TriggerEnds, TypeOK, TimerOK,
     Waiting, active
<1>9. ReadingsAreOwn'
  BY <1>1 DEF StartTimer, Main, result, capture, ReadingsAreOwn, TypeOK
<1>. QED BY <1>2, <1>3, <1>4, <1>5, <1>6, <1>7, <1>8, <1>9 DEF IInv

LEMMA RaisePinStep == ASSUME IInv, RaisePin PROVE IInv'
<1>1. TypeOK /\ OrderOK /\ LineOK /\ TimerOK /\ LateOK /\ CaptureOK
      /\ TriggerEnds /\ ReadingsAreOwn
  BY DEF IInv
<1>2. TypeOK'
  BY <1>1 DEF RaisePin, Main, result, capture, TypeOK, OrderOK, active
<1>3. OrderOK'
  BY <1>1 DEF RaisePin, Main, result, capture, OrderOK, active
<1>4. LineOK'
  BY <1>1 DEF RaisePin, Main, result, capture, LineOK, active, TypeOK
<1>5. TimerOK'
  BY <1>1 DEF RaisePin, Main, result, capture, TimerOK, Waiting, active,
     TypeOK
<1>6. LateOK'
  BY <1>1 DEF RaisePin, Main, result, capture, LateOK, Waiting, active,
     TypeOK, OrderOK
<1>7. CaptureOK'
  BY <1>1 DEF RaisePin, Main, result, capture, CaptureOK, Before, During,
     Fallen, Seen, Rising, Waiting, active, TypeOK, TimerOK, LateOK, LineOK
<1>8. TriggerEnds'
  BY <1>1 DEF RaisePin, Main, result, capture, TriggerEnds, TypeOK, TimerOK,
     Waiting, active
<1>9. ReadingsAreOwn'
  BY <1>1 DEF RaisePin, Main, result, capture, ReadingsAreOwn, TypeOK
<1>. QED BY <1>2, <1>3, <1>4, <1>5, <1>6, <1>7, <1>8, <1>9 DEF IInv

LEMMA ClearDoneStep == ASSUME IInv, ClearDone PROVE IInv'
<1>1. TypeOK /\ OrderOK /\ LineOK /\ TimerOK /\ LateOK /\ CaptureOK
      /\ TriggerEnds /\ ReadingsAreOwn
  BY DEF IInv
<1>2. TypeOK'
  BY <1>1 DEF ClearDone, Main, capture, TypeOK, OrderOK, active
<1>3. OrderOK'
  BY <1>1 DEF ClearDone, Main, capture, OrderOK, active
<1>4. LineOK'
  BY <1>1 DEF ClearDone, Main, capture, LineOK, active, TypeOK
<1>5. TimerOK'
  BY <1>1 DEF ClearDone, Main, capture, TimerOK, Waiting, active, TypeOK
<1>6. LateOK'
  BY <1>1 DEF ClearDone, Main, capture, LateOK, Waiting, active, TypeOK,
     OrderOK
<1>7. CaptureOK'
  <2>1. Before'
    BY <1>1 DEF ClearDone, Main, IrqPending, capture, LateOK, TypeOK, Before, Waiting, active
  <2>. QED BY <2>1 DEF ClearDone, Main, CaptureOK, Before, Fallen, Seen, Waiting
<1>8. TriggerEnds'
  BY <1>1 DEF ClearDone, Main, capture, TriggerEnds, TypeOK, TimerOK, Waiting,
     active
<1>9. ReadingsAreOwn'
  BY <1>1 DEF ClearDone, Main, capture, ReadingsAreOwn, TypeOK
<1>. QED BY <1>2, <1>3, <1>4, <1>5, <1>6, <1>7, <1>8, <1>9 DEF IInv

LEMMA WaitLookStep == ASSUME IInv, WaitLook PROVE IInv'
<1>1. TypeOK /\ OrderOK /\ LineOK /\ TimerOK /\ LateOK /\ CaptureOK
      /\ TriggerEnds /\ ReadingsAreOwn
  BY DEF IInv
<1>2. TypeOK'
  BY <1>1 DEF WaitLook, Main, result, capture, TypeOK, OrderOK, active
<1>3. OrderOK'
  BY <1>1 DEF WaitLook, Main, result, capture, OrderOK, active
<1>4. LineOK'
  BY <1>1 DEF WaitLook, Main, result, capture, LineOK, active, TypeOK
<1>5. TimerOK'
  <2>1. sensor_read_done => tim1 = "off"
    BY <1>1 DEF WaitLook, Main, CaptureOK, Before, During, Fallen, Waiting
  <2>. QED BY <1>1, <2>1 DEF WaitLook, Main, TimerOK, TypeOK, Waiting, active
<1>6. LateOK'
  <2>1. sensor_read_done => echo[active] = "idle" /\ tim1 = "off"
    BY <1>1 DEF WaitLook, Main, CaptureOK, Before, During, Fallen, Seen, Waiting
  <2>2. ~sensor_read_done => Waiting'
    BY DEF WaitLook, Main, Waiting
  <2>. QED BY <1>1, <2>1, <2>2 DEF WaitLook, Main, LateOK, TypeOK, OrderOK, Waiting, active
<1>7. CaptureOK'
  BY <1>1 DEF WaitLook, Main, result, capture, CaptureOK, Before, During,
     Fallen, Seen, Rising, Waiting, active, TypeOK, TimerOK, LateOK, LineOK
<1>8. TriggerEnds'
  BY <1>1 DEF WaitLook, Main, result, capture, TriggerEnds, TypeOK, TimerOK,
     Waiting, active
<1>9. ReadingsAreOwn'
  BY <1>1 DEF WaitLook, Main, result, capture, ReadingsAreOwn, TypeOK
<1>. QED BY <1>2, <1>3, <1>4, <1>5, <1>6, <1>7, <1>8, <1>9 DEF IInv

LEMMA WaitMoreStep == ASSUME IInv, WaitMore PROVE IInv'
<1>1. TypeOK /\ OrderOK /\ LineOK /\ TimerOK /\ LateOK /\ CaptureOK
      /\ TriggerEnds /\ ReadingsAreOwn
  BY DEF IInv
<1>2. TypeOK'
  BY <1>1 DEF WaitMore, Main, result, capture, TypeOK, OrderOK, active
<1>3. OrderOK'
  BY <1>1 DEF WaitMore, Main, result, capture, OrderOK, active
<1>4. LineOK'
  BY <1>1 DEF WaitMore, Main, result, capture, LineOK, active, TypeOK
<1>5. TimerOK'
  BY <1>1 DEF WaitMore, Main, result, capture, TimerOK, Waiting, active,
     TypeOK
<1>6. LateOK'
  BY <1>1 DEF WaitMore, Main, result, capture, LateOK, Waiting, active,
     TypeOK, OrderOK
<1>7. CaptureOK'
  BY <1>1 DEF WaitMore, Main, result, capture, CaptureOK, Before, During,
     Fallen, Seen, Rising, Waiting, active, TypeOK, TimerOK, LateOK, LineOK
<1>8. TriggerEnds'
  BY <1>1 DEF WaitMore, Main, result, capture, TriggerEnds, TypeOK, TimerOK,
     Waiting, active
<1>9. ReadingsAreOwn'
  BY <1>1 DEF WaitMore, Main, result, capture, ReadingsAreOwn, TypeOK
<1>. QED BY <1>2, <1>3, <1>4, <1>5, <1>6, <1>7, <1>8, <1>9 DEF IInv

LEMMA WaitTimeoutStep == ASSUME IInv, WaitTimeout PROVE IInv'
<1>1. TypeOK /\ OrderOK /\ LineOK /\ TimerOK /\ LateOK /\ CaptureOK
      /\ TriggerEnds /\ ReadingsAreOwn
  BY DEF IInv
<1>2. TypeOK'
  <2>1. pulse_duration' \in Pulses
    BY DEF WaitTimeout, Pulses
  <2>. QED BY <1>1, <2>1 DEF WaitTimeout, Main, capture, TypeOK
<1>3. OrderOK'
  BY <1>1 DEF WaitTimeout, Main, capture, OrderOK, active
<1>4. LineOK'
  BY <1>1 DEF WaitTimeout, Main, capture, LineOK, active, TypeOK
<1>5. TimerOK'
  BY <1>1 DEF WaitTimeout, Main, capture, TimerOK, Waiting, active, TypeOK
<1>6. LateOK'
  BY <1>1 DEF WaitTimeout, Main, capture, LateOK, Waiting, active, TypeOK,
     OrderOK
<1>7. CaptureOK'
  BY <1>1 DEF WaitTimeout, Main, capture, CaptureOK, Before, During, Fallen,
     Seen, Rising, Waiting, active, TypeOK, TimerOK, LateOK, LineOK
<1>8. TriggerEnds'
  BY <1>1 DEF WaitTimeout, Main, capture, TriggerEnds, TypeOK, TimerOK,
     Waiting, active
<1>9. ReadingsAreOwn'
  BY <1>1 DEF WaitTimeout, Main, capture, ReadingsAreOwn, TypeOK
<1>. QED BY <1>2, <1>3, <1>4, <1>5, <1>6, <1>7, <1>8, <1>9 DEF IInv

LEMMA ComputeStep == ASSUME IInv, Compute PROVE IInv'
<1>1. TypeOK /\ OrderOK /\ LineOK /\ TimerOK /\ LateOK /\ CaptureOK
      /\ TriggerEnds /\ ReadingsAreOwn
  BY DEF IInv
<1>2. TypeOK'
  BY <1>1, Wiring DEF Compute, result, capture, TypeOK, OrderOK, active
<1>3. OrderOK'
  BY <1>1, Wiring DEF Compute, result, capture, OrderOK, active
<1>4. LineOK'
  BY <1>1 DEF Compute, result, capture, LineOK, active, TypeOK
<1>5. TimerOK'
  BY <1>1 DEF Compute, result, capture, TimerOK, Waiting, active, TypeOK
<1>6. LateOK'
  BY <1>1, Wiring DEF Compute, result, capture, LateOK, Waiting, active,
     TypeOK, OrderOK
<1>7. CaptureOK'
  BY <1>1 DEF Compute, result, capture, CaptureOK, Before, During, Fallen,
     Seen, Rising, Waiting, active, TypeOK, TimerOK, LateOK, LineOK
<1>8. TriggerEnds'
  BY <1>1 DEF Compute, result, capture, TriggerEnds, TypeOK, TimerOK, Waiting,
     active
<1>9. ReadingsAreOwn'
  <2>1. pulse_duration \in {Timeout, <<active, active>>}
    BY <1>1 DEF Compute, CaptureOK, Seen, Waiting
  <2>2. sensorReadings \in [Sensors -> Pulses] /\ active \in Sensors
    BY <1>1 DEF TypeOK, active
  <2>3. \A k \in Sensors :
           sensorReadings'[k] = IF k = active THEN pulse_duration ELSE sensorReadings[k]
    BY <2>2 DEF Compute, active
  <2>. QED BY <1>1, <2>1, <2>3 DEF ReadingsAreOwn
<1>. QED BY <1>2, <1>3, <1>4, <1>5, <1>6, <1>7, <1>8, <1>9 DEF IInv

LEMMA TIM1_UP_IRQHandlerStep == ASSUME IInv, TIM1_UP_IRQHandler PROVE IInv'
<1>1. TypeOK /\ OrderOK /\ LineOK /\ TimerOK /\ LateOK /\ CaptureOK
      /\ TriggerEnds /\ ReadingsAreOwn
  BY DEF IInv
<1>2. TypeOK'
  BY <1>1 DEF TIM1_UP_IRQHandler, main, result, capture, TypeOK, OrderOK,
     active
<1>3. OrderOK'
  BY <1>1 DEF TIM1_UP_IRQHandler, main, result, capture, OrderOK, active
<1>4. LineOK'
  BY <1>1 DEF TIM1_UP_IRQHandler, main, result, capture, LineOK, active,
     TypeOK
<1>5. TimerOK'
  BY <1>1 DEF TIM1_UP_IRQHandler, main, result, capture, TimerOK, Waiting,
     active, TypeOK
<1>6. LateOK'
  <2>1. Waiting' /\ tim1' = "off" /\ UNCHANGED <<pc, i, currently_active_sensor, need_restart>>
    BY <1>1 DEF TIM1_UP_IRQHandler, TimerOK, Waiting, main
  <2>2. active \in Sensors /\ \A k \in Sensors : k # active => echo'[k] = echo[k]
    BY <1>1 DEF TIM1_UP_IRQHandler, TypeOK, active
  <2>3. \A k \in Sensors : echo'[k] # "idle" => need_restart' \/ k = active'
    BY <1>1, <2>1, <2>2 DEF LateOK, active
  <2>4. ASSUME NEW n \in i + 1 .. NUM_SENSORS PROVE echo'[sensor_order[n]] = "idle"
    <3>1. i \in 1 .. NUM_SENSORS /\ active = sensor_order[i] /\ pc # "idle"
      BY <1>1, <2>1 DEF OrderOK, Waiting
    <3>2. n \in 1 .. NUM_SENSORS /\ n # i
      BY <3>1, Wiring
    <3>3. sensor_order[n] \in Sensors /\ sensor_order[n] # active
      BY <3>1, <3>2, Wiring
    <3>. QED BY <1>1, <2>2, <3>1, <3>3 DEF LateOK
  <2>. QED BY <2>1, <2>3, <2>4 DEF LateOK, Waiting, active
<1>7. CaptureOK'
  <2>1. Waiting /\ tim1 # "off"
    BY <1>1 DEF TIM1_UP_IRQHandler, TimerOK, Waiting
  <2>2. echo[active] = "idle" /\ ~Fallen /\ ~Seen
    BY <1>1, <2>1 DEF LateOK, CaptureOK
  <2>3. Before
    BY <1>1, <2>1, <2>2 DEF CaptureOK, During
  <2>4. echo'[active] # "high"
    BY <1>1, <2>2 DEF TIM1_UP_IRQHandler, TypeOK, active
  <2>5. Before' /\ Waiting'
    BY <2>1, <2>3, <2>4 DEF TIM1_UP_IRQHandler, Before, Waiting, main, result, capture, active
  <2>. QED BY <2>5 DEF CaptureOK, Before, Fallen, Seen, Waiting
<1>8. TriggerEnds'
  BY <1>1 DEF TIM1_UP_IRQHandler, main, result, capture, TriggerEnds, TypeOK,
     TimerOK, Waiting, active
<1>9. ReadingsAreOwn'
  BY <1>1 DEF TIM1_UP_IRQHandler, main, result, capture, ReadingsAreOwn,
     TypeOK
<1>. QED BY <1>2, <1>3, <1>4, <1>5, <1>6, <1>7, <1>8, <1>9 DEF IInv

LEMMA TIM4_IRQHandlerStep == ASSUME IInv, TIM4_IRQHandler PROVE IInv'
<1>1. TypeOK /\ OrderOK /\ LineOK /\ TimerOK /\ LateOK /\ CaptureOK
      /\ TriggerEnds /\ ReadingsAreOwn
  BY DEF IInv
<1>2. TypeOK'
  <2>1. <<cnt1, ccr1>> \in Pulses
    BY <1>1 DEF TypeOK, Pulses
  <2>2. pulse_duration' \in Pulses /\ sensor_read_done' \in BOOLEAN /\ cnt1' \in Edges
        /\ cc1' \in BOOLEAN /\ cc2' \in BOOLEAN
    BY <1>1, <2>1 DEF TIM4_IRQHandler, TypeOK
  <2>. QED BY <1>1, <2>2 DEF TIM4_IRQHandler, main, TypeOK
<1>3. OrderOK'
  BY <1>1 DEF TIM4_IRQHandler, main, OrderOK, active
<1>4. LineOK'
  BY <1>1 DEF TIM4_IRQHandler, main, LineOK, active, TypeOK
<1>5. TimerOK'
  BY <1>1 DEF TIM4_IRQHandler, main, TimerOK, Waiting, active, TypeOK
<1>6. LateOK'
  BY <1>1 DEF TIM4_IRQHandler, main, LateOK, Waiting, active, TypeOK, OrderOK
<1>7. CaptureOK'
  BY <1>1 DEF TIM4_IRQHandler, main, CaptureOK, Before, During, Fallen, Seen,
     Rising, Waiting, active, TypeOK, TimerOK, LateOK, LineOK
<1>8. TriggerEnds'
  BY <1>1 DEF TIM4_IRQHandler, main, TriggerEnds, TypeOK, TimerOK, Waiting,
     active
<1>9. ReadingsAreOwn'
  BY <1>1 DEF TIM4_IRQHandler, main, ReadingsAreOwn, TypeOK
<1>. QED BY <1>2, <1>3, <1>4, <1>5, <1>6, <1>7, <1>8, <1>9 DEF IInv

LEMMA TickStep == ASSUME IInv, Tick PROVE IInv'
<1>1. TypeOK /\ OrderOK /\ LineOK /\ TimerOK /\ LateOK /\ CaptureOK
      /\ TriggerEnds /\ ReadingsAreOwn
  BY DEF IInv
<1>2. TypeOK'
  BY <1>1 DEF Tick, main, result, capture, TypeOK, OrderOK, active
<1>3. OrderOK'
  BY <1>1 DEF Tick, main, result, capture, OrderOK, active
<1>4. LineOK'
  BY <1>1 DEF Tick, main, result, capture, LineOK, active, TypeOK
<1>5. TimerOK'
  BY <1>1 DEF Tick, main, result, capture, TimerOK, Waiting, active, TypeOK
<1>6. LateOK'
  BY <1>1 DEF Tick, main, result, capture, LateOK, Waiting, active, TypeOK,
     OrderOK
<1>7. CaptureOK'
  BY <1>1 DEF Tick, main, result, capture, CaptureOK, Before, During, Fallen,
     Seen, Rising, Waiting, active, TypeOK, TimerOK, LateOK, LineOK
<1>8. TriggerEnds'
  BY <1>1 DEF Tick, main, result, capture, TriggerEnds, TypeOK, TimerOK,
     Waiting, active
<1>9. ReadingsAreOwn'
  BY <1>1 DEF Tick, main, result, capture, ReadingsAreOwn, TypeOK
<1>. QED BY <1>2, <1>3, <1>4, <1>5, <1>6, <1>7, <1>8, <1>9 DEF IInv

LEMMA Tim1ExpiresStep == ASSUME IInv, Tim1Expires, LongIsr = FALSE PROVE IInv'
<1>1. TypeOK /\ OrderOK /\ LineOK /\ TimerOK /\ LateOK /\ CaptureOK
      /\ TriggerEnds /\ ReadingsAreOwn
  BY DEF IInv
<1>2. TypeOK'
  BY <1>1 DEF Tim1Expires, main, result, capture, TypeOK, OrderOK, active
<1>3. OrderOK'
  BY <1>1 DEF Tim1Expires, main, result, capture, OrderOK, active
<1>4. LineOK'
  BY <1>1 DEF Tim1Expires, main, result, capture, LineOK, active, TypeOK
<1>5. TimerOK'
  BY <1>1 DEF Tim1Expires, main, result, capture, TimerOK, Waiting, active,
     TypeOK
<1>6. LateOK'
  BY <1>1 DEF Tim1Expires, main, result, capture, LateOK, Waiting, active,
     TypeOK, OrderOK
<1>7. CaptureOK'
  BY <1>1 DEF Tim1Expires, main, result, capture, CaptureOK, Before, During,
     Fallen, Seen, Rising, Waiting, active, TypeOK, TimerOK, LateOK, LineOK
<1>8. TriggerEnds'
  BY <1>1 DEF Tim1Expires, main, result, capture, TriggerEnds, TypeOK,
     TimerOK, Waiting, active
<1>9. ReadingsAreOwn'
  BY <1>1 DEF Tim1Expires, main, result, capture, ReadingsAreOwn, TypeOK
<1>. QED BY <1>2, <1>3, <1>4, <1>5, <1>6, <1>7, <1>8, <1>9 DEF IInv

LEMMA RestartStep == ASSUME IInv, Restart PROVE IInv'
<1> DEFINE e == IF need_restart THEN [k \in Sensors |-> "idle"] ELSE echo
<1>1. TypeOK /\ OrderOK /\ LineOK /\ TimerOK /\ LateOK /\ CaptureOK
      /\ TriggerEnds /\ ReadingsAreOwn
  BY DEF IInv
<1>2. /\ pc = "idle" /\ pc' = "select0" /\ i' = 1 /\ active' = sensor_order[1]
      /\ need_restart' = FALSE /\ Change(line, e, Switched) /\ line' = line /\ echo' = e
      /\ UNCHANGED <<sensorReadings, expired, result, pin, tim1>>
  BY DEF Restart, Main, Change, active
<1>3. \A k \in Sensors : e[k] = "idle"
  BY <1>1, <1>2 DEF LateOK, TypeOK, Waiting
<1>4. sensor_order[1] \in Sensors /\ 1 \in 1 .. NUM_SENSORS
  BY Wiring
<1>5. TypeOK'
  <2>1. cc1' \in BOOLEAN /\ cc2' \in BOOLEAN /\ ccr1' \in Edges /\ ccr2' \in Edges
    BY <1>1, <1>2, CapturedType DEF Edges
  <2>2. e \in [Sensors -> {"idle", "triggered", "high"}]
    BY <1>1 DEF TypeOK
  <2>3. i' \in 0 .. NUM_SENSORS /\ currently_active_sensor' \in Sensors
    BY <1>2, <1>4, Wiring DEF active
  <2>. QED BY <1>1, <1>2, <2>1, <2>2, <2>3 DEF TypeOK, result
<1>6. OrderOK' /\ LineOK'
  BY <1>2, <1>4 DEF OrderOK, LineOK
<1>7. TimerOK'
  BY <1>1, <1>2 DEF TimerOK, Waiting
<1>8. LateOK'
  <2>1. \A n \in i' + 1 .. NUM_SENSORS : sensor_order[n] \in Sensors
    BY <1>2, Wiring
  <2>. QED BY <1>2, <1>3, <1>4, <2>1 DEF LateOK, Waiting, active
<1>9. CaptureOK'
  BY <1>2 DEF CaptureOK, Waiting
<1>10. TriggerEnds' /\ ReadingsAreOwn'
  BY <1>1, <1>2 DEF TriggerEnds, ReadingsAreOwn, TimerOK, Waiting
<1>. QED BY <1>5, <1>6, <1>7, <1>8, <1>9, <1>10 DEF IInv

LEMMA SetBitStep ==
  ASSUME IInv, NEW bit \in {1, 2, 4}, NEW to, SetBit(bit, to),
         \/ pc = "select0" /\ bit = 1 /\ to = "select1"
         \/ pc = "select1" /\ bit = 2 /\ to = "select2"
         \/ pc = "select2" /\ bit = 4 /\ to = "start"
  PROVE  IInv'
<1> DEFINE target == mux_map[active]
           next == WithBit(line, target, bit)
<1>1. TypeOK /\ OrderOK /\ LineOK /\ TimerOK /\ LateOK /\ CaptureOK
      /\ TriggerEnds /\ ReadingsAreOwn
  BY DEF IInv
<1>2. /\ pc' = to /\ line' = next /\ echo' = echo /\ Change(next, echo, Switched)
      /\ UNCHANGED <<i, currently_active_sensor, need_restart, sensorReadings,
                     expired, result, pin, tim1>>
  BY DEF SetBit, Change, WithBit, active
<1>3. line \in 0 .. 7 /\ target \in 0 .. 7
  BY <1>1, Wiring DEF TypeOK, active
<1>4. /\ next \in 0 .. 7
      /\ bit = 1 => next % 2 = target % 2
      /\ bit = 2 => next % 4 = target % 4
      /\ bit = 4 => next = target
  <2>1. CASE bit = 1
    BY <1>3, <2>1, Bits
  <2>2. CASE bit = 2
    BY <1>1, <1>3, <2>2, Bits DEF LineOK
  <2>3. CASE bit = 4
    BY <1>1, <1>3, <2>3, Bits DEF LineOK
  <2>. QED BY <2>1, <2>2, <2>3
<1>5. TypeOK'
  <2>1. cc1' \in BOOLEAN /\ cc2' \in BOOLEAN /\ ccr1' \in Edges /\ ccr2' \in Edges
    BY <1>1, <1>2, CapturedType DEF Edges
  <2>. QED BY <1>1, <1>2, <1>4, <2>1 DEF TypeOK, result
<1>6. OrderOK' /\ LineOK'
  BY <1>1, <1>2, <1>4 DEF OrderOK, LineOK, active
<1>7. TimerOK' /\ TriggerEnds'
  BY <1>1, <1>2 DEF TimerOK, TriggerEnds, Waiting
<1>8. LateOK'
  BY <1>1, <1>2 DEF LateOK, Waiting, active
<1>9. CaptureOK' /\ ReadingsAreOwn'
  BY <1>1, <1>2 DEF CaptureOK, ReadingsAreOwn, Waiting
<1>. QED BY <1>5, <1>6, <1>7, <1>8, <1>9 DEF IInv

\* An echo of the active sensor is its own next edge; that of another one does
\* not reach the capture unit.
LEMMA PulseStep == ASSUME IInv, Pulse PROVE IInv'
<1>1. TypeOK /\ OrderOK /\ LineOK /\ TimerOK /\ LateOK /\ CaptureOK
      /\ TriggerEnds /\ ReadingsAreOwn
  BY DEF IInv
<1>2. PICK k \in Sensors :
        /\ echo[k] # "idle"
        /\ Change(line,
                  [echo EXCEPT ![k] = IF @ = "triggered" THEN "high" ELSE "idle"], k)
  BY DEF Pulse
<1> DEFINE e == [echo EXCEPT ![k] = IF @ = "triggered" THEN "high" ELSE "idle"]
<1>3. /\ line' = line /\ echo' = e
      /\ UNCHANGED <<pc, i, currently_active_sensor, need_restart, sensorReadings, expired,
                     sensor_read_done, pulse_duration, cnt1, pin, tim1>>
  BY <1>2 DEF Change, Pulse, main, result
<1>4. /\ e \in [Sensors -> {"idle", "triggered", "high"}]
      /\ \A j \in Sensors : j # k => e[j] = echo[j]
      /\ e[k] = IF echo[k] = "triggered" THEN "high" ELSE "idle"
  BY <1>1 DEF TypeOK
<1>5. TypeOK'
  <2>1. cc1' \in BOOLEAN /\ cc2' \in BOOLEAN /\ ccr1' \in Edges /\ ccr2' \in Edges
    BY <1>1, <1>2, CapturedType DEF Edges
  <2>. QED BY <1>1, <1>3, <1>4, <2>1 DEF TypeOK
<1>6. OrderOK' /\ LineOK' /\ TimerOK' /\ TriggerEnds' /\ ReadingsAreOwn'
  BY <1>1, <1>3 DEF OrderOK, LineOK, TimerOK, TriggerEnds, ReadingsAreOwn, Waiting, active
<1>7. LateOK'
  <2>1. \A j \in Sensors : e[j] # "idle" => echo[j] # "idle"
    BY <1>2, <1>4
  <2>2. /\ active \in Sensors
        /\ pc # "idle" => \A n \in i + 1 .. NUM_SENSORS : sensor_order[n] \in Sensors
    BY <1>1, Wiring DEF TypeOK, OrderOK, active
  <2>. QED BY <1>1, <1>3, <2>1, <2>2 DEF LateOK, Waiting, active
<1>8. CaptureOK'
  <2> SUFFICES ASSUME Waiting \/ pc = "compute" PROVE CaptureOK'
    BY <1>3 DEF CaptureOK, Waiting
  <2>1. line = mux_map[active] /\ active \in Sensors /\ active' = active
    BY <1>1, <1>3 DEF LineOK, TypeOK, Waiting, active
  <2>2. /\ Input(line, echo) <=> echo[active] = "high"
        /\ Input(line, e) <=> e[active] = "high"
    BY <2>1, OwnLine
  <2>3. CASE k # active
    <3>1. UNCHANGED <<cc1, cc2, ccr1, ccr2>> /\ e[active] = echo[active]
      BY <1>2, <1>4, <2>1, <2>2, <2>3 DEF Change, capture
    <3>. QED BY <1>1, <1>3, <2>1, <3>1
             DEF CaptureOK, Before, During, Fallen, Seen, Rising, Waiting, active
  <2>4. CASE k = active /\ echo[k] = "triggered"
    <3>1. cc2' = TRUE /\ ccr2' = k /\ cc1' = cc1 /\ ~Seen /\ ~Fallen /\ ~During
      BY <1>2, <1>4, <2>2, <2>4 DEF Change, Seen, Fallen, During
    <3>2. Before /\ During'
      BY <1>1, <1>3, <1>4, <2>1, <2>4, <3>1 DEF CaptureOK, Before, During, Rising
    <3>. QED BY <1>1, <1>3, <2>1, <3>1, <3>2
             DEF CaptureOK, Before, During, Fallen, Seen, Waiting, active
  <2>5. CASE k = active /\ echo[k] = "high"
    <3>1. cc1' = TRUE /\ ccr1' = k /\ cc2' = cc2 /\ ccr2' = ccr2
      BY <1>2, <1>4, <2>2, <2>5 DEF Change
    <3>2. During /\ tim1 = "off"
      BY <1>1, <2>1, <2>5 DEF CaptureOK, Before, Fallen, Seen, LateOK, TimerOK, Waiting
    <3>3. Fallen'
      BY <1>3, <1>4, <2>1, <2>5, <3>1, <3>2 DEF During, Fallen, Rising
    <3>. QED BY <1>1, <1>3, <3>1, <3>2, <3>3
             DEF CaptureOK, During, Fallen, Seen, Waiting
  <2>. QED BY <1>1, <1>2, <2>3, <2>4, <2>5 DEF TypeOK
<1>. QED BY <1>5, <1>6, <1>7, <1>8 DEF IInv

-----------------------------------------------------------------------------
(* The theorems.                                                           *)

LEMMA Initially == Init => IInv
<1> SUFFICES ASSUME Init PROVE IInv
  OBVIOUS
<1>1. TypeOK
  <2>1. NoEdge \in Edges /\ NoPulse \in Pulses
    BY DEF Edges, Pulses, NoPulse
  <2>2. i \in 0 .. NUM_SENSORS /\ currently_active_sensor \in Sensors
    BY Wiring DEF Init, Sensors
  <2>3. /\ sensorReadings \in [Sensors -> Pulses] /\ pin \in [Sensors -> BOOLEAN]
        /\ echo \in [Sensors -> {"idle", "triggered", "high"}]
    BY <2>1 DEF Init
  <2>4. /\ need_restart \in BOOLEAN /\ expired \in BOOLEAN /\ sensor_read_done \in BOOLEAN
        /\ cc1 \in BOOLEAN /\ cc2 \in BOOLEAN
    BY DEF Init
  <2>5. line \in 0 .. 7
    BY DEF Init
  <2>6. /\ pc \in {"idle", "select0", "select1", "select2", "start", "raise", "clear",
                   "wait", "look", "compute"}
        /\ tim1 \in {"off", "running", "irq"}
    BY DEF Init
  <2>7. pulse_duration \in Pulses /\ cnt1 \in Edges /\ ccr1 \in Edges /\ ccr2 \in Edges
    BY <2>1 DEF Init
  <2>. QED BY <2>2, <2>3, <2>4, <2>5, <2>6, <2>7 DEF TypeOK
<1>2. OrderOK /\ LineOK /\ TimerOK /\ CaptureOK
  BY DEF Init, OrderOK, LineOK, TimerOK, CaptureOK, Waiting
<1>3. LateOK
  BY DEF Init, LateOK, Waiting
<1>4. TriggerEnds /\ ReadingsAreOwn
  BY DEF Init, TriggerEnds, ReadingsAreOwn
<1>. QED BY <1>1, <1>2, <1>3, <1>4 DEF IInv

LEMMA Step == ASSUME LongIsr = FALSE, IInv, [Next]_vars PROVE IInv'
<1>1. CASE ReadSensorData
  <2>1. CASE muxSelect
    BY <2>1, SetBitStep DEF muxSelect
  <2>2. CASE Restart \/ StartTimer \/ RaisePin \/ ClearDone
    BY <2>2, RestartStep, StartTimerStep, RaisePinStep, ClearDoneStep
  <2>3. CASE WaitLook \/ WaitMore \/ WaitTimeout \/ Compute
    BY <2>3, WaitLookStep, WaitMoreStep, WaitTimeoutStep, ComputeStep
  <2>. QED BY <1>1, <2>1, <2>2, <2>3 DEF ReadSensorData
<1>2. CASE TIM1_UP_IRQHandler \/ TIM4_IRQHandler
  BY <1>2, TIM1_UP_IRQHandlerStep, TIM4_IRQHandlerStep
<1>3. CASE Tim1Expires \/ Pulse \/ Tick
  BY <1>3, Tim1ExpiresStep, PulseStep, TickStep
<1>4. CASE UNCHANGED vars
  BY <1>4 DEF IInv, TypeOK, OrderOK, LineOK, TimerOK, LateOK, CaptureOK, TriggerEnds,
     ReadingsAreOwn, Before, During, Fallen, Seen, Rising, Waiting, active, vars, main,
     result, capture
<1>. QED BY <1>1, <1>2, <1>3, <1>4 DEF Next

LEMMA Invariant == ASSUME LongIsr = FALSE PROVE Spec => []IInv
<1>1. IInv /\ [Next]_vars => IInv'
  BY Step
<1>. QED BY <1>1, Initially, PTL DEF Spec

\* A reading is the width of a pulse of its own sensor, or the timeout, when no
\* interrupt takes 10 us.
THEOREM OwnReadings == ASSUME LongIsr = FALSE PROVE Spec => []ReadingsAreOwn
<1>1. IInv => ReadingsAreOwn
  BY DEF IInv
<1>. QED BY <1>1, Invariant, PTL

\* A trigger pin that is high is that of the active sensor, and TIM1 will lower
\* it, when no interrupt takes 10 us.
THEOREM Trigger == ASSUME LongIsr = FALSE PROVE Spec => []TriggerEnds
<1>1. IInv => TriggerEnds
  BY DEF IInv
<1>. QED BY <1>1, Invariant, PTL

=============================================================================

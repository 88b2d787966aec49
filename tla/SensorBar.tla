------------------------------ MODULE SensorBar ------------------------------
(***************************************************************************)
(* The four ultrasonic sensors (SensorBar.c, mux.c).  ReadSensorData in    *)
(* the main loop measures one after the other: it switches a multiplexer   *)
(* to the sensor's line, raises its trigger pin, which TIM1 lowers again   *)
(* 10 us later, and waits for the echo pulse on the line, whose edges TIM4 *)
(* captures, or for 8 ms.                                                  *)
(*                                                                         *)
(* The main thread takes one step per access that an interrupt could see.  *)
(* No interrupt preempts another (NVIC_PriorityGroup_0), so a handler is   *)
(* one step; a pending one runs before the main thread does.  A pulse      *)
(* width is abstracted to the two edges it was taken from.                 *)
(*                                                                         *)
(* External: the sensors, the timers and the interrupts of other modules.  *)
(***************************************************************************)
EXTENDS Integers, Sequences

CONSTANTS
  NUM_SENSORS,
  mux_map,          \* the line of each sensor, 0 .. 7
  sensor_order,     \* the sensors in the order they are measured
  LongIsr           \* an interrupt may take 10 us

Sensors == 0 .. NUM_SENSORS - 1

ASSUME SensorAssumption ==
  /\ NUM_SENSORS \in Nat \ {0}
  /\ mux_map \in [Sensors -> 0 .. 7]
  /\ \A j, k \in Sensors : mux_map[j] = mux_map[k] => j = k
  /\ sensor_order \in [1 .. NUM_SENSORS -> Sensors]
  /\ \A m, n \in 1 .. NUM_SENSORS : sensor_order[m] = sensor_order[n] => m = n
  /\ LongIsr \in BOOLEAN

\* An edge of the input of TIM4 is one of a sensor's echo, or comes from a
\* switch of the line.
Switched == -1
NoEdge == -2
Edges == Sensors \cup {Switched, NoEdge}

\* A pulse by its rising and its falling edge, and the 8000 of the timeout.
Timeout == <<>>
NoPulse == <<NoEdge, NoEdge>>
Pulses == (Edges \X Edges) \cup {Timeout}

-----------------------------------------------------------------------------
VARIABLES
  pc,                       \* where the main thread is
  i,                        \* ReadSensorData: the position in sensor_order
  currently_active_sensor,
  need_restart,
  expired,                  \* msTicks - t >= 8
  sensor_read_done,
  pulse_duration,           \* the edges it was taken from
  sensorReadings,           \* the pulse each reading was computed from
  cnt1,                     \* TIM4_IRQHandler: the rising edge
  line,                     \* the line the multiplexer is switched to
  pin,                      \* the trigger pins
  tim1,                     \* TIM1: "off", "running", or "irq" when it is pending
  cc1, cc2,                 \* the interrupts of TIM4 that are pending
  ccr1, ccr2,               \* its last falling and rising edge
  echo                      \* the sensors: "idle", "triggered", or "high"

main == <<pc, i, currently_active_sensor, need_restart, sensorReadings>>
capture == <<cc1, cc2, ccr1, ccr2>>
result == <<sensor_read_done, pulse_duration, cnt1>>
vars == <<main, expired, result, line, pin, tim1, capture, echo>>

-----------------------------------------------------------------------------
Init ==
  /\ pc = "idle" /\ i = 0
  /\ currently_active_sensor = 0
  /\ need_restart = FALSE /\ expired = FALSE /\ sensor_read_done = FALSE
  /\ pulse_duration = NoPulse
  /\ sensorReadings = [k \in Sensors |-> NoPulse]
  /\ cnt1 = NoEdge
  /\ line = 0
  /\ pin = [k \in Sensors |-> FALSE]
  /\ tim1 = "off"
  /\ cc1 = FALSE /\ cc2 = FALSE /\ ccr1 = NoEdge /\ ccr2 = NoEdge
  /\ echo = [k \in Sensors |-> "idle"]

\* The input of TIM4: a line without a sensor is low.
Input(to, e) == \E k \in Sensors : mux_map[k] = to /\ e[k] = "high"

\* The line or the echoes change: TIM4 captures an edge, when there is one.
Change(to, e, edge) ==
  /\ line' = to /\ echo' = e
  /\ CASE Input(to, e) /\ ~Input(line, echo) ->
            cc2' = TRUE /\ ccr2' = edge /\ UNCHANGED <<cc1, ccr1>>
       [] Input(line, echo) /\ ~Input(to, e) ->
            cc1' = TRUE /\ ccr1' = edge /\ UNCHANGED <<cc2, ccr2>>
       [] OTHER -> UNCHANGED capture

-----------------------------------------------------------------------------
(* ReadSensorData.                                                         *)

IrqPending == cc1 \/ cc2 \/ tim1 = "irq"

Main(from, to) == pc = from /\ pc' = to /\ ~IrqPending

\* Mutant of Restart: the sensors stay switched on.
RestartNothing ==
  /\ Main("idle", "select0")
  /\ need_restart' = FALSE
  /\ i' = 1 /\ currently_active_sensor' = sensor_order[1]
  /\ UNCHANGED <<sensorReadings, expired, result, pin, tim1, line, echo, capture>>

\* A sensor that timed out: all are switched off and on again, which ends
\* whatever they were doing.  Then the first one is chosen.
Restart ==
  /\ Main("idle", "select0")
  /\ need_restart' = FALSE
  /\ i' = 1 /\ currently_active_sensor' = sensor_order[1]
  /\ Change(line, IF need_restart THEN [k \in Sensors |-> "idle"] ELSE echo, Switched)
  /\ UNCHANGED <<sensorReadings, expired, result, pin, tim1>>

\* muxSelect writes the three bits of the line one by one, lowest first.
SetBit(bit, to) ==
  LET Bit(v) == (v \div bit) % 2
      target == mux_map[currently_active_sensor]
  IN  /\ Change(line + bit * (Bit(target) - Bit(line)), echo, Switched)
      /\ pc' = to
      /\ UNCHANGED <<i, currently_active_sensor, need_restart, sensorReadings,
                     expired, result, pin, tim1>>

muxSelect ==
  /\ ~IrqPending
  /\ \/ pc = "select0" /\ SetBit(1, "select1")
     \/ pc = "select1" /\ SetBit(2, "select2")
     \/ pc = "select2" /\ SetBit(4, "start")

\* SendTriggerPulse starts TIM1 ...
StartTimer ==
  /\ Main("start", "raise")
  /\ tim1' = "running"
  /\ UNCHANGED <<i, currently_active_sensor, need_restart, sensorReadings, expired, result,
                 line, pin, capture, echo>>

\* ... and then raises the trigger pin.
RaisePin ==
  /\ Main("raise", "clear")
  /\ pin' = [pin EXCEPT ![currently_active_sensor] = TRUE]
  /\ UNCHANGED <<i, currently_active_sensor, need_restart, sensorReadings, expired, result,
                 line, tim1, capture, echo>>

\* Mutant of ClearDone: what the switch of the line has left is taken for an echo.
ClearNothing ==
  /\ Main("clear", "wait")
  /\ expired' = FALSE
  /\ UNCHANGED <<i, currently_active_sensor, need_restart, sensorReadings, result,
                 line, pin, tim1, capture, echo>>

\* sensor_read_done = 0; t = msTicks;
ClearDone ==
  /\ Main("clear", "wait")
  /\ sensor_read_done' = FALSE
  /\ expired' = FALSE
  /\ UNCHANGED <<i, currently_active_sensor, need_restart, sensorReadings,
                 pulse_duration, cnt1, line, pin, tim1, capture, echo>>

WaitLook ==
  /\ Main("wait", IF sensor_read_done THEN "compute" ELSE "look")
  /\ UNCHANGED <<i, currently_active_sensor, need_restart, sensorReadings, expired,
                 result, line, pin, tim1, capture, echo>>

WaitMore ==
  /\ Main("look", "wait")
  /\ ~expired
  /\ UNCHANGED <<i, currently_active_sensor, need_restart, sensorReadings, expired,
                 result, line, pin, tim1, capture, echo>>

\* Mutant of WaitTimeout: the wait has no end but an echo.
WaitForever ==
  /\ Main("look", "wait")
  /\ expired
  /\ UNCHANGED <<i, currently_active_sensor, need_restart, sensorReadings, expired,
                 result, line, pin, tim1, capture, echo>>

\* Eight ticks have passed since the trigger; an echo may still have come since
\* sensor_read_done was read, or come before pulse_duration is.
WaitTimeout ==
  /\ Main("look", "compute")
  /\ expired
  /\ need_restart' = TRUE
  /\ pulse_duration' = Timeout
  /\ UNCHANGED <<i, currently_active_sensor, sensorReadings, expired,
                 sensor_read_done, cnt1, line, pin, tim1, capture, echo>>

\* The reading, and the next sensor.  After the last one the code reads
\* sensor_order[4], whatever the byte behind the array is.
Compute ==
  /\ pc = "compute" /\ ~IrqPending
  /\ sensorReadings' = [sensorReadings EXCEPT ![currently_active_sensor] = pulse_duration]
  /\ IF i < NUM_SENSORS
       THEN pc' = "select0" /\ i' = i + 1 /\ currently_active_sensor' = sensor_order[i + 1]
       ELSE pc' = "idle" /\ i' = 0 /\ currently_active_sensor' \in Sensors
  /\ UNCHANGED <<need_restart, expired, result, line, pin, tim1, capture, echo>>

ReadSensorData ==
  \/ Restart \/ muxSelect \/ StartTimer \/ RaisePin \/ ClearDone
  \/ WaitLook \/ WaitMore \/ WaitTimeout \/ Compute

-----------------------------------------------------------------------------
(* The interrupts.                                                         *)

\* Mutant of TIM1_UP_IRQHandler: the timer is disabled and the pin left as it is.
TIM1DisablesOnly ==
  /\ tim1 = "irq"
  /\ tim1' = "off"
  /\ UNCHANGED <<main, expired, result, line, pin, capture, echo>>

\* The trigger pin falls, and a sensor that is idle starts to measure.
TIM1_UP_IRQHandler ==
  /\ tim1 = "irq"
  /\ tim1' = "off"
  /\ LET k == currently_active_sensor IN
       /\ pin' = [pin EXCEPT ![k] = FALSE]
       /\ echo' = [echo EXCEPT ![k] = IF pin[k] /\ @ = "idle" THEN "triggered" ELSE @]
  /\ UNCHANGED <<main, expired, result, line, capture>>

\* The rising edge first, when both are pending.
TIM4_IRQHandler ==
  /\ \/ /\ cc2
        /\ cnt1' = ccr2
        /\ sensor_read_done' = FALSE
        /\ cc2' = FALSE
        /\ UNCHANGED <<pulse_duration, cc1>>
     \/ /\ ~cc2 /\ cc1
        /\ pulse_duration' = <<cnt1, ccr1>>
        /\ sensor_read_done' = TRUE
        /\ cc1' = FALSE
        /\ UNCHANGED <<cnt1, cc2>>
  /\ UNCHANGED <<main, expired, ccr1, ccr2, line, pin, tim1, echo>>

-----------------------------------------------------------------------------
\* External: TIM1 has counted its 720 cycles.  The main thread has begun to wait
\* by then, unless an interrupt takes as long.
Tim1Expires ==
  /\ tim1 = "running"
  /\ pc \in {"wait", "look"} \/ LongIsr
  /\ tim1' = "irq"
  /\ UNCHANGED <<main, expired, result, line, pin, capture, echo>>

\* External: a sensor that has been triggered begins or ends its pulse.
Pulse ==
  /\ \E k \in Sensors :
       /\ echo[k] # "idle"
       /\ Change(line,
                 [echo EXCEPT ![k] = IF @ = "triggered" THEN "high" ELSE "idle"], k)
  /\ UNCHANGED <<main, expired, result, pin, tim1>>

\* External: msTicks gets ahead.  8 ms are longer than the 10 us of TIM1.
Tick ==
  /\ pc \in {"wait", "look"} /\ ~expired
  /\ tim1 = "off"
  /\ expired' = TRUE
  /\ UNCHANGED <<main, result, line, pin, tim1, capture, echo>>

Next ==
  \/ ReadSensorData \/ TIM1_UP_IRQHandler \/ TIM4_IRQHandler
  \/ Tim1Expires \/ Pulse \/ Tick

Spec == Init /\ [][Next]_vars

\* The processor and the timers run on; an echo need never come.
Fairness ==
  /\ WF_vars(ReadSensorData) /\ WF_vars(TIM1_UP_IRQHandler) /\ WF_vars(TIM4_IRQHandler)
  /\ WF_vars(Tim1Expires) /\ WF_vars(Tick)

FairSpec == Spec /\ Fairness

-----------------------------------------------------------------------------
\* The types of the program's variables and of the hardware's.
TypeOK ==
  /\ pc \in {"idle", "select0", "select1", "select2", "start", "raise", "clear",
             "wait", "look", "compute"}
  /\ i \in 0 .. NUM_SENSORS
  /\ currently_active_sensor \in Sensors
  /\ need_restart \in BOOLEAN /\ expired \in BOOLEAN /\ sensor_read_done \in BOOLEAN
  /\ pulse_duration \in Pulses
  /\ sensorReadings \in [Sensors -> Pulses]
  /\ cnt1 \in Edges
  /\ line \in 0 .. 7
  /\ pin \in [Sensors -> BOOLEAN]
  /\ tim1 \in {"off", "running", "irq"}
  /\ cc1 \in BOOLEAN /\ cc2 \in BOOLEAN /\ ccr1 \in Edges /\ ccr2 \in Edges
  /\ echo \in [Sensors -> {"idle", "triggered", "high"}]

\* A reading is the width of a pulse of its own sensor, or the timeout: neither
\* a late echo of another one nor an edge that the multiplexer makes on its way
\* is taken for it (lines 169-176, 183-189 and 191-198).
ReadingsAreOwn ==
  \A k \in Sensors : sensorReadings[k] \in {NoPulse, Timeout, <<k, k>>}

\* "If 10us elapsed, toggle active sensor trig pin and disable timer." (line 79):
\* a pin that is high is that of the active sensor, and TIM1 is there to lower it.
TriggerEnds ==
  \A k \in Sensors : pin[k] => k = currently_active_sensor /\ tim1 # "off"

\* A call of ReadSensorData comes to its end whether or not there are echoes,
\* and so does the turn of the main loop.
SensorsRead == pc # "idle" ~> pc = "idle"
=============================================================================

----------------------------- MODULE CarControl -----------------------------
(***************************************************************************)
(* The car itself (main.c, motorControl.c): the state it runs in, the      *)
(* pulse widths of its motor and its steering servo, the callbacks of the  *)
(* phone's commands and the main loop that steers in automatic mode.       *)
(*                                                                         *)
(* Everything here is the main thread.  A callback is one step, except     *)
(* that of STOP, which brakes for 700 ms in the middle; the loop visits    *)
(* ESPClientParseMessages and the steering in turn.  The interrupts that   *)
(* bring messages and measurements touch none of this state.               *)
(***************************************************************************)
EXTENDS Integers

CONSTANTS
  Sent,         \* the commands the phone sends
  Speeds,       \* the speeds ...
  Angles,       \* ... and steering angles it asks for, 16 bits each
  Gains,        \* the gains it asks for
  HeadingPWM,   \* the pulse widths getPWM_from_angle(computeNewHeading()) may give
  Batch         \* messages one call of ESPClientParseMessages may find

\* The commands of enum ESPCommand, and those main attaches a callback to.
Commands == {"NULLCMD", "KEEPALIVE", "SET_MODE", "START", "STOP", "UPDATE_SPEED",
             "UPDATE_STEERING_ANGLE", "REVERSE_MOTOR_DIRECTION", "UPDATE_GAIN",
             "UPDATE_STATS", "CONNECTION_TIMEOUT"}

Attached == Commands \ {"NULLCMD", "REVERSE_MOTOR_DIRECTION", "UPDATE_STATS"}

Int16 == -32768 .. 32767
PWM == 1000 .. 2000       \* what setEscPWM and setServoPWM let through, in us

ASSUME CommandAssumption ==
  /\ Sent \subseteq Commands
  /\ Speeds \subseteq Int16
  /\ Angles \subseteq Int16
  /\ 1 \in Gains
  /\ HeadingPWM \subseteq PWM /\ HeadingPWM # {}
  /\ Batch \in Nat

Neutral == 1500           \* no throttle, or facing forward
Cruise == 1680            \* the speed of the automatic mode
Brake == 1300

-----------------------------------------------------------------------------
VARIABLES
  mode_state, running_state,
  esc, servo,             \* TIM4->CCR3 and TIM4->CCR4
  gain,                   \* control.c
  pc,                     \* where the main loop is
  left,                   \* messages still to be parsed in this call
  echo                    \* the command echoed if it was the last one, or "none"

drive == <<mode_state, running_state, esc, servo>>
vars == <<drive, gain, pc, left, echo>>

-----------------------------------------------------------------------------
(* Pulse widths.                                                           *)

UInt16(n) == n % 65536

\* setEscPWM, setServoPWM: the parameter is a uint16_t.
Clamp(pwm) == IF pwm < 1000 THEN 1000 ELSE IF pwm > 2000 THEN 2000 ELSE pwm

\* UpdateSpeedCallback: 1500 + 1.40*speed as an int16_t.  A value that does not
\* fit is undefined in C; wrapped or saturated, it is outside of 1000..2000.
SpeedPWM(speed) ==
  LET pwm == Neutral + (14 * speed) \div 10
  IN  IF pwm \in PWM THEN Clamp(pwm) ELSE Neutral

\* Mutant of SteeringPWM: setServoPWM without its limits.
SteeringUnlimited(angle) == UInt16(Neutral + 4 * angle)

\* UpdateSteeringAngleCallback: an int16_t passed on as a uint16_t.
SteeringPWM(angle) == Clamp(UInt16(Neutral + 4 * angle))

-----------------------------------------------------------------------------
Init ==
  /\ mode_state = "MANUAL" /\ running_state = "CAR_OFF"
  /\ esc = Neutral /\ servo = Neutral
  /\ gain = 1
  /\ pc = "loop" /\ left = 0
  /\ echo = "none"

\* ESPClientParseMessages takes what is in the queue when it is called.
ParseMessages ==
  /\ pc = "loop"
  /\ pc' = "parse"
  /\ left' \in 0 .. Batch
  /\ UNCHANGED <<drive, gain, echo>>

\* A complete packet with command cmd: its callback is called.
Dispatch(cmd) ==
  /\ pc = "parse"
  /\ left > 0
  /\ cmd \in Sent
  /\ left' = left - 1

\* ESPClientSendData(&client, p): the echo, lost when the output queue is full.
Echo(cmd) == echo' \in {cmd, "none"}

NoEcho == echo' = "none"

KeepAliveCallback ==
  /\ Dispatch("KEEPALIVE")
  /\ NoEcho
  /\ UNCHANGED <<drive, gain, pc>>

\* Mutants of SetModeCallback: a running car goes on running, and the pulse
\* widths are reset for the automatic mode alone.
SetModeOnly ==
  /\ Dispatch("SET_MODE")
  /\ mode_state' \in {"MANUAL", "AUTO", mode_state}
  /\ esc' = Neutral
  /\ servo' = Neutral
  /\ Echo("SET_MODE")
  /\ UNCHANGED <<running_state, gain, pc>>

SetModeReset ==
  /\ Dispatch("SET_MODE")
  /\ mode_state' \in {"MANUAL", "AUTO", mode_state}
  /\ running_state' = "CAR_OFF"
  /\ esc' = IF mode_state' = "AUTO" THEN Neutral ELSE esc
  /\ servo' = IF mode_state' = "AUTO" THEN Neutral ELSE servo
  /\ Echo("SET_MODE")
  /\ UNCHANGED <<gain, pc>>

\* Modes 0 and 1; any other value leaves the mode as it is, but stops the car.
SetModeCallback ==
  /\ Dispatch("SET_MODE")
  /\ mode_state' \in {"MANUAL", "AUTO", mode_state}
  /\ running_state' = "CAR_OFF"
  /\ esc' = Neutral
  /\ servo' = Neutral
  /\ Echo("SET_MODE")
  /\ UNCHANGED <<gain, pc>>

DrivenByHand == mode_state = "MANUAL" /\ running_state = "CAR_ON"

\* Mutant of UpdateSpeedCallback: the running state is not looked at.
UpdateSpeedAlways ==
  /\ Dispatch("UPDATE_SPEED")
  /\ \E speed \in Speeds :
       esc' = IF mode_state = "MANUAL" THEN SpeedPWM(speed) ELSE esc
  /\ Echo("UPDATE_SPEED")
  /\ UNCHANGED <<mode_state, running_state, servo, gain, pc>>

UpdateSpeedCallback ==
  /\ Dispatch("UPDATE_SPEED")
  /\ \E speed \in Speeds : esc' = IF DrivenByHand THEN SpeedPWM(speed) ELSE esc
  /\ Echo("UPDATE_SPEED")
  /\ UNCHANGED <<mode_state, running_state, servo, gain, pc>>

UpdateSteeringAngle(angle) ==
  /\ Dispatch("UPDATE_STEERING_ANGLE")
  /\ servo' = IF DrivenByHand THEN SteeringPWM(angle) ELSE servo
  /\ Echo("UPDATE_STEERING_ANGLE")
  /\ UNCHANGED <<mode_state, running_state, esc, gain, pc>>

UpdateSteeringAngleCallback == \E angle \in Angles : UpdateSteeringAngle(angle)

StartCallback ==
  /\ Dispatch("START")
  /\ running_state' = "CAR_ON"
  /\ esc' = IF mode_state = "AUTO" THEN Clamp(Cruise) ELSE esc
  /\ Echo("START")
  /\ UNCHANGED <<mode_state, servo, gain, pc>>

\* In automatic mode the motor brakes first, in delay(700) ...
StopCallbackBrake ==
  /\ Dispatch("STOP")
  /\ mode_state = "AUTO" /\ running_state = "CAR_ON"
  /\ esc' = Clamp(Brake)
  /\ pc' = "delay"
  /\ UNCHANGED <<mode_state, running_state, servo, gain, echo>>

\* Mutant of StopCallbackRelease: the servo is left alone.
StopCallbackTurned ==
  /\ pc = "delay"
  /\ esc' = Neutral
  /\ running_state' = "CAR_OFF"
  /\ Echo("STOP")
  /\ pc' = "parse"
  /\ UNCHANGED <<mode_state, servo, gain, left>>

\* ... and is then released and the servo centred.
StopCallbackRelease ==
  /\ pc = "delay"
  /\ esc' = Neutral
  /\ servo' = Neutral
  /\ running_state' = "CAR_OFF"
  /\ Echo("STOP")
  /\ pc' = "parse"
  /\ UNCHANGED <<mode_state, gain, left>>

\* Otherwise only the running state changes.
StopCallbackOff ==
  /\ Dispatch("STOP")
  /\ ~(mode_state = "AUTO" /\ running_state = "CAR_ON")
  /\ running_state' = "CAR_OFF"
  /\ Echo("STOP")
  /\ UNCHANGED <<mode_state, esc, servo, gain, pc>>

GainUpdateCallback ==
  /\ Dispatch("UPDATE_GAIN")
  /\ gain' \in Gains
  /\ Echo("UPDATE_GAIN")
  /\ UNCHANGED <<drive, pc>>

\* Only a packet with this command calls it: the test of the time since the
\* last message is commented out in ESPClientParseMessages (lines 160-168).
ConnectionTimedOutCallback ==
  /\ Dispatch("CONNECTION_TIMEOUT")
  /\ esc' = IF mode_state = "MANUAL" THEN Neutral ELSE esc
  /\ servo' = IF mode_state = "MANUAL" THEN Neutral ELSE servo
  /\ NoEcho
  /\ UNCHANGED <<mode_state, running_state, gain, pc>>

\* cb is NULL and is called all the same: the processor faults and the main
\* loop is over, while TIM4 goes on with its pulses.
NoCallback ==
  /\ \E cmd \in Commands \ Attached : Dispatch(cmd)
  /\ pc' = "fault"
  /\ NoEcho
  /\ UNCHANGED <<drive, gain>>

Callback ==
  \/ KeepAliveCallback \/ SetModeCallback \/ UpdateSpeedCallback
  \/ UpdateSteeringAngleCallback \/ StartCallback \/ StopCallbackBrake
  \/ StopCallbackRelease \/ StopCallbackOff \/ GainUpdateCallback
  \/ ConnectionTimedOutCallback \/ NoCallback

ParseEnd ==
  /\ pc = "parse"
  /\ left = 0
  /\ pc' = "steer"
  /\ UNCHANGED <<drive, gain, left, echo>>

\* The rest of the loop.  computeNewHeading has a gain of its own, so the one the
\* phone sets changes nothing (control.c:33).
Steer ==
  /\ pc = "steer"
  /\ IF mode_state = "AUTO" /\ running_state = "CAR_ON"
       THEN servo' \in {Clamp(pwm) : pwm \in HeadingPWM}
       ELSE servo' = servo
  /\ pc' = "loop"
  /\ UNCHANGED <<mode_state, running_state, esc, gain, left, echo>>

Next == ParseMessages \/ Callback \/ ParseEnd \/ Steer

\* No fairness: a byte that meets a full input queue stops the main thread for
\* good, wherever it is (CallReturns in MsgQueue), so it may stop here too.
Spec == Init /\ [][Next]_vars

-----------------------------------------------------------------------------
\* The types of the car's state.
TypeOK ==
  /\ mode_state \in {"MANUAL", "AUTO"}
  /\ running_state \in {"CAR_OFF", "CAR_ON"}
  /\ esc \in PWM
  /\ servo \in PWM
  /\ gain \in Gains
  /\ pc \in {"loop", "parse", "delay", "steer", "fault"}
  /\ left \in 0 .. Batch
  /\ echo \in Commands \cup {"none"}

\* In automatic mode the pulse widths follow from the running state alone: the
\* car stands still and looks ahead before START (main.c:244) and after STOP
\* (main.c:275), cruises in between, and brakes only inside the callback of
\* STOP, whatever the speeds and angles sent, and the modes left, before.
AutoDrive ==
  mode_state = "AUTO" =>
    IF running_state = "CAR_OFF" THEN esc = Neutral /\ servo = Neutral
                                 ELSE esc = IF pc = "delay" THEN Brake ELSE Cruise

\* In manual mode the pulse widths are those the phone has asked for, or neutral:
\* neither the speed, the brake nor the heading of the automatic mode outlasts it,
\* also when the mode is changed while the car drives (SetModeCallback, main.c:187)
\* or the car is started, stopped or left alone after that.
ManualDrive ==
  mode_state = "MANUAL" =>
    /\ esc \in {SpeedPWM(speed) : speed \in Speeds} \cup {Neutral}
    /\ servo \in {SteeringPWM(angle) : angle \in Angles} \cup {Neutral}

\* What the phone has read in an echo holds until its next command is handled,
\* whatever the main loop does in between.
EchoIsTrue ==
  /\ echo = "START" => running_state = "CAR_ON"
  /\ echo = "STOP" => /\ running_state = "CAR_OFF"
                      /\ mode_state = "AUTO" => esc = Neutral
  /\ echo = "SET_MODE" => /\ running_state = "CAR_OFF"
                          /\ esc = Neutral /\ servo = Neutral

\* The motor is given a new throttle only while the car is in running state, so
\* never by a speed that arrives after a stop or before a start.
ThrottleNeedsStart ==
  [][esc' # esc /\ esc' # Neutral => running_state' = "CAR_ON"]_vars

-----------------------------------------------------------------------------
(* What the comments and the headers say and the code does not do.         *)

\* "stop motor" (ESPClient.h:37).
StopStopsMotor == echo = "STOP" => esc = Neutral

\* "- if left, + if right" (ESPClient.h:39).
SteersToItsSide ==
  [][\A angle \in Angles :
       DrivenByHand /\ angle < 0 /\ UpdateSteeringAngle(angle) => servo' <= Neutral]_vars

\* "if calback exists call it" (ESPClient.c:97).
OnlyCallbacksCalled == pc # "fault"
=============================================================================

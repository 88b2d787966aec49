------------------------------- MODULE Startup -------------------------------
(***************************************************************************)
(* The main thread from power-up (main.c 65-161): it waits for the ESP     *)
(* module, sets up the color sensor, and then runs its loop for ever.  It  *)
(* prints, waits and talks to the sensor by calls that return only when    *)
(* the console's ring has room, the clock has gone on, or the bus answers; *)
(* and in each turn it sends the status when it is due.                    *)
(*                                                                         *)
(* What is left of the boot or of the turn is a sequence of statements.    *)
(* A turn is abstracted to the prints and delays of the callbacks it runs  *)
(* (module CarControl has their other effects) and the status.             *)
(***************************************************************************)
EXTENDS Console, Clock, ColorSensor

CONSTANTS
  PowerDelay,       \* 500, of ESPTogglePower
  EnableDelay,      \* 3, between the two writes of enable
  Callbacks         \* what callbacks do in one turn: sequences of statements

Printf(n) == <<"printf", n>>
Delay(n) == <<"delay", n>>
Transfer(t) == <<"I2C_Master", t>>
CheckId == <<"if", 0>>
Status == <<"sendCarStatus", 0>>

ASSUME StartupAssumption ==
  /\ PowerDelay \in Nat /\ EnableDelay \in Nat
  /\ Callbacks \subseteq Seq({"printf", "delay"} \X (Nat \ {0}))

VARIABLES
  todo,             \* the statements left
  looping           \* the boot is over

vars == <<at, console, clock, sensor, todo, looping>>

-----------------------------------------------------------------------------
\* Mutant of enable: without the delay.
enableAtOnce == <<Transfer("PON"), Transfer("PON|AEN")>>

enable == <<Transfer("PON"), Delay(EnableDelay), Transfer("PON|AEN")>>

read8 == <<Transfer(SelectId), Transfer(ReadId)>>

initColorSensor ==
  read8 \o <<Printf(2), CheckId, Transfer("TCS34725_ATIME"), Transfer("TCS34725_CONTROL")>>
        \o enable

Boot == <<Delay(PowerDelay)>> \o initColorSensor

Init ==
  /\ at = "next"
  /\ InitConsole /\ InitClock /\ InitColorSensor
  /\ todo = Boot /\ looping = FALSE

\* A pending interrupt goes before the main thread.
MainRuns == ~Usart2Pending

\* x goes out of use.
ForgetId == x' = FALSE /\ UNCHANGED <<transfer, failed, registers, warm, busTaken, dmaEnabled>>

Start ==
  /\ MainRuns /\ at = "next" /\ todo # <<>>
  /\ LET s == Head(todo)
     IN  \/ s[1] = "printf" /\ printf(s[2]) /\ UNCHANGED <<clock, sensor>>
         \/ s[1] = "delay" /\ delay(s[2]) /\ UNCHANGED <<console, sensor>>
         \/ s[1] = "I2C_Master" /\ I2C_Master(s[2]) /\ UNCHANGED <<console, clock>>
         \/ s = Status /\ sendCarStatus /\ UNCHANGED <<console, sensor>>
         \/ s = CheckId /\ ForgetId /\ UNCHANGED <<at, console, clock>>
  /\ todo' = IF Head(todo) = CheckId /\ ~x THEN <<>> ELSE Tail(todo)
  /\ UNCHANGED looping

Continue ==
  /\ MainRuns
  /\ \/ SendChar /\ UNCHANGED <<clock, sensor>>
     \/ ClockMain /\ UNCHANGED <<console, sensor>>
     \/ I2CMain /\ UNCHANGED <<console, clock>>
  /\ UNCHANGED <<todo, looping>>

\* The bus and the sensor go on by themselves; the main thread polls.
Answer ==
  /\ MainRuns /\ Transferred
  /\ UNCHANGED <<console, clock, todo, looping>>

Turn ==
  /\ MainRuns /\ at = "next" /\ todo = <<>>
  /\ looping' = TRUE
  /\ \E s \in Callbacks : todo' = s \o <<Status>>
  /\ UNCHANGED <<at, console, clock, sensor>>

Tick == SysTick_Handler /\ Warm /\ UNCHANGED <<console, todo, looping,
          transfer, x, registers, failed, busTaken, dmaEnabled>>

Usart2 == (USART2_IRQHandler \/ ShiftOut) /\ UNCHANGED <<clock, sensor, todo, looping>>

Next ==
  \/ Start
  \/ Continue
  \/ Answer
  \/ Turn
  \/ Tick
  \/ Usart2
  \/ Type /\ UNCHANGED <<clock, sensor, todo, looping>>

Spec == Init /\ [][Next]_vars

\* The processor runs, the clock ticks, USART2 sends; the bus answers in the end
\* unless it may be stuck.
FairSpec ==
  /\ Spec
  /\ WF_vars(Start \/ Continue \/ Turn) /\ WF_vars(Tick) /\ WF_vars(Usart2)
  /\ "stuck" \notin Faults => WF_vars(Answer)

-----------------------------------------------------------------------------
\* Once the loop runs and no transfer has failed, the sensor was set up: all
\* writes arrived, in their order, and its converter was enabled only when its
\* power had been on for three ticks, wherever the clock was.
SensorEnabled ==
  looping /\ ~failed =>
    /\ registers = <<"TCS34725_ATIME", "TCS34725_CONTROL", "PON", "PON|AEN">>
    /\ warm >= WarmEnough

\* The status is sent again and again: the boot comes to its end, every printf
\* finds room and every delay is over, with transfers that fail, full rings and a
\* clock that wraps.
StatusSent == []<>(at = "stamp")

\* Outside a transfer no DMA channel may write to the bus, and the bus is free
\* (not after a transfer that failed).
BusReleased == at = "next" => ~busTaken /\ ~dmaEnabled
=============================================================================

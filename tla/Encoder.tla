------------------------------- MODULE Encoder -------------------------------
(***************************************************************************)
(* The wheel encoder (encoder.c).  TIM3 counts the ticks of the wheel, up  *)
(* or down, and keeps the direction of the last tick in its DIR bit; it    *)
(* wraps.  Every 150 ms the interrupt of TIM2 takes the difference to the  *)
(* count before, which way round DIR says, for the velocity, and counts    *)
(* the readings without one.                                               *)
(*                                                                         *)
(* The handler reads the count (line 105) and then DIR (line 108); the     *)
(* wheel turns on in between.  Velocities are in ticks per reading: one    *)
(* tick is 42.5 mm/s, so fabs(velocity) < 0.1 (line 131) just when there   *)
(* is none.  prev_velocity, which nothing reads, is left out.              *)
(*                                                                         *)
(* External: TIM3 and the wheel.                                           *)
(***************************************************************************)
EXTENDS Integers

CONSTANTS
  Top,              \* 0xffff, the largest count
  MaxTurn,          \* bound: ticks of the wheel between two readings
  StallReadings     \* 15, readings without a tick until motor_stalling is set

ASSUME EncoderAssumption ==
  /\ Top \in Nat /\ MaxTurn \in Nat /\ MaxTurn < Top
  /\ StallReadings \in Nat \ {0}

-----------------------------------------------------------------------------
VARIABLES
  count,                    \* TIM3->CNT
  down,                     \* TIM3->CR1 & TIM_CR1_DIR
  tim2,                     \* the handler of TIM2: "waiting" or "counted"
  cnt1, cnt2,               \* its counts: of the reading before, and of this one
  velocity,
  low_velocity_counter,
  motor_stalling,
  moved,                    \* ticks forwards since the count was read
  measured,                 \* ticks forwards in the interval read last
  trusted,                  \* the last tick before DIR was read went that way
  drift                     \* ticks forwards since the last reading with one

timer3 == <<count, down>>
handler == <<tim2, cnt1, cnt2, velocity, low_velocity_counter, motor_stalling>>
history == <<moved, measured, trusted, drift>>
encoder == <<timer3, handler, history>>

-----------------------------------------------------------------------------
InitEncoder ==
  /\ count = 0 /\ down = FALSE
  /\ tim2 = "waiting" /\ cnt1 = 0 /\ cnt2 = 0
  /\ velocity = 0 /\ low_velocity_counter = 0 /\ motor_stalling = FALSE
  /\ moved = 0 /\ measured = 0 /\ trusted = TRUE /\ drift = 0

\* External: the wheel turns by one tick.  When the car drives forwards, TIM3
\* counts down (line 108).
TurnForwards ==
  /\ moved < MaxTurn
  /\ count' = IF count = 0 THEN Top ELSE count - 1
  /\ down' = TRUE
  /\ moved' = moved + 1
  /\ UNCHANGED <<handler, measured, trusted, drift>>

TurnBackwards ==
  /\ moved > - MaxTurn
  /\ count' = IF count = Top THEN 0 ELSE count + 1
  /\ down' = FALSE
  /\ moved' = moved - 1
  /\ UNCHANGED <<handler, measured, trusted, drift>>

Turn == TurnForwards \/ TurnBackwards

ReadCount ==
  /\ tim2 = "waiting"
  /\ tim2' = "counted"
  /\ cnt2' = count
  /\ measured' = moved
  /\ moved' = 0
  /\ UNCHANGED <<timer3, cnt1, velocity, low_velocity_counter, motor_stalling,
                 trusted, drift>>

\* Mutant of Forwards: a wrap of the count is not noticed.
ForwardsNoWrap == cnt1 - cnt2

\* The velocity the handler computes from its two counts (lines 108-126).
Forwards == IF cnt2 <= cnt1 THEN cnt1 - cnt2 ELSE (Top - cnt2) + cnt1
Backwards == IF cnt2 >= cnt1 THEN cnt2 - cnt1 ELSE (Top - cnt1) + cnt2
Velocity == IF down THEN Forwards ELSE - Backwards

\* Mutant of LowReadings: the counter is not reset by a reading with a tick.
LowReadingsKept == low_velocity_counter + (IF Velocity = 0 THEN 1 ELSE 0)

\* The readings without a tick, this one included (lines 131-134).
LowReadings == IF Velocity = 0 THEN low_velocity_counter + 1 ELSE 0

ReadDirection ==
  /\ tim2 = "counted"
  /\ tim2' = "waiting"
  /\ velocity' = Velocity
  /\ cnt1' = cnt2
  /\ motor_stalling' = (motor_stalling \/ LowReadings = StallReadings)
  /\ low_velocity_counter' = IF LowReadings = StallReadings THEN 0 ELSE LowReadings
  /\ trusted' = /\ measured > 0 => down
                /\ measured < 0 => ~down
  /\ drift' = IF LowReadings = 0 THEN 0 ELSE drift + measured
  /\ UNCHANGED <<timer3, cnt2, moved, measured>>

Handler == ReadCount \/ ReadDirection

-----------------------------------------------------------------------------
TypeOKEncoder ==
  /\ count \in 0 .. Top /\ down \in BOOLEAN
  /\ tim2 \in {"waiting", "counted"}
  /\ cnt1 \in 0 .. Top /\ cnt2 \in 0 .. Top
  /\ velocity \in - Top .. Top
  /\ low_velocity_counter \in 0 .. StallReadings - 1
  /\ motor_stalling \in BOOLEAN
  /\ moved \in - MaxTurn .. MaxTurn /\ measured \in - MaxTurn .. MaxTurn
  /\ trusted \in BOOLEAN /\ drift \in Int

\* A velocity is that of the ticks the wheel made in its interval, whenever
\* the wheel last turned the way the interval went: the difference of two
\* counts is taken the right way round also over a wrap, where it is one tick
\* short (lines 110-124: 0xffff is not the number of counts, 0x10000 is).
VelocityTrue ==
  tim2 = "waiting" /\ trusted =>
    \/ velocity = measured
    \/ measured > 0 /\ cnt1 > Top - measured /\ velocity = measured - 1
    \/ measured < 0 /\ cnt1 < - measured /\ velocity = measured + 1

\* The motors are said to stall only when the wheel is, to a tick, where it was
\* at the last reading with a tick: the ticks a reading misses at a wrap do not
\* add up over the StallReadings ones, and a reading with a tick ends the count.
StallIsReal ==
  [][motor_stalling' # motor_stalling => motor_stalling' /\ drift' \in -1 .. 1]_encoder
=============================================================================

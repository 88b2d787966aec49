-------------------------------- MODULE Clock --------------------------------
(***************************************************************************)
(* The time base (Delay.c) and the status it paces (sendCarStatus in       *)
(* main.c): msTicks counts milliseconds and wraps; a stretch of time is    *)
(* the difference of two counts.                                           *)
(*                                                                         *)
(* External: SysTick and the ESP client, which takes the status.           *)
(***************************************************************************)
EXTENDS Integers, MainThread

CONSTANTS
  TickWrap,         \* 2^32
  Interval,         \* 60, ticks between two status messages
  Announced,        \* 100, what the comment there says they are
  MaxHeld           \* bound: ticks between two looks at the clock; 2^32 is far

ASSUME ClockAssumption ==
  /\ TickWrap \in Nat /\ Interval \in Nat \ {0} /\ MaxHeld \in Nat \ {0}
  /\ Interval + MaxHeld < TickWrap
  /\ Announced \in Nat /\ Interval <= Announced

VARIABLES
  msTicks,
  currentTicks, delayTicks,   \* of the current call of delay
  prevt,                      \* of sendCarStatus
  held,                       \* ticks since the main thread looked at the clock
  since                       \* ticks since the last status, Announced at most

clock == <<msTicks, currentTicks, delayTicks, prevt, held, since>>

InitClock ==
  /\ msTicks = 0 /\ currentTicks = 0 /\ delayTicks = 0 /\ prevt = 0
  /\ held = 0 /\ since = 0

\* Mutant of Elapsed: a signed difference, negative after the wrap.
ElapsedSigned(t) == msTicks - t

Elapsed(t) == (msTicks - t) % TickWrap      \* of unsigned numbers

-----------------------------------------------------------------------------
SysTick_Handler ==
  /\ held < MaxHeld
  /\ msTicks' = (msTicks + 1) % TickWrap
  /\ held' = held + 1
  /\ since' = IF since < Announced THEN since + 1 ELSE since
  /\ UNCHANGED <<at, currentTicks, delayTicks, prevt>>

delay(n) ==
  /\ Go("next", "delay")
  /\ currentTicks' = msTicks /\ delayTicks' = n
  /\ held' = 0
  /\ UNCHANGED <<msTicks, prevt, since>>

DelayMore ==
  /\ Go("delay", "delay")
  /\ Elapsed(currentTicks) < delayTicks
  /\ held' = 0
  /\ UNCHANGED <<msTicks, currentTicks, delayTicks, prevt, since>>

DelayOver ==
  /\ Go("delay", "next")
  /\ Elapsed(currentTicks) >= delayTicks
  /\ currentTicks' = 0 /\ delayTicks' = 0 /\ held' = 0
  /\ UNCHANGED <<msTicks, prevt, since>>

Due == Elapsed(prevt) >= Interval

sendCarStatus ==
  /\ Go("next", IF Due THEN "send" ELSE "next")
  /\ held' = 0
  /\ UNCHANGED <<msTicks, currentTicks, delayTicks, prevt, since>>

SendStatus ==
  /\ Go("send", "stamp")
  /\ since' = 0
  /\ UNCHANGED <<msTicks, currentTicks, delayTicks, prevt, held>>

\* Mutant of Stamp: the time the status was due, not when it was sent.
StampDue ==
  /\ Go("stamp", "next")
  /\ prevt' = (prevt + Interval) % TickWrap
  /\ held' = 0
  /\ UNCHANGED <<msTicks, currentTicks, delayTicks, since>>

\* msTicks is read again after the status was sent.
Stamp ==
  /\ Go("stamp", "next")
  /\ prevt' = msTicks
  /\ held' = 0
  /\ UNCHANGED <<msTicks, currentTicks, delayTicks, since>>

ClockMain == DelayMore \/ DelayOver \/ SendStatus \/ Stamp

-----------------------------------------------------------------------------
\* Two status messages are Interval ticks apart at least, also when the clock
\* wraps between them and however many ticks pass within the call.  These are the
\* 60 of main.c:307, not the 100 of the comment above it.
StatusSpaced == at = "send" => since >= Interval

-----------------------------------------------------------------------------
(* What the comment says and the code does not do.                         *)

\* "if 100 ms elapsed since last transmission." (main.c:306).
StatusAsAnnounced == at = "send" => since >= Announced
=============================================================================

---------------------------- MODULE StartupProofs ----------------------------
(***************************************************************************)
(* The console, the clock and the set-up of the color sensor in the main   *)
(* thread, for every size of the ring, every wrap of the counters and of   *)
(* the clock, every interval, all callbacks and all faults of the bus.     *)
(***************************************************************************)
EXTENDS Startup, RingIndexProofs, SequenceTheorems

ConsoleTypes ==
  /\ start \in 0 .. Wrap - 1 /\ end \in 0 .. Wrap - 1
  /\ sending \in BOOLEAN /\ txeie \in BOOLEAN
  /\ usart \in 0 .. 2 /\ elapsed \in 0 .. CharTimes

\* There is room for the character that is about to be stored.
RoomOK == Count <= Size /\ (at = "store" => Count < Size)

\* The interrupt is enabled while it sends, but for the two steps of a kick, and
\* when it has stopped the data register is free.
SendingOK ==
  /\ txeie => sending
  /\ sending => txeie \/ at \in {"kick", "enable"}
  /\ at \in {"kick", "enable"} => sending /\ ~txeie
  /\ ~sending \/ at = "kick" => usart < 2

\* A character that has been stored waits, or the interrupt has sent it and will
\* not have stopped before sending is looked at: its character and the one in
\* the data register before are still to be shifted out.
StoredOK ==
  /\ start # end => sending \/ at = "look"
  /\ at = "kick" \/ (at = "look" /\ ~sending) => start # end
  /\ at = "look" /\ txeie =>
       \/ start # end /\ usart + elapsed >= 2
       \/ usart = 2 /\ elapsed = 1

ConsoleInv == ConsoleTypes /\ RoomOK /\ SendingOK /\ StoredOK

-----------------------------------------------------------------------------
LEMMA Ring ==
  /\ Wrap \in Nat /\ Size \in Nat /\ Size >= 1 /\ Size < Wrap - 1
  /\ CharTimes \in Nat
  BY SizeAssumption, ConsoleAssumption

LEMMA Indices ==
  ASSUME ConsoleTypes
  PROVE  /\ Inc(start) \in 0 .. Wrap - 1 /\ Inc(end) \in 0 .. Wrap - 1
         /\ Count \in Nat
         /\ Count = 0 <=> start = end
         /\ Count < Size => Minus(Inc(end), start) = Count + 1
         /\ start # end => Minus(end, Inc(start)) = Count - 1
<1>1. start \in 0 .. Wrap - 1 /\ end \in 0 .. Wrap - 1
  BY DEF ConsoleTypes
<1>2. /\ Inc(end) \in 0 .. Wrap - 1 /\ Minus(end, start) \in Nat
      /\ Minus(end, start) = 0 <=> end = start
      /\ Minus(end, start) < Wrap - 1 => Minus(Inc(end), start) = Minus(end, start) + 1
      /\ Minus(end, start) > 0 => Minus(end, Inc(start)) = Minus(end, start) - 1
  BY <1>1, Counters
<1>3. Inc(start) \in 0 .. Wrap - 1
  BY <1>1, Counters
<1>. QED BY <1>2, <1>3, Ring DEF Count

\* The steps of a call of SendChar.
LEMMA SendCharStep ==
  ASSUME CharTimes <= 1, ConsoleInv, MainRuns, SendChar PROVE ConsoleInv'
<1>1. ConsoleTypes /\ RoomOK /\ SendingOK /\ StoredOK
  BY DEF ConsoleInv
<1>2. CASE Spin \/ TestFull
  <2>1. UNCHANGED <<start, end, sending, txeie, usart, elapsed>>
    BY <1>2 DEF Spin, TestFull, console, line
  <2>2. at' \in {"full", "store"} /\ (at' = "store" => Count < Size) /\ at = "full"
    BY <1>2 DEF Spin, TestFull, Go
  <2>. QED BY <1>1, <2>1, <2>2
           DEF ConsoleInv, ConsoleTypes, RoomOK, SendingOK, StoredOK, Count
<1>3. CASE Store
  <2>1. /\ at = "store" /\ at' = "look" /\ end' = Inc(end)
        /\ UNCHANGED <<start, sending, txeie, usart, elapsed>>
    BY <1>3 DEF Store, Go, hardware, line
  <2>2. Count < Size /\ Count' = Count + 1 /\ end' \in 0 .. Wrap - 1
    BY <1>1, <2>1, Indices, Ring DEF RoomOK, Count
  <2>3. ConsoleTypes'
    BY <1>1, <2>1, <2>2 DEF ConsoleTypes
  <2>4. start' # end'
    BY <2>2, <2>3, <1>1, Indices, Counters DEF ConsoleTypes, Count
  <2>5. txeie => usart = 2
    BY <1>1 DEF MainRuns, Usart2Pending, TxeDue, ConsoleTypes
  <2>6. RoomOK' /\ SendingOK'
    BY <1>1, <2>1, <2>2, Indices, Ring DEF RoomOK, SendingOK
  <2>7. StoredOK'
    BY <1>1, <2>1, <2>3, <2>4, <2>5, Ring DEF StoredOK, ConsoleTypes
  <2>. QED BY <2>3, <2>6, <2>7 DEF ConsoleInv
<1>4. CASE TestBusy \/ EnableTxe
  <2>1. /\ at' \in {"next", "full"} /\ elapsed' = 0
        /\ UNCHANGED <<start, end, sending, usart>>
    BY <1>4 DEF TestBusy, EnableTxe, Written, line
  <2>2. /\ sending /\ txeie' \in BOOLEAN
        /\ (at = "look" /\ txeie' = txeie) \/ (at = "enable" /\ txeie' = TRUE)
    BY <1>1, <1>4 DEF TestBusy, EnableTxe, SendingOK, ConsoleTypes
  <2>3. ConsoleTypes'
    BY <1>1, <2>1, <2>2, Ring DEF ConsoleTypes
  <2>4. RoomOK' /\ StoredOK'
    BY <1>1, <2>1, <2>2 DEF RoomOK, StoredOK, Count
  <2>5. SendingOK'
    BY <1>1, <2>1, <2>2 DEF SendingOK
  <2>. QED BY <2>3, <2>4, <2>5 DEF ConsoleInv
<1>5. CASE TestIdle
  <2>1. /\ at = "look" /\ at' = "kick" /\ ~sending /\ sending' = TRUE
        /\ UNCHANGED <<start, end, txeie, usart, elapsed>>
    BY <1>5 DEF TestIdle, Go, hardware, line
  <2>. QED BY <1>1, <2>1 DEF ConsoleInv, ConsoleTypes, RoomOK, SendingOK, StoredOK, Count
<1>6. CASE Kick
  <2>1. /\ at = "kick" /\ at' = "enable" /\ start' = Inc(start) /\ usart' = usart + 1
        /\ UNCHANGED <<end, sending, txeie, elapsed>>
    BY <1>6 DEF Kick, Go, line
  <2>2. start # end /\ usart < 2 /\ sending
    BY <1>1, <2>1 DEF SendingOK, StoredOK
  <2>3. Count' = Count - 1 /\ start' \in 0 .. Wrap - 1 /\ Count \in Nat
    BY <1>1, <2>1, <2>2, Indices DEF Count
  <2>4. ConsoleTypes' /\ RoomOK'
    BY <1>1, <2>1, <2>2, <2>3, Ring DEF ConsoleTypes, RoomOK
  <2>5. SendingOK' /\ StoredOK'
    BY <1>1, <2>1, <2>2 DEF SendingOK, StoredOK
  <2>. QED BY <2>4, <2>5 DEF ConsoleInv
<1>. QED BY <1>2, <1>3, <1>4, <1>5, <1>6 DEF SendChar

\* The interrupt sends the oldest character, or stops.
LEMMA InterruptStep ==
  ASSUME CharTimes <= 1, ConsoleInv, USART2_IRQHandler PROVE ConsoleInv'
<1>1. ConsoleTypes /\ RoomOK /\ SendingOK /\ StoredOK
  BY DEF ConsoleInv
<1>2. UNCHANGED <<at, end, elapsed>>
  BY DEF USART2_IRQHandler
<1>3. CASE TxeDue /\ end # start
  <2>1. usart' = usart + 1 /\ start' = Inc(start) /\ sending' = TRUE /\ txeie' = txeie
    BY <1>3 DEF USART2_IRQHandler, Transmit
  <2>2. Count' = Count - 1 /\ start' \in 0 .. Wrap - 1 /\ Count \in Nat
    BY <1>1, <1>2, <1>3, <2>1, Indices DEF Count
  <2>3. ConsoleTypes' /\ RoomOK'
    BY <1>1, <1>2, <1>3, <2>1, <2>2, Ring DEF ConsoleTypes, RoomOK, TxeDue
  <2>4. txeie /\ sending /\ at \notin {"kick", "enable"}
    BY <1>1, <1>3 DEF TxeDue, SendingOK
  <2>5. SendingOK'
    BY <1>1, <1>2, <2>1, <2>4 DEF SendingOK
  <2>6. at = "look" => usart = 1 /\ elapsed = 1
    BY <1>1, <1>3, <2>4, Ring DEF StoredOK, ConsoleTypes, TxeDue
  <2>7. StoredOK'
    BY <1>1, <1>2, <2>1, <2>4, <2>6 DEF StoredOK
  <2>. QED BY <2>3, <2>5, <2>7 DEF ConsoleInv
<1>4. CASE TxeDue /\ end = start
  <2>1. sending' = FALSE /\ txeie' = FALSE /\ UNCHANGED <<start, usart>>
    BY <1>4 DEF USART2_IRQHandler, Transmit
  <2>2. at \notin {"look", "kick", "enable"} /\ usart < 2
    BY <1>1, <1>4 DEF StoredOK, SendingOK, TxeDue, ConsoleTypes
  <2>. QED BY <1>1, <1>2, <1>4, <2>1, <2>2
           DEF ConsoleInv, ConsoleTypes, RoomOK, SendingOK, StoredOK, Count
<1>5. CASE ~TxeDue
  <2>1. UNCHANGED <<start, sending, txeie, usart>>
    BY <1>5 DEF USART2_IRQHandler, Transmit
  <2>. QED BY <1>1, <1>2, <2>1
           DEF ConsoleInv, ConsoleTypes, RoomOK, SendingOK, StoredOK, Count
<1>. QED BY <1>3, <1>4, <1>5

\* A character time passes: one at most from Store to the test of sending.
LEMMA ShiftOutStep == ASSUME CharTimes <= 1, ConsoleInv, ShiftOut PROVE ConsoleInv'
<1>1. ConsoleTypes /\ RoomOK /\ SendingOK /\ StoredOK
  BY DEF ConsoleInv
<1>2. /\ usart > 0 /\ usart' = usart - 1 /\ UNCHANGED <<at, start, end, sending, txeie>>
      /\ elapsed' \in {elapsed, elapsed + 1} /\ elapsed' <= CharTimes
      /\ at = "look" => elapsed' = elapsed + 1
  BY <1>1, Ring DEF ShiftOut, ConsoleTypes
<1>3. ConsoleTypes' /\ RoomOK'
  BY <1>1, <1>2, Ring DEF ConsoleTypes, RoomOK, Count
<1>4. SendingOK'
  BY <1>1, <1>2 DEF SendingOK, ConsoleTypes
<1>5. StoredOK'
  <2>1. start # end => sending \/ at = "look"
    BY <1>1 DEF StoredOK
  <2>2. at = "kick" \/ (at = "look" /\ ~sending) => start # end
    BY <1>1 DEF StoredOK
  <2>3. ASSUME at = "look", txeie PROVE start # end /\ usart' + elapsed' >= 2
    <3>1. usart \in 0 .. 2 /\ elapsed \in 0 .. CharTimes /\ elapsed + 1 <= CharTimes
      BY <1>1, <1>2, <2>3 DEF ConsoleTypes
    <3>2. start # end /\ usart + elapsed >= 2
      BY <1>1, <2>3, <3>1, Ring DEF StoredOK
    <3>. QED BY <1>2, <2>3, <3>1, <3>2, Ring
  <2>. QED BY <1>2, <2>1, <2>2, <2>3 DEF StoredOK
<1>. QED BY <1>3, <1>4, <1>5 DEF ConsoleInv

\* Wherever else the main thread goes, the console does not mind.
LEMMA ElsewhereStep ==
  ASSUME ConsoleInv, UNCHANGED <<start, end, sending, txeie, usart, elapsed>>,
         \/ at' = at
         \/ /\ at \notin {"full", "store", "look", "kick", "enable"}
            /\ at' \notin {"store", "look", "kick", "enable"}
  PROVE  ConsoleInv'
  BY DEF ConsoleInv, ConsoleTypes, RoomOK, SendingOK, StoredOK, Count

LEMMA ConsoleStep == ASSUME CharTimes <= 1, ConsoleInv, [Next]_vars PROVE ConsoleInv'
<1> USE DEF Go, console, hardware, line
<1>1. CASE Start
  <2>1. UNCHANGED <<start, end, sending, txeie, usart, elapsed>>
    BY <1>1 DEF Start, printf
  <2>2. at = "next" /\ at' \in {"full", "delay", "i2cStart", "send", "next"}
    BY <1>1 DEF Start, printf, delay, I2C_Master, sendCarStatus
  <2>. QED BY <2>1, <2>2, ElsewhereStep
<1>2. CASE Continue
  <2>1. CASE SendChar
    BY <1>2, <2>1, SendCharStep DEF Continue
  <2>2. CASE UNCHANGED console /\ ClockMain
    <3>1. at \in {"delay", "send", "stamp"} /\ at' \in {"delay", "next", "stamp"}
      BY <2>2 DEF ClockMain, DelayMore, DelayOver, SendStatus, Stamp
    <3>. QED BY <2>2, <3>1, ElsewhereStep
  <2>3. CASE UNCHANGED console /\ I2CMain
    <3>1. at \in {"i2cStart", "i2cAddress"} /\ at' \in {"i2cAddress", "i2cData", "next"}
      BY <2>3 DEF I2CMain, Started, Acknowledged, TimedOut
    <3>. QED BY <2>3, <3>1, ElsewhereStep
  <2>. QED BY <1>2, <2>1, <2>2, <2>3 DEF Continue
<1>3. CASE Answer
  BY <1>3, ElsewhereStep DEF Answer, Transferred
<1>4. CASE Turn
  BY <1>4, ElsewhereStep DEF Turn
<1>5. CASE Tick
  BY <1>5, ElsewhereStep DEF Tick, SysTick_Handler
<1>6. CASE Usart2
  BY <1>6, InterruptStep, ShiftOutStep DEF Usart2
<1>7. CASE Type \/ UNCHANGED vars
  BY <1>7, ElsewhereStep DEF Type, vars
<1>. QED BY <1>1, <1>2, <1>3, <1>4, <1>5, <1>6, <1>7 DEF Next

\* The console's ring is never overfull, the transmitter is started only with a
\* character to send and a free data register, and no character is left behind,
\* when no two characters are shifted out within a call of SendChar.
THEOREM SafeConsole == ASSUME CharTimes <= 1 PROVE Spec => []ConsoleSafe
<1>1. Init => ConsoleInv
  <2> SUFFICES ASSUME Init PROVE ConsoleInv
    OBVIOUS
  <2>1. ConsoleTypes
    <3>1. sending \in BOOLEAN /\ txeie \in BOOLEAN
      BY DEF Init, InitConsole
    <3>2. start \in 0 .. Wrap - 1 /\ end \in 0 .. Wrap - 1
      BY Ring DEF Init, InitConsole
    <3>3. usart \in 0 .. 2 /\ elapsed \in 0 .. CharTimes
      BY Ring DEF Init, InitConsole
    <3>. QED BY <3>1, <3>2, <3>3 DEF ConsoleTypes
  <2>2. Count = 0
    BY <2>1, Indices DEF Init, InitConsole
  <2>. QED BY <2>1, <2>2, Ring DEF Init, InitConsole, ConsoleInv, RoomOK, SendingOK, StoredOK
<1>2. ConsoleInv /\ [Next]_vars => ConsoleInv'
  BY ConsoleStep
<1>3. ConsoleInv => ConsoleSafe
  BY DEF ConsoleInv, RoomOK, SendingOK, StoredOK, ConsoleSafe
<1>. QED BY <1>1, <1>2, <1>3, PTL DEF Spec

-----------------------------------------------------------------------------
(* The clock.  A difference of unsigned numbers is that of the ticks as    *)
(* long as fewer have passed than the clock counts.                        *)

Behind(m, n) == IF m >= n THEN m - n ELSE m - n + TickWrap

ClockInv ==
  /\ msTicks \in 0 .. TickWrap - 1 /\ prevt \in 0 .. TickWrap - 1
  /\ since \in 0 .. Announced
  /\ at \notin {"send", "stamp"} /\ since < Interval => Behind(msTicks, prevt) <= since
  /\ at = "send" => since >= Interval

LEMMA Numbers ==
  /\ TickWrap \in Nat /\ Interval \in Nat /\ 1 <= Interval /\ Interval < TickWrap - 1
  /\ Announced \in Nat /\ Interval <= Announced
  BY ClockAssumption

LEMMA Remainder ==
  ASSUME NEW N \in Nat \ {0}, NEW q \in Int, NEW r \in 0 .. N - 1, NEW a \in Int,
         a = N * q + r
  PROVE  a % N = r
<1>1. PICK p \in Int : a = N * p + (a % N) /\ a % N \in 0 .. N - 1
  BY Quotient
<1>2. N * p \in Int /\ N * q \in Int
  OBVIOUS
<1>3. CASE p < q
  <2>1. N * q >= N * p + N
    BY <1>3, Multiples
  <2>. QED BY <1>1, <1>2, <2>1
<1>4. CASE p = q
  BY <1>1, <1>2, <1>4
<1>5. CASE q < p
  <2>1. N * p >= N * q + N
    BY <1>5, Multiples
  <2>. QED BY <1>1, <1>2, <2>1
<1>. QED BY <1>3, <1>4, <1>5

LEMMA Unsigned ==
  ASSUME NEW m \in 0 .. TickWrap - 1, NEW n \in 0 .. TickWrap - 1
  PROVE  /\ (m - n) % TickWrap = Behind(m, n)
         /\ (m + 1) % TickWrap = IF m + 1 = TickWrap THEN 0 ELSE m + 1
<1>1. /\ TickWrap \in Nat \ {0} /\ m - n \in Int /\ m + 1 \in Int
      /\ TickWrap * 0 = 0 /\ TickWrap * (-1) = - TickWrap /\ TickWrap * 1 = TickWrap
  BY Numbers
<1>2. (m + 1) % TickWrap = IF m + 1 = TickWrap THEN 0 ELSE m + 1
  <2>1. CASE m + 1 = TickWrap
    <3>1. m + 1 = TickWrap * 1 + 0 /\ 0 \in 0 .. TickWrap - 1
      BY <1>1, <2>1
    <3>2. (m + 1) % TickWrap = 0
      BY <1>1, <3>1, Remainder
    <3>. QED BY <2>1, <3>2
  <2>2. CASE m + 1 # TickWrap
    <3>1. m + 1 \in 0 .. TickWrap - 1 /\ m + 1 = TickWrap * 0 + (m + 1)
      BY <1>1, <2>2
    <3>2. (m + 1) % TickWrap = m + 1
      BY <1>1, <3>1, Remainder
    <3>. QED BY <2>2, <3>2
  <2>. QED BY <2>1, <2>2
<1>3. CASE m >= n
  <2>1. m - n \in 0 .. TickWrap - 1 /\ m - n = TickWrap * 0 + (m - n)
    BY <1>1, <1>3
  <2>2. (m - n) % TickWrap = m - n
    BY <1>1, <2>1, Remainder
  <2>. QED BY <1>2, <1>3, <2>2 DEF Behind
<1>4. CASE m < n
  <2>1. /\ m - n + TickWrap \in 0 .. TickWrap - 1
        /\ m - n = TickWrap * (-1) + (m - n + TickWrap)
    BY <1>1, <1>4
  <2>2. (m - n) % TickWrap = m - n + TickWrap
    BY <1>1, <2>1, Remainder
  <2>. QED BY <1>2, <1>4, <2>2 DEF Behind
<1>. QED BY <1>3, <1>4

\* The clock goes on, and with it the time since the last status.
LEMMA TickStep == ASSUME ClockInv, SysTick_Handler PROVE ClockInv'
<1>1. /\ msTicks \in 0 .. TickWrap - 1 /\ prevt \in 0 .. TickWrap - 1 /\ since \in 0 .. Announced
      /\ at' = at /\ prevt' = prevt
      /\ since' = IF since < Announced THEN since + 1 ELSE since
  BY DEF ClockInv, SysTick_Handler
<1>2. msTicks' = IF msTicks + 1 = TickWrap THEN 0 ELSE msTicks + 1
  BY <1>1, Unsigned DEF SysTick_Handler
<1>3. msTicks' \in 0 .. TickWrap - 1 /\ since' \in 0 .. Announced
  BY <1>1, <1>2, Numbers
<1>4. Behind(msTicks', prevt) <= Behind(msTicks, prevt) + 1
  BY <1>1, <1>2, Numbers DEF Behind
<1>5. ASSUME at \notin {"send", "stamp"}, since' < Interval
      PROVE  Behind(msTicks', prevt) <= since'
  <2>1. since < Interval /\ since' = since + 1
    BY <1>1, <1>5, Numbers
  <2>2. Behind(msTicks, prevt) <= since /\ Behind(msTicks, prevt) \in Int
    BY <1>1, <1>5, <2>1, Numbers DEF ClockInv, Behind
  <2>3. Behind(msTicks', prevt) \in Int
    BY <1>1, <1>3, Numbers DEF Behind
  <2>. QED BY <1>1, <1>4, <2>1, <2>2, <2>3
<1>6. at = "send" => since' >= Interval
  BY <1>1, Numbers DEF ClockInv
<1>. QED BY <1>1, <1>3, <1>5, <1>6 DEF ClockInv, Behind

\* The status is sent when the difference says it is due.
LEMMA StatusStep ==
  ASSUME ClockInv, sendCarStatus \/ SendStatus \/ Stamp PROVE ClockInv'
<1>1. /\ msTicks \in 0 .. TickWrap - 1 /\ prevt \in 0 .. TickWrap - 1 /\ since \in 0 .. Announced
      /\ msTicks' = msTicks
  BY DEF ClockInv, sendCarStatus, SendStatus, Stamp
<1>2. CASE sendCarStatus
  <2>1. at = "next" /\ prevt' = prevt /\ since' = since
    BY <1>2 DEF sendCarStatus, Go
  <2>2. at' = IF Behind(msTicks, prevt) >= Interval THEN "send" ELSE "next"
    BY <1>1, <1>2, Unsigned DEF sendCarStatus, Go, Due, Elapsed
  <2>3. since < Interval => Behind(msTicks, prevt) < Interval
    BY <1>1, <2>1, Numbers DEF ClockInv, Behind
  <2>. QED BY <1>1, <2>1, <2>2, <2>3, Numbers DEF ClockInv, Behind
<1>3. CASE SendStatus
  BY <1>1, <1>3, Numbers DEF SendStatus, Go, ClockInv
<1>4. CASE Stamp
  <2>1. at' = "next" /\ prevt' = msTicks /\ since' = since
    BY <1>4 DEF Stamp, Go
  <2>. QED BY <1>1, <2>1 DEF ClockInv, Behind
<1>. QED BY <1>2, <1>3, <1>4

LEMMA OtherwiseStep ==
  ASSUME ClockInv, UNCHANGED <<msTicks, prevt, since>>,
         at' = at \/ (at \notin {"send", "stamp"} /\ at' \notin {"send", "stamp"})
  PROVE  ClockInv'
  BY DEF ClockInv, Behind

LEMMA ClockStep == ASSUME ClockInv, [Next]_vars PROVE ClockInv'
<1> USE DEF Go, clock
<1>1. CASE Start
  <2>1. CASE sendCarStatus
    BY <2>1, StatusStep
  <2>2. CASE UNCHANGED <<msTicks, prevt, since>> /\ at' \in {at, "full", "delay", "i2cStart"}
    BY <1>1, <2>2, OtherwiseStep DEF Start
  <2>. QED BY <1>1, <2>1, <2>2 DEF Start, printf, delay, I2C_Master
<1>2. CASE Continue
  <2>1. CASE SendChar /\ UNCHANGED clock
    <3>1. at \notin {"send", "stamp"} /\ at' \notin {"send", "stamp"}
      BY <2>1 DEF SendChar, Spin, TestFull, Store, TestBusy, TestIdle, Kick, EnableTxe, Written
    <3>. QED BY <2>1, <3>1, OtherwiseStep
  <2>2. CASE DelayMore \/ DelayOver
    BY <2>2, OtherwiseStep DEF DelayMore, DelayOver
  <2>3. CASE SendStatus \/ Stamp
    BY <2>3, StatusStep
  <2>4. CASE I2CMain /\ UNCHANGED clock
    <3>1. at \notin {"send", "stamp"} /\ at' \notin {"send", "stamp"}
      BY <2>4 DEF I2CMain, Started, Acknowledged, TimedOut
    <3>. QED BY <2>4, <3>1, OtherwiseStep
  <2>. QED BY <1>2, <2>1, <2>2, <2>3, <2>4 DEF Continue, ClockMain
<1>3. CASE Answer
  BY <1>3, OtherwiseStep DEF Answer, Transferred
<1>4. CASE Turn
  BY <1>4, OtherwiseStep DEF Turn
<1>5. CASE Tick
  BY <1>5, TickStep DEF Tick
<1>6. CASE Usart2
  BY <1>6, OtherwiseStep DEF Usart2, USART2_IRQHandler, ShiftOut
<1>7. CASE Type /\ UNCHANGED clock
  BY <1>7, OtherwiseStep DEF Type
<1>8. CASE UNCHANGED vars
  BY <1>8, OtherwiseStep DEF vars
<1>. QED BY <1>1, <1>2, <1>3, <1>4, <1>5, <1>6, <1>7, <1>8 DEF Next

\* Two status messages are an interval apart, also when the clock wraps.
THEOREM SpacedStatus == Spec => []StatusSpaced
<1>1. Init => ClockInv
  BY Numbers DEF Init, InitClock, ClockInv, Behind
<1>2. ClockInv /\ [Next]_vars => ClockInv'
  BY ClockStep
<1>3. ClockInv => StatusSpaced
  BY Numbers DEF ClockInv, StatusSpaced
<1>. QED BY <1>1, <1>2, <1>3, PTL DEF Spec
-----------------------------------------------------------------------------
(* The set-up of the color sensor.  What is left of the boot says which of *)
(* its statements is under way, and with it which writes have arrived.     *)

BootLen == 10
Rest(i) == SubSeq(Boot, i + 1, BootLen)

\* The writes among the first i statements of the boot.
Registers(i) ==
  CASE i <= 5 -> <<>>
    [] i = 6 -> <<"TCS34725_ATIME">>
    [] i = 7 -> <<"TCS34725_ATIME", "TCS34725_CONTROL">>
    [] i = 8 \/ i = 9 -> <<"TCS34725_ATIME", "TCS34725_CONTROL", "PON">>
    [] OTHER -> <<"TCS34725_ATIME", "TCS34725_CONTROL", "PON", "PON|AEN">>

InConsole == {"full", "store", "look", "kick", "enable"}
InTransfer == {"i2cStart", "i2cAddress", "i2cData"}

\* Statement i of the boot is under way.
UnderWay(i) ==
  \/ i \in {1, 9} /\ at = "delay"
  \/ i \in {2, 3, 6, 7, 8, 10} /\ at \in InTransfer /\ transfer = Boot[i][2]
  \/ i = 4 /\ at \in InConsole

\* Of the boot i statements have begun, and as long as no transfer has failed
\* they have done what they are for.
BootAt(i) ==
  /\ todo = Rest(i)
  /\ IF at = "next" THEN registers = Registers(i)
                    ELSE UnderWay(i) /\ i > 0 /\ registers = Registers(i - 1)
  /\ (i = 3 /\ at = "next") \/ i = 4 => x
  /\ i = 9 /\ at = "delay" =>
       /\ delayTicks = EnableDelay
       /\ warm = WarmEnough \/ Behind(msTicks, currentTicks) <= warm
  /\ (i = 9 /\ at = "next") \/ i = 10 => warm = WarmEnough

LoopStatements == ({"printf", "delay"} \X (Nat \ {0})) \cup {Status}

\* Once the loop runs it leaves the sensor alone.
LoopAlone ==
  /\ at \notin InTransfer
  /\ todo \in Seq(LoopStatements)
  /\ ~failed => registers = Registers(BootLen) /\ warm = WarmEnough

SensorTypes ==
  /\ msTicks \in 0 .. TickWrap - 1 /\ currentTicks \in 0 .. TickWrap - 1
  /\ warm \in 0 .. WarmEnough /\ looping \in BOOLEAN

SensorInv ==
  /\ SensorTypes
  /\ looping => LoopAlone
  /\ ~looping /\ ~failed => \E i \in 0 .. BootLen : BootAt(i)

-----------------------------------------------------------------------------
Statements == {Delay(PowerDelay), Transfer(SelectId), Transfer(ReadId), Printf(2), CheckId,
    Transfer("TCS34725_ATIME"), Transfer("TCS34725_CONTROL"),
    Transfer("PON"), Delay(EnableDelay), Transfer("PON|AEN")}

\* The length and the elements of a concatenation.
LEMMA Join ==
  ASSUME NEW S, NEW a \in Seq(S), NEW b \in Seq(S), NEW c, c = a \o b
  PROVE  /\ c \in Seq(S) /\ Len(c) = Len(a) + Len(b)
         /\ \A k \in 1 .. Len(a) + Len(b) : c[k] = IF k <= Len(a) THEN a[k] ELSE b[k - Len(a)]
  BY ConcatProperties

\* The boot, statement by statement.
LEMMA BootIs ==
  /\ Boot \in Seq(Statements) /\ Len(Boot) = BootLen
  /\ Boot[1] = Delay(PowerDelay) /\ Boot[2] = Transfer(SelectId)
  /\ Boot[3] = Transfer(ReadId) /\ Boot[4] = Printf(2) /\ Boot[5] = CheckId
  /\ Boot[6] = Transfer("TCS34725_ATIME") /\ Boot[7] = Transfer("TCS34725_CONTROL")
  /\ Boot[8] = Transfer("PON") /\ Boot[9] = Delay(EnableDelay)
  /\ Boot[10] = Transfer("PON|AEN")
<1> DEFINE middle == <<Printf(2), CheckId, Transfer("TCS34725_ATIME"),
                       Transfer("TCS34725_CONTROL")>>
           first == read8 \o middle
           power == <<Delay(PowerDelay)>>
<1>1. /\ read8 \in Seq(Statements) /\ Len(read8) = 2
      /\ read8[1] = Transfer(SelectId) /\ read8[2] = Transfer(ReadId)
  BY DEF read8, Statements
<1>2. /\ middle \in Seq(Statements) /\ Len(middle) = 4
      /\ middle[1] = Printf(2) /\ middle[2] = CheckId
      /\ middle[3] = Transfer("TCS34725_ATIME") /\ middle[4] = Transfer("TCS34725_CONTROL")
  BY DEF Statements
<1>3. /\ enable \in Seq(Statements) /\ Len(enable) = 3
      /\ enable[1] = Transfer("PON") /\ enable[2] = Delay(EnableDelay)
      /\ enable[3] = Transfer("PON|AEN")
  BY DEF enable, Statements
<1>4. power \in Seq(Statements) /\ Len(power) = 1 /\ power[1] = Delay(PowerDelay)
  BY DEF Statements
<1>5. initColorSensor = first \o enable /\ Boot = power \o initColorSensor
  BY DEF initColorSensor, Boot
<1> HIDE DEF middle, power
<1>6. /\ first \in Seq(Statements) /\ Len(first) = 6
      /\ \A k \in 1 .. 6 : first[k] = IF k <= 2 THEN read8[k] ELSE middle[k - 2]
  <2>1. /\ first \in Seq(Statements) /\ Len(first) = Len(read8) + Len(middle)
        /\ \A k \in 1 .. Len(read8) + Len(middle) :
             first[k] = IF k <= Len(read8) THEN read8[k] ELSE middle[k - Len(read8)]
    <3>1. read8 \in Seq(Statements) /\ middle \in Seq(Statements) /\ first = read8 \o middle
      BY <1>1, <1>2 DEF first
    <3>. QED BY ONLY <3>1, Join
  <2>. QED BY <1>1, <1>2, <2>1
<1> HIDE DEF first
<1>7. /\ initColorSensor \in Seq(Statements) /\ Len(initColorSensor) = 9
      /\ \A k \in 1 .. 9 : initColorSensor[k] = IF k <= 6 THEN first[k] ELSE enable[k - 6]
  <2>1. /\ initColorSensor \in Seq(Statements) /\ Len(initColorSensor) = Len(first) + Len(enable)
        /\ \A k \in 1 .. Len(first) + Len(enable) :
             initColorSensor[k] = IF k <= Len(first) THEN first[k] ELSE enable[k - Len(first)]
    <3>1. first \in Seq(Statements) /\ enable \in Seq(Statements) /\ initColorSensor = first \o enable
      BY <1>3, <1>6, <1>5
    <3>. QED BY ONLY <3>1, Join
  <2>. QED BY <1>3, <1>6, <2>1
<1>8. /\ Boot \in Seq(Statements) /\ Len(Boot) = 10
      /\ \A k \in 1 .. 10 : Boot[k] = IF k <= 1 THEN power[k] ELSE initColorSensor[k - 1]
  <2>1. /\ Boot \in Seq(Statements) /\ Len(Boot) = Len(power) + Len(initColorSensor)
        /\ \A k \in 1 .. Len(power) + Len(initColorSensor) :
             Boot[k] = IF k <= Len(power) THEN power[k] ELSE initColorSensor[k - Len(power)]
    <3>1. power \in Seq(Statements) /\ initColorSensor \in Seq(Statements) /\ Boot = power \o initColorSensor
      BY <1>4, <1>7, <1>5
    <3>. QED BY ONLY <3>1, Join
  <2>. QED BY <1>4, <1>7, <2>1
<1>. QED BY <1>1, <1>2, <1>3, <1>4, <1>6, <1>7, <1>8 DEF BootLen

\* Each statement of the boot is the head of what is left before it.
LEMMA RestIs ==
  /\ Rest(0) = Boot /\ Rest(BootLen) = <<>>
  /\ \A i \in 0 .. BootLen - 1 :
       /\ Rest(i) # <<>> /\ Head(Rest(i)) = Boot[i + 1] /\ Tail(Rest(i)) = Rest(i + 1)
<1>1. Boot \in Seq(Statements) /\ Len(Boot) = BootLen /\ BootLen = 10
  BY BootIs DEF BootLen
<1>2. Rest(0) = Boot
  BY <1>1, SubSeqFull DEF Rest
<1>3. Rest(BootLen) = <<>>
  BY <1>1, SubSeqEmpty DEF Rest
<1>4. ASSUME NEW i \in 0 .. BootLen - 1
      PROVE /\ Rest(i) # <<>> /\ Head(Rest(i)) = Boot[i + 1] /\ Tail(Rest(i)) = Rest(i + 1)
  <2>1. i + 1 \in 1 .. Len(Boot) /\ BootLen \in i + 1 .. Len(Boot) /\ (i + 1) + 1 = i + 2
    BY <1>1
  <2>2. /\ Head(SubSeq(Boot, i + 1, BootLen)) = Boot[i + 1]
        /\ Tail(SubSeq(Boot, i + 1, BootLen)) = SubSeq(Boot, (i + 1) + 1, BootLen)
    BY <1>1, <2>1, HeadTailOfSubSeq
  <2>3. \A k \in i + 1 .. BootLen : Boot[k] \in Statements
    <3> TAKE k \in i + 1 .. BootLen
    <3>1. k \in 1 .. Len(Boot)
      BY <1>1
    <3>. QED BY <1>1, <3>1, ElementOfSeq
  <2>4. Len(SubSeq(Boot, i + 1, BootLen)) = BootLen - (i + 1) + 1
    BY <1>1, <2>1, <2>3, SubSeqProperties
  <2>5. SubSeq(Boot, i + 1, BootLen) # <<>>
    <3> DEFINE s == SubSeq(Boot, i + 1, BootLen)
    <3>1. BootLen - (i + 1) + 1 > 0 /\ Len(s) = BootLen - (i + 1) + 1
      BY <1>1, <2>4
    <3>2. Len(<< >>) = 0
      BY EmptySeq
    <3> HIDE DEF s
    <3>3. s # << >>
      BY <3>1, <3>2
    <3>. QED BY <3>3 DEF s
  <2>. QED BY <2>2, <2>5 DEF Rest
<1>. QED BY <1>2, <1>3, <1>4

\* What has arrived grows by the write that is under way.
LEMMA RegistersGrow ==
  /\ \A i \in {1, 2, 3, 4, 5, 9} : Registers(i) = Registers(i - 1)
  /\ \A i \in {6, 7, 8, 10} :
       Registers(i) = Append(Registers(i - 1), Boot[i][2]) /\ Boot[i][2] \in Writes
  /\ \A i \in {2, 3} : Boot[i][2] \notin Writes
  /\ Boot[3][2] = ReadId
  /\ LET r == Registers(8) IN r # <<>> /\ r[Len(r)] = "PON"
<1>1. \A i \in {1, 2, 3, 4, 5, 9} : Registers(i) = Registers(i - 1)
  BY DEF Registers
<1>2. \A i \in {6, 7, 8, 10} :
       Registers(i) = Append(Registers(i - 1), Boot[i][2]) /\ Boot[i][2] \in Writes
  <2>1. /\ Boot[6][2] = "TCS34725_ATIME" /\ Boot[7][2] = "TCS34725_CONTROL"
        /\ Boot[8][2] = "PON" /\ Boot[10][2] = "PON|AEN"
    BY BootIs DEF Transfer
  <2>2. Registers(6) = Append(Registers(6 - 1), "TCS34725_ATIME")
    BY DEF Registers
  <2>3. Registers(7) = Append(Registers(7 - 1), "TCS34725_CONTROL")
    BY DEF Registers
  <2>4. Registers(8) = Append(Registers(8 - 1), "PON")
    BY DEF Registers
  <2>5. Registers(10) = Append(Registers(10 - 1), "PON|AEN")
    BY DEF Registers
  <2>. QED BY <2>1, <2>2, <2>3, <2>4, <2>5 DEF Writes
<1>3. (\A i \in {2, 3} : Boot[i][2] \notin Writes) /\ Boot[3][2] = ReadId
  BY BootIs DEF Transfer, Writes, ReadId, SelectId
<1>4. LET r == Registers(8) IN r # <<>> /\ r[Len(r)] = "PON"
  BY DEF Registers
<1>. QED BY <1>1, <1>2, <1>3, <1>4

\* Every step keeps the clock and the warm-up in their ranges.
LEMMA SensorTypesStep == ASSUME SensorTypes, [Next]_vars PROVE SensorTypes'
<1>1. /\ msTicks \in 0 .. TickWrap - 1 /\ currentTicks \in 0 .. TickWrap - 1
      /\ warm \in 0 .. WarmEnough /\ looping \in BOOLEAN /\ TickWrap \in Nat
      /\ WarmEnough = 3 /\ 0 \in 0 .. TickWrap - 1 /\ 0 \in 0 .. WarmEnough
  BY Numbers DEF SensorTypes, WarmEnough
<1> USE DEF clock, sensor
<1>2. CASE Tick
  <2>1. msTicks' \in 0 .. TickWrap - 1 /\ currentTicks' = currentTicks
    BY <1>1, <1>2, Unsigned DEF Tick, SysTick_Handler
  <2>2. warm' \in 0 .. WarmEnough /\ looping' = looping
    BY <1>1, <1>2 DEF Tick, Warm
  <2>. QED BY <1>1, <2>1, <2>2 DEF SensorTypes
<1>3. ASSUME ~Tick PROVE SensorTypes'
  <2>1. msTicks' = msTicks /\ currentTicks' \in {currentTicks, msTicks, 0}
    <3>1. CASE Start
      BY <3>1 DEF Start, printf, delay, I2C_Master, sendCarStatus
    <3>2. CASE Continue
      BY <3>2 DEF Continue, ClockMain, DelayMore, DelayOver, SendStatus, Stamp
    <3>3. CASE UNCHANGED clock
      BY <3>3
    <3>. QED BY <1>3, <3>1, <3>2, <3>3 DEF Next, vars, Answer, Turn, Usart2
  <2>2. warm' \in {warm, 0} /\ looping' \in {looping, TRUE}
    BY <1>3 DEF Next, vars, Start, I2C_Master, ForgetId, Continue, I2CMain, Started,
                Acknowledged, TimedOut, Answer, Transferred, Turn, Usart2
  <2>. QED BY <1>1, <2>1, <2>2 DEF SensorTypes
<1>. QED BY <1>2, <1>3

\* A statement of the boot begins.
LEMMA BootStart ==
  ASSUME SensorTypes, NEW i \in 0 .. BootLen, BootAt(i), ~failed, Start
  PROVE  ~failed' /\ \E j \in 0 .. BootLen : BootAt(j)'
<1>1. /\ at = "next" /\ todo = Rest(i) /\ todo # <<>> /\ registers = Registers(i)
      /\ i = 3 \/ i = 4 => x
      /\ i = 9 \/ i = 10 => warm = WarmEnough
  BY DEF Start, BootAt
<1>2. i \in 0 .. 9 /\ i + 1 \in 1 .. 10 /\ i + 1 \in 0 .. BootLen /\ (i + 1) - 1 = i
  <2>1. BootLen = 10
    BY DEF BootLen
  <2>2. i # BootLen
    BY <1>1, RestIs
  <2>. QED BY <2>1, <2>2
<1>3. Head(todo) = Boot[i + 1] /\ Tail(todo) = Rest(i + 1)
  <2>1. i \in 0 .. BootLen - 1
    BY <1>2 DEF BootLen
  <2>. QED BY <1>1, <2>1, RestIs
<1>4. failed' = failed /\ registers' = registers /\ warm' = warm /\ msTicks' = msTicks
  BY DEF Start, printf, delay, I2C_Master, sendCarStatus, ForgetId, clock, sensor
<1>5. todo' = Rest(i + 1)
  <2>1. Head(todo) = CheckId => i + 1 = 5
    BY <1>2, <1>3, BootIs DEF CheckId, Delay, Transfer, Printf
  <2>2. Head(todo) = CheckId => x
    BY <1>1, <1>2, <2>1
  <2>3. todo' = Tail(todo)
    BY <2>2 DEF Start
  <2>. QED BY <1>3, <2>3
<1>6. CASE i + 1 \in {1, 9}
  <2>1. Head(todo)[1] = "delay" /\ (i + 1 = 9 => Head(todo)[2] = EnableDelay)
    BY <1>2, <1>3, <1>6, BootIs DEF Delay
  <2>2. at' = "delay" /\ currentTicks' = msTicks /\ delayTicks' = Head(todo)[2] /\ x' = x
    BY <2>1 DEF Start, delay, Go, sensor, Status, CheckId
  <2>3. Behind(msTicks', currentTicks') <= warm'
    BY <1>4, <2>2 DEF SensorTypes, Behind, WarmEnough
  <2>4. BootAt(i + 1)'
    BY <1>1, <1>2, <1>4, <1>5, <1>6, <2>1, <2>2, <2>3 DEF BootAt, UnderWay
  <2>. QED BY <1>2, <1>4, <2>4
<1>7. CASE i + 1 \in {2, 3, 6, 7, 8, 10}
  <2>1. Head(todo)[1] = "I2C_Master" /\ Head(todo)[2] = Boot[i + 1][2]
    BY <1>2, <1>3, <1>7, BootIs DEF Transfer
  <2>2. at' = "i2cStart" /\ transfer' = Boot[i + 1][2] /\ x' = x
    BY <2>1 DEF Start, I2C_Master, Go, Status, CheckId
  <2>3. BootAt(i + 1)'
    BY <1>1, <1>2, <1>4, <1>5, <1>7, <2>2 DEF BootAt, UnderWay, InTransfer
  <2>. QED BY <1>2, <1>4, <2>3
<1>8. CASE i + 1 = 4
  <2>1. Head(todo)[1] = "printf" /\ Head(todo)[2] = 2
    BY <1>3, <1>8, BootIs DEF Printf
  <2>2. at' = "full" /\ x' = x
    BY <2>1 DEF Start, printf, Go, Status, CheckId, sensor
  <2>3. BootAt(i + 1)'
    BY <1>1, <1>2, <1>4, <1>5, <1>8, <2>2 DEF BootAt, UnderWay, InConsole
  <2>. QED BY <1>2, <1>4, <2>3
<1>9. CASE i + 1 = 5
  <2>1. Head(todo) = CheckId
    BY <1>3, <1>9, BootIs
  <2>2. at' = "next"
    BY <1>1, <2>1 DEF Start, Status, CheckId
  <2>3. registers' = Registers(i + 1)
    BY <1>1, <1>2, <1>4, <1>9, RegistersGrow
  <2>4. BootAt(i + 1)'
    BY <1>2, <1>5, <1>9, <2>2, <2>3 DEF BootAt
  <2>. QED BY <1>2, <1>4, <2>4
<1>. QED BY <1>2, <1>6, <1>7, <1>8, <1>9

\* It goes on, and comes to its end.
LEMMA BootContinue ==
  ASSUME EnableDelay >= WarmEnough,
         SensorTypes, NEW i \in 0 .. BootLen, BootAt(i), ~failed, Continue \/ Answer
  PROVE  failed' \/ \E j \in 0 .. BootLen : BootAt(j)'
<1>1. /\ todo' = todo /\ todo = Rest(i) /\ warm \in 0 .. WarmEnough
      /\ msTicks \in 0 .. TickWrap - 1 /\ currentTicks \in 0 .. TickWrap - 1
  BY DEF Continue, Answer, BootAt, SensorTypes
<1>2. ASSUME NEW place, at = place, place # "next"
      PROVE  UnderWay(i) /\ i > 0 /\ registers = Registers(i - 1)
  BY <1>2 DEF BootAt
<1>3. CASE SendChar /\ UNCHANGED <<clock, sensor>>
  <2>1. at \in InConsole /\ at' \in InConsole \cup {"next"}
    BY <1>3 DEF SendChar, Spin, TestFull, Store, TestBusy, TestIdle, Kick, EnableTxe,
                Written, Go, InConsole
  <2>2. i = 4 /\ registers = Registers(3)
    BY <1>2, <2>1 DEF InConsole, InTransfer, UnderWay
  <2>3. x /\ x' = x /\ registers' = Registers(4) /\ registers' = Registers(3)
    BY <1>3, <2>2, RegistersGrow DEF sensor, BootAt
  <2>4. BootAt(i)'
    BY <1>1, <2>1, <2>2, <2>3 DEF BootAt, UnderWay, InConsole
  <2>. QED BY <2>4
<1>4. CASE DelayMore /\ UNCHANGED sensor
  <2>1. at = "delay" /\ at' = at /\ UNCHANGED <<msTicks, currentTicks, delayTicks>>
    BY <1>4 DEF DelayMore, Go
  <2>2. BootAt(i)'
    BY <1>1, <1>4, <2>1 DEF BootAt, UnderWay, InConsole, InTransfer, sensor
  <2>. QED BY <2>2
<1>5. CASE DelayOver /\ UNCHANGED sensor
  <2>1. at = "delay" /\ at' = "next" /\ Behind(msTicks, currentTicks) >= delayTicks
    BY <1>1, <1>5, Unsigned DEF DelayOver, Go, Elapsed
  <2>2. i \in {1, 9} /\ registers = Registers(i - 1)
    BY <1>2, <2>1 DEF InConsole, InTransfer, UnderWay
  <2>3. registers' = Registers(i)
    BY <1>5, <2>2, RegistersGrow DEF sensor
  <2>4. i = 9 => warm' = WarmEnough
    <3> SUFFICES ASSUME i = 9 PROVE warm' = WarmEnough
      OBVIOUS
    <3>1. delayTicks = EnableDelay /\ (warm = WarmEnough \/ Behind(msTicks, currentTicks) <= warm)
      BY <2>1 DEF BootAt
    <3>2. Behind(msTicks, currentTicks) \in Int /\ EnableDelay \in Int
      BY <1>1, Numbers, StartupAssumption DEF Behind
    <3>3. warm = WarmEnough
      BY <1>1, <2>1, <3>1, <3>2 DEF WarmEnough
    <3>. QED BY <1>5, <3>3 DEF sensor
  <2>5. BootAt(i)'
    BY <1>1, <2>1, <2>2, <2>3, <2>4 DEF BootAt
  <2>. QED BY <2>5
<1>6. CASE SendStatus \/ Stamp
  BY <1>2, <1>6 DEF SendStatus, Stamp, Go, UnderWay, InConsole, InTransfer
<1>7. CASE Started \/ Acknowledged
  <2>1. at \in InTransfer /\ at' \in InTransfer /\ UNCHANGED <<transfer, x, registers, warm>>
    BY <1>7 DEF Started, Acknowledged, Go, InTransfer, sensor
  <2>2. i \in {2, 3, 6, 7, 8, 10} /\ transfer = Boot[i][2] /\ registers = Registers(i - 1)
    BY <1>2, <2>1 DEF InConsole, InTransfer, UnderWay
  <2>3. i = 10 => warm = WarmEnough
    BY DEF BootAt
  <2>4. BootAt(i)'
    BY <1>1, <2>1, <2>2, <2>3 DEF BootAt, UnderWay, InTransfer
  <2>. QED BY <2>4
<1>8. CASE TimedOut("i2cStart", "noStart") \/ TimedOut("i2cAddress", "noAck")
  BY <1>8 DEF TimedOut
<1>9. CASE Transferred
  <2>1. at = "i2cData" /\ at' = "next" /\ warm' = warm
    BY <1>9 DEF Transferred, Go
  <2>2. i \in {2, 3, 6, 7, 8, 10} /\ transfer = Boot[i][2] /\ registers = Registers(i - 1)
    BY <1>2, <2>1 DEF InConsole, InTransfer, UnderWay
  <2>3. registers' = Registers(i)
    BY <1>9, <2>2, RegistersGrow DEF Transferred
  <2>4. i = 3 => x'
    BY <1>9, <2>2, RegistersGrow DEF Transferred
  <2>5. i = 10 => warm' = WarmEnough
    BY <2>1 DEF BootAt
  <2>6. BootAt(i)'
    BY <1>1, <2>1, <2>2, <2>3, <2>4, <2>5 DEF BootAt
  <2>. QED BY <2>6
<1>. QED BY <1>3, <1>4, <1>5, <1>6, <1>7, <1>8, <1>9 DEF Continue, Answer, ClockMain, I2CMain

\* A tick: the warm-up keeps step with the delay.
LEMMA BootTick ==
  ASSUME SensorTypes, NEW i \in 0 .. BootLen, BootAt(i), Tick PROVE BootAt(i)'
<1>1. /\ warm \in 0 .. WarmEnough /\ WarmEnough = 3 /\ TickWrap \in Nat
      /\ msTicks \in 0 .. TickWrap - 1 /\ currentTicks \in 0 .. TickWrap - 1
  BY Numbers DEF SensorTypes, WarmEnough
<1>2. UNCHANGED <<at, todo, transfer, x, registers, currentTicks, delayTicks>>
  BY DEF Tick, SysTick_Handler
<1>3. warm = WarmEnough => warm' = WarmEnough
  BY <1>1 DEF Tick, Warm
<1>4. ASSUME i = 9, at = "delay"
      PROVE  delayTicks = EnableDelay /\ (warm' = WarmEnough \/ Behind(msTicks', currentTicks) <= warm')
  <2>1. /\ delayTicks = EnableDelay /\ registers = Registers(8)
        /\ warm = WarmEnough \/ Behind(msTicks, currentTicks) <= warm
    BY <1>4 DEF BootAt
  <2>2. warm < WarmEnough => warm' = warm + 1
    BY <1>1, <2>1, RegistersGrow DEF Tick, Warm
  <2>3. msTicks' = IF msTicks + 1 = TickWrap THEN 0 ELSE msTicks + 1
    BY <1>1, Unsigned DEF Tick, SysTick_Handler
  <2>4. Behind(msTicks', currentTicks) <= Behind(msTicks, currentTicks) + 1
    BY <1>1, <2>3 DEF Behind
  <2>5. Behind(msTicks, currentTicks) \in Int /\ Behind(msTicks', currentTicks) \in Int
    BY <1>1, <2>3 DEF Behind
  <2>. QED BY <1>1, <1>3, <2>1, <2>2, <2>4, <2>5
<1>. QED BY <1>2, <1>3, <1>4 DEF BootAt, UnderWay

\* The loop prints, waits and sends the status.
LEMMA LoopStep == ASSUME SensorTypes, LoopAlone, looping, [Next]_vars PROVE LoopAlone'
<1>1. at \notin InTransfer /\ todo \in Seq(LoopStatements)
  BY DEF LoopAlone
<1>2. CASE Start
  <2>1. todo # <<>> /\ Head(todo) \in LoopStatements /\ Tail(todo) \in Seq(LoopStatements)
    BY <1>1, <1>2 DEF Start
  <2>2. Head(todo)[1] # "I2C_Master" /\ Head(todo) # CheckId
    BY <2>1 DEF LoopStatements, Status, CheckId
  <2>3. /\ at' \in {"full", "delay", "send", "next"}
        /\ UNCHANGED <<failed, registers, warm>> /\ todo' = Tail(todo)
    BY <1>2, <2>2 DEF Start, printf, delay, sendCarStatus, Go, sensor
  <2>. QED BY <2>1, <2>3 DEF LoopAlone, InTransfer
<1>3. CASE Continue
  <2>1. ~I2CMain
    BY <1>1 DEF I2CMain, Started, Acknowledged, TimedOut, Go, InTransfer
  <2>2. UNCHANGED <<failed, registers, warm, todo>>
    BY <1>3, <2>1 DEF Continue, sensor
  <2>3. at' \notin InTransfer
    BY <1>3, <2>1 DEF Continue, SendChar, Spin, TestFull, Store, TestBusy, TestIdle, Kick,
         EnableTxe, Written, ClockMain, DelayMore, DelayOver, SendStatus, Stamp, Go, InTransfer
  <2>. QED BY <1>1, <2>2, <2>3 DEF LoopAlone
<1>4. CASE Answer
  BY <1>1, <1>4 DEF Answer, Transferred, Go, InTransfer
<1>5. CASE Turn
  <2>1. at' = at /\ UNCHANGED <<failed, registers, warm>>
    BY <1>5 DEF Turn, sensor
  <2>2. todo' \in Seq(LoopStatements)
    <3>1. PICK s \in Callbacks : todo' = s \o <<Status>>
      BY <1>5 DEF Turn
    <3>2. s \in Seq(LoopStatements)
      BY StartupAssumption DEF LoopStatements
    <3>3. <<Status>> \in Seq(LoopStatements)
      BY DEF LoopStatements
    <3>. QED BY <3>1, <3>2, <3>3, ConcatProperties
  <2>. QED BY <1>1, <2>1, <2>2 DEF LoopAlone
<1>6. CASE Tick
  <2>1. UNCHANGED <<at, todo, failed, registers>>
    BY <1>6 DEF Tick, SysTick_Handler
  <2>2. warm = WarmEnough => warm' = WarmEnough
    BY <1>6 DEF Tick, Warm, WarmEnough
  <2>. QED BY <2>1, <2>2 DEF LoopAlone
<1>7. CASE Usart2 \/ (Type /\ UNCHANGED <<sensor, todo>>) \/ UNCHANGED vars
  <2>1. UNCHANGED <<at, todo, failed, registers, warm>>
    BY <1>7 DEF Usart2, USART2_IRQHandler, ShiftOut, Type, vars, sensor
  <2>. QED BY <2>1 DEF LoopAlone
<1>. QED BY <1>2, <1>3, <1>4, <1>5, <1>6, <1>7 DEF Next

\* Every step keeps the invariant of the set-up, in the boot and in the loop.
LEMMA SensorStep ==
  ASSUME EnableDelay >= WarmEnough, SensorInv, [Next]_vars PROVE SensorInv'
<1>1. SensorTypes /\ SensorTypes' /\ looping \in BOOLEAN
  BY SensorTypesStep DEF SensorInv, SensorTypes
<1>2. failed => failed'
  <2>1. CASE Start
    BY <2>1 DEF Start, printf, delay, I2C_Master, sendCarStatus, ForgetId, sensor
  <2>2. CASE Continue \/ Answer
    BY <2>2 DEF Continue, I2CMain, Started, Acknowledged, TimedOut, Answer, Transferred, sensor
  <2>3. CASE Tick
    BY <2>3 DEF Tick
  <2>. QED BY <2>1, <2>2, <2>3 DEF Next, vars, Turn, Usart2, sensor
<1>3. CASE looping
  <2>1. looping'
    BY <1>3 DEF Next, vars, Start, Continue, Answer, Turn, Tick, Usart2
  <2>2. LoopAlone'
    BY <1>1, <1>3, LoopStep DEF SensorInv
  <2>. QED BY <1>1, <2>1, <2>2 DEF SensorInv
<1>4. CASE ~looping /\ Turn
  <2>1. at' = at /\ at = "next" /\ todo = <<>> /\ looping' /\ failed' = failed
        /\ registers' = registers /\ warm' = warm
    BY <1>4 DEF Turn, sensor
  <2>2. todo' \in Seq(LoopStatements)
    <3>1. PICK s \in Callbacks : todo' = s \o <<Status>>
      BY <1>4 DEF Turn
    <3>2. s \in Seq(LoopStatements)
      BY StartupAssumption DEF LoopStatements
    <3>3. <<Status>> \in Seq(LoopStatements)
      BY DEF LoopStatements
    <3>. QED BY <3>1, <3>2, <3>3, ConcatProperties
  <2>3. ~failed => registers = Registers(BootLen) /\ warm = WarmEnough
    <3> SUFFICES ASSUME ~failed PROVE registers = Registers(BootLen) /\ warm = WarmEnough
      OBVIOUS
    <3>1. PICK i \in 0 .. BootLen : BootAt(i)
      BY <1>4 DEF SensorInv
    <3>2. i = BootLen
      <4>1. i \notin 0 .. BootLen - 1
        BY <2>1, <3>1, RestIs DEF BootAt
      <4>. QED BY <4>1 DEF BootLen
    <3>. QED BY <2>1, <3>1, <3>2 DEF BootAt, BootLen
  <2>. QED BY <1>1, <2>1, <2>2, <2>3 DEF SensorInv, LoopAlone, InTransfer
<1>5. CASE ~looping /\ ~Turn
  <2>1. ~looping'
    BY <1>5 DEF Next, vars, Start, Continue, Answer, Tick, Usart2
  <2>2. ASSUME ~failed PROVE failed' \/ \E j \in 0 .. BootLen : BootAt(j)'
    <3>1. PICK i \in 0 .. BootLen : BootAt(i)
      BY <1>5, <2>2 DEF SensorInv
    <3>2. CASE Start
      BY <1>1, <2>2, <3>1, <3>2, BootStart
    <3>3. CASE Continue \/ Answer
      BY <1>1, <2>2, <3>1, <3>3, BootContinue
    <3>4. CASE Tick
      BY <1>1, <3>1, <3>4, BootTick
    <3>5. CASE Usart2 \/ (Type /\ UNCHANGED <<clock, sensor, todo>>) \/ UNCHANGED vars
      <4>1. UNCHANGED <<at, todo, transfer, x, registers, warm, msTicks, currentTicks, delayTicks>>
        BY <3>5 DEF Usart2, USART2_IRQHandler, ShiftOut, Type, vars, clock, sensor
      <4>2. BootAt(i)'
        BY <3>1, <4>1 DEF BootAt, UnderWay, Behind
      <4>. QED BY <4>2
    <3>. QED BY <1>5, <3>2, <3>3, <3>4, <3>5 DEF Next
  <2>3. ~failed' => \E j \in 0 .. BootLen : BootAt(j)'
    BY <1>2, <2>2
  <2>. QED BY <1>1, <2>1, <2>3 DEF SensorInv
<1>. QED BY <1>1, <1>3, <1>4, <1>5

\* When the loop runs and no transfer has failed, the writes of the color sensor
\* have arrived in their order, and its converter was enabled only after its
\* power had been on for long enough, for every delay of enable that is at least
\* as long and wherever the clock wraps.
THEOREM SensorReady == ASSUME EnableDelay >= WarmEnough PROVE Spec => []SensorEnabled
<1>1. Init => SensorInv
  <2> SUFFICES ASSUME Init PROVE SensorInv
    OBVIOUS
  <2>1. /\ at = "next" /\ todo = Boot /\ looping = FALSE /\ registers = <<>> /\ warm = 0
        /\ msTicks = 0 /\ currentTicks = 0
    BY DEF Init, InitClock, InitColorSensor
  <2>2. BootAt(0)
    BY <2>1, RestIs DEF BootAt, Registers
  <2>3. SensorTypes
    <3>1. looping \in BOOLEAN
      BY <2>1, Zenon
    <3>2. 0 \in 0 .. TickWrap - 1 /\ 0 \in 0 .. WarmEnough
      BY Numbers DEF WarmEnough
    <3>. QED BY <2>1, <3>1, <3>2 DEF SensorTypes
  <2>. QED BY <2>1, <2>2, <2>3 DEF SensorInv, BootLen
<1>2. SensorInv /\ [Next]_vars => SensorInv'
  BY SensorStep
<1>3. SensorInv => SensorEnabled
  BY DEF SensorInv, LoopAlone, SensorEnabled, Registers, BootLen, WarmEnough
<1>. QED BY <1>1, <1>2, <1>3, PTL DEF Spec
=============================================================================

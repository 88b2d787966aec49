------------------------------ MODULE Console -------------------------------
(***************************************************************************)
(* The debug console (retarget.c): printf in the main thread hands each    *)
(* character to SendChar, which puts it into a ring or finds it full and   *)
(* is called again; the interrupt of USART2 sends from the ring, and puts  *)
(* what is typed into another ring that nothing reads.  The contents of    *)
(* the rings are left out; Size is QBUF_SIZE for both.                     *)
(*                                                                         *)
(* The rings are those of ESPClient.c, the hand-over is not: the test is   *)
(* for a full ring exactly, and the kick sends what is oldest.             *)
(*                                                                         *)
(* External: USART2 and who types.                                         *)
(***************************************************************************)
EXTENDS RingIndex, MainThread

CONSTANTS
  MaxTyped,         \* bound: characters typed
  CharTimes         \* character times that may pass in one call of SendChar

ASSUME ConsoleAssumption == MaxTyped \in Nat /\ CharTimes \in Nat

VARIABLES
  start, end,       \* tbuf
  sending,
  txeie,            \* the interrupt for an empty data register is enabled
  usart,            \* characters in the shift register and the data register
  elapsed,          \* character times since the current call of SendChar began
  left,             \* characters the current printf has left
  typed,            \* rbuf.end, its start stays 0
  rxne              \* a character has been received and not been read

line == <<typed, rxne>>
console == <<start, end, sending, txeie, usart, elapsed, left, line>>

Count == Minus(end, start)      \* QBUF_COUNT: it fits its 16 bits

InitConsole ==
  /\ start = 0 /\ end = 0 /\ sending = FALSE /\ txeie = FALSE /\ usart = 0 /\ elapsed = 0
  /\ left = 0 /\ typed = 0 /\ rxne = FALSE

-----------------------------------------------------------------------------
(* printf in the main thread, character by character.                      *)

hardware == <<usart, elapsed, line>>

printf(n) ==
  /\ Go("next", "full")
  /\ left' = n
  /\ UNCHANGED <<start, end, sending, txeie, hardware>>

\* fputc: as long as the ring is full SendChar returns -1.
Spin ==
  /\ Go("full", "full") /\ Count >= Size
  /\ UNCHANGED console

\* Mutant of TestFull: a character more than there is room for.
TestOver ==
  /\ Go("full", "store") /\ Count <= Size
  /\ UNCHANGED console

TestFull ==
  /\ Go("full", "store") /\ Count < Size
  /\ UNCHANGED console

Store ==
  /\ Go("store", "look")
  /\ end' = Inc(end)
  /\ UNCHANGED <<start, sending, txeie, left, hardware>>

\* The character is on its way: the next one, or back.
Written ==
  /\ at' = IF left = 1 THEN "next" ELSE "full"
  /\ left' = left - 1
  /\ elapsed' = 0

TestBusy ==
  /\ at = "look" /\ sending /\ Written
  /\ UNCHANGED <<start, end, sending, txeie, usart, line>>

TestIdle ==
  /\ Go("look", "kick") /\ ~sending
  /\ sending' = TRUE
  /\ UNCHANGED <<start, end, txeie, left, hardware>>

Kick ==
  /\ Go("kick", "enable")
  /\ start' = Inc(start)
  /\ usart' = usart + 1
  /\ UNCHANGED <<end, sending, txeie, elapsed, left, line>>

EnableTxe ==
  /\ at = "enable" /\ Written
  /\ txeie' = TRUE
  /\ UNCHANGED <<start, end, sending, usart, line>>

SendChar == Spin \/ TestFull \/ Store \/ TestBusy \/ TestIdle \/ Kick \/ EnableTxe

-----------------------------------------------------------------------------
(* The interrupt of USART2.                                                *)

TxeDue == txeie /\ usart < 2
Usart2Pending == TxeDue \/ rxne

\* A full rbuf leaves the character, and the interrupt pending.
Receive ==
  IF rxne /\ typed < Size THEN typed' = typed + 1 /\ rxne' = FALSE
                          ELSE UNCHANGED line

Transmit ==
  CASE TxeDue /\ end # start ->
         usart' = usart + 1 /\ start' = Inc(start) /\ sending' = TRUE /\ UNCHANGED txeie
    [] TxeDue /\ end = start ->
         sending' = FALSE /\ txeie' = FALSE /\ UNCHANGED <<start, usart>>
    [] OTHER -> UNCHANGED <<start, sending, txeie, usart>>

USART2_IRQHandler ==
  /\ Usart2Pending
  /\ Receive
  /\ Transmit
  /\ UNCHANGED <<at, end, elapsed, left>>

\* External: a character has left the shift register.  SendChar, once the ring
\* has room, is fast beside the 87 us that takes.
ShiftOut ==
  /\ usart > 0 /\ usart' = usart - 1
  /\ \/ at \in {"store", "look", "kick", "enable"}
        /\ elapsed < CharTimes /\ elapsed' = elapsed + 1
     \/ at \notin {"store", "look", "kick", "enable"} /\ UNCHANGED elapsed
  /\ UNCHANGED <<at, start, end, sending, txeie, left, line>>

Type ==
  /\ ~rxne /\ typed < MaxTyped
  /\ rxne' = TRUE
  /\ UNCHANGED <<at, start, end, sending, txeie, usart, elapsed, left, typed>>

-----------------------------------------------------------------------------
\* The ring never holds more than its size; the main thread starts the
\* transmitter only with a character to send and a free data register; and a
\* character in the ring is sent: by the interrupt, or by the call under way.
\* With two character times in a call (CharTimes) the interrupt may stop between
\* Store and the test of sending, and the kick then sends what is not there.
ConsoleSafe ==
  /\ Count <= Size
  /\ at = "kick" => start # end /\ usart < 2
  /\ start # end => sending \/ at \in {"look", "kick"}
  /\ sending => txeie \/ at \in {"kick", "enable"}
=============================================================================

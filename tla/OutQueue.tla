------------------------------ MODULE OutQueue ------------------------------
(***************************************************************************)
(* The output queue of the ESP client (ESPClient.c): the ring that         *)
(* ESPClientSendData and ESPClientSendDataBuffer fill in the main loop and *)
(* that the TXE half of ESPClientISRHandler empties into USART1.           *)
(*                                                                         *)
(* Two actors share the ring without a lock.                               *)
(*   - The main thread: one step per access the interrupt could see, in    *)
(*     the order of the source: the test for a free slot, the store of the *)
(*     byte, the store of the counter, the test of "sending", the start of *)
(*     the transmitter and the enabling of the interrupt.                  *)
(*   - USART1_IRQHandler: one step, since nothing that touches the ring    *)
(*     preempts it.  It preempts the main thread as soon as it is pending. *)
(* The USART itself is external: a data register and a shift register.     *)
(***************************************************************************)
EXTENDS RingIndex, Sequences

CONSTANTS
  Byte,                               \* the bytes
  NoByte,                             \* what is in a slot that was never written
  SLIP_END, SLIP_ESC, SLIP_ESC_END, SLIP_ESC_ESC,
  Packets,                            \* packets main passes to ESPClientSendData
  Texts,                              \* texts main passes to ESPClientSendDataBuffer
  StoreOrders,                        \* orders in which buf[in++] = b may reach memory
  CharTimes                           \* character times that may pass in one stretch of a call

ASSUME ByteAssumption ==
  /\ {SLIP_END, SLIP_ESC, SLIP_ESC_END, SLIP_ESC_ESC} \subseteq Byte
  /\ NoByte \notin Byte

\* A packet is sent as it stands: its crc field holds the two bytes stored in
\* it, whether or not they fit the rest.  All lengths in the code are 8 bits
\* wide, and a ring of 512 bytes holds 255 bytes even when each is escaped.
ASSUME CallAssumption ==
  /\ Packets \subseteq [cmd : Byte, len : Byte, payload : Seq(Byte), crc : Seq(Byte)]
  /\ \A p \in Packets : 2 * Len(p.payload) <= Size /\ Len(p.crc) = 2
  /\ Texts \subseteq Seq(Byte)
  /\ \A t \in Texts : t # <<>> /\ 2 * Len(t) <= Size
  /\ Size >= 4

ASSUME TimingAssumption ==
  /\ StoreOrders \subseteq {"slotFirst", "counterFirst"}
  /\ CharTimes \in Nat

-----------------------------------------------------------------------------
VARIABLES
  buf, in, out,       \* OUTQueue
  sending,            \* the transmitter has been started
  txeie,              \* USART1 raises an interrupt when its data register is empty
  usart,              \* bytes in the data and the shift register of USART1: 0, 1 or 2
  wire,               \* the byte last written to the data register
  pc,                 \* where the main thread is
  call,               \* the writes of the call it is in
  w, i,               \* the write of that call it is at, and the loop index in it
  chunk,              \* the bytes still to be stored for data byte i
  rez,                \* the value the call will return
  elapsed             \* character times that have passed in this stretch

ring == <<buf, in>>
transmitter == <<sending, txeie, usart, wire, out>>
caller == <<call, w, i, chunk, rez>>
vars == <<ring, transmitter, pc, caller, elapsed>>

-----------------------------------------------------------------------------
Count == Minus(in, out)           \* bytes in the queue

\* Mutant of IsFull: one byte more than there are slots.
IsOverfull == Count > Size

IsFull == Count >= Size           \* (in - out) & ~(OUTQUEUE_SIZE - 1) != 0

(* One write: a loop over data that stores one or two bytes for each byte. *)

Plain(data)   == [escape |-> FALSE, data |-> data]
Escaped(data) == [escape |-> TRUE,  data |-> data]

\* _WriteEscapedBuffer: the bytes stored for data byte b.
Encode(write, b) ==
  IF write.escape /\ b = SLIP_ESC THEN <<SLIP_ESC, SLIP_ESC_ESC>>
  ELSE IF write.escape /\ b = SLIP_END THEN <<SLIP_ESC, SLIP_ESC_END>>
  ELSE <<b>>

\* ESPClientSendData: six writes, each attempted whatever became of the last.
SendData(p) ==
  << Plain(<<SLIP_END>>), Escaped(<<p.cmd>>), Escaped(<<p.len>>),
     Escaped(p.payload), Escaped(p.crc), Plain(<<SLIP_END>>) >>

\* ESPClientSendDataBuffer: the text as it is, without framing.
SendDataBuffer(text) == << Plain(text) >>

Calls == {SendData(p) : p \in Packets} \cup {SendDataBuffer(t) : t \in Texts}

Write == call[w]

-----------------------------------------------------------------------------
Init ==
  /\ buf \in [0 .. Size - 1 -> {NoByte}]
  /\ in = 0 /\ out = 0
  /\ sending = FALSE /\ txeie = FALSE
  /\ usart = 0 /\ wire = NoByte
  /\ pc = "idle"
  /\ call = <<>> /\ w = 1 /\ i = 0 /\ chunk = <<>> /\ rez = 0
  /\ elapsed = 0

\* Mutant of IrqPending: the handler does not look at the TXE flag.
IrqEnabled == txeie

\* The level of the USART1 interrupt line, as far as the TXE half goes.
IrqPending == txeie /\ usart < 2

\* USART1_IRQHandler has the higher priority: main runs only between interrupts.
Main(from) == pc = from /\ ~IrqPending

Call ==
  /\ Main("idle")
  /\ \E c \in Calls : call' = c
  /\ pc' = "check"
  /\ w' = 1 /\ i' = 0 /\ chunk' = <<>> /\ rez' = 0
  /\ elapsed' = 0
  /\ UNCHANGED <<ring, transmitter>>

\* The write returns r: on to the next write of the call, or out of the call.
Return(r) ==
  /\ rez' = IF r = 1 THEN 1 ELSE rez
  /\ IF w < Len(call) THEN pc' = "check" /\ w' = w + 1
                      ELSE pc' = "idle"  /\ w' = w
  /\ i' = 0
  /\ chunk' = <<>>
  /\ call' = call

\* Mutant of CheckEnd: the write does not start the transmitter.
CheckEndQuiet ==
  /\ Main("check")
  /\ i = Len(Write.data)
  /\ Return(0)
  /\ UNCHANGED <<ring, transmitter, elapsed>>

\* The head of the loop: the end of the data, a full queue, or one more byte.
CheckEnd ==
  /\ Main("check")
  /\ i = Len(Write.data)
  /\ pc' = "start"
  /\ UNCHANGED <<ring, transmitter, caller, elapsed>>

CheckFull ==
  /\ Main("check")
  /\ i < Len(Write.data)
  /\ IsFull
  /\ Return(1)
  /\ UNCHANGED <<ring, transmitter, elapsed>>

CheckFree ==
  /\ Main("check")
  /\ i < Len(Write.data)
  /\ ~IsFull
  /\ chunk' = Encode(Write, Write.data[i + 1])
  /\ i' = i + 1
  /\ pc' = "put"
  /\ elapsed' = IF i = 0 THEN elapsed ELSE 0
  /\ UNCHANGED <<ring, transmitter, call, w, rez>>

\* buf[(in++) & (SIZE-1)] = b.  C does not say which of its two stores comes
\* first; the interrupt can see the ring between them.
Stored ==
  /\ chunk' = Tail(chunk)
  /\ pc' = IF Tail(chunk) = <<>> THEN "check" ELSE "put"

PutByte ==
  /\ Main("put")
  /\ "slotFirst" \in StoreOrders
  /\ buf' = [buf EXCEPT ![Slot(in)] = Head(chunk)]
  /\ pc' = "putCounter"
  /\ UNCHANGED <<in, transmitter, caller, elapsed>>

PutCounter ==
  /\ Main("putCounter")
  /\ in' = Inc(in)
  /\ Stored
  /\ UNCHANGED <<buf, transmitter, call, w, i, rez, elapsed>>

PutCounterEarly ==
  /\ Main("put")
  /\ "counterFirst" \in StoreOrders
  /\ in' = Inc(in)
  /\ pc' = "putByte"
  /\ UNCHANGED <<buf, transmitter, caller, elapsed>>

PutByteLate ==
  /\ Main("putByte")
  /\ buf' = [buf EXCEPT ![Slot(Dec(in))] = Head(chunk)]
  /\ Stored
  /\ UNCHANGED <<in, transmitter, call, w, i, rez, elapsed>>

\* if (!e->sending)
TestBusy ==
  /\ Main("start")
  /\ sending
  /\ Return(0)
  /\ UNCHANGED <<ring, transmitter, elapsed>>

\* Mutant of TestIdle: the transmitter is started whether it runs or not.
TestNothing ==
  /\ Main("start")
  /\ pc' = "kick"
  /\ UNCHANGED <<ring, transmitter, caller, elapsed>>

TestIdle ==
  /\ Main("start")
  /\ ~sending
  /\ pc' = "kick"
  /\ UNCHANGED <<ring, transmitter, caller, elapsed>>

\* USART_SendData(e->_USART, e->OUTQueue.buf[(e->OUTQueue.out++) & (SIZE-1)])
Transmit ==
  /\ wire' = buf[Slot(out)]
  /\ usart' = IF usart < 2 THEN usart + 1 ELSE 2
  /\ out' = Inc(out)

\* { e->sending = 1; USART_SendData(...); USART_ITConfig(..., ENABLE); }
Kick ==
  /\ Main("kick")
  /\ sending' = TRUE
  /\ Transmit
  /\ pc' = "enable"
  /\ UNCHANGED <<ring, txeie, caller, elapsed>>

\* Mutant of Enable: the interrupt stays disabled.
EnableNothing ==
  /\ Main("enable")
  /\ Return(0)
  /\ UNCHANGED <<ring, transmitter, elapsed>>

Enable ==
  /\ Main("enable")
  /\ txeie' = TRUE
  /\ Return(0)
  /\ UNCHANGED <<ring, sending, usart, wire, out, elapsed>>

-----------------------------------------------------------------------------
(* The TXE half of ESPClientISRHandler.                                    *)

IsrSend ==
  /\ IrqPending
  /\ out # in
  /\ Transmit
  /\ sending' = TRUE
  /\ UNCHANGED <<ring, txeie, pc, caller, elapsed>>

IsrStop ==
  /\ IrqPending
  /\ out = in
  /\ sending' = FALSE
  /\ txeie' = FALSE
  /\ UNCHANGED <<ring, usart, wire, out, pc, caller, elapsed>>

Isr == IsrSend \/ IsrStop

\* External: a character time passes and the shift register has done a byte.
\* A call is fast beside the 87 us of a character; a long buffer is not.  At
\* most CharTimes characters go out in one stretch: up to the second byte of
\* a buffer, from one such byte to the next, and from the last one on.
ShiftOut ==
  /\ usart > 0
  /\ usart' = usart - 1
  /\ \/ pc = "idle" /\ elapsed' = elapsed
     \/ pc # "idle" /\ elapsed < CharTimes /\ elapsed' = elapsed + 1
  /\ UNCHANGED <<ring, sending, txeie, wire, out, pc, caller>>

Step ==
  \/ CheckEnd \/ CheckFull \/ CheckFree
  \/ PutByte \/ PutCounter \/ PutCounterEarly \/ PutByteLate
  \/ TestBusy \/ TestIdle \/ Kick \/ Enable

Next == Call \/ Step \/ Isr \/ ShiftOut

Spec == Init /\ [][Next]_vars

\* The main thread runs on, a pending interrupt is served, and the USART
\* shifts at its baud rate.  Nothing says that there is ever another call.
Fairness == WF_vars(Step) /\ WF_vars(Isr) /\ WF_vars(ShiftOut)

FairSpec == Spec /\ Fairness

-----------------------------------------------------------------------------
PC == {"idle", "check", "put", "putCounter", "putByte", "start", "kick", "enable"}

InACall == call \in Calls /\ w \in 1 .. Len(call) /\ i \in 0 .. Len(Write.data)

\* The types of the ring, the transmitter and the caller's locals.
TypeOK ==
  /\ buf \in [0 .. Size - 1 -> Byte \cup {NoByte}]
  /\ in \in 0 .. Wrap - 1
  /\ out \in 0 .. Wrap - 1
  /\ sending \in BOOLEAN
  /\ txeie \in BOOLEAN
  /\ usart \in 0 .. 2
  /\ wire \in Byte \cup {NoByte}
  /\ pc \in PC
  /\ pc # "idle" => InACall
  /\ chunk \in Seq(Byte)
  /\ rez \in {0, 1}
  /\ elapsed \in Nat

\* The queue never holds more than one byte too many.  _WriteEscapedBuffer
\* (line 219) tests for one free slot and may then store two bytes; anything
\* beyond that one byte of excess means that out has run past in (line 246).
OneByteOfExcess == Count <= Size + 1

\* The transmitter is started only with a byte to send and an empty data
\* register: line 246 sends buf[out++] without looking at in, nor at the
\* register; that both hold follows from sending = 0, read at line 243, because
\* the last interrupt found the register empty and no byte in the queue.
KickIsSafe == pc = "kick" => Count > 0 /\ usart < 2

\* No byte is left behind: whenever the main thread is out of the send
\* functions and bytes wait, the interrupt that will take them is enabled.
NoLostWakeup == pc = "idle" /\ Count > 0 => txeie

\* A byte that is sent is in its slot: the interrupt may run between the two
\* stores of buf[(in++) & (SIZE-1)] = b and must not send that slot then.
StoredBeforeSent ==
  [][out' # out /\ pc = "putByte" => out # Dec(in)]_vars

\* A write gives up on a full queue (lines 219-225) without starting the
\* transmitter, so it must only find the queue full while it is running.
RefusedOnlyWhileSending ==
  pc = "check" /\ i < Len(Write.data) /\ IsFull => sending

-----------------------------------------------------------------------------
(* The queue as its callers see it: the bytes between out and in, and the  *)
(* byte written to the data register last.                                 *)

Waiting == Contents(buf, in, out)

Stream == INSTANCE ByteStream
  WITH Capacity <- Size, Datum <- Byte, NoDatum <- NoByte,
       waiting <- Waiting, taken <- wire

\* Every accepted byte is transmitted once, unchanged and in order.
BytesInOrder == Stream!Spec

\* ... and some day: the transmitter never stops with bytes in the queue.
BytesDelivered == Stream!Delivery
=============================================================================

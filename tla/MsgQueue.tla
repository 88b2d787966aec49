------------------------------ MODULE MsgQueue ------------------------------
(***************************************************************************)
(* The input queue of the ESP client (ESPClient.c): the ring that the RXNE *)
(* half of ESPClientISRHandler fills from USART1 and that                  *)
(* ESPClientParseMessages empties in the main loop.                        *)
(*                                                                         *)
(* Here the interrupt is the producer.  It is one step and runs as soon as *)
(* it is pending; the main thread takes one step per access that it could  *)
(* see.  What is done with a byte, the SLIP switch and the callback, is    *)
(* one step here that may take any time (module Deframer).                 *)
(***************************************************************************)
EXTENDS RingIndex, Sequences

CONSTANTS
  Byte,               \* the bytes
  NoByte,             \* what is in a slot that was never written
  ReadOrders,         \* orders in which buf[out++] may reach memory
  Paced,              \* the sender leaves room: it never has a byte for a full ring
  LongRun             \* the counters may wrap

ASSUME ByteAssumption == NoByte \notin Byte

ASSUME RunAssumption ==
  /\ ReadOrders \subseteq {"slotFirst", "counterFirst"}
  /\ Paced \in BOOLEAN
  /\ LongRun \in BOOLEAN

-----------------------------------------------------------------------------
VARIABLES
  buf, in, out,       \* MSGQueue
  end,                \* ESPClientParseMessages: in, as it was when the call began
  value,              \* ... the byte taken from the ring
  parsed,             \* ... the byte the switch was given last
  pc,                 \* where the main thread is
  rxne,               \* the receive data register of USART1 holds a byte
  received            \* that byte

ring == <<buf, in>>
receiver == <<rxne, received>>
parser == <<end, value, parsed>>
vars == <<ring, out, receiver, parser, pc>>

Count == Minus(in, out)           \* bytes in the queue

\* Mutant of IsFull: one byte more than there are slots.
IsOverfull == Count > Size

IsFull == Count >= Size           \* (in - out) & ~(MSGQUEUE_SIZE - 1) != 0

-----------------------------------------------------------------------------
Init ==
  /\ buf \in [0 .. Size - 1 -> {NoByte}]
  /\ in = 0 /\ out = 0
  /\ end = 0 /\ value = NoByte /\ parsed = NoByte
  /\ pc = "idle"
  /\ rxne = FALSE /\ received = NoByte

\* External: the USART has received a byte.  One that comes while the data
\* register is taken is an overrun: the USART drops it, and nothing changes.
Arrive ==
  /\ ~rxne
  /\ Paced => ~IsFull
  /\ LongRun \/ in + 1 < Wrap
  /\ rxne' = TRUE
  /\ received' \in Byte
  /\ UNCHANGED <<ring, out, parser, pc>>

(* The RXNE half of ESPClientISRHandler.                                   *)

\* Mutant of IsrStore: the counter is raised before it is used.
IsrStoreNext ==
  /\ rxne
  /\ ~IsFull
  /\ buf' = [buf EXCEPT ![Slot(Inc(in))] = received]
  /\ in' = Inc(in)
  /\ rxne' = FALSE
  /\ UNCHANGED <<out, received, parser, pc>>

IsrStore ==
  /\ rxne
  /\ ~IsFull
  /\ buf' = [buf EXCEPT ![Slot(in)] = received]
  /\ in' = Inc(in)
  /\ rxne' = FALSE
  /\ UNCHANGED <<out, received, parser, pc>>

\* A full queue: the handler returns without USART_ReceiveData, the byte stays
\* in the data register and the interrupt stays pending.
IsrLeave ==
  /\ rxne
  /\ IsFull
  /\ UNCHANGED vars

Isr == IsrStore \/ IsrLeave

-----------------------------------------------------------------------------
(* ESPClientParseMessages.  USART1_IRQHandler has the higher priority: the *)
(* main thread only runs while the interrupt is not pending.               *)

Main(from) == pc = from /\ ~rxne

\* uint32_t end = e->MSGQueue.in
Start ==
  /\ Main("idle")
  /\ end' = in
  /\ pc' = "loop"
  /\ UNCHANGED <<ring, out, receiver, value, parsed>>

\* Mutants of Loop: the last byte left out, one byte too many, and a loop to
\* the end of the queue instead of the snapshot.
LoopShort ==
  /\ Main("loop")
  /\ out + 1 < end
  /\ pc' = "take"
  /\ UNCHANGED <<ring, out, receiver, parser>>

LoopLong ==
  /\ Main("loop")
  /\ out <= end
  /\ pc' = "take"
  /\ UNCHANGED <<ring, out, receiver, parser>>

LoopToIn ==
  /\ Main("loop")
  /\ out # in
  /\ pc' = "take"
  /\ UNCHANGED <<ring, out, receiver, parser>>

\* while (e->MSGQueue.out < end)
Loop ==
  /\ Main("loop")
  /\ out < end
  /\ pc' = "take"
  /\ UNCHANGED <<ring, out, receiver, parser>>

Leave ==
  /\ Main("loop")
  /\ out >= end
  /\ pc' = "idle"
  /\ UNCHANGED <<ring, out, receiver, parser>>

\* value = e->MSGQueue.buf[(e->MSGQueue.out++) & (MSGQUEUE_SIZE-1)].  C does not
\* say which comes first, the load of the byte or the store of the counter.
Load ==
  /\ Main("take")
  /\ "slotFirst" \in ReadOrders
  /\ value' = buf[Slot(out)]
  /\ pc' = "count"
  /\ UNCHANGED <<ring, out, receiver, end, parsed>>

CountOne ==
  /\ Main("count")
  /\ out' = Inc(out)
  /\ parsed' = value
  /\ pc' = "switch"
  /\ UNCHANGED <<ring, receiver, end, value>>

CountEarly ==
  /\ Main("take")
  /\ "counterFirst" \in ReadOrders
  /\ out' = Inc(out)
  /\ pc' = "load"
  /\ UNCHANGED <<ring, receiver, parser>>

LoadLate ==
  /\ Main("load")
  /\ value' = buf[Slot(Dec(out))]
  /\ parsed' = value'
  /\ pc' = "switch"
  /\ UNCHANGED <<ring, out, receiver, end>>

\* switch(value) { ... }, with the callback of a packet that is complete.
Switch ==
  /\ Main("switch")
  /\ pc' = "loop"
  /\ UNCHANGED <<ring, out, receiver, parser>>

Parse == Loop \/ Leave \/ Load \/ CountOne \/ CountEarly \/ LoadLate \/ Switch

Next == Arrive \/ Isr \/ Start \/ Parse

Spec == Init /\ [][Next]_vars

\* A pending interrupt is served, the main thread runs on and its endless
\* loop calls ESPClientParseMessages again.  Nothing says that bytes arrive.
Fairness == WF_vars(Isr) /\ WF_vars(Start) /\ WF_vars(Parse)

FairSpec == Spec /\ Fairness

-----------------------------------------------------------------------------
PC == {"idle", "loop", "take", "count", "load", "switch"}

\* The types of the ring, the receiver and the parser's locals.
TypeOK ==
  /\ buf \in [0 .. Size - 1 -> Byte \cup {NoByte}]
  /\ in \in 0 .. Wrap - 1
  /\ out \in 0 .. Wrap - 1
  /\ end \in 0 .. Wrap - 1
  /\ value \in Byte \cup {NoByte}
  /\ parsed \in Byte \cup {NoByte}
  /\ pc \in PC
  /\ rxne \in BOOLEAN
  /\ received \in Byte \cup {NoByte}
  /\ rxne => received \in Byte

\* The queue never holds more bytes than it has slots: the interrupt tests the
\* counters (line 177) while the main thread may be between its two steps.
NeverOverfull == Count <= Size

\* The parser takes only bytes that are there.  It compares out with the
\* snapshot "end" (lines 62, 66) and never with in; also when in has wrapped
\* since, a byte it is about to take is one that was stored.
OnlyWhatIsThere == pc \in {"take", "count"} => Count > 0

\* ... and has been: the counter out may be raised before the byte is read
\* (line 68), and the interrupt must not fill that slot in between.
ReadBeforeOverwritten ==
  [][in' # in /\ pc = "load" => Slot(in) # Slot(Dec(out))]_vars

\* A call of ESPClientParseMessages comes to its end, however many bytes go on
\* arriving: "Parse only what is in the queue at the start of function call to
\* avoid blocking the main thread" (lines 64-65).  The one exception is a byte
\* that meets a full queue.
CallEnds == pc # "idle" ~> pc = "idle" \/ (rxne /\ IsFull)

\* ... without the exception: with the queue full the handler leaves the byte in
\* the data register and the interrupt is pending again at once (line 177).
CallReturns == pc # "idle" ~> pc = "idle"

-----------------------------------------------------------------------------
(* The queue as a stream of bytes from the interrupt to the switch.        *)

Waiting == Contents(buf, in, out)

Stream == INSTANCE ByteStream
  WITH Capacity <- Size, Datum <- Byte, NoDatum <- NoByte,
       waiting <- Waiting, taken <- parsed

\* The switch is given the bytes the interrupt stored, each once and in order.
BytesInOrder == Stream!Spec

\* ... and it is given every one of them: "Parse all the messges in the message
\* queue" (ESPClient.h:108).
BytesParsed == Stream!Delivery
=============================================================================

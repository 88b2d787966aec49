--------------------------- MODULE OutQueueProofs ---------------------------
(***************************************************************************)
(* The safety of the output queue for every size of the ring, every set of *)
(* packets and texts and both orders of the stores, as long as less than   *)
(* two character times pass in one stretch of a call.                      *)
(***************************************************************************)
EXTENDS OutQueue, RingIndexProofs

-----------------------------------------------------------------------------
(* The strengthening of the safety properties.                             *)

Storing == pc \in {"put", "putCounter", "putByte"}

\* Bytes of the chunk that are not counted in "in" yet.
Uncounted == IF pc = "putByte" THEN Len(chunk) - 1 ELSE Len(chunk)

\* Bytes in the queue and in the transmitter.  Only ShiftOut lowers it.
Backlog == usart + Count

\* The loop is in the middle of a byte exactly while it stores one, and done
\* with all bytes when it comes to the transmitter.
LoopOK ==
  /\ IF Storing THEN Len(chunk) \in 1 .. 2 /\ i > 0 ELSE chunk = <<>>
  /\ pc \in {"start", "kick", "enable"} => i = Len(Write.data)
  /\ pc # "idle" => elapsed <= CharTimes

\* "sending" says that the interrupt is enabled, but for one point of a call.
SendingOK ==
  /\ txeie <=> (sending /\ pc # "enable")
  /\ pc = "enable" => sending
  /\ pc = "kick" => ~sending
  /\ ~sending => usart < 2

\* What the free slot found at the head of the loop leaves room for.
RoomOK == Count + Uncounted <= Size + 1

\* With the transmitter stopped the queue holds only what this write stored.
StoppedOK ==
  ~sending =>
    /\ pc = "idle" => Count = 0
    /\ pc = "check" \/ Storing => Count + Uncounted <= 2 * i

\* The byte stored last is not sent before the test of "sending" is past: the
\* transmitter has two characters to shift out before it gets to it.
FreshOK ==
  (pc = "check" /\ i > 0) \/ pc \in {"putByte", "start", "kick"} =>
    IF sending THEN Backlog + elapsed >= 3 ELSE Count > 0

\* The empty payload of a packet stores nothing.  Its test of "sending" finds
\* what the three writes before it have left.
HeaderOK ==
  Len(call) = 6 /\ pc # "idle" /\ (w <= 3 \/ (w = 4 /\ i = 0)) =>
    Backlog + elapsed >= w - 1 + (IF pc \in {"put", "putCounter"} THEN 0 ELSE i)

IInv == TypeOK /\ LoopOK /\ SendingOK /\ RoomOK /\ StoppedOK /\ FreshOK /\ HeaderOK

-----------------------------------------------------------------------------
(* The operators.                                                          *)

\* Every byte is stored as one byte or as two.
LEMMA EncodeShape ==
  ASSUME NEW write, NEW b \in Byte
  PROVE  Encode(write, b) \in Seq(Byte) /\ Len(Encode(write, b)) \in 1 .. 2
  BY ByteAssumption DEF Encode

\* A call is one write, or the six of a packet, of which only the fourth may
\* be empty.
LEMMA CallShape ==
  ASSUME NEW c \in Calls
  PROVE  /\ Len(c) \in {1, 6}
         /\ \A k \in 1 .. Len(c) :
              /\ c[k].data \in Seq(Byte)
              /\ 2 * Len(c[k].data) <= Size
              /\ Len(c[k].data) = 0 => Len(c) = 6 /\ k = 4
         /\ Len(c) = 6 => \A k \in 1 .. 3 : Len(c[k].data) = 1
<1>1. CASE \E p \in Packets : c = SendData(p)
  <2>1. PICK p \in Packets : c = SendData(p)
    BY <1>1
  <2>2. /\ p.cmd \in Byte /\ p.len \in Byte
        /\ p.payload \in Seq(Byte) /\ 2 * Len(p.payload) <= Size
        /\ p.crc \in Seq(Byte) /\ Len(p.crc) = 2
        /\ Size >= 4 /\ SLIP_END \in Byte
    BY CallAssumption, ByteAssumption
  <2>3. /\ Len(c) = 6
        /\ c[1].data = <<SLIP_END>> /\ c[2].data = <<p.cmd>>
        /\ c[3].data = <<p.len>>    /\ c[4].data = p.payload
        /\ c[5].data = p.crc        /\ c[6].data = <<SLIP_END>>
    BY <2>1 DEF SendData, Plain, Escaped
  <2>4. \A b \in Byte : <<b>> \in Seq(Byte) /\ Len(<<b>>) = 1
    OBVIOUS
  <2>5. /\ \A k \in {1, 2, 3, 6} : c[k].data \in Seq(Byte) /\ Len(c[k].data) = 1
        /\ c[4].data \in Seq(Byte) /\ 2 * Len(c[4].data) <= Size
        /\ c[5].data \in Seq(Byte) /\ Len(c[5].data) = 2
    BY <2>2, <2>3, <2>4
  <2>6. ASSUME NEW k \in 1 .. 6
        PROVE  /\ c[k].data \in Seq(Byte)
               /\ 2 * Len(c[k].data) <= Size
               /\ Len(c[k].data) = 0 => k = 4
    <3>1. CASE k \in {1, 2, 3, 6}
      <4>1. c[k].data \in Seq(Byte) /\ Len(c[k].data) = 1
        BY <2>5, <3>1
      <4>. QED BY <4>1, CallAssumption, SizeAssumption
    <3>2. CASE k = 4
      BY <2>5, <3>2
    <3>3. CASE k = 5
      <4>1. c[k].data \in Seq(Byte) /\ Len(c[k].data) = 2
        BY <2>5, <3>3
      <4>. QED BY <4>1, CallAssumption, SizeAssumption
    <3>. QED BY <3>1, <3>2, <3>3
  <2>. QED BY <2>3, <2>5, <2>6
<1>2. CASE \E t \in Texts : c = SendDataBuffer(t)
  <2>1. PICK t \in Texts : c = SendDataBuffer(t)
    BY <1>2
  <2>2. t \in Seq(Byte) /\ Len(t) > 0 /\ 2 * Len(t) <= Size
    BY CallAssumption
  <2>3. Len(c) = 1 /\ c[1].data = t
    BY <2>1 DEF SendDataBuffer, Plain
  <2>. QED BY <2>2, <2>3
<1>. QED BY <1>1, <1>2 DEF Calls

-----------------------------------------------------------------------------
(* Types.                                                                  *)

LEMMA TypeInit == Init => TypeOK
  BY SizeAssumption DEF Init, TypeOK, PC

\* Where a call goes on to after one of its writes.
LEMMA ReturnShape ==
  ASSUME TypeOK, pc # "idle", NEW r \in {0, 1}, Return(r)
  PROVE  /\ pc' \in {"idle", "check"} /\ call' = call /\ i' = 0 /\ chunk' = <<>>
         /\ rez' \in {0, 1} /\ w' \in 1 .. Len(call)
         /\ pc' = "check" => w' = w + 1
         /\ InACall'
<1>1. call \in Calls /\ w \in 1 .. Len(call) /\ Len(call) \in {1, 6}
  BY CallShape DEF TypeOK, InACall
<1>2. w' \in 1 .. Len(call)
  BY <1>1 DEF Return
<1>3. Len(call[w'].data) \in Nat
  BY <1>1, <1>2, CallShape
<1>4. call' = call /\ i' = 0
  BY DEF Return
<1>5. InACall'
  BY <1>1, <1>2, <1>3, <1>4 DEF InACall, Write
<1>. QED BY <1>2, <1>4, <1>5 DEF Return, TypeOK

LEMMA TypeStep ==
  ASSUME TypeOK, LoopOK, [Next]_vars
  PROVE  TypeOK'
<1> USE DEF TypeOK, PC, Main, ring, transmitter, caller
<1>a. /\ in \in Nat /\ out \in Nat
      /\ Slot(in) \in 0 .. Size - 1 /\ Slot(out) \in 0 .. Size - 1
      /\ Dec(in) \in Nat /\ Slot(Dec(in)) \in 0 .. Size - 1
      /\ Inc(in) \in 0 .. Wrap - 1 /\ Inc(out) \in 0 .. Wrap - 1
  <2>1. in \in Nat /\ out \in Nat /\ Dec(in) \in Nat
    BY SizeAssumption DEF Dec
  <2>. QED BY <2>1, SlotRange, Counters
<1>b. Storing => Head(chunk) \in Byte /\ Tail(chunk) \in Seq(Byte)
  BY DEF LoopOK
<1>c. UNCHANGED <<call, w, i>> /\ pc # "idle" => InACall'
  BY DEF InACall, Write
<1>1. CASE Call
  <2>1. PICK c \in Calls : call' = c
    BY <1>1 DEF Call
  <2>2. Len(c) \in {1, 6} /\ c[1].data \in Seq(Byte)
    BY CallShape
  <2>3. 1 \in 1 .. Len(c) /\ 0 \in 0 .. Len(c[1].data)
    BY <2>2
  <2>4. InACall'
    BY <1>1, <2>1, <2>3 DEF Call, InACall, Write
  <2>. QED BY <1>1, <2>4 DEF Call
<1>2. CASE CheckEnd
  BY <1>2, <1>c DEF CheckEnd
<1>3. CASE CheckFull
  <2>1. Return(1) /\ pc # "idle"
    BY <1>3 DEF CheckFull
  <2>2. /\ pc' \in {"idle", "check"} /\ chunk' = <<>> /\ rez' \in {0, 1}
        /\ InACall'
    BY <2>1, ReturnShape
  <2>. QED BY <1>3, <2>2 DEF CheckFull
<1>4. CASE CheckFree
  <2>1. Write.data \in Seq(Byte) /\ i + 1 \in 1 .. Len(Write.data)
    BY <1>4, CallShape DEF CheckFree, InACall, Write
  <2>2. Write.data[i + 1] \in Byte
    BY <2>1
  <2>3. InACall'
    BY <1>4, <2>1 DEF CheckFree, InACall, Write
  <2>4. chunk' \in Seq(Byte)
    BY <1>4, <2>2, EncodeShape DEF CheckFree
  <2>. QED BY <1>4, <2>3, <2>4 DEF CheckFree
<1>5. CASE PutByte
  BY <1>5, <1>a, <1>b, <1>c DEF PutByte, Storing
<1>6. CASE PutCounter
  BY <1>6, <1>a, <1>b, <1>c DEF PutCounter, Stored, Storing
<1>7. CASE PutCounterEarly
  BY <1>7, <1>a, <1>c DEF PutCounterEarly
<1>8. CASE PutByteLate
  BY <1>8, <1>a, <1>b, <1>c DEF PutByteLate, Stored, Storing
<1>9. CASE TestBusy
  <2>1. Return(0) /\ pc # "idle"
    BY <1>9 DEF TestBusy
  <2>2. /\ pc' \in {"idle", "check"} /\ chunk' = <<>> /\ rez' \in {0, 1}
        /\ InACall'
    BY <2>1, ReturnShape
  <2>. QED BY <1>9, <2>2 DEF TestBusy
<1>10. CASE TestIdle
  BY <1>10, <1>c DEF TestIdle
<1>11. CASE Kick
  BY <1>11, <1>a, <1>c DEF Kick, Transmit
<1>12. CASE Enable
  <2>1. Return(0) /\ pc # "idle"
    BY <1>12 DEF Enable
  <2>2. /\ pc' \in {"idle", "check"} /\ chunk' = <<>> /\ rez' \in {0, 1}
        /\ InACall'
    BY <2>1, ReturnShape
  <2>. QED BY <1>12, <2>2 DEF Enable
<1>13. CASE IsrSend
  BY <1>13, <1>a, <1>c DEF IsrSend, Transmit
<1>14. CASE IsrStop
  BY <1>14, <1>c DEF IsrStop
<1>15. CASE ShiftOut
  BY <1>15, <1>c DEF ShiftOut
<1>16. CASE UNCHANGED vars
  BY <1>16, <1>c DEF vars
<1>. QED
  BY <1>1, <1>2, <1>3, <1>4, <1>5, <1>6, <1>7, <1>8, <1>9, <1>10, <1>11,
     <1>12, <1>13, <1>14, <1>15, <1>16 DEF Next, Step, Isr

-----------------------------------------------------------------------------
(* The control of a call and the state of the transmitter.                 *)

LEMMA LoopStep ==
  ASSUME TypeOK, LoopOK, [Next]_vars
  PROVE  LoopOK'
<1> USE DEF TypeOK, PC, Main, LoopOK, Storing, ring, transmitter, caller
<1>a. ASSUME Return(0) \/ Return(1), pc # "idle", elapsed' = elapsed
      PROVE  LoopOK'
  <2>1. pc' \in {"idle", "check"} /\ chunk' = <<>>
    BY <1>a, ReturnShape
  <2>. QED BY <1>a, <2>1
<1>1. CASE Call
  BY <1>1, TimingAssumption DEF Call
<1>2. CASE CheckEnd
  BY <1>2 DEF CheckEnd, Write
<1>3. CASE CheckFull
  BY <1>3, <1>a DEF CheckFull
<1>4. CASE CheckFree
  <2>1. Write.data \in Seq(Byte) /\ i + 1 \in 1 .. Len(Write.data)
    BY <1>4, CallShape DEF CheckFree, InACall, Write
  <2>2. Len(chunk') \in 1 .. 2 /\ i' > 0
    BY <1>4, <2>1, EncodeShape DEF CheckFree
  <2>3. elapsed' <= CharTimes
    BY <1>4, TimingAssumption DEF CheckFree
  <2>. QED BY <1>4, <2>2, <2>3 DEF CheckFree
<1>5. CASE PutByte
  BY <1>5 DEF PutByte
<1>6. CASE PutCounter
  BY <1>6 DEF PutCounter, Stored
<1>7. CASE PutCounterEarly
  BY <1>7 DEF PutCounterEarly
<1>8. CASE PutByteLate
  BY <1>8 DEF PutByteLate, Stored
<1>9. CASE TestBusy
  BY <1>9, <1>a DEF TestBusy
<1>10. CASE TestIdle
  BY <1>10 DEF TestIdle, Write
<1>11. CASE Kick
  BY <1>11 DEF Kick, Transmit, Write
<1>12. CASE Enable
  BY <1>12, <1>a DEF Enable
<1>13. CASE IsrSend
  BY <1>13 DEF IsrSend, Transmit, Write
<1>14. CASE IsrStop
  BY <1>14 DEF IsrStop, Write
<1>15. CASE ShiftOut
  BY <1>15, TimingAssumption DEF ShiftOut, Write
<1>16. CASE UNCHANGED vars
  BY <1>16 DEF vars, Write
<1>. QED
  BY <1>1, <1>2, <1>3, <1>4, <1>5, <1>6, <1>7, <1>8, <1>9, <1>10, <1>11,
     <1>12, <1>13, <1>14, <1>15, <1>16 DEF Next, Step, Isr

LEMMA SendingStep ==
  ASSUME TypeOK, SendingOK, [Next]_vars
  PROVE  SendingOK'
<1> USE DEF TypeOK, Main, IrqPending, SendingOK, ring, transmitter, caller
<1>a. ASSUME Return(0) \/ Return(1), pc # "idle"
      PROVE  pc' \in {"idle", "check"}
  BY <1>a, ReturnShape
<1>1. CASE Call
  BY <1>1 DEF Call
<1>2. CASE CheckEnd \/ TestIdle
  BY <1>2 DEF CheckEnd, TestIdle
<1>3. CASE CheckFull \/ TestBusy \/ Enable
  BY <1>3, <1>a DEF CheckFull, TestBusy, Enable
<1>4. CASE CheckFree
  BY <1>4 DEF CheckFree
<1>5. CASE PutByte \/ PutCounter \/ PutCounterEarly \/ PutByteLate
  BY <1>5 DEF PutByte, PutCounter, PutCounterEarly, PutByteLate, Stored
<1>6. CASE Kick
  BY <1>6 DEF Kick, Transmit
<1>7. CASE Isr
  BY <1>7 DEF Isr, IsrSend, IsrStop, Transmit
<1>8. CASE ShiftOut
  BY <1>8 DEF ShiftOut
<1>9. CASE UNCHANGED vars
  BY <1>9 DEF vars
<1>. QED
  BY <1>1, <1>2, <1>3, <1>4, <1>5, <1>6, <1>7, <1>8, <1>9 DEF Next, Step

-----------------------------------------------------------------------------
(* The number of bytes in the queue.                                       *)

\* What a step does to the count, by what it does to the two counters.
LEMMA CountStep ==
  ASSUME TypeOK
  PROVE  /\ Count \in Nat
         /\ Count = 0 <=> out = in
         /\ UNCHANGED <<in, out>> => Count' = Count
         /\ in' = Inc(in) /\ out' = out /\ Count <= Size => Count' = Count + 1
         /\ out' = Inc(out) /\ in' = in /\ Count > 0 => Count' = Count - 1
<1>1. in \in 0 .. Wrap - 1 /\ out \in 0 .. Wrap - 1
  BY DEF TypeOK
<1>2. Size < Wrap - 1
  BY SizeAssumption, CallAssumption
<1>3. /\ Minus(in, out) \in 0 .. Wrap - 1
      /\ Minus(in, out) = 0 <=> in = out
      /\ Minus(in, out) < Wrap - 1 => Minus(Inc(in), out) = Minus(in, out) + 1
      /\ Minus(in, out) > 0 => Minus(in, Inc(out)) = Minus(in, out) - 1
  BY <1>1, Counters
<1>. QED BY <1>2, <1>3, SizeAssumption DEF Count

\* The numbers the invariant speaks of are natural numbers.
LEMMA Numbers ==
  ASSUME TypeOK, LoopOK
  PROVE  /\ Count \in Nat /\ Size \in Nat /\ Size >= 4 /\ elapsed \in Nat
         /\ usart \in 0 .. 2
         /\ Len(chunk) \in 0 .. 2 /\ Uncounted \in 0 .. 2
         /\ ~Storing => Len(chunk) = 0
         /\ pc # "idle" => i \in Nat /\ w \in Nat
<1>1. chunk \in Seq(Byte)
  BY DEF TypeOK
<1>2. Len(chunk) \in Nat
  BY <1>1
<1>3. IF Storing THEN Len(chunk) \in 1 .. 2 ELSE chunk = <<>>
  BY DEF LoopOK
<1>4. Len(chunk) \in 0 .. 2 /\ (~Storing => Len(chunk) = 0)
  BY <1>2, <1>3
<1>5. Uncounted \in 0 .. 2
  BY <1>3, <1>4 DEF Uncounted, Storing
<1>6. pc # "idle" => i \in Nat /\ w \in Nat
  BY DEF TypeOK, InACall
<1>. QED BY <1>4, <1>5, <1>6, CountStep, SizeAssumption, CallAssumption DEF TypeOK

\* What the steps of a write do to the numbers.
LEMMA StoreStep ==
  ASSUME TypeOK, LoopOK, RoomOK
  PROVE  /\ PutByte \/ PutByteLate => Count' = Count /\ Uncounted' = Uncounted
         /\ PutCounter \/ PutCounterEarly =>
              Count' = Count + 1 /\ Uncounted' = Uncounted - 1
<1> USE DEF Main
<1>1. ASSUME Storing
      PROVE  Len(chunk) \in 1 .. 2 /\ Len(Tail(chunk)) = Len(chunk) - 1
  <2>1. chunk \in Seq(Byte) /\ Len(chunk) \in 1 .. 2
    BY <1>1 DEF LoopOK, TypeOK
  <2>. QED BY <2>1
<1>2. CASE PutByte
  <2>1. Count' = Count
    BY <1>2, CountStep DEF PutByte, transmitter
  <2>2. Uncounted' = Uncounted
    BY <1>2 DEF PutByte, Uncounted, caller
  <2>. QED BY <1>2, <2>1, <2>2 DEF PutByte, PutCounter, PutCounterEarly
<1>3. CASE PutByteLate
  <2>1. Count' = Count
    BY <1>3, CountStep DEF PutByteLate, transmitter
  <2>2. Uncounted' = Uncounted
    BY <1>1, <1>3 DEF PutByteLate, Stored, Uncounted, Storing
  <2>. QED BY <1>3, <2>1, <2>2 DEF PutByteLate, PutCounter, PutCounterEarly
<1>4. CASE PutCounter
  <2>1. Uncounted' = Len(chunk) - 1 /\ Uncounted = Len(chunk) /\ Len(chunk) \in 1 .. 2
    BY <1>1, <1>4 DEF PutCounter, Stored, Uncounted, Storing
  <2>2. Count <= Size
    BY <2>1, Numbers DEF RoomOK
  <2>3. Count' = Count + 1
    BY <1>4, <2>2, CountStep DEF PutCounter, transmitter
  <2>. QED BY <1>4, <2>1, <2>3 DEF PutByte, PutByteLate, PutCounter
<1>5. CASE PutCounterEarly
  <2>1. Uncounted' = Len(chunk) - 1 /\ Uncounted = Len(chunk) /\ Len(chunk) \in 1 .. 2
    BY <1>1, <1>5 DEF PutCounterEarly, Uncounted, Storing, caller
  <2>2. Count <= Size
    BY <2>1, Numbers DEF RoomOK
  <2>3. Count' = Count + 1
    BY <1>5, <2>2, CountStep DEF PutCounterEarly, transmitter
  <2>. QED BY <1>5, <2>1, <2>3 DEF PutByte, PutByteLate, PutCounterEarly
<1>. QED BY <1>2, <1>3, <1>4, <1>5

LEMMA FreeStep ==
  ASSUME TypeOK, LoopOK, CheckFree
  PROVE  /\ Count < Size /\ Count' = Count /\ pc' = "put"
         /\ Uncounted = 0 /\ Uncounted' \in 1 .. 2 /\ i' = i + 1 /\ i \in Nat
<1>1. Write.data \in Seq(Byte) /\ i \in Nat /\ i + 1 \in 1 .. Len(Write.data)
  BY CallShape DEF CheckFree, InACall, Write, TypeOK, Main
<1>2. Len(chunk') \in 1 .. 2 /\ pc = "check" /\ pc' = "put"
  BY <1>1, EncodeShape DEF CheckFree, Main
<1>3. Uncounted' \in 1 .. 2 /\ Uncounted = 0
  BY <1>2, Numbers DEF Uncounted, Storing
<1>4. Count' = Count
  BY CountStep DEF CheckFree, ring, transmitter
<1>5. Count < Size
  BY Numbers DEF CheckFree, IsFull
<1>. QED BY <1>1, <1>2, <1>3, <1>4, <1>5 DEF CheckFree

\* What a step that hands a byte to the transmitter does to the numbers.
LEMMA SendStep ==
  ASSUME IInv, Kick \/ IsrSend
  PROVE  /\ Count > 0 /\ Count' = Count - 1 /\ Uncounted' = Uncounted
         /\ usart' = usart + 1 /\ sending'
<1>1. TypeOK /\ LoopOK /\ SendingOK /\ FreshOK /\ Count \in Nat
  BY Numbers DEF IInv
<1>2. Count > 0 /\ usart < 2
  <2>1. CASE Kick
    BY <1>1, <2>1 DEF Kick, Main, FreshOK, SendingOK
  <2>2. CASE IsrSend
    BY <1>1, <2>2, CountStep DEF IsrSend, IrqPending
  <2>. QED BY <2>1, <2>2
<1>3. Count' = Count - 1
  BY <1>1, <1>2, CountStep DEF Kick, IsrSend, Transmit, ring
<1>4. Uncounted' = Uncounted
  BY DEF Kick, IsrSend, Main, Uncounted, caller
<1>. QED BY <1>2, <1>3, <1>4 DEF Kick, IsrSend, Transmit

\* After the interrupt has stopped the transmitter the queue is empty, and it
\* does not do that between a store and the test of "sending".
LEMMA StopStep ==
  ASSUME CharTimes <= 1, IInv, IsrStop
  PROVE  /\ Count = 0 /\ Count' = 0 /\ Uncounted' = Uncounted
         /\ ~((pc = "check" /\ i > 0) \/ pc \in {"putByte", "start", "kick"})
<1>1. TypeOK /\ LoopOK /\ SendingOK /\ FreshOK
  BY DEF IInv
<1>2. Count = 0 /\ Count' = 0 /\ Uncounted' = Uncounted
  BY <1>1, CountStep DEF IsrStop, ring, caller, Uncounted
<1>3. sending /\ usart < 2
  BY <1>1 DEF IsrStop, IrqPending, SendingOK
<1>4. pc # "idle" => elapsed <= 1
  BY <1>1, TimingAssumption DEF LoopOK, TypeOK
<1>. QED BY <1>1, <1>2, <1>3, <1>4, Numbers DEF FreshOK, Backlog

-----------------------------------------------------------------------------
(* Each part of the invariant is kept.                                     *)

LEMMA RoomStep ==
  ASSUME CharTimes <= 1, IInv, [Next]_vars
  PROVE  RoomOK'
<1> USE DEF Main, ring, transmitter, caller
<1>a. TypeOK /\ LoopOK /\ RoomOK /\ Count + Uncounted <= Size + 1
  BY DEF IInv, RoomOK
<1>b. Count \in Nat /\ Uncounted \in Nat /\ Size \in Nat /\ Len(<<>>) = 0
  BY <1>a, Numbers
<1>c. ASSUME Count' = Count, chunk' = <<>>, pc' # "putByte"
      PROVE  RoomOK'
  BY <1>a, <1>b, <1>c DEF RoomOK, Uncounted
<1>d. ASSUME Count' = Count, Uncounted' = Uncounted
      PROVE  RoomOK'
  BY <1>a, <1>b, <1>d DEF RoomOK
<1>e. UNCHANGED <<in, out>> => Count' = Count
  BY <1>a, CountStep
<1>f. ~Storing => chunk = <<>>
  BY <1>a DEF LoopOK
<1>1. CASE Call
  BY <1>1, <1>c, <1>e DEF Call
<1>2. CASE CheckEnd \/ TestIdle
  BY <1>2, <1>c, <1>e, <1>f DEF CheckEnd, TestIdle, Storing
<1>3. CASE CheckFull \/ TestBusy \/ Enable
  <2>1. chunk' = <<>> /\ pc' # "putByte"
    BY <1>3 DEF CheckFull, TestBusy, Enable, Return
  <2>. QED BY <1>3, <1>c, <1>e, <2>1 DEF CheckFull, TestBusy, Enable
<1>4. CASE CheckFree
  BY <1>4, <1>a, <1>b, FreeStep DEF RoomOK
<1>5. CASE PutByte \/ PutByteLate
  BY <1>5, <1>a, <1>d, StoreStep
<1>6. CASE PutCounter \/ PutCounterEarly
  BY <1>6, <1>a, <1>b, StoreStep DEF RoomOK
<1>7. CASE Kick \/ IsrSend
  BY <1>7, <1>a, <1>b, SendStep DEF RoomOK
<1>8. CASE IsrStop \/ ShiftOut \/ UNCHANGED vars
  <2>1. Uncounted' = Uncounted /\ Count' = Count
    BY <1>8, <1>e DEF IsrStop, ShiftOut, vars, Uncounted
  <2>. QED BY <2>1, <1>d
<1>. QED
  BY <1>1, <1>2, <1>3, <1>4, <1>5, <1>6, <1>7, <1>8 DEF Next, Step, Isr

\* A write that finds the queue full finds the transmitter running.
LEMMA Refused ==
  ASSUME IInv
  PROVE  RefusedOnlyWhileSending
<1> SUFFICES ASSUME pc = "check", i < Len(Write.data), IsFull, ~sending PROVE FALSE
  BY DEF RefusedOnlyWhileSending, IInv, TypeOK
<1>1. TypeOK /\ LoopOK /\ StoppedOK
  BY DEF IInv
<1>2. Len(Write.data) \in Nat /\ 2 * Len(Write.data) <= Size
  <2>1. InACall
    BY <1>1 DEF TypeOK
  <2>2. Write.data \in Seq(Byte) /\ 2 * Len(Write.data) <= Size
    BY <2>1, CallShape DEF InACall, Write
  <2>. QED BY <2>2
<1>3. Count + Uncounted <= 2 * i
  BY <1>1 DEF StoppedOK
<1>. QED BY <1>1, <1>2, <1>3, Numbers DEF IsFull

LEMMA StoppedStep ==
  ASSUME CharTimes <= 1, IInv, [Next]_vars
  PROVE  StoppedOK'
<1> USE DEF Main, ring, transmitter, caller
<1>a. TypeOK /\ LoopOK /\ RoomOK /\ SendingOK /\ StoppedOK
  BY DEF IInv
<1>b. Count \in Nat /\ Uncounted \in Nat /\ Uncounted <= 2 /\ Size \in Nat
  BY <1>a, Numbers
<1>c. UNCHANGED <<in, out>> => Count' = Count
  BY <1>a, CountStep
<1>d. Storing => i \in Nat /\ i > 0
  BY <1>a, Numbers DEF LoopOK, Storing
<1>e. pc = "check" => i \in Nat /\ Uncounted = 0
  BY <1>a, Numbers DEF Uncounted, Storing
<1>f. ASSUME sending' PROVE StoppedOK'
  BY <1>f DEF StoppedOK
<1>1. CASE Call
  <2>1. pc' = "check" /\ i' = 0 /\ Uncounted' = Len(<<>>) /\ Count' = Count
    BY <1>1, <1>c DEF Call, Uncounted
  <2>2. ~sending => Count = 0
    BY <1>1, <1>a DEF Call, StoppedOK
  <2>. QED BY <1>1, <2>1, <2>2 DEF Call, StoppedOK
<1>2. CASE CheckEnd \/ TestIdle
  BY <1>2 DEF CheckEnd, TestIdle, StoppedOK, Storing
<1>3. CASE CheckFull \/ TestBusy \/ Enable
  <2>1. sending
    BY <1>3, <1>a, Refused
    DEF CheckFull, TestBusy, Enable, SendingOK, RefusedOnlyWhileSending
  <2>. QED BY <1>3, <1>f, <2>1 DEF CheckFull, TestBusy, Enable
<1>4. CASE CheckFree
  <2>1. ~sending => Count + Uncounted <= 2 * i
    BY <1>4, <1>a DEF CheckFree, StoppedOK
  <2>2. ~sending => Count' + Uncounted' <= 2 * i'
    BY <1>4, <1>a, <1>b, <2>1, FreeStep
  <2>. QED BY <1>4, <2>2 DEF CheckFree, StoppedOK
<1>5. CASE PutByte \/ PutCounter \/ PutCounterEarly \/ PutByteLate
  <2>1. ~sending => Count + Uncounted <= 2 * i
    BY <1>5, <1>a
    DEF PutByte, PutCounter, PutCounterEarly, PutByteLate, StoppedOK, Storing
  <2>2. Count' + Uncounted' = Count + Uncounted
    BY <1>5, <1>a, <1>b, StoreStep
  <2>3. pc' # "idle" /\ i' = i /\ sending' = sending
    BY <1>5 DEF PutByte, PutCounter, PutCounterEarly, PutByteLate, Stored
  <2>. QED BY <2>1, <2>2, <2>3 DEF StoppedOK
<1>6. CASE Kick \/ IsrSend
  BY <1>6, <1>f, SendStep
<1>7. CASE IsrStop
  <2>1. Count' = 0 /\ Uncounted' = Uncounted
    BY <1>7, StopStep
  <2>2. pc' = pc /\ i' = i /\ Storing' = Storing
    BY <1>7 DEF IsrStop, Storing
  <2>. QED BY <1>b, <1>d, <1>e, <2>1, <2>2 DEF StoppedOK
<1>8. CASE ShiftOut \/ UNCHANGED vars
  <2>1. Uncounted' = Uncounted /\ Count' = Count
    BY <1>8, <1>c DEF ShiftOut, vars, Uncounted
  <2>. QED BY <1>8, <1>a, <2>1 DEF ShiftOut, vars, StoppedOK, Storing
<1>. QED
  BY <1>1, <1>2, <1>3, <1>4, <1>5, <1>6, <1>7, <1>8 DEF Next, Step, Isr

LEMMA FreshStep ==
  ASSUME CharTimes <= 1, IInv, [Next]_vars
  PROVE  FreshOK'
<1> USE DEF Main, ring, transmitter, caller
<1>a. TypeOK /\ LoopOK /\ RoomOK /\ SendingOK /\ FreshOK /\ HeaderOK
  BY DEF IInv
<1>b. Count \in Nat /\ usart \in 0 .. 2 /\ elapsed \in Nat
  BY <1>a, Numbers
<1>c. UNCHANGED <<in, out>> => Count' = Count
  BY <1>a, CountStep
<1>d. pc # "idle" => elapsed <= 1 /\ i \in Nat
  BY <1>a, <1>b, TimingAssumption, Numbers DEF LoopOK
<1>1. CASE Call
  BY <1>1 DEF Call, FreshOK
<1>2. CASE CheckEnd
  <2>1. CASE i > 0
    BY <1>2, <1>a, <1>c, <2>1 DEF CheckEnd, FreshOK, Backlog
  <2>2. CASE i = 0
    <3>1. Len(call) = 6 /\ w = 4
      BY <1>2, <1>a, <2>2, CallShape DEF CheckEnd, TypeOK, InACall, Write
    <3>2. Backlog + elapsed >= 3
      BY <1>2, <1>a, <2>2, <3>1 DEF CheckEnd, HeaderOK
    <3>3. ~sending => Count > 0
      BY <1>2, <1>a, <1>b, <1>d, <3>2 DEF CheckEnd, SendingOK, Backlog
    <3>. QED BY <1>2, <1>c, <3>2, <3>3 DEF CheckEnd, FreshOK, Backlog
  <2>. QED BY <1>2, <1>d, <2>1, <2>2 DEF CheckEnd
<1>3. CASE CheckFull \/ TestBusy \/ Enable
  BY <1>3 DEF CheckFull, TestBusy, Enable, Return, FreshOK
<1>4. CASE CheckFree \/ PutByte \/ Kick
  BY <1>4 DEF CheckFree, PutByte, Kick, FreshOK
<1>5. CASE PutCounter \/ PutCounterEarly
  <2>1. Count' = Count + 1
    BY <1>5, <1>a, StoreStep
  <2>2. sending => usart = 2
    <3>1. ~IrqPending /\ pc # "enable"
      BY <1>5 DEF PutCounter, PutCounterEarly
    <3>2. sending => txeie
      BY <1>a, <3>1 DEF SendingOK
    <3>. QED BY <1>b, <3>1, <3>2 DEF IrqPending
  <2>3. UNCHANGED <<sending, usart, elapsed>>
    BY <1>5 DEF PutCounter, PutCounterEarly
  <2>. QED BY <1>b, <2>1, <2>2, <2>3 DEF FreshOK, Backlog
<1>6. CASE PutByteLate \/ TestIdle \/ UNCHANGED vars
  BY <1>6, <1>a, <1>c DEF PutByteLate, TestIdle, vars, FreshOK, Backlog
<1>7. CASE IsrSend
  <2>1. Backlog' = Backlog
    BY <1>7, <1>b, SendStep DEF Backlog
  <2>2. sending
    BY <1>7, <1>a DEF IsrSend, IrqPending, SendingOK
  <2>. QED BY <1>7, <1>a, <2>1, <2>2, SendStep DEF IsrSend, FreshOK
<1>8. CASE IsrStop
  BY <1>8, StopStep DEF IsrStop, FreshOK
<1>9. CASE ShiftOut
  <2>1. pc = "idle" \/ Backlog' + elapsed' = Backlog + elapsed
    BY <1>9, <1>b, <1>c DEF ShiftOut, Backlog
  <2>. QED BY <1>9, <1>a, <1>c, <2>1 DEF ShiftOut, FreshOK
<1>. QED
  BY <1>1, <1>2, <1>3, <1>4, <1>5, <1>6, <1>7, <1>8, <1>9 DEF Next, Step, Isr

LEMMA HeaderStep ==
  ASSUME CharTimes <= 1, IInv, [Next]_vars
  PROVE  HeaderOK'
<1> USE DEF Main, ring, transmitter, caller
<1>a. TypeOK /\ LoopOK /\ RoomOK /\ SendingOK /\ HeaderOK
  BY DEF IInv
<1>b. Count \in Nat /\ usart \in 0 .. 2 /\ elapsed \in Nat /\ Size >= 4 /\ Size \in Nat
  BY <1>a, Numbers
<1>c. UNCHANGED <<in, out>> => Count' = Count
  BY <1>a, CountStep
<1>d. pc # "idle" => InACall /\ i \in Nat /\ w \in Nat
  BY <1>a, Numbers DEF TypeOK
<1>e. ASSUME Len(call) = 6, pc # "idle", w <= 3
      PROVE  Len(Write.data) = 1 /\ i <= 1 /\ w >= 1
  <2>1. call \in Calls /\ w \in 1 .. 3 /\ i \in 0 .. Len(Write.data)
    BY <1>d, <1>e DEF InACall
  <2>2. Len(Write.data) = 1
    BY <1>e, <2>1, CallShape DEF Write
  <2>. QED BY <2>1, <2>2
<1>f. Storing => i > 0
  BY <1>a DEF LoopOK
<1>1. CASE Call
  <2>1. w' = 1 /\ i' = 0 /\ Count' = Count /\ usart' = usart /\ elapsed' = 0
    BY <1>1, <1>c DEF Call
  <2>. QED BY <1>b, <2>1 DEF HeaderOK, Backlog
<1>2. CASE CheckEnd \/ TestIdle
  BY <1>2, <1>a, <1>c DEF CheckEnd, TestIdle, HeaderOK, Backlog
<1>3. CASE CheckFull
  <2>1. Backlog' >= 4 /\ elapsed' \in Nat
    BY <1>3, <1>b, <1>c DEF CheckFull, IsFull, Backlog
  <2>2. i' = 0 /\ w' \in Nat
    BY <1>3, <1>d DEF CheckFull, Return
  <2>3. Backlog' \in Nat
    BY <1>3, <1>b, <1>c DEF CheckFull, Backlog
  <2>4. pc' \in {"check", "idle"}
    BY <1>3 DEF CheckFull, Return
  <2>5. w' <= 4 => Backlog' + elapsed' >= w' - 1 + 0
    <3>1. \A b, e, k \in Nat : b >= 4 /\ k <= 4 => b + e >= k - 1 + 0
      OBVIOUS
    <3>. QED BY <2>1, <2>2, <2>3, <3>1
  <2>. QED BY <2>2, <2>4, <2>5 DEF HeaderOK
<1>4. CASE TestBusy \/ Enable
  <2>1. SUFFICES ASSUME Len(call') = 6, pc' # "idle", w' <= 4
        PROVE  Backlog' + elapsed' >= w' - 1 + i'
    BY <1>4, <1>d DEF TestBusy, Enable, Return, HeaderOK
  <2>2. w' = w + 1 /\ i' = 0 /\ Len(call) = 6 /\ pc \in {"start", "enable"}
    BY <1>4, <2>1 DEF TestBusy, Enable, Return
  <2>3. w <= 3 /\ i = 1
    <3>1. w <= 3
      BY <1>d, <2>1, <2>2
    <3>2. i = Len(Write.data)
      BY <1>a, <2>2 DEF LoopOK
    <3>. QED BY <1>e, <2>2, <3>1, <3>2
  <2>4. Backlog + elapsed >= w - 1 + i
    BY <1>a, <2>2, <2>3 DEF HeaderOK
  <2>5. Backlog' = Backlog /\ elapsed' = elapsed
    BY <1>4, <1>c DEF TestBusy, Enable, Backlog
  <2>. QED BY <1>b, <1>d, <2>2, <2>3, <2>4, <2>5
<1>5. CASE CheckFree
  <2>0. i \in Nat /\ i' = i + 1 /\ pc' = "put"
    BY <1>5, <1>a, FreeStep
  <2>1. SUFFICES ASSUME Len(call') = 6, w' <= 3
        PROVE  Backlog' + elapsed' >= w' - 1 + 0
    BY <2>0 DEF HeaderOK
  <2>2. Len(call) = 6 /\ w' = w /\ w <= 3 /\ pc = "check" /\ i < Len(Write.data)
    BY <1>5, <2>1 DEF CheckFree
  <2>3. i = 0
    <3>1. Len(Write.data) = 1
      BY <1>e, <2>2
    <3>. QED BY <2>0, <2>2, <3>1
  <2>4. Backlog' = Backlog /\ elapsed' = elapsed
    BY <1>5, <1>c, <2>3 DEF CheckFree, Backlog
  <2>5. Backlog + elapsed >= w - 1 + 0
    BY <1>a, <2>2, <2>3 DEF HeaderOK
  <2>. QED BY <2>2, <2>4, <2>5
<1>6. CASE PutByte
  BY <1>6, <1>a, <1>c DEF PutByte, HeaderOK, Backlog
<1>7. CASE PutCounter \/ PutCounterEarly
  <2>1. SUFFICES ASSUME Len(call) = 6, w <= 3
        PROVE  Backlog' + elapsed' >= w - 1 + i
    <3>1. call' = call /\ w' = w /\ i' = i /\ i > 0 /\ i \in Nat
      BY <1>7, <1>d, <1>f DEF PutCounter, PutCounterEarly, Stored, Storing
    <3>2. w - 1 + i >= w - 1 + 0
      BY <1>7, <1>d, <3>1 DEF PutCounter, PutCounterEarly
    <3>3. Backlog' + elapsed' \in Nat
      BY <1>7, <1>a, <1>b, StoreStep DEF PutCounter, PutCounterEarly, Backlog
    <3>. QED BY <1>7, <1>d, <2>1, <3>1, <3>2, <3>3
         DEF PutCounter, PutCounterEarly, HeaderOK
  <2>2. Backlog + elapsed >= w - 1 + 0 /\ i <= 1
    <3>1. pc \in {"put", "putCounter"}
      BY <1>7 DEF PutCounter, PutCounterEarly
    <3>. QED BY <1>a, <1>e, <2>1, <3>1 DEF HeaderOK
  <2>3. Backlog' = Backlog + 1 /\ elapsed' = elapsed
    BY <1>7, <1>a, <1>b, StoreStep DEF PutCounter, PutCounterEarly, Backlog
  <2>. QED BY <1>7, <1>b, <1>d, <2>2, <2>3 DEF PutCounter, PutCounterEarly, Backlog
<1>8. CASE PutByteLate
  <2>1. Backlog' = Backlog /\ elapsed' = elapsed /\ UNCHANGED <<call, w, i>>
    BY <1>8, <1>c DEF PutByteLate, Backlog
  <2>2. pc = "putByte" /\ pc' \in {"put", "check"}
    BY <1>8 DEF PutByteLate, Stored
  <2>. QED BY <1>a, <1>b, <1>d, <2>1, <2>2 DEF HeaderOK, Backlog
<1>9. CASE Kick \/ IsrSend
  <2>1. Backlog' = Backlog
    BY <1>9, <1>b, SendStep DEF Backlog
  <2>. QED BY <1>9, <1>a, <2>1 DEF Kick, IsrSend, HeaderOK
<1>10. CASE IsrStop \/ UNCHANGED vars
  BY <1>10, <1>a, <1>c DEF IsrStop, vars, HeaderOK, Backlog
<1>11. CASE ShiftOut
  <2>1. pc = "idle" \/ Backlog' + elapsed' = Backlog + elapsed
    BY <1>11, <1>b, <1>c DEF ShiftOut, Backlog
  <2>. QED BY <1>11, <1>a, <2>1 DEF ShiftOut, HeaderOK
<1>. QED
  BY <1>1, <1>2, <1>3, <1>4, <1>5, <1>6, <1>7, <1>8, <1>9, <1>10, <1>11
  DEF Next, Step, Isr

-----------------------------------------------------------------------------
(* The theorems.                                                           *)

LEMMA InvInit == Init => IInv
<1> SUFFICES ASSUME Init PROVE IInv
  OBVIOUS
<1>1. TypeOK
  BY TypeInit
<1>2. Count = 0
  BY <1>1, CountStep DEF Init
<1>. QED
  BY <1>1, <1>2, SizeAssumption DEF Init, IInv, LoopOK, SendingOK, RoomOK,
     StoppedOK, FreshOK, HeaderOK, Storing, Uncounted

LEMMA InvStep ==
  ASSUME CharTimes <= 1
  PROVE  IInv /\ [Next]_vars => IInv'
<1> SUFFICES ASSUME IInv, [Next]_vars PROVE IInv'
  OBVIOUS
<1>1. TypeOK /\ LoopOK /\ SendingOK
  BY DEF IInv
<1>. QED
  BY <1>1, TypeStep, LoopStep, SendingStep, RoomStep, StoppedStep, FreshStep,
     HeaderStep DEF IInv

\* The ring, the transmitter and the caller's locals keep their types, at any
\* speed of the caller.
THEOREM TypeCorrect == Spec => []TypeOK
<1>1. Init => TypeOK /\ LoopOK
  BY TypeInit, TimingAssumption DEF Init, LoopOK, Storing
<1>2. TypeOK /\ LoopOK /\ [Next]_vars => (TypeOK /\ LoopOK)'
  BY TypeStep, LoopStep
<1>. QED BY <1>1, <1>2, PTL DEF Spec

\* With at most one character time in a stretch of a call the invariant holds.
LEMMA Invariant == ASSUME CharTimes <= 1 PROVE Spec => []IInv
  BY InvInit, InvStep, PTL DEF Spec

LEMMA Parts ==
  ASSUME IInv
  PROVE  /\ TypeOK /\ SendingOK /\ RoomOK /\ StoppedOK /\ FreshOK
         /\ Count \in Nat /\ Uncounted \in Nat /\ Size \in Nat
<1>1. TypeOK /\ LoopOK /\ SendingOK /\ RoomOK /\ StoppedOK /\ FreshOK
  BY DEF IInv
<1>. QED BY <1>1, Numbers

\* The ring is never more than one byte over its size (line 219).
THEOREM Excess == ASSUME CharTimes <= 1 PROVE Spec => []OneByteOfExcess
<1>1. IInv => OneByteOfExcess
  BY Parts DEF RoomOK, OneByteOfExcess
<1>. QED BY <1>1, Invariant, PTL

\* The transmitter is never started without a byte or with its data register
\* full (line 246).
THEOREM KickSafe == ASSUME CharTimes <= 1 PROVE Spec => []KickIsSafe
<1>1. IInv => KickIsSafe
  BY Parts DEF SendingOK, FreshOK, KickIsSafe
<1>. QED BY <1>1, Invariant, PTL

\* The interrupt and the test of sending fit together: no byte is left behind
\* (lines 199-204, 243).
THEOREM Wakeup == ASSUME CharTimes <= 1 PROVE Spec => []NoLostWakeup
<1>1. IInv => NoLostWakeup
  BY Parts DEF SendingOK, StoppedOK, NoLostWakeup
<1>. QED BY <1>1, Invariant, PTL

\* A full queue is only met while it is being emptied (lines 219-225).
THEOREM Refusal == ASSUME CharTimes <= 1 PROVE Spec => []RefusedOnlyWhileSending
<1>1. IInv => RefusedOnlyWhileSending
  BY Parts, Refused
<1>. QED BY <1>1, Invariant, PTL

-----------------------------------------------------------------------------
(* The queue is the byte stream its callers take it for, if no byte needs  *)
(* an escape and the stores of buf[in++] = b happen in the source's order: *)
(* the two conditions without which the code breaks it.                    *)

PlainCalls ==
  \A c \in Calls : \A k \in 1 .. Len(c) : \A j \in 1 .. Len(c[k].data) :
    c[k].escape => c[k].data[j] \notin {SLIP_ESC, SLIP_END}

\* A write that found a free slot needs no second one, and the counter is
\* stored over a slot that holds the byte.
ExactOK ==
  /\ pc # "putByte"
  /\ Count + Uncounted <= Size
  /\ Storing => Len(chunk) = 1
  /\ pc = "putCounter" => buf[Slot(in)] = Head(chunk)

LEMMA ExactStep ==
  ASSUME CharTimes <= 1, PlainCalls, StoreOrders = {"slotFirst"},
         IInv, ExactOK, [Next]_vars
  PROVE  ExactOK'
<1> USE DEF Main, ring, transmitter, caller
<1>a. TypeOK /\ LoopOK /\ RoomOK
  BY DEF IInv
<1>b. /\ Count \in Nat /\ Uncounted \in Nat /\ Size \in Nat /\ Len(<<>>) = 0
      /\ Count + Uncounted <= Size
  BY <1>a, Numbers DEF ExactOK
<1>c. UNCHANGED <<in, out>> => Count' = Count
  BY <1>a, CountStep
<1>d. ASSUME Count' = Count, chunk' = <<>>, pc' \notin {"put", "putCounter", "putByte"}
      PROVE  ExactOK'
  BY <1>b, <1>d DEF ExactOK, Uncounted, Storing
<1>e. ~Storing => chunk = <<>>
  BY <1>a DEF LoopOK
<1>1. CASE Call
  BY <1>1, <1>c, <1>d DEF Call
<1>2. CASE CheckEnd \/ TestIdle
  BY <1>2, <1>c, <1>d, <1>e DEF CheckEnd, TestIdle, Storing
<1>3. CASE CheckFull \/ TestBusy \/ Enable
  <2>1. chunk' = <<>> /\ pc' \in {"idle", "check"}
    BY <1>3 DEF CheckFull, TestBusy, Enable, Return
  <2>. QED BY <1>3, <1>c, <1>d, <2>1 DEF CheckFull, TestBusy, Enable
<1>4. CASE CheckFree
  <2>1. call \in Calls /\ w \in 1 .. Len(call) /\ i + 1 \in 1 .. Len(call[w].data)
    BY <1>4, <1>a, CallShape DEF CheckFree, TypeOK, InACall, Write
  <2>2. Len(Encode(Write, Write.data[i + 1])) = 1
    BY <2>1 DEF PlainCalls, Encode, Write
  <2>3. Len(chunk') = 1
    BY <1>4, <2>2 DEF CheckFree
  <2>4. Uncounted' = 1
    BY <1>4, <2>3 DEF CheckFree, Uncounted
  <2>. QED BY <1>4, <1>a, <1>b, <2>3, <2>4, FreeStep DEF ExactOK
<1>5. CASE PutByte
  <2>1. Count' = Count /\ Uncounted' = Uncounted
    BY <1>5, <1>a, StoreStep
  <2>2. in \in Nat /\ Slot(in) \in 0 .. Size - 1
    BY <1>a, SlotRange, Counters DEF TypeOK
  <2>3. buf'[Slot(in')] = Head(chunk')
    BY <1>5, <1>a, <2>2 DEF PutByte, TypeOK
  <2>. QED BY <1>5, <2>1, <2>3 DEF PutByte, ExactOK, Storing
<1>6. CASE PutCounter
  <2>1. Count' = Count + 1 /\ Uncounted' = Uncounted - 1
    BY <1>6, <1>a, StoreStep
  <2>2. Len(chunk) = 1 /\ chunk \in Seq(Byte)
    BY <1>6, <1>a DEF PutCounter, ExactOK, Storing, TypeOK
  <2>3. Tail(chunk) = <<>>
    <3>1. chunk # <<>>
      BY <2>2, EmptySeq
    <3>2. Tail(chunk) \in Seq(Byte) /\ Len(Tail(chunk)) = 0
      BY <2>2, <3>1, HeadTailProperties
    <3>. QED BY <3>2, EmptySeq
  <2>4. pc' = "check"
    BY <1>6, <2>3 DEF PutCounter, Stored
  <2>. QED BY <1>b, <2>1, <2>4 DEF ExactOK, Storing
<1>7. CASE PutCounterEarly \/ PutByteLate
  BY <1>7 DEF PutCounterEarly, PutByteLate, ExactOK
<1>8. CASE Kick
  <2>1. Count' = Count - 1 /\ Uncounted' = Uncounted
    BY <1>8, SendStep
  <2>. QED BY <1>8, <1>b, <2>1 DEF Kick, ExactOK, Storing
<1>9. CASE IsrSend
  <2>1. Count' = Count - 1 /\ Uncounted' = Uncounted
    BY <1>9, SendStep
  <2>. QED BY <1>9, <1>b, <2>1 DEF IsrSend, ExactOK, Storing
<1>10. CASE IsrStop \/ ShiftOut \/ UNCHANGED vars
  BY <1>10, <1>c DEF IsrStop, ShiftOut, vars, ExactOK, Uncounted, Storing
<1>. QED
  BY <1>1, <1>2, <1>3, <1>4, <1>5, <1>6, <1>7, <1>8, <1>9, <1>10
  DEF Next, Step, Isr

\* Every step puts a byte at the end of the stream, takes one from its front
\* or leaves it alone.
LEMMA StreamStep ==
  ASSUME CharTimes <= 1, PlainCalls, StoreOrders = {"slotFirst"},
         IInv, ExactOK, [Next]_vars
  PROVE  [Stream!Next]_(Stream!streamVars)
<1> USE DEF Main, ring, transmitter, caller
<1>a. TypeOK /\ LoopOK /\ RoomOK
  BY DEF IInv
<1>b. /\ buf \in [0 .. Size - 1 -> Byte \cup {NoByte}]
      /\ in \in 0 .. Wrap - 1 /\ out \in 0 .. Wrap - 1
  BY <1>a DEF TypeOK
<1>c. /\ Count \in Nat /\ Uncounted \in Nat /\ Size \in Nat
      /\ Count + Uncounted <= Size
  BY <1>a, Numbers DEF ExactOK
<1>d. ASSUME UNCHANGED <<buf, in, out, wire>>
      PROVE  UNCHANGED Stream!streamVars
  BY <1>d DEF Stream!streamVars, Waiting
<1>1. CASE PutByte
  <2>1. pc = "put" /\ Len(chunk) = 1 /\ chunk \in Seq(Byte)
    BY <1>1, <1>a DEF PutByte, ExactOK, Storing, TypeOK
  <2>2. Head(chunk) \in Byte /\ Uncounted = 1
    BY <2>1 DEF Uncounted
  <2>3. Minus(in, out) < Size
    BY <1>c, <2>2 DEF Count
  <2>4. DOMAIN buf = 0 .. Size - 1 /\ buf' = [buf EXCEPT ![Slot(in)] = Head(chunk)]
    BY <1>1, <1>b DEF PutByte
  <2>5. Contents(buf', in, out) = Contents(buf, in, out)
    <3>1. \A s \in 0 .. Size - 1 : s # Slot(in) => buf'[s] = buf[s]
      BY <2>4
    <3>. QED BY <1>b, <2>3, <3>1, WriteFree
  <2>. QED BY <1>1, <2>5 DEF PutByte, Stream!streamVars, Waiting
<1>2. CASE PutCounter
  <2>1. /\ pc = "putCounter" /\ Len(chunk) = 1 /\ chunk \in Seq(Byte)
        /\ buf[Slot(in)] = Head(chunk)
    BY <1>2, <1>a DEF PutCounter, ExactOK, Storing, TypeOK
  <2>2. Head(chunk) \in Byte /\ Uncounted = 1
    BY <2>1 DEF Uncounted
  <2>3. Minus(in, out) < Size
    BY <1>c, <2>2 DEF Count
  <2>4. Waiting' = Append(Waiting, Head(chunk))
    BY <1>2, <1>b, <2>1, <2>3, CountIn DEF PutCounter, Waiting
  <2>5. Len(Waiting) < Size
    BY <1>b, <2>3, ContentsShape DEF Waiting
  <2>6. Stream!Put(Head(chunk))
    BY <1>2, <2>4, <2>5 DEF PutCounter, Stream!Put
  <2>. QED BY <2>2, <2>6 DEF Stream!Next
<1>3. CASE Kick \/ IsrSend
  <2>1. Minus(in, out) > 0
    BY <1>3, SendStep DEF Count
  <2>2. /\ Waiting # <<>> /\ Head(Waiting) = buf[Slot(out)]
        /\ Tail(Waiting) = Contents(buf, in, Inc(out))
    BY <1>b, <2>1, CountOut DEF Waiting
  <2>3. wire' = buf[Slot(out)] /\ out' = Inc(out) /\ buf' = buf /\ in' = in
    BY <1>3 DEF Kick, IsrSend, Transmit
  <2>4. Stream!Take
    BY <2>2, <2>3 DEF Stream!Take, Waiting
  <2>. QED BY <2>4 DEF Stream!Next
<1>4. CASE PutCounterEarly \/ PutByteLate
  BY <1>4 DEF PutCounterEarly, PutByteLate, ExactOK
<1>5. CASE \/ Call \/ CheckEnd \/ CheckFull \/ CheckFree \/ TestBusy \/ TestIdle
           \/ Enable \/ IsrStop \/ ShiftOut \/ UNCHANGED vars
  BY <1>5, <1>d DEF Call, CheckEnd, CheckFull, CheckFree, TestBusy, TestIdle,
     Enable, IsrStop, ShiftOut, vars
<1>. QED BY <1>1, <1>2, <1>3, <1>4, <1>5 DEF Next, Step, Isr

\* What the callers put into the queue is what the USART is given, each byte
\* once and in order.
THEOREM Refinement ==
  ASSUME CharTimes <= 1, PlainCalls, StoreOrders = {"slotFirst"}
  PROVE  Spec => BytesInOrder
<1>1. Init => ExactOK /\ Stream!Init
  <2> SUFFICES ASSUME Init PROVE ExactOK /\ Stream!Init
    OBVIOUS
  <2>1. TypeOK /\ LoopOK /\ Count = 0
    BY TypeInit, InvInit, CountStep DEF Init, IInv
  <2>2. ExactOK
    BY <2>1, Numbers DEF Init, ExactOK, Uncounted, Storing
  <2>3. Waiting = <<>>
    <3>1. /\ buf \in [0 .. Size - 1 -> Byte \cup {NoByte}] /\ Minus(in, out) = 0
          /\ in \in 0 .. Wrap - 1 /\ out \in 0 .. Wrap - 1
      BY <2>1 DEF TypeOK, Count
    <3>2. Waiting \in Seq(Byte \cup {NoByte}) /\ Len(Waiting) = 0
      <4>1. Contents(buf, in, out) \in Seq(Byte \cup {NoByte})
        BY <3>1, ContentsShape
      <4>2. Len(Contents(buf, in, out)) = Minus(in, out)
        BY <3>1, ContentsLen
      <4>. QED BY <3>1, <4>1, <4>2 DEF Waiting
    <3>. QED BY <3>2, EmptySeq
  <2>. QED BY <2>2, <2>3 DEF Stream!Init, Init
<1>2. IInv /\ ExactOK /\ [Next]_vars => ExactOK'
  BY ExactStep
<1>3. IInv /\ ExactOK /\ [Next]_vars => [Stream!Next]_(Stream!streamVars)
  BY StreamStep
<1>4. Spec => []IInv
  BY InvInit, InvStep, PTL DEF Spec
<1>. QED BY <1>1, <1>2, <1>3, <1>4, PTL DEF Spec, BytesInOrder, Stream!Spec

=============================================================================

------------------------------- MODULE Packet -------------------------------
(***************************************************************************)
(* The life of a packet (ESPClient.c 366-466, Packet.java): it is filled   *)
(* value by value, gets its checksum, crosses a line that may spoil a byte *)
(* or two neighbouring bytes of it, is accepted or not, and read value by  *)
(* value.  Beside the checksum stands its definition, a division of        *)
(* polynomials bit by bit.                                                 *)
(*                                                                         *)
(* getShort and getInt increment _cpos several times in one expression     *)
(* without a sequence point between; EvalOrders names the orders the build *)
(* may choose from.  A float is carried as the integer with its bits.      *)
(*                                                                         *)
(* External: the line.                                                     *)
(***************************************************************************)
EXTENDS Crc16

CONSTANTS
  Cmds,             \* commands of packets
  Values,           \* what is put into packets: [size |-> 1, 2 or 4, data |-> ...]
  MaxPayload,       \* bound: bytes of a payload
  Errors,           \* bits of a byte that are received wrong
  EvalOrders        \* of {"leftFirst", "rightFirst"}

KEEPALIVE == 1

\* What a byte of a value counts, the lowest one first.
Place == <<1, 256, 65536, 16777216>>

ASSUME PacketAssumption ==
  /\ Cmds \subseteq 0 .. 255
  /\ \A v \in Values : v.size \in {1, 2, 4} /\ v.data \in Nat /\ v.data \div Place[v.size] < 256
  /\ MaxPayload \in 0 .. 255
  /\ Errors \subseteq 1 .. 255
  /\ EvalOrders \subseteq {"leftFirst", "rightFirst"}

-----------------------------------------------------------------------------
VARIABLES
  stage,            \* "filled", "sealed", "underway", "accepted" or "refused"
  packet,           \* the ESPPacket: cmd, payload, crc and _cpos
  sent,             \* the message that was sent, between its two SLIP_END
  wire,             \* what has become of it
  in, out           \* the values that were put in, and those that were read

packetVars == <<stage, packet, sent, wire, in, out>>

-----------------------------------------------------------------------------
(* The checksum by its definition.                                         *)

Polynomial == 4129          \* x^16 + x^12 + x^5 + 1, without its first term

\* One bit of the division: shift the next bit in at the top, and subtract.
Divide(r, bit) ==
  IF Bit(r, 32768) = bit THEN Short(2 * r) ELSE Xor(Short(2 * r), Polynomial)

\* The bits of a byte, the highest first.
DivideByte(r, b) ==
  LET Step(s, w) == Divide(s, Bit(b, w))
  IN  Step(Step(Step(Step(Step(Step(Step(Step(r, 128), 64), 32), 16), 8), 4), 2), 1)

Remainder(data) ==
  LET rem[i \in 0 .. Len(data)] == IF i = 0 THEN 0 ELSE DivideByte(rem[i - 1], data[i])
  IN  rem[Len(data)]

-----------------------------------------------------------------------------
(* The packet.  len is the length of payload.                              *)

clearPacket == [cmd |-> 0, payload |-> <<>>, crc |-> 0, _cpos |-> 0]

setCommand(p, c) == [p EXCEPT !.cmd = c, !.crc = crc16Add(c, 0)]

\* Mutant of BytesOf: the highest byte first.
BytesOfSwapped(n, size) == [k \in 1 .. size |-> (n \div Place[size + 1 - k]) % 256]

\* putByte, putShort, putInt: the lowest byte first.
BytesOf(n, size) == [k \in 1 .. size |-> (n \div Place[k]) % 256]

Put(p, v) == [p EXCEPT !.payload = @ \o BytesOf(v.data, v.size)]

Header(p) == <<p.cmd, Len(p.payload)>>

updateCrc(p) == [p EXCEPT !.crc = crc16Data(Header(p) \o p.payload, 0)]

Message(p) == Header(p) \o p.payload \o <<LowByte(p.crc), HighByte(p.crc)>>

\* getByte, getShort, getInt: the bytes of an expression, taken left to right or
\* the other way round.
Get(p, size, order) ==
  LET At(k) == p.payload[p._cpos + (IF order = "leftFirst" THEN k ELSE size + 1 - k)]
  IN  IF size = 1 THEN At(1)
      ELSE IF size = 2 THEN At(1) + At(2) * Place[2]
      ELSE At(1) + At(2) * Place[2] + At(3) * Place[3] + At(4) * Place[4]

-----------------------------------------------------------------------------
(* What the receiver makes of a message.                                   *)

\* Mutant of IsIntact: the checksum is not compared.
IsIntactLength(m) == m[2] + 4 = Len(m)

IsIntact(m) ==
  LET n == Len(m) - 2
  IN  /\ m[2] + 4 = Len(m)
      /\ m[n + 1] + 256 * m[n + 2] = crc16Data(SubSeq(m, 1, n), 0)

Received(m) ==
  [cmd |-> m[1], payload |-> SubSeq(m, 3, Len(m) - 2),
   crc |-> m[Len(m) - 1] + 256 * m[Len(m)], _cpos |-> 0]

-----------------------------------------------------------------------------
InitPacket ==
  /\ stage = "filled"
  /\ \E c \in Cmds : packet = setCommand(clearPacket, c)
  /\ sent = <<>> /\ wire = <<>> /\ in = <<>> /\ out = <<>>

Fill(v) ==
  /\ stage = "filled"
  /\ Len(packet.payload) + v.size <= MaxPayload
  /\ packet' = Put(packet, v)
  /\ in' = Append(in, v)
  /\ UNCHANGED <<stage, sent, wire, out>>

Seal ==
  /\ stage = "filled"
  /\ stage' = "sealed"
  /\ packet' = updateCrc(packet)
  /\ UNCHANGED <<sent, wire, in, out>>

Transmit ==
  /\ stage' = "underway"
  /\ sent' = Message(packet) /\ wire' = Message(packet)
  /\ UNCHANGED <<packet, in, out>>

Send == stage = "sealed" /\ Transmit

\* ESPSendKeepAliveMSG leaves out updateCrc.
ESPSendKeepAliveMSG ==
  stage = "filled" /\ packet.cmd = KEEPALIVE /\ packet.payload = <<>> /\ Transmit

\* External: one byte of the message, or two next to each other, are spoilt.
Spoil(k, e) ==
  /\ stage = "underway"
  /\ \A j \in DOMAIN wire : wire[j] # sent[j] => j = k - 1
  /\ wire' = [wire EXCEPT ![k] = XorByte(@, e)]
  /\ UNCHANGED <<stage, packet, sent, in, out>>

Receive ==
  /\ stage = "underway"
  /\ IF IsIntact(wire) THEN stage' = "accepted" /\ packet' = Received(wire)
                       ELSE stage' = "refused" /\ UNCHANGED packet
  /\ UNCHANGED <<sent, wire, in, out>>

\* The reader takes the values in the order and of the sizes they were put in.
\* Of a message that was spoilt it would read integers beyond those of TLC.
Read(order) ==
  /\ stage = "accepted" /\ wire = sent /\ Len(out) < Len(in)
  /\ LET size == in[Len(out) + 1].size
     IN  /\ out' = Append(out, Get(packet, size, order))
         /\ packet' = [packet EXCEPT !._cpos = @ + size]
  /\ UNCHANGED <<stage, sent, wire, in>>

PacketNext ==
  \/ \E v \in Values : Fill(v)
  \/ Seal
  \/ Send
  \/ ESPSendKeepAliveMSG
  \/ \E k \in DOMAIN wire, e \in Errors : Spoil(k, e)
  \/ Receive
  \/ \E order \in EvalOrders : Read(order)

PacketSpec == InitPacket /\ [][PacketNext]_packetVars

-----------------------------------------------------------------------------
\* The shifts of crc16Add, over the command, the length and the payload, are
\* the division they stand for.
IsDivision ==
  stage = "sealed" => packet.crc = Remainder(Header(packet) \o packet.payload)

\* The one error that goes unnoticed: the low byte of the checksum stands before
\* the high one, so two bytes next to each other are not next to each other in
\* the division.
Unnoticed(m) ==
  LET n == Len(m) - 2
  IN  [m EXCEPT ![n] = XorByte(@, 137), ![n + 1] = XorByte(@, 161)]

\* A message that was spoilt in one byte or in two next to each other, the length
\* and the checksum included, is not accepted, with one exception; and one that
\* was not spoilt is, unless it was sent without updateCrc.
DamageDetected ==
  /\ stage = "accepted" /\ IsIntact(sent) => wire = sent \/ wire = Unnoticed(sent)
  /\ stage = "refused" /\ wire = sent => sent[1] = KEEPALIVE /\ Len(sent) = 4

\* Without the exception (it does not hold).
AllDamageDetected == stage = "accepted" => wire = sent

\* Also what ESPSendKeepAliveMSG sends is accepted (it is not: the checksum of
\* setCommand is of the command alone).
AllAccepted == stage = "refused" => wire # sent

\* What is read is what was put in, value for value and in their order.
RoundTrip == \A k \in DOMAIN out : out[k] = in[k].data
=============================================================================

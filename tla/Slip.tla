-------------------------------- MODULE Slip --------------------------------
(***************************************************************************)
(* Frames, as both ends build them: a message is cmd, len, the payload and *)
(* the checksum of all these; it is escaped and set between two SLIP_END   *)
(* (SLIPProtocol.java, Packet.java; OutQueue has the car's writes of one). *)
(***************************************************************************)
EXTENDS Integers, Sequences

CONSTANT Crc(_)               \* the two bytes of the checksum of a sequence of bytes

SLIP_END     == 192
SLIP_ESC     == 219
SLIP_ESC_END == 220
SLIP_ESC_ESC == 221

Escape(b) ==
  IF b = SLIP_END THEN <<SLIP_ESC, SLIP_ESC_END>>
  ELSE IF b = SLIP_ESC THEN <<SLIP_ESC, SLIP_ESC_ESC>>
  ELSE <<b>>

\* The byte that b stands for after a SLIP_ESC; any other than the two is itself.
Unescape(b) ==
  IF b = SLIP_ESC_END THEN SLIP_END ELSE IF b = SLIP_ESC_ESC THEN SLIP_ESC ELSE b

encode(data) ==
  LET upTo[k \in 0 .. Len(data)] == IF k = 0 THEN <<>> ELSE upTo[k - 1] \o Escape(data[k])
  IN  upTo[Len(data)]

\* A SLIP_ESC gives no byte, and changes the next one that is not SLIP_ESC.
decode(data) ==
  LET kept == SelectSeq([k \in DOMAIN data |-> k], LAMBDA k : data[k] # SLIP_ESC)
      Escaped(k) == k > 1 /\ data[k - 1] = SLIP_ESC
  IN  [n \in DOMAIN kept |->
        LET k == kept[n] IN IF Escaped(k) THEN Unescape(data[k]) ELSE data[k]]

Message(p) ==
  LET body == <<p.cmd, Len(p.payload)>> \o p.payload IN body \o Crc(body)

createFramed(p) == <<SLIP_END>> \o encode(Message(p)) \o <<SLIP_END>>
=============================================================================

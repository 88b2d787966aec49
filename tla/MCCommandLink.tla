---------------------------- MODULE MCCommandLink ----------------------------
(***************************************************************************)
(* Packets for CommandLink: commands with and without a payload.  The      *)
(* speeds 1472, 1499 and 1500 have a SLIP_END, a SLIP_ESC and the          *)
(* SLIP_ESC_END in their low byte.  A keep-alive has no payload, as        *)
(* ESPSendKeepAliveMSG makes it.                                           *)
(***************************************************************************)
EXTENDS CommandLink, Crc16

SpeedPacket(lo, hi) == [cmd |-> 5, payload |-> <<lo, hi>>]
KeepAlive == [cmd |-> 1, payload |-> <<>>]
Start == [cmd |-> 3, payload |-> <<>>]
TooLong == [cmd |-> 8, payload |-> <<0, 0, 0, 1>>]

MCPackets == {SpeedPacket(SLIP_END, 5), SpeedPacket(SLIP_ESC, 5), Start, TooLong, KeepAlive}
MCShortPackets == {KeepAlive, Start, SpeedPacket(SLIP_ESC_END, 5)}

MCNoise == {SLIP_END, SLIP_ESC, SLIP_ESC_END, 0, 2}
=============================================================================

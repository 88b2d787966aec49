--------------------------- MODULE MCMessageParser ---------------------------
(***************************************************************************)
(* What the car sends, for MessageParser: an echo with and without a       *)
(* payload, the status text between the frames, and what is left of a      *)
(* frame when the output queue is full for some of its writes.             *)
(***************************************************************************)
EXTENDS MessageParser, Crc16

StartEcho == createFramed([cmd |-> 3, payload |-> <<>>])
SpeedEcho == createFramed([cmd |-> 5, payload |-> <<SLIP_ESC>>])
Text == <<66, 58, 10>>
Headless == SubSeq(SpeedEcho, 2, Len(SpeedEcho))
Tailless == SubSeq(SpeedEcho, 1, Len(SpeedEcho) - 1)
OneByte == <<SLIP_END, 5, SLIP_END>>

MCItems == {StartEcho, SpeedEcho, Text, Headless, Tailless, OneByte}
MCFrameItems == {StartEcho}
MCShortItems == {StartEcho, OneByte}
=============================================================================

----------------------------- MODULE MCOutQueue -----------------------------
(***************************************************************************)
(* Small rings and calls for OutQueue: a packet of the size of the ring,   *)
(* so that two calls in a row find it full, an echo without a payload, as  *)
(* START and STOP get it, a text, and the same with bytes to escape.       *)
(***************************************************************************)
EXTENDS OutQueue

CONSTANTS x, y      \* bytes that need no escape

MCByte == {x, y, SLIP_END, SLIP_ESC, SLIP_ESC_END, SLIP_ESC_ESC}

Echo(cmd, payload) == [cmd |-> cmd, len |-> x, payload |-> payload, crc |-> <<y, x>>]

PlainPackets == {Echo(x, <<>>), Echo(y, <<y, x>>)}
PlainTexts == {<<x, y>>}

EscapedPackets == {Echo(x, <<SLIP_END, SLIP_ESC>>)}
EscapedTexts == {<<x, y>>}
=============================================================================

----------------------------- MODULE MCMsgQueue -----------------------------
(***************************************************************************)
(* A ring of four slots and two different bytes for MsgQueue.              *)
(***************************************************************************)
EXTENDS MsgQueue

CONSTANTS x, y

MCByte == {x, y}
=============================================================================

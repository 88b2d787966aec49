------------------------------ MODULE MCClient ------------------------------
(***************************************************************************)
(* Senders for Client.                                                     *)
(***************************************************************************)
EXTENDS Client

CONSTANTS s, t

Senders == {s, t}
=============================================================================

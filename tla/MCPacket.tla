------------------------------ MODULE MCPacket ------------------------------
(***************************************************************************)
(* Values of each size, whose bytes differ, with a SLIP_ESC among them;    *)
(* errors: single bits, neighbours, and all bits.                          *)
(***************************************************************************)
EXTENDS Packet

MCValues == {[size |-> 1, data |-> 219], [size |-> 1, data |-> 0],
             [size |-> 2, data |-> 1499], [size |-> 4, data |-> 16909060]}
MCErrors == {1, 2, 16, 128, 3, 24, 137, 161, 219, 255}
=============================================================================

---------------------------- MODULE MCSensorBar ----------------------------
(***************************************************************************)
(* The sensors as they are wired, and in the order main.c gives them.      *)
(***************************************************************************)
EXTENDS SensorBar

MCmux_map == [k \in 0 .. 3 |-> <<7, 6, 2, 3>>[k + 1]]
MCsensor_order == <<0, 2, 1, 3>>
=============================================================================

------------------------------ MODULE MCStartup ------------------------------
(***************************************************************************)
(* Turns of the loop: no callback, one that prints more than the ring of   *)
(* the console holds (KeepAliveCallback prints twice), and one that prints *)
(* and waits (StopCallback).                                               *)
(***************************************************************************)
EXTENDS Startup

MCCallbacks == {<<>>, <<Printf(2)>>, <<Printf(1), Delay(1)>>}
=============================================================================

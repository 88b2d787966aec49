----------------------------- MODULE MainThread -----------------------------
(***************************************************************************)
(* The main thread of the car, as the modules of its parts share it: where *)
(* it is.  Between two statements it is at "next"; a call of a part takes  *)
(* it from there to a place of that part, and back when the call returns.  *)
(* An interrupt that is pending runs before its next step.                 *)
(***************************************************************************)
VARIABLE at

Go(from, to) == at = from /\ at' = to
=============================================================================

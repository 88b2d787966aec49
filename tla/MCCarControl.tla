---------------------------- MODULE MCCarControl ----------------------------
(***************************************************************************)
(* Commands and values for CarControl.  The speeds and angles lie on both  *)
(* sides of every limit: of 1000..2000 us, of 0 and of 16 bits.            *)
(***************************************************************************)
EXTENDS CarControl

MCSent == Attached

MCSpeeds == {0, 100, 357, 358, -357, -358, 32767, -32768}

MCAngles == {0, 125, 126, -125, -126, -375, -376, 8192, -8192, 32767, -32768}

MCLeft == {-376, 100}

MCHeadingPWM == {1000, 1499, 2000}
=============================================================================

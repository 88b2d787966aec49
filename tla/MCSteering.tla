----------------------------- MODULE MCSteering -----------------------------
(***************************************************************************)
(* Distances with every kind of difference: none, within the distance of   *)
(* two sensors, as large, and beyond; and one out of range.  The angles    *)
(* are those of the differences 10, 20 and 30 that occur; over 30 cm the   *)
(* tangents grow with the distance, and with a smaller velocity.           *)
(***************************************************************************)
EXTENDS Steering

\* The car is parallel to one of the walls at least.  A front sensor is out of
\* range only with the rear one of its side, and not on both sides.
MCPlaces ==
  {r \in [0 .. 3 -> Distances] : /\ r[0] = r[1] \/ r[3] = r[2]
                                 /\ r[1] > treshold => r[0] > treshold
                                 /\ r[2] > treshold => r[3] > treshold
                                 /\ r[1] <= treshold \/ r[2] <= treshold}

Abs(d) == IF d < 0 THEN - d ELSE d
Odd(f, d) == IF d < 0 THEN - f[Abs(d)] ELSE f[d]

MCAsin(d) ==
  Odd([n \in 0 .. 30 |-> CASE n = 0 -> 0 [] n <= 10 -> 1947 [] n <= 20 -> 4181
                           [] n < 30 -> 7517 [] OTHER -> 9000], d)

\* atan(n / 100), to within a degree for these n.
MCAtanStill(d) ==
  Odd([n \in 0 .. 200 |-> CASE n = 0 -> 0 [] n <= 10 -> 571 [] n <= 20 -> 1131
                            [] n <= 30 -> 1670 [] OTHER -> 5000], d)

\* atan((2 n / 100) / (0.0425 v)), for a velocity of one tick and of more.
MCAtanMoving(d, v) ==
  LET far == Odd([n \in 0 .. 200 |-> IF n = 0 THEN 0 ELSE IF n <= 10 THEN 7801 ELSE 8500], d)
      near == Odd([n \in 0 .. 200 |-> IF n = 0 THEN 0 ELSE IF n <= 10 THEN 6697 ELSE 7900], d)
      size == IF Abs(v) = 1 THEN far ELSE near
  IN  IF v > 0 THEN size ELSE - size
=============================================================================

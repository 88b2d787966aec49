----------------------------- MODULE RingIndex ------------------------------
(***************************************************************************)
(* The counters of the two rings of ESPClient.c.  A ring has a counter     *)
(* "in" of the bytes stored and a counter "out" of the bytes taken.  Both  *)
(* are uint32_t and wrap; the position in the array is taken modulo its    *)
(* size.                                                                   *)
(***************************************************************************)
EXTENDS Integers, Sequences

CONSTANTS Size,     \* OUTQUEUE_SIZE, MSGQUEUE_SIZE
          Wrap      \* 2^32

ASSUME SizeAssumption ==
  /\ Size \in Nat \ {0}
  /\ Wrap \in Nat
  /\ Wrap > 2 * Size
  /\ Wrap % Size = 0

\* Mutant of Inc: wraps one step late.
IncLate(n) == IF n = Wrap THEN 0 ELSE n + 1

Inc(n) == IF n + 1 = Wrap THEN 0 ELSE n + 1
Dec(n) == IF n = 0 THEN Wrap - 1 ELSE n - 1
Minus(m, n) == IF m >= n THEN m - n ELSE m - n + Wrap

Slot(n) == n % Size               \* n & (SIZE - 1)

\* The bytes of array buf from counter out up to counter in, the oldest first.
Contents(buf, in, out) == [k \in 1 .. Minus(in, out) |-> buf[Slot(out + k - 1)]]
=============================================================================

----------------------------- MODULE ByteStream -----------------------------
(***************************************************************************)
(* What either ring of the ESP client promises: a bounded first-in         *)
(* first-out stream.  A byte is put at the tail only while fewer than      *)
(* Capacity bytes wait, and the byte taken is always the oldest one that   *)
(* waits.  No byte is lost, duplicated, changed or reordered in between.   *)
(***************************************************************************)
EXTENDS Naturals, Sequences

CONSTANTS Capacity,   \* how many bytes may wait
          Datum,      \* the bytes
          NoDatum     \* what is seen before the first byte

VARIABLES waiting,    \* the bytes put and not taken yet
          taken       \* the byte taken last

streamVars == <<waiting, taken>>

Init == waiting = <<>> /\ taken = NoDatum

Put(b) ==
  /\ Len(waiting) < Capacity
  /\ waiting' = Append(waiting, b)
  /\ taken' = taken

Take ==
  /\ waiting # <<>>
  /\ taken' = Head(waiting)
  /\ waiting' = Tail(waiting)

Next == Take \/ \E b \in Datum : Put(b)

Spec == Init /\ [][Next]_streamVars

\* A byte that waits is taken some day.
Delivery == WF_streamVars(Take)

FairSpec == Spec /\ Delivery
=============================================================================

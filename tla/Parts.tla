-------------------------------- MODULE Parts --------------------------------
(***************************************************************************)
(* Parts of a sequence, for what arrives when something gets lost.         *)
(***************************************************************************)
EXTENDS Integers, Sequences

\* The elements of s at these places, in their order.
Picked(s, places) ==
  LET upTo[k \in 0 .. Len(s)] ==
        IF k = 0 THEN <<>>
        ELSE IF k \in places THEN Append(upTo[k - 1], s[k]) ELSE upTo[k - 1]
  IN  upTo[Len(s)]

\* s is what is left of t when some of its elements are struck out.
IsPartOf(s, t) ==
  \E place \in [DOMAIN s -> DOMAIN t] :
    /\ \A i, j \in DOMAIN s : i < j => place[i] < place[j]
    /\ \A i \in DOMAIN s : s[i] = t[place[i]]
=============================================================================

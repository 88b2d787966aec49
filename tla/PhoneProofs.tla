----------------------------- MODULE PhoneProofs -----------------------------
(***************************************************************************)
(* The phone: its client for every number of senders, sends and failures,  *)
(* its parser for all data, however it is cut into pieces, and its         *)
(* commands on their way to the car, whatever the line does to them.       *)
(*                                                                         *)
(* The parser is reasoned about with two facts: what Parse takes out of    *)
(* its buffer ends with a SLIP_END (Closed), and data that does can be     *)
(* parsed apart from what follows (Apart), which is an induction over the  *)
(* places of the data (NatSet, Recursion).  The commands need what is left *)
(* of a frame at each place of its message (Tails, EncodeTails), and what  *)
(* one more element does to what is Picked.                                *)
(***************************************************************************)
EXTENDS Client, MessageParser, CommandLink, SequenceTheorems, WellFoundedInduction, TLAPS

-----------------------------------------------------------------------------
(* The client.                                                             *)

Inside == \E t \in Sender : spc[t] # "out"

\* A sender that is inside of send() will wake the selector thread up.
SelectOK ==
  /\ spc \in [Sender -> {"out", "data", "wakeup"}]
  /\ pc = "select" /\ pendingChanges # <<>> => wakeup \/ Inside

\* A client that is connected has no connect left to process, and is not on
\* its way from the end of one connection to the next.
ConnectedOK ==
  connected =>
    /\ pc \in {"loop", "pending", "select", "keys", "finally"}
    /\ pc = "keys" => "OP_CONNECT" \notin ready
    /\ pc # "finally" => "OP_READ" \in interestOps /\ "OP_CONNECT" \notin interestOps

IInv == SelectOK /\ ConnectedOK

LEMMA SendStep == ASSUME IInv, NEW t \in Sender, Send(t) PROVE IInv'
<1>1. SelectOK /\ ConnectedOK
  BY DEF IInv
<1>2. ConnectedOK'
  <2>1. UNCHANGED <<connected, pc, ready, interestOps>>
    BY DEF Send, AddChange, AddData, Wakeup, key, thread
  <2>. QED BY <1>1, <2>1 DEF ConnectedOK
<1>3. CASE AddChange(t)
  <2>1. spc' \in [Sender -> {"out", "data", "wakeup"}] /\ spc'[t] = "data"
    BY <1>1, <1>3 DEF AddChange, SelectOK
  <2>. QED BY <1>2, <2>1 DEF SelectOK, Inside, IInv
<1>4. CASE AddData(t)
  <2>1. spc' \in [Sender -> {"out", "data", "wakeup"}] /\ spc'[t] = "wakeup"
    BY <1>1, <1>4 DEF AddData, SelectOK
  <2>. QED BY <1>2, <2>1 DEF SelectOK, Inside, IInv
<1>5. CASE Wakeup(t)
  <2>1. spc' \in [Sender -> {"out", "data", "wakeup"}] /\ wakeup' = TRUE
    BY <1>1, <1>5 DEF Wakeup, SelectOK
  <2>. QED BY <1>2, <2>1 DEF SelectOK, IInv
<1>. QED BY <1>3, <1>4, <1>5 DEF Send

\* When the selector thread comes to select() it has just emptied the requests.
LEMMA RunSelect == ASSUME SelectOK, Run PROVE SelectOK'
<1> USE DEF lists, key, network
<1>1. spc' = spc
  BY DEF Run, Open, OpenFails, Loop, ProcessPendingChanges, ProcessStaleChange, Select,
     ProcessSelectedKeys, ProcessRead, ProcessReadClosed, ProcessWrite, ProcessWriteFails,
     ProcessConnect, ProcessConnectFails, KeysDone, Disconnected, ClearData, ClearChanges,
     Close, Sleep
<1>2. CASE ProcessPendingChanges
  BY <1>1, <1>2 DEF ProcessPendingChanges, SelectOK
<1>3. CASE ~ProcessPendingChanges
  <2>1. pc' # "select"
    BY <1>3 DEF Run, Open, OpenFails, Loop, ProcessStaleChange, Select,
       ProcessSelectedKeys, ProcessRead, ProcessReadClosed, ProcessWrite, ProcessWriteFails,
       ProcessConnect, ProcessConnectFails, KeysDone, Disconnected, ClearData, ClearChanges,
       Close, Sleep, Go
  <2>. QED BY <1>1, <2>1 DEF SelectOK
<1>. QED BY <1>2, <1>3

LEMMA RunConnected == ASSUME ConnectedOK, Run PROVE ConnectedOK'
<1> USE DEF key, Go
<1>1. CASE Open \/ OpenFails \/ Loop
  BY <1>1 DEF Open, OpenFails, Loop, ConnectedOK
<1>2. CASE ProcessPendingChanges \/ ProcessStaleChange
  <2>1. pc = "pending" /\ pc' \in {"select", "finally"} /\ connected' = connected
    BY <1>2 DEF ProcessPendingChanges, ProcessStaleChange
  <2>2. interestOps' = interestOps \/ interestOps' = interestOps \cup {"OP_WRITE"}
    BY <1>2 DEF ProcessPendingChanges, ProcessStaleChange
  <2>. QED BY <2>1, <2>2 DEF ConnectedOK
<1>3. CASE Select
  BY <1>3 DEF Select, Ready, ConnectedOK
<1>4. CASE ProcessRead \/ ProcessReadClosed
  BY <1>4 DEF ProcessRead, ProcessReadClosed, ConnectedOK
<1>5. CASE ProcessWrite
  <2>1. pc = "keys" /\ pc' = pc /\ connected' = connected /\ ready' = ready \ {"OP_WRITE"}
    BY <1>5 DEF ProcessWrite
  <2>2. interestOps' = {"OP_READ"} \/ interestOps' = interestOps
    BY <1>5 DEF ProcessWrite
  <2>. QED BY <2>1, <2>2 DEF ConnectedOK
<1>6. CASE ProcessWriteFails
  BY <1>6 DEF ProcessWriteFails, ConnectedOK
<1>7. CASE ProcessConnect \/ ProcessConnectFails
  BY <1>7 DEF ProcessConnect, ProcessConnectFails, ConnectedOK
<1>8. CASE KeysDone \/ Disconnected
  BY <1>8 DEF KeysDone, Disconnected, ConnectedOK
<1>9. CASE ClearData \/ ClearChanges \/ Close \/ Sleep
  BY <1>9 DEF ClearData, ClearChanges, Close, Sleep, ConnectedOK
<1>. QED BY <1>1, <1>2, <1>3, <1>4, <1>5, <1>6, <1>7, <1>8, <1>9
         DEF Run, ProcessSelectedKeys

LEMMA Step == ASSUME IInv, [Next]_vars PROVE IInv'
<1>1. SelectOK /\ ConnectedOK
  BY DEF IInv
<1>2. CASE Run
  BY <1>1, <1>2, RunSelect, RunConnected DEF IInv
<1>3. CASE \E t \in Sender : Send(t)
  BY <1>3, SendStep
<1>4. CASE Answer \/ Receive \/ Drain \/ PeerCloses \/ UNCHANGED vars
  <2>1. UNCHANGED <<connected, pc, ready, interestOps, spc, pendingChanges, wakeup>>
    BY <1>4 DEF Answer, Receive, Drain, PeerCloses, vars, lists, key, thread
  <2>. QED BY <1>1, <2>1 DEF IInv, SelectOK, ConnectedOK, Inside
<1>. QED BY <1>2, <1>3, <1>4 DEF Next

LEMMA Invariant == Spec => []IInv
<1>1. Init => IInv
  BY DEF Init, IInv, SelectOK, ConnectedOK
<1>2. IInv /\ [Next]_vars => IInv'
  BY Step
<1>. QED BY <1>1, <1>2, PTL DEF Spec

\* No request is slept on: where the selector thread is about to block while one
\* waits and no sender is left to wake it up, it has been woken up.
THEOREM Awake == Spec => []NoRequestSleptOn
<1>1. IInv => NoRequestSleptOn
  BY DEF IInv, SelectOK, NoRequestSleptOn, Inside
<1>. QED BY <1>1, Invariant, PTL

\* A connected client listens for data and no longer for the connect.
THEOREM Listens == Spec => []ConnectedListens
<1>1. IInv => ConnectedListens
  BY DEF IInv, ConnectedOK, ConnectedListens
<1>. QED BY <1>1, Invariant, PTL

-----------------------------------------------------------------------------
(* Induction, and functions that are defined by recursion.                 *)

\* A set of numbers has a least one.
LEMMA Least == ASSUME NEW T, T \subseteq Nat, T # {} PROVE \E x \in T : \A y \in T : ~(y < x)
<1> DEFINE R == {ss \in Nat \X Nat : ss[1] < ss[2]}
<1>1. IsWellFoundedOn(R, Nat)
  BY NatLessThanWellFounded DEF OpToRel
<1> HIDE DEF R
<1>2. \E x \in T : \A y \in T : ~ (<<y, x>> \in R)
  BY <1>1, WFMin
<1> USE DEF R
<1>3. QED
 BY <1>2

\* Induction, as a fact about sets.
LEMMA NatSet == ASSUME NEW S, 0 \in S, \A n \in Nat : n \in S => n+1 \in S PROVE Nat \subseteq S
<1> DEFINE T == Nat \ S
<1>1. SUFFICES ASSUME T # {} PROVE FALSE
  OBVIOUS
<1>2. PICK x \in T : \A y \in T : ~(y < x)
  BY <1>1, Least
<1>3. x \in Nat /\ x # 0 /\ x - 1 \in Nat /\ x - 1 < x
  BY <1>2
<1>4. x - 1 \in S
  BY <1>2, <1>3
<1>. QED BY <1>2, <1>3, <1>4

\* f is the function with f[0] = a and f[i] = G[<<i, f[i - 1]>>].
IsRecursive(f, S, a, n, G) ==
  f \in [0 .. n -> S] /\ f[0] = a /\ \A i \in 1 .. n : f[i] = G[<<i, f[i - 1]>>]

\* There is one.
LEMMA Recursion ==
  ASSUME NEW S, NEW a \in S, NEW n \in Nat, NEW G \in [(1 .. n) \X S -> S]
  PROVE  \E f : IsRecursive(f, S, a, n, G)
<1> DEFINE Built(m) == \E f \in [0 .. m -> S] : f[0] = a /\ \A i \in 1 .. m : f[i] = G[<<i, f[i - 1]>>]
           T == {m \in Nat : m <= n => Built(m)}
<1>1. Built(0)
  <2>1. [i \in 0 .. 0 |-> a] \in [0 .. 0 -> S]
    OBVIOUS
  <2> DEFINE f == [i \in 0 .. 0 |-> a]
  <2>2. f \in [0 .. 0 -> S] /\ f[0] = a /\ \A i \in 1 .. 0 : f[i] = G[<<i, f[i - 1]>>]
    BY <2>1
  <2> HIDE DEF f
  <2>. QED BY <2>2
<1>2. ASSUME NEW m \in Nat, m + 1 <= n, Built(m) PROVE Built(m + 1)
  <2>1. PICK f \in [0 .. m -> S] : f[0] = a /\ \A i \in 1 .. m : f[i] = G[<<i, f[i - 1]>>]
    BY <1>2
  <2> DEFINE g == [i \in 0 .. m + 1 |-> IF i = m + 1 THEN G[<<m + 1, f[m]>>] ELSE f[i]]
  <2>2. G[<<m + 1, f[m]>>] \in S
    <3>1. m + 1 \in 1 .. n /\ f[m] \in S
      BY <1>2, <2>1
    <3>. QED BY <3>1
  <2>3. g \in [0 .. m + 1 -> S]
    BY <2>1, <2>2
  <2>4. g[0] = a
    BY <2>1
  <2>5. ASSUME NEW i \in 1 .. m + 1 PROVE g[i] = G[<<i, g[i - 1]>>]
    <3>1. i - 1 \in 0 .. m + 1 /\ i - 1 # m + 1 /\ g[i - 1] = f[i - 1]
      OBVIOUS
    <3>2. CASE i = m + 1
      BY <3>1, <3>2
    <3>3. CASE i # m + 1
      <4>1. i \in 1 .. m /\ g[i] = f[i]
        BY <3>3
      <4>. QED BY <2>1, <3>1, <4>1
    <3>. QED BY <3>2, <3>3
  <2> HIDE DEF g
  <2>. QED BY <2>3, <2>4, <2>5
<1> HIDE DEF Built
<1>3. 0 \in T /\ \A m \in Nat : m \in T => m + 1 \in T
  BY <1>1, <1>2
<1>4. n \in T
  BY <1>3, NatSet
<1>5. n <= n
  OBVIOUS
<1>. QED BY <1>4, <1>5 DEF Built, IsRecursive

-----------------------------------------------------------------------------
(* Sequences, and the frames in them.                                      *)

\* What is sent and received.
Byte == 0 .. 255

\* What stands where in a concatenation.
LEMMA Join ==
  ASSUME NEW S, NEW a \in Seq(S), NEW b \in Seq(S), NEW c, c = a \o b
  PROVE  /\ c \in Seq(S) /\ Len(c) = Len(a) + Len(b)
         /\ \A k \in 1 .. Len(a) + Len(b) : c[k] = IF k <= Len(a) THEN a[k] ELSE b[k - Len(a)]
  BY ConcatProperties

\* A part of some bytes.
LEMMA Piece ==
  ASSUME NEW S, NEW d \in Seq(S), NEW i \in Int, NEW j \in Int, 1 <= i, i - 1 <= j, j <= Len(d),
         NEW p, p = SubSeq(d, i, j)
  PROVE  /\ p \in Seq(S) /\ Len(p) = j - i + 1
         /\ \A m \in 1 .. j - i + 1 : p[m] = d[i - 1 + m]
<1>1. p \in Seq(S)
  OBVIOUS
<1>2. Len(p) = j - i + 1
  OBVIOUS
<1>3. \A m \in 1 .. j - i + 1 : p[m] = d[i - 1 + m]
  OBVIOUS
<1>. QED BY <1>1, <1>2, <1>3

\* The last SLIP_END is where the rest begins.
LEMMA LastEndIs ==
  ASSUME NEW d \in Seq(Byte)
  PROVE  /\ LastEnd(d) \in 0 .. Len(d)
         /\ LastEnd(d) > 0 => d[LastEnd(d)] = SLIP_END
         /\ \A j \in 1 .. Len(d) : j > LastEnd(d) => d[j] # SLIP_END
<1>1. Ends(d) \subseteq 1 .. Len(d) /\ Len(d) \in Nat
  BY DEF Ends
<1>2. \A j \in 1 .. Len(d) : j \in Ends(d) <=> d[j] = SLIP_END
  BY DEF Ends
<1>3. CASE Ends(d) = {}
  BY <1>1, <1>2, <1>3 DEF LastEnd
<1>4. CASE Ends(d) # {}
  <2> DEFINE T == {n \in Nat : \E k \in Ends(d) : n = Len(d) - k}
  <2>1. PICK x \in T : \A y \in T : ~(y < x)
    <3>0. PICK k \in Ends(d) : TRUE
      BY <1>4
    <3>0a. Len(d) - k \in Nat
      BY <1>1
    <3>1. T \subseteq Nat /\ T # {}
      BY <3>0a
    <3> HIDE DEF T
    <3>. QED BY <3>1, Least
  <2>2. PICK k \in Ends(d) : x = Len(d) - k
    BY <2>1
  <2>3. \A j \in Ends(d) : j <= k
    <3> TAKE j \in Ends(d)
    <3>1. Len(d) - j \in T
      BY <1>1
    <3>2. ~(Len(d) - j < Len(d) - k)
      BY <2>1, <2>2, <3>1
    <3>. QED BY <1>1, <3>2
  <2> HIDE DEF T
  <2>4. LastEnd(d) = CHOOSE i \in Ends(d) : \A j \in Ends(d) : j <= i
    BY <1>4 DEF LastEnd
  <2>5. LastEnd(d) \in Ends(d) /\ \A j \in Ends(d) : j <= LastEnd(d)
    BY <2>3, <2>4
  <2>. QED BY <1>1, <1>2, <2>5
<1>. QED BY <1>3, <1>4

\* ... and nothing else is.
LEMMA IsLastEnd ==
  ASSUME NEW d \in Seq(Byte), NEW e \in 0 .. Len(d),
         e > 0 => d[e] = SLIP_END,
         \A j \in 1 .. Len(d) : j > e => d[j] # SLIP_END
  PROVE  LastEnd(d) = e
<1> DEFINE x == LastEnd(d)
<1>1. /\ x \in 0 .. Len(d) /\ Len(d) \in Nat
      /\ x > 0 => d[x] = SLIP_END
      /\ \A j \in 1 .. Len(d) : j > x => d[j] # SLIP_END
  BY LastEndIs
<1> HIDE DEF x
<1>2. ~(x > e)
  BY <1>1
<1>3. ~(e > x)
  BY <1>1
<1>. QED BY <1>1, <1>2, <1>3 DEF x

\* Where two sequences agree their parts are the same.
LEMMA SamePiece ==
  ASSUME NEW c \in Seq(Byte), NEW d \in Seq(Byte), NEW n \in Nat, NEW i \in Int, NEW j \in Int,
         1 <= i, i - 1 <= j, j <= Len(d), n + j <= Len(c),
         \A m \in i .. j : c[n + m] = d[m]
  PROVE  SubSeq(c, n + i, n + j) = SubSeq(d, i, j)
<1> DEFINE p == SubSeq(c, n + i, n + j)
           q == SubSeq(d, i, j)
           x == n + i
           y == n + j
<1>1. /\ x \in Int /\ y \in Int /\ 1 <= x /\ x - 1 <= y /\ y <= Len(c)
      /\ y - x + 1 = j - i + 1 /\ p = SubSeq(c, x, y) /\ q = SubSeq(d, i, j)
  OBVIOUS
<1>0. x = n + i /\ y = n + j
  OBVIOUS
<1> HIDE DEF p, q, x, y
<1>2. /\ p \in Seq(Byte) /\ Len(p) = y - x + 1
      /\ \A m \in 1 .. y - x + 1 : p[m] = c[x - 1 + m]
  BY ONLY <1>1, Piece, c \in Seq(Byte)
<1>3. /\ q \in Seq(Byte) /\ Len(q) = j - i + 1
      /\ \A m \in 1 .. j - i + 1 : q[m] = d[i - 1 + m]
  BY ONLY <1>1, Piece, d \in Seq(Byte), i \in Int, j \in Int, 1 <= i, i - 1 <= j, j <= Len(d)
<1>4. \A m \in 1 .. j - i + 1 : p[m] = q[m]
  <2> TAKE m \in 1 .. j - i + 1
  <2> DEFINE k == i - 1 + m
  <2>1. k \in i .. j /\ x - 1 + m = n + k
    BY <1>0
  <2>2. m \in 1 .. y - x + 1
    BY <1>1
  <2> HIDE DEF k
  <2>3. p[m] = c[n + k]
    BY <1>2, <2>1, <2>2
  <2>4. q[m] = d[k]
    BY <1>3 DEF k
  <2>. QED BY <2>1, <2>3, <2>4
<1>5. Len(p) = Len(q) /\ \A m \in 1 .. Len(p) : p[m] = q[m]
  BY ONLY <1>1, <1>2, <1>3, <1>4
<1>6. p = q
  BY ONLY <1>2, <1>3, <1>5, SeqEqual
<1>. QED BY <1>6 DEF p, q, x, y

\* Nothing of a frame is left open.
Closed(d) == d = <<>> \/ d[Len(d)] = SLIP_END

\* A frame is part of the data.
LEMMA FrameIs ==
  ASSUME NEW d \in Seq(Byte), NEW k \in 1 .. Len(d)
  PROVE  /\ SubSeq(d, 1, k - 1) \in Seq(Byte) /\ Len(SubSeq(d, 1, k - 1)) = k - 1
         /\ LastEnd(SubSeq(d, 1, k - 1)) \in 0 .. k - 1
         /\ FrameAt(d, k) \in Seq(Byte)
<1> DEFINE h == SubSeq(d, 1, k - 1)
           e == LastEnd(h)
<1>1. h \in Seq(Byte) /\ Len(h) = k - 1 /\ k \in Nat /\ k - 1 \in Nat
  OBVIOUS
<1> HIDE DEF h
<1>2. e \in 0 .. k - 1
  BY <1>1, LastEndIs
<1> HIDE DEF e
<1>3. SubSeq(d, e + 1, k - 1) \in Seq(Byte)
  BY <1>1, <1>2
<1>4. FrameAt(d, k) = SubSeq(d, e + 1, k - 1)
  BY DEF FrameAt, e, h
<1>. QED BY <1>1, <1>2, <1>3, <1>4 DEF h, e

\* What follows does not change a frame.
LEMMA FrameOfFirst ==
  ASSUME NEW a \in Seq(Byte), NEW b \in Seq(Byte), NEW k \in 1 .. Len(a), NEW c, c = a \o b
  PROVE  FrameAt(c, k) = FrameAt(a, k)
<1>1. /\ c \in Seq(Byte) /\ Len(c) = Len(a) + Len(b) /\ Len(a) \in Nat /\ Len(b) \in Nat
      /\ \A m \in 1 .. Len(a) : c[m] = a[m]
  <2>1. Len(a) \in Nat /\ Len(b) \in Nat
    OBVIOUS
  <2>. QED BY <2>1, Join
<1> DEFINE e == LastEnd(SubSeq(a, 1, k - 1))
           j == k - 1
           s == e + 1
<1>2. e \in 0 .. k - 1 /\ e = LastEnd(SubSeq(a, 1, j)) /\ j = k - 1 /\ s = e + 1
  BY FrameIs
<1>3. FrameAt(a, k) = SubSeq(a, s, j)
  BY DEF FrameAt
<1>4. FrameAt(c, k) = LET x == LastEnd(SubSeq(c, 1, j)) IN SubSeq(c, x + 1, j)
  BY DEF FrameAt
<1> HIDE DEF e, j, s
<1>5. \A i \in 1 .. k : SubSeq(c, i, j) = SubSeq(a, i, j)
  <2> TAKE i \in 1 .. k
  <2>1. /\ 0 \in Nat /\ i \in Int /\ j \in Int /\ 1 <= i /\ i - 1 <= j /\ j <= Len(a) /\ 0 + j <= Len(c)
        /\ \A m \in i .. j : c[0 + m] = a[m]
    BY <1>1, <1>2
  <2>2. SubSeq(c, 0 + i, 0 + j) = SubSeq(a, i, j)
    BY ONLY <1>1, <2>1, SamePiece, a \in Seq(Byte)
  <2>3. 0 + i = i /\ 0 + j = j
    BY <2>1
  <2>. QED BY <2>2, <2>3
<1>6. 1 \in 1 .. k /\ s \in 1 .. k
  BY <1>2
<1>. QED BY <1>2, <1>3, <1>4, <1>5, <1>6

\* Nor does what comes before, if no frame was left open.
LEMMA FrameOfSecond ==
  ASSUME NEW a \in Seq(Byte), NEW b \in Seq(Byte), Closed(a), NEW k \in 1 .. Len(b),
         NEW c, c = a \o b
  PROVE  FrameAt(c, Len(a) + k) = FrameAt(b, k)
<1> DEFINE n == Len(a)
           j == k - 1
           h == SubSeq(b, 1, j)
           e == LastEnd(h)
           g == SubSeq(c, 1, n + j)
<1>1. n \in Nat /\ Len(b) \in Nat /\ j \in Nat /\ j = k - 1 /\ j <= Len(b) /\ k \in Nat
  OBVIOUS
<1>2. /\ c \in Seq(Byte) /\ Len(c) = n + Len(b)
      /\ \A m \in 1 .. n + Len(b) : c[m] = IF m <= n THEN a[m] ELSE b[m - n]
  BY Join
<1>3. h \in Seq(Byte) /\ Len(h) = j /\ e \in 0 .. j
  BY FrameIs
<1>3a. \A m \in 1 .. j : h[m] = b[m]
  BY <1>1
<1>4. g \in Seq(Byte) /\ Len(g) = n + j
  <2> HIDE DEF n, j
  <2>. QED BY <1>1, <1>2
<1>5. \A m \in 1 .. n + j : g[m] = c[m]
  <2> HIDE DEF n, j
  <2>. QED BY <1>1, <1>2
<1>6. FrameAt(b, k) = SubSeq(b, e + 1, j)
  BY DEF FrameAt
<1>7. FrameAt(c, n + k) = SubSeq(c, LastEnd(g) + 1, n + j)
  <2>1. (n + k) - 1 = n + j
    BY <1>1
  <2>. QED BY <2>1 DEF FrameAt
<1>n. n = Len(a)
  OBVIOUS
<1>l. e > 0 => h[e] = SLIP_END
  BY <1>3, LastEndIs
<1>m. \A m \in 1 .. j : m > e => h[m] # SLIP_END
  BY <1>3, LastEndIs
<1> HIDE DEF n, j, h, e, g
<1>8. \A m \in 1 .. j : g[n + m] = h[m]
  <2> TAKE m \in 1 .. j
  <2>1. n + m \in 1 .. n + j /\ n + m \in 1 .. n + Len(b) /\ ~(n + m <= n) /\ (n + m) - n = m
    BY <1>1
  <2>. QED BY <1>2, <1>3a, <1>5, <2>1
<1>9. LastEnd(g) = n + e
  <2>1. n + e \in 0 .. Len(g)
    BY <1>1, <1>3, <1>4
  <2>2. n + e > 0 => g[n + e] = SLIP_END
    <3>1. CASE e > 0
      BY <1>3, <1>8, <1>l, <3>1
    <3>2. CASE e = 0 /\ n > 0
      <4>1. a[n] = SLIP_END
        <5>1. a # <<>>
          BY <3>2, <1>n
        <5>. QED BY <5>1, <1>n DEF Closed
      <4>2. n + e = n /\ n \in 1 .. n + j /\ n \in 1 .. n + Len(b) /\ n <= n
        BY <1>1, <3>2
      <4>. QED BY <1>2, <1>5, <4>1, <4>2
    <3>. QED BY <1>1, <1>3, <3>1, <3>2
  <2>3. \A m \in 1 .. Len(g) : m > n + e => g[m] # SLIP_END
    <3> SUFFICES ASSUME NEW m \in 1 .. Len(g), m > n + e PROVE g[m] # SLIP_END
      OBVIOUS
    <3> DEFINE i == m - n
    <3>1. i \in 1 .. j /\ m = n + i /\ i > e
      BY <1>1, <1>3, <1>4
    <3> HIDE DEF i
    <3>. QED BY <1>8, <1>m, <3>1
  <2>. QED BY <1>4, <2>1, <2>2, <2>3, IsLastEnd
<1>10. SubSeq(c, n + (e + 1), n + j) = SubSeq(b, e + 1, j)
  <2> DEFINE i == e + 1
  <2>1. /\ i \in Int /\ j \in Int /\ 1 <= i /\ i - 1 <= j /\ n + j <= Len(c)
    BY <1>1, <1>2, <1>3
  <2> HIDE DEF i
  <2>2. \A m \in i .. j : c[n + m] = b[m]
    <3> TAKE m \in i .. j
    <3>1. n + m \in 1 .. n + Len(b) /\ ~(n + m <= n) /\ (n + m) - n = m
      BY <1>1, <2>1
    <3>. QED BY <1>2, <3>1
  <2>3. SubSeq(c, n + i, n + j) = SubSeq(b, i, j)
    BY ONLY <1>1, <1>2, <2>1, <2>2, SamePiece, b \in Seq(Byte)
  <2>. QED BY <2>3 DEF i
<1>11. (n + e) + 1 = n + (e + 1)
  BY <1>1, <1>3
<1>. QED BY <1>6, <1>7, <1>9, <1>10, <1>11 DEF n

-----------------------------------------------------------------------------
(* The packets of the frames.                                              *)

\* What can be made of the bytes of a frame.
Parsed == {PacketOf(decode(f)) : f \in Seq(Byte)}

\* The packets s, and that of the frame which ends at k, if one does.
With(d, ends, k, s) ==
  IF k \in ends /\ isValid(decode(FrameAt(d, k)))
  THEN Append(s, PacketOf(decode(FrameAt(d, k)))) ELSE s

LEMMA WithTyped ==
  ASSUME NEW d \in Seq(Byte), NEW ends, NEW k \in 1 .. Len(d), NEW s \in Seq(Parsed)
  PROVE  With(d, ends, k, s) \in Seq(Parsed)
<1> DEFINE p == PacketOf(decode(FrameAt(d, k)))
<1>1. p \in Parsed
  BY FrameIs DEF Parsed
<1>2. With(d, ends, k, s) = Append(s, p) \/ With(d, ends, k, s) = s
  BY DEF With
<1> HIDE DEF p
<1>. QED BY <1>1, <1>2

\* An element after the second sequence is one after both.
AppendsToBoth(S) == \A s, t \in Seq(S), e \in S : Append(s \o t, e) = s \o Append(t, e)

LEMMA AppendToSecond == ASSUME NEW S PROVE AppendsToBoth(S)
<1> SUFFICES ASSUME NEW s \in Seq(S), NEW t \in Seq(S), NEW e \in S
             PROVE  Append(s \o t, e) = s \o Append(t, e)
  BY DEF AppendsToBoth
<1> DEFINE u == <<e>>
<1>1. u \in Seq(S) /\ s \o t \in Seq(S)
  OBVIOUS
<1>2. Append(s \o t, e) = (s \o t) \o u /\ Append(t, e) = t \o u
  BY <1>1, AppendIsConcat
<1> HIDE DEF u
<1>3. (s \o t) \o u = s \o (t \o u)
  BY <1>1, ConcatAssociative
<1>. QED BY <1>2, <1>3

\* The packets of the data, place by place.
LEMMA PacketSteps ==
  ASSUME NEW data \in Seq(Byte), NEW ends
  PROVE  \E f \in [0 .. Len(data) -> Seq(Parsed)] :
           /\ f[0] = <<>>
           /\ \A i \in 1 .. Len(data) : f[i] = With(data, ends, i, f[i - 1])
           /\ PacketsAt(data, ends) = f[Len(data)]
<1> DEFINE n == Len(data)
           S == Seq(Parsed)
           G == [p \in (1 .. n) \X S |-> With(data, ends, p[1], p[2])]
<1>1. n \in Nat /\ <<>> \in S
  OBVIOUS
<1>w. \A i \in 1 .. n, s \in S : With(data, ends, i, s) \in S
  BY WithTyped
<1> HIDE DEF S
<1>2. G \in [(1 .. n) \X S -> S]
  BY <1>w
<1>3. PICK f \in [0 .. n -> S] : f[0] = <<>> /\ \A i \in 1 .. n : f[i] = G[<<i, f[i - 1]>>]
  <2> HIDE DEF n, G
  <2>1. \E f : IsRecursive(f, S, <<>>, n, G)
    BY <1>1, <1>2, Recursion
  <2>. QED BY <2>1 DEF IsRecursive
<1>4. \A i \in 1 .. n : f[i] = With(data, ends, i, f[i - 1])
  <2> TAKE i \in 1 .. n
  <2>1. f[i - 1] \in S
    BY <1>1, <1>3
  <2>. QED BY <1>3, <2>1
<1>5. f = [i \in 0 .. n |-> IF i = 0 THEN <<>> ELSE With(data, ends, i, f[i - 1])]
  BY <1>1, <1>3, <1>4
<1> DEFINE upTo == CHOOSE g : g = [i \in 0 .. n |-> IF i = 0 THEN <<>> ELSE With(data, ends, i, g[i - 1])]
<1>6. PacketsAt(data, ends) = upTo[n]
  BY DEF PacketsAt, With
<1>7. upTo = [i \in 0 .. n |-> IF i = 0 THEN <<>> ELSE With(data, ends, i, upTo[i - 1])]
  BY <1>5
<1> HIDE DEF upTo, n
<1>8. upTo[0] = <<>> /\ \A i \in 1 .. n : upTo[i] = With(data, ends, i, upTo[i - 1])
  BY <1>1, <1>7
<1> DEFINE T == {i \in Nat : i <= n => upTo[i] = f[i]}
<1>9. 0 \in T
  BY <1>3, <1>8
<1>10. ASSUME NEW i \in Nat, i \in T PROVE i + 1 \in T
  <2> SUFFICES ASSUME i + 1 <= n PROVE upTo[i + 1] = f[i + 1]
    OBVIOUS
  <2>1. i + 1 \in 1 .. n /\ (i + 1) - 1 = i /\ upTo[i] = f[i]
    BY <1>1, <1>10
  <2>. QED BY <1>4, <1>8, <2>1
<1>11. n \in T
  <2> HIDE DEF T
  <2>1. Nat \subseteq T
    BY <1>9, <1>10, NatSet
  <2>. QED BY <1>1, <2>1
<1>12. upTo[n] = f[n]
  BY <1>1, <1>11
<1>. QED BY <1>3, <1>4, <1>6, <1>12 DEF n, S

PacketsIn(d) == PacketsAt(d, Ends(d))

\* Data that ends with a frame can be parsed apart from what follows.
LEMMA Apart ==
  ASSUME NEW a \in Seq(Byte), NEW b \in Seq(Byte), Closed(a)
  PROVE  /\ PacketsIn(a) \in Seq(Parsed) /\ PacketsIn(b) \in Seq(Parsed)
         /\ PacketsIn(a \o b) = PacketsIn(a) \o PacketsIn(b)
<1> DEFINE n == Len(a)
           m == Len(b)
           c == a \o b
<1>1. /\ n \in Nat /\ m \in Nat /\ c \in Seq(Byte) /\ Len(c) = n + m
      /\ \A k \in 1 .. n + m : c[k] = IF k <= n THEN a[k] ELSE b[k - n]
  <2>1. n \in Nat /\ m \in Nat
    OBVIOUS
  <2>. QED BY <2>1, Join
<1>2. PICK f \in [0 .. n -> Seq(Parsed)] :
        /\ f[0] = <<>>
        /\ \A i \in 1 .. n : f[i] = With(a, Ends(a), i, f[i - 1])
        /\ PacketsIn(a) = f[n]
  BY PacketSteps DEF PacketsIn
<1>3. PICK g \in [0 .. m -> Seq(Parsed)] :
        /\ g[0] = <<>>
        /\ \A i \in 1 .. m : g[i] = With(b, Ends(b), i, g[i - 1])
        /\ PacketsIn(b) = g[m]
  BY PacketSteps DEF PacketsIn
<1>4. PICK h \in [0 .. n + m -> Seq(Parsed)] :
        /\ h[0] = <<>>
        /\ \A i \in 1 .. n + m : h[i] = With(c, Ends(c), i, h[i - 1])
        /\ PacketsIn(c) = h[n + m]
  <2> HIDE DEF c
  <2>1. \E h \in [0 .. Len(c) -> Seq(Parsed)] :
           /\ h[0] = <<>>
           /\ \A i \in 1 .. Len(c) : h[i] = With(c, Ends(c), i, h[i - 1])
           /\ PacketsIn(c) = h[Len(c)]
    BY <1>1, PacketSteps DEF PacketsIn
  <2>. QED BY <1>1, <2>1
<1>5. \A i \in 1 .. n : FrameAt(c, i) = FrameAt(a, i)
  BY FrameOfFirst, ZenonT(40)
<1>6. \A i \in 1 .. m : FrameAt(c, n + i) = FrameAt(b, i)
  BY FrameOfSecond, ZenonT(40)
<1> HIDE DEF c
<1>7. \A i \in 1 .. n : i \in Ends(c) <=> i \in Ends(a)
  BY <1>1 DEF Ends
<1>8. \A i \in 1 .. m : n + i \in Ends(c) <=> i \in Ends(b)
  <2> TAKE i \in 1 .. m
  <2>1. n + i \in 1 .. n + m /\ ~(n + i <= n) /\ (n + i) - n = i
    BY <1>1
  <2>2. c[n + i] = b[i] /\ n + i \in DOMAIN c /\ i \in DOMAIN b
    BY <1>1, <2>1
  <2>. QED BY <2>2 DEF Ends
<1>9. \A i \in 1 .. n, s \in Seq(Parsed) : With(c, Ends(c), i, s) = With(a, Ends(a), i, s)
  BY <1>5, <1>7 DEF With
<1>10. \A i \in 1 .. m, s \in Seq(Parsed) : With(c, Ends(c), n + i, s) = With(b, Ends(b), i, s)
  BY <1>6, <1>8 DEF With
<1>11. \A i \in 1 .. m, s, t \in Seq(Parsed) : With(b, Ends(b), i, s \o t) = s \o With(b, Ends(b), i, t)
  <2> TAKE i \in 1 .. m, s, t \in Seq(Parsed)
  <2> DEFINE p == PacketOf(decode(FrameAt(b, i)))
  <2>1. p \in Parsed
    BY FrameIs DEF Parsed
  <2>2. CASE i \in Ends(b) /\ isValid(decode(FrameAt(b, i)))
    <3>1. With(b, Ends(b), i, s \o t) = Append(s \o t, p) /\ With(b, Ends(b), i, t) = Append(t, p)
      BY <2>2 DEF With
    <3> HIDE DEF p
    <3>2. Append(s \o t, p) = s \o Append(t, p)
      <4>1. AppendsToBoth(Parsed)
        BY AppendToSecond
      <4>. QED BY ONLY <2>1, <4>1, s \in Seq(Parsed), t \in Seq(Parsed) DEF AppendsToBoth
    <3>. QED BY <3>1, <3>2
  <2>3. CASE ~(i \in Ends(b) /\ isValid(decode(FrameAt(b, i))))
    BY <2>3 DEF With
  <2>. QED BY <2>2, <2>3
<1> HIDE DEF n, m
<1>12. h[n] = f[n]
  <2> DEFINE T == {i \in Nat : i <= n => h[i] = f[i]}
  <2>1. 0 \in T
    BY <1>2, <1>4
  <2>2. ASSUME NEW i \in Nat, i \in T PROVE i + 1 \in T
    <3> SUFFICES ASSUME i + 1 <= n PROVE h[i + 1] = f[i + 1]
      OBVIOUS
    <3>1. /\ i + 1 \in 1 .. n /\ i + 1 \in 1 .. n + m /\ (i + 1) - 1 = i /\ h[i] = f[i]
          /\ i \in 0 .. n
      BY <1>1, <2>2
    <3>2. f[i] \in Seq(Parsed)
      BY <1>2, <3>1
    <3>3. h[i + 1] = With(c, Ends(c), i + 1, f[i]) /\ f[i + 1] = With(a, Ends(a), i + 1, f[i])
      BY <1>2, <1>4, <3>1
    <3>. QED BY <1>9, <3>1, <3>2, <3>3
  <2> HIDE DEF T
  <2>3. Nat \subseteq T
    BY <2>1, <2>2, NatSet
  <2>4. n \in T /\ n <= n
    BY <1>1, <2>3
  <2>. QED BY <2>4 DEF T
<1>13. h[n + m] = f[n] \o g[m]
  <2> DEFINE F == f[n]
  <2>0. F \in Seq(Parsed)
    BY <1>1, <1>2
  <2>f. h[n] = F
    BY <1>12
  <2> HIDE DEF F
  <2> DEFINE T == {i \in Nat : i <= m => h[n + i] = F \o g[i]}
  <2>1. 0 \in T
    <3>1. n + 0 = n /\ F \o <<>> = F
      BY <1>1, <2>0
    <3>. QED BY <1>3, <2>f, <3>1
  <2>2. ASSUME NEW i \in Nat, i \in T PROVE i + 1 \in T
    <3> DEFINE j == i + 1
               l == n + j
               k == n + i
    <3>0. j \in Nat /\ (i <= m => h[k] = F \o g[i])
      BY <2>2
    <3>a. j = i + 1 /\ l = n + j /\ k = n + i
      OBVIOUS
    <3>b. j \in T <=> (j <= m => h[l] = F \o g[j])
      BY <3>0
    <3> HIDE DEF j, l, k, T
    <3>c. SUFFICES ASSUME j <= m PROVE h[l] = F \o g[j]
      BY <3>a, <3>b
    <3>d. /\ j \in 1 .. m /\ l \in 1 .. n + m /\ j - 1 = i
          /\ l - 1 = k /\ i \in 0 .. m /\ i <= m
      BY <1>1, <3>0, <3>a, <3>c
    <3>1. h[k] = F \o g[i]
      BY <3>0, <3>d
    <3>2. g[i] \in Seq(Parsed)
      BY <1>3, <3>d
    <3>2a. F \o g[i] \in Seq(Parsed)
      BY <2>0, <3>2
    <3>3. h[l] = With(c, Ends(c), l, F \o g[i])
      BY <1>4, <3>1, <3>d
    <3>4. With(c, Ends(c), l, F \o g[i]) = With(b, Ends(b), j, F \o g[i])
      <4>1. With(c, Ends(c), n + j, F \o g[i]) = With(b, Ends(b), j, F \o g[i])
        BY ONLY <1>10, <3>d, <3>2a
      <4>. QED BY <3>a, <4>1
    <3>5. With(b, Ends(b), j, F \o g[i]) = F \o With(b, Ends(b), j, g[i])
      BY ONLY <1>11, <2>0, <3>d, <3>2
    <3>6. With(b, Ends(b), j, g[i]) = g[j]
      BY <1>3, <3>d
    <3>. QED BY <3>3, <3>4, <3>5, <3>6
  <2> HIDE DEF T
  <2>3. Nat \subseteq T
    BY <2>1, <2>2, NatSet
  <2>4. m \in T /\ m <= m
    BY <1>1, <2>3
  <2>. QED BY <2>4 DEF T, F
<1>14. f[n] \in Seq(Parsed) /\ g[m] \in Seq(Parsed)
  BY <1>1, <1>2, <1>3
<1>. QED BY <1>2, <1>3, <1>4, <1>13, <1>14 DEF c

\* Without a SLIP_END there is no packet.
LEMMA NoPackets ==
  ASSUME NEW d \in Seq(Byte), Ends(d) = {}
  PROVE  PacketsIn(d) = <<>>
<1> DEFINE n == Len(d)
<1>1. n \in Nat
  OBVIOUS
<1>2. PICK f \in [0 .. n -> Seq(Parsed)] :
        /\ f[0] = <<>>
        /\ \A i \in 1 .. n : f[i] = With(d, Ends(d), i, f[i - 1])
        /\ PacketsIn(d) = f[n]
  BY PacketSteps DEF PacketsIn
<1>3. \A i \in 1 .. n : f[i] = f[i - 1]
  BY <1>2 DEF With
<1> HIDE DEF n
<1> DEFINE T == {i \in Nat : i <= n => f[i] = <<>>}
<1>4. 0 \in T
  BY <1>2
<1>5. ASSUME NEW i \in Nat, i \in T PROVE i + 1 \in T
  <2> SUFFICES ASSUME i + 1 <= n PROVE f[i + 1] = <<>>
    OBVIOUS
  <2>1. i + 1 \in 1 .. n /\ (i + 1) - 1 = i /\ f[i] = <<>>
    BY <1>1, <1>5
  <2>. QED BY <1>3, <2>1
<1> HIDE DEF T
<1>6. Nat \subseteq T
  BY <1>4, <1>5, NatSet
<1>7. n \in T /\ n <= n
  BY <1>1, <1>6
<1>. QED BY <1>2, <1>7 DEF T

-----------------------------------------------------------------------------
(* Parts of sequences.                                                     *)

\* A sequence is part of itself.
LEMMA PartOfItself ==
  ASSUME NEW S, NEW s \in Seq(S)
  PROVE  IsPartOf(s, s)
<1> DEFINE place == [i \in DOMAIN s |-> i]
<1>1. place \in [DOMAIN s -> DOMAIN s]
  OBVIOUS
<1>2. \A i \in DOMAIN s : place[i] = i
  OBVIOUS
<1> HIDE DEF place
<1>. QED BY <1>1, <1>2 DEF IsPartOf

\* A part of a sequence is part of a longer one.
LEMMA PartOfLonger ==
  ASSUME NEW S, NEW s \in Seq(S), NEW t \in Seq(S), NEW u \in Seq(S), IsPartOf(s, t)
  PROVE  IsPartOf(s, t \o u)
<1> DEFINE c == t \o u
<1>1. /\ Len(t) \in Nat /\ Len(u) \in Nat /\ c \in Seq(S) /\ Len(c) = Len(t) + Len(u)
      /\ \A k \in 1 .. Len(t) : c[k] = t[k]
  <2>1. Len(t) \in Nat /\ Len(u) \in Nat
    OBVIOUS
  <2>. QED BY <2>1, Join
<1> HIDE DEF c
<1>2. \A k \in DOMAIN t : k \in DOMAIN c /\ c[k] = t[k]
  BY <1>1
<1>3. PICK place \in [DOMAIN s -> DOMAIN t] :
        /\ \A i, j \in DOMAIN s : i < j => place[i] < place[j]
        /\ \A i \in DOMAIN s : s[i] = t[place[i]]
  BY DEF IsPartOf
<1>4. place \in [DOMAIN s -> DOMAIN c]
  BY <1>2, <1>3
<1>5. \A i \in DOMAIN s : s[i] = c[place[i]]
  BY <1>2, <1>3
<1>6. IsPartOf(s, c)
  BY <1>3, <1>4, <1>5 DEF IsPartOf
<1>. QED BY <1>6 DEF c

\* It stays one when both go on with the same.
LEMMA PartOfBoth ==
  ASSUME NEW S, NEW s \in Seq(S), NEW t \in Seq(S), NEW u \in Seq(S), IsPartOf(s, t)
  PROVE  IsPartOf(s \o u, t \o u)
<1> DEFINE c == s \o u
           d == t \o u
           n == Len(s)
           m == Len(t)
           l == Len(u)
<1>0. n \in Nat /\ m \in Nat /\ l \in Nat
  OBVIOUS
<1>1. /\ c \in Seq(S) /\ Len(c) = n + l
      /\ \A k \in 1 .. n + l : c[k] = IF k <= n THEN s[k] ELSE u[k - n]
  BY Join
<1>2. /\ d \in Seq(S) /\ Len(d) = m + l
      /\ \A k \in 1 .. m + l : d[k] = IF k <= m THEN t[k] ELSE u[k - m]
  BY Join
<1>3. DOMAIN s = 1 .. n /\ DOMAIN t = 1 .. m
  OBVIOUS
<1> HIDE DEF c, d, n, m, l
<1>4. DOMAIN c = 1 .. n + l /\ DOMAIN d = 1 .. m + l
  BY <1>1, <1>2
<1>5. PICK place \in [1 .. n -> 1 .. m] :
        /\ \A i, j \in 1 .. n : i < j => place[i] < place[j]
        /\ \A i \in 1 .. n : s[i] = t[place[i]]
  BY <1>3 DEF IsPartOf
<1> DEFINE where == [i \in 1 .. n + l |-> IF i <= n THEN place[i] ELSE m + (i - n)]
<1>6. \A i \in 1 .. n + l : where[i] = IF i <= n THEN place[i] ELSE m + (i - n)
  OBVIOUS
<1>7. where \in [1 .. n + l -> 1 .. m + l]
  BY <1>0, <1>5
<1> HIDE DEF where
<1>8. ASSUME NEW i \in 1 .. n + l, NEW j \in 1 .. n + l, i < j PROVE where[i] < where[j]
  <2>1. CASE j <= n
    <3>1. i \in 1 .. n /\ j \in 1 .. n /\ where[i] = place[i] /\ where[j] = place[j]
      BY <1>0, <1>6, <1>8, <2>1
    <3>. QED BY <1>5, <1>8, <3>1
  <2>2. CASE i <= n /\ ~(j <= n)
    <3>1. i \in 1 .. n /\ where[i] = place[i] /\ where[j] = m + (j - n) /\ j - n > 0
      BY <1>0, <1>6, <2>2
    <3>2. place[i] \in 1 .. m
      BY <1>5, <3>1
    <3>. QED BY <1>0, <3>1, <3>2
  <2>3. CASE ~(i <= n)
    <3>1. ~(j <= n) /\ where[i] = m + (i - n) /\ where[j] = m + (j - n)
      BY <1>0, <1>6, <1>8, <2>3
    <3>. QED BY <1>0, <1>8, <3>1
  <2>. QED BY <2>1, <2>2, <2>3
<1>9. ASSUME NEW i \in 1 .. n + l PROVE c[i] = d[where[i]]
  <2>1. CASE i <= n
    <3>1. i \in 1 .. n /\ where[i] = place[i] /\ c[i] = s[i]
      BY <1>0, <1>1, <1>6, <2>1
    <3>2. place[i] \in 1 .. m /\ s[i] = t[place[i]]
      BY <1>5, <3>1
    <3>3. d[place[i]] = t[place[i]]
      BY <1>0, <1>2, <3>2
    <3>. QED BY <3>1, <3>2, <3>3
  <2>2. CASE ~(i <= n)
    <3> DEFINE k == m + (i - n)
    <3>1. k \in 1 .. m + l /\ ~(k <= m) /\ k - m = i - n /\ where[i] = k /\ c[i] = u[i - n]
      BY <1>0, <1>1, <1>6, <2>2
    <3> HIDE DEF k
    <3>. QED BY <1>2, <3>1
  <2>. QED BY <2>1, <2>2
<1>10. IsPartOf(c, d)
  BY <1>4, <1>7, <1>8, <1>9 DEF IsPartOf
<1>. QED BY <1>10 DEF c, d

\* Some data, and what follows the byte at k.
LEMMA Halves ==
  ASSUME NEW d \in Seq(Byte), NEW k \in 0 .. Len(d)
  PROVE  /\ SubSeq(d, 1, k) \in Seq(Byte) /\ SubSeq(d, k + 1, Len(d)) \in Seq(Byte)
         /\ d = SubSeq(d, 1, k) \o SubSeq(d, k + 1, Len(d))
         /\ Len(SubSeq(d, 1, k)) = k
         /\ \A i \in 1 .. k : SubSeq(d, 1, k)[i] = d[i]
         /\ Len(SubSeq(d, k + 1, Len(d))) = Len(d) - k
         /\ \A i \in 1 .. Len(d) - k : SubSeq(d, k + 1, Len(d))[i] = d[k + i]
<1> DEFINE n == Len(d)
           a == SubSeq(d, 1, k)
           j == k + 1
           b == SubSeq(d, j, n)
           c == a \o b
<1>1. n \in Nat /\ k \in Int /\ 0 <= k /\ k <= n /\ j = k + 1 /\ n = Len(d)
  OBVIOUS
<1>2. a = SubSeq(d, 1, k) /\ b = SubSeq(d, j, n) /\ c = a \o b
  OBVIOUS
<1> HIDE DEF n, a, j, b, c
<1>3. 1 \in Int /\ 1 <= 1 /\ 1 - 1 <= k /\ j \in Int /\ n \in Int /\ 1 <= j /\ j - 1 <= n /\ n <= Len(d) /\ k <= Len(d)
  BY <1>1
<1>4. /\ a \in Seq(Byte) /\ Len(a) = (k - 1) + 1
      /\ \A m \in 1 .. (k - 1) + 1 : a[m] = d[(1 - 1) + m]
  BY ONLY <1>1, <1>2, <1>3, Piece, d \in Seq(Byte)
<1>5. /\ b \in Seq(Byte) /\ Len(b) = (n - j) + 1
      /\ \A m \in 1 .. (n - j) + 1 : b[m] = d[(j - 1) + m]
  BY ONLY <1>1, <1>2, <1>3, Piece, d \in Seq(Byte)
<1>6. Len(a) = k /\ \A m \in 1 .. k : a[m] = d[m]
  BY <1>1, <1>4
<1>7. Len(b) = n - k /\ \A m \in 1 .. n - k : b[m] = d[k + m]
  <2>1. (n - j) + 1 = n - k /\ j - 1 = k
    BY <1>1
  <2>. QED BY ONLY <1>5, <2>1
<1>8. /\ c \in Seq(Byte) /\ Len(c) = Len(a) + Len(b)
      /\ \A m \in 1 .. Len(a) + Len(b) : c[m] = IF m <= Len(a) THEN a[m] ELSE b[m - Len(a)]
  BY <1>2, <1>4, <1>5, Join
<1>9. Len(a) + Len(b) = n
  BY <1>1, <1>6, <1>7
<1>10. \A m \in 1 .. n : c[m] = d[m]
  <2> TAKE m \in 1 .. n
  <2>1. CASE m <= k
    BY <1>1, <1>6, <1>8, <1>9, <2>1
  <2>2. CASE ~(m <= k)
    <3> DEFINE i == m - k
    <3>1. i \in 1 .. n - k /\ k + i = m
      BY <1>1, <2>2
    <3>2. c[m] = b[i]
      BY <1>6, <1>8, <1>9, <2>2
    <3> HIDE DEF i
    <3>. QED BY <1>7, <3>1, <3>2
  <2>. QED BY <2>1, <2>2
<1>11. c = d
  BY <1>1, <1>8, <1>9, <1>10, SeqEqual
<1>. QED BY <1>2, <1>4, <1>5, <1>6, <1>7, <1>11 DEF n, j

\* The parser takes the data up to its last SLIP_END.
LEMMA UpToLast ==
  ASSUME NEW d \in Seq(Byte)
  PROVE  LET head == SubSeq(d, 1, LastEnd(d))
         IN  /\ head \in Seq(Byte) /\ Rest(d) \in Seq(Byte) /\ d = head \o Rest(d)
             /\ Closed(head) /\ Ends(Rest(d)) = {}
<1> DEFINE e == LastEnd(d)
           head == SubSeq(d, 1, e)
           rest == Rest(d)
<1>1. /\ e \in 0 .. Len(d)
      /\ e > 0 => d[e] = SLIP_END
      /\ \A j \in 1 .. Len(d) : j > e => d[j] # SLIP_END
  BY LastEndIs
<1>2. rest = SubSeq(d, e + 1, Len(d))
  BY DEF Rest
<1> HIDE DEF rest
<1>3. /\ head \in Seq(Byte) /\ rest \in Seq(Byte) /\ d = head \o rest
      /\ Len(head) = e
      /\ \A i \in 1 .. e : head[i] = d[i]
      /\ Len(rest) = Len(d) - e
      /\ \A i \in 1 .. Len(d) - e : rest[i] = d[e + i]
  <2> HIDE DEF e
  <2>. QED BY <1>1, <1>2, Halves
<1> HIDE DEF head, e
<1>4. Len(d) \in Nat
  OBVIOUS
<1>5. Closed(head)
  BY <1>1, <1>3 DEF Closed
<1>6. ASSUME NEW i \in Ends(rest) PROVE FALSE
  <2>1. i \in 1 .. Len(d) - e /\ rest[i] = SLIP_END
    BY <1>3, <1>6 DEF Ends
  <2>2. e + i \in 1 .. Len(d) /\ e + i > e
    BY <1>1, <1>4, <2>1
  <2>. QED BY <1>1, <1>3, <2>1, <2>2
<1>. QED BY <1>3, <1>5, <1>6 DEF head, e, rest

-----------------------------------------------------------------------------
(* The parser.                                                             *)

ParserTyped ==
  /\ stream \in Seq(Byte) /\ buffer \in Seq(Byte) /\ received \in Seq(Byte)
  /\ returned \in Seq(Parsed)

\* pre is what has left the buffer: it ends with a frame.
PartedAs(pre, all, left, ret, bad) ==
  /\ pre \in Seq(Byte) /\ Closed(pre) /\ all = pre \o left
  /\ IsPartOf(ret, PacketsIn(pre))
  /\ ~bad => ret = PacketsIn(pre) /\ Ends(left) = {}

Parted(pre) == PartedAs(pre, received, buffer, returned, threw)

ParserInv == ParserTyped /\ \E pre : Parted(pre)

\* What a call of Parse takes out of the data.
LEMMA Taken ==
  ASSUME ParserTyped, NEW pre, Parted(pre), NEW piece \in Seq(Byte),
         received' = received \o piece, NEW head \in Seq(Byte), buffer' \in Seq(Byte),
         buffer \o piece = head \o buffer', Closed(head)
  PROVE  LET p == pre \o head
         IN  /\ received' \in Seq(Byte) /\ p \in Seq(Byte) /\ Closed(p)
             /\ received' = p \o buffer'
             /\ PacketsIn(pre) \in Seq(Parsed) /\ PacketsIn(head) \in Seq(Parsed)
             /\ PacketsIn(p) = PacketsIn(pre) \o PacketsIn(head)
<1> DEFINE p == pre \o head
           rest == buffer'
<1>1. pre \in Seq(Byte) /\ Closed(pre) /\ received = pre \o buffer /\ buffer \in Seq(Byte) /\ received \in Seq(Byte)
  BY DEF ParserTyped, Parted, PartedAs
<1>2. rest \in Seq(Byte) /\ buffer \o piece = head \o rest
  OBVIOUS
<1>r. rest = buffer'
  OBVIOUS
<1> HIDE DEF rest
<1>1a. pre \in Seq(Byte)
  BY <1>1
<1>1b. buffer \in Seq(Byte)
  BY <1>1
<1>2a. rest \in Seq(Byte)
  BY <1>2
<1>3. (pre \o buffer) \o piece = pre \o (buffer \o piece)
  BY ONLY <1>1a, <1>1b, piece \in Seq(Byte), ConcatAssociative
<1>4. (pre \o head) \o rest = pre \o (head \o rest)
  BY ONLY <1>1a, <1>2a, head \in Seq(Byte), ConcatAssociative
<1>5. received' = p \o rest
  BY <1>1, <1>2, <1>3, <1>4
<1>6. received' \in Seq(Byte) /\ p \in Seq(Byte)
  BY <1>1
<1>7. Closed(p)
  <2>1. CASE head = <<>>
    BY <1>1, <2>1
  <2>2. CASE head # <<>>
    <3> DEFINE n == Len(pre)
               m == Len(head)
    <3>1. n \in Nat /\ m \in Nat /\ m > 0 /\ head[m] = SLIP_END
      BY <1>1, <2>2 DEF Closed
    <3>2. Len(p) = n + m /\ \A k \in 1 .. n + m : p[k] = IF k <= n THEN pre[k] ELSE head[k - n]
      BY <1>1, Join
    <3> HIDE DEF n, m, p
    <3>3. n + m \in 1 .. n + m /\ ~(n + m <= n) /\ (n + m) - n = m
      BY <3>1
    <3>. QED BY <3>1, <3>2, <3>3 DEF Closed
  <2>. QED BY <2>1, <2>2
<1>8. /\ PacketsIn(pre) \in Seq(Parsed) /\ PacketsIn(head) \in Seq(Parsed)
      /\ PacketsIn(p) = PacketsIn(pre) \o PacketsIn(head)
  BY <1>1, Apart
<1>. QED BY <1>5, <1>6, <1>7, <1>8, <1>r

\* A call of Parse keeps the invariant.
LEMMA ParseStep ==
  ASSUME ParserInv, NEW piece \in Seq(Byte), Parse(piece), received' = received \o piece,
         stream' \in Seq(Byte)
  PROVE  ParserInv'
<1> DEFINE data == buffer \o piece
           rest == buffer'
<1>1. PICK pre : Parted(pre)
  BY DEF ParserInv
<1>2. ParserTyped /\ returned \in Seq(Parsed) /\ buffer \in Seq(Byte)
  BY DEF ParserInv, ParserTyped
<1>3. data \in Seq(Byte)
  BY <1>2
<1> DEFINE bad == {k \in Ends(data) : Throws(FrameAt(data, k))}
<1>4. CASE /\ bad = {}
           /\ returned' = returned \o PacketsAt(data, Ends(data))
           /\ buffer' = Rest(data)
           /\ threw' = threw
  <2> DEFINE head == SubSeq(data, 1, LastEnd(data))
             p == pre \o head
  <2>1. head \in Seq(Byte) /\ rest \in Seq(Byte) /\ data = head \o rest /\ Closed(head) /\ Ends(rest) = {}
    <3> HIDE DEF data
    <3>. QED BY <1>3, <1>4, UpToLast
  <2>2. PacketsIn(rest) = <<>> /\ PacketsIn(data) = PacketsIn(head) \o PacketsIn(rest)
    <3> HIDE DEF head, data, rest
    <3>. QED BY <2>1, Apart, NoPackets
  <2> HIDE DEF head
  <2>3. /\ received' \in Seq(Byte) /\ p \in Seq(Byte) /\ Closed(p)
        /\ received' = p \o rest
        /\ PacketsIn(pre) \in Seq(Parsed) /\ PacketsIn(head) \in Seq(Parsed)
        /\ PacketsIn(p) = PacketsIn(pre) \o PacketsIn(head)
    BY <1>1, <1>2, <2>1, Taken
  <2>4. PacketsIn(data) = PacketsIn(head)
    <3> DEFINE q == PacketsIn(head)
    <3>1. q \in Seq(Parsed) /\ PacketsIn(data) = q \o <<>>
      BY <2>2, <2>3
    <3> HIDE DEF q
    <3>2. q \o <<>> = q
      BY <3>1
    <3>. QED BY <3>1, <3>2 DEF q
  <2>5. returned' = returned \o PacketsIn(head)
    BY <1>4, <2>4 DEF PacketsIn
  <2> HIDE DEF data, rest, bad, p
  <2>6. returned' \in Seq(Parsed)
    BY <1>2, <2>3, <2>5
  <2>7. IsPartOf(returned', PacketsIn(p))
    BY <1>1, <1>2, <2>3, <2>5, PartOfBoth DEF Parted, PartedAs
  <2>8. ~threw' => returned' = PacketsIn(p)
    BY <1>1, <1>4, <2>3, <2>5 DEF Parted, PartedAs
  <2>9. PartedAs(p, received', buffer', returned', threw')
    BY <2>1, <2>3, <2>7, <2>8, <1>4 DEF PartedAs, rest
  <2>. QED BY <2>1, <2>3, <2>6, <2>9 DEF ParserInv, ParserTyped, Parted, rest
<1>5. ASSUME NEW k \in bad, returned' = returned, buffer' = SubSeq(data, k + 1, Len(data)), threw' = TRUE
      PROVE  ParserInv'
  <2> DEFINE head == SubSeq(data, 1, k)
             p == pre \o head
  <2>0. k \in 1 .. Len(data) /\ data[k] = SLIP_END
    BY <1>3 DEF Ends
  <2>1. head \in Seq(Byte) /\ rest \in Seq(Byte) /\ data = head \o rest /\ Closed(head)
    <3> HIDE DEF data
    <3>1. k \in 0 .. Len(data) /\ k \in 1 .. k /\ k \in Nat
      BY <1>3, <2>0
    <3>2. head[k] = SLIP_END /\ Len(head) = k
      BY <1>3, <2>0, <3>1, Halves
    <3>. QED BY <1>3, <1>5, <3>1, <3>2, Halves DEF Closed
  <2> HIDE DEF head
  <2>3. /\ received' \in Seq(Byte) /\ p \in Seq(Byte) /\ Closed(p)
        /\ received' = p \o rest
        /\ PacketsIn(pre) \in Seq(Parsed) /\ PacketsIn(head) \in Seq(Parsed)
        /\ PacketsIn(p) = PacketsIn(pre) \o PacketsIn(head)
    BY <1>1, <1>2, <2>1, Taken
  <2> HIDE DEF data, rest, bad, p
  <2>7. IsPartOf(returned', PacketsIn(p))
    BY <1>1, <1>2, <1>5, <2>3, PartOfLonger DEF Parted, PartedAs
  <2>9. PartedAs(p, received', buffer', returned', threw')
    BY <1>5, <2>1, <2>3, <2>7 DEF PartedAs, rest
  <2>. QED BY <1>2, <1>5, <2>1, <2>3, <2>9 DEF ParserInv, ParserTyped, Parted, rest
<1>. QED BY <1>4, <1>5 DEF Parse

LEMMA ReadStep == ASSUME ParserInv, Read PROVE ParserInv'
<1>1. PICK n \in 1 .. Len(stream) :
        /\ Parse(SubSeq(stream, 1, n))
        /\ stream' = SubSeq(stream, n + 1, Len(stream))
        /\ received' = received \o SubSeq(stream, 1, n)
  BY DEF Read
<1>2. stream \in Seq(Byte) /\ n \in 0 .. Len(stream)
  BY DEF ParserInv, ParserTyped
<1>3. SubSeq(stream, 1, n) \in Seq(Byte) /\ SubSeq(stream, n + 1, Len(stream)) \in Seq(Byte)
  BY <1>2, Halves
<1>. QED BY <1>1, <1>3, ParseStep

LEMMA OtherSteps ==
  ASSUME ParserInv, CarSends \/ Break \/ UNCHANGED parserVars
  PROVE  ParserInv'
<1>1. stream' \in Seq(Byte)
  <2>0. stream \in Seq(Byte) /\ <<>> \in Seq(Byte)
    BY DEF ParserInv, ParserTyped
  <2>1. CASE CarSends
    <3>1. PICK item \in Items : stream' = stream \o item
      BY <2>1 DEF CarSends
    <3>2. item \in Seq(Byte)
      BY ParserAssumption DEF Byte
    <3>. QED BY <2>0, <3>1, <3>2
  <2>2. CASE Break
    BY <2>0, <2>2 DEF Break
  <2>3. CASE UNCHANGED parserVars
    BY <2>0, <2>3 DEF parserVars
  <2>. QED BY <2>1, <2>2, <2>3
<1>2. UNCHANGED <<buffer, returned, received, threw>>
  BY DEF CarSends, Break, parserVars
<1>3. PICK pre : Parted(pre)
  BY DEF ParserInv
<1>4. Parted(pre)'
  BY <1>2, <1>3 DEF Parted, PartedAs
<1>. QED BY <1>1, <1>2, <1>4 DEF ParserInv, ParserTyped

THEOREM ParserInvariance == ParserSpec => []ParserInv
<1>1. InitParser => ParserInv
  <2> SUFFICES ASSUME InitParser PROVE ParserInv
    OBVIOUS
  <2> DEFINE none == <<>>
  <2>1. none \in Seq(Byte) /\ none \in Seq(Parsed) /\ Ends(none) = {} /\ Closed(none) /\ none \o none = none
    BY DEF Ends, Closed
  <2>2. PacketsIn(none) = none
    BY <2>1, NoPackets
  <2>3. IsPartOf(none, none)
    BY <2>1, PartOfItself
  <2>4. stream = none /\ buffer = none /\ returned = none /\ received = none
    BY DEF InitParser
  <2> HIDE DEF none
  <2>5. Parted(none)
    BY <2>1, <2>2, <2>3, <2>4 DEF Parted, PartedAs
  <2>. QED BY <2>1, <2>4, <2>5 DEF ParserInv, ParserTyped
<1>2. ParserInv /\ [ParserNext]_parserVars => ParserInv'
  BY ReadStep, OtherSteps DEF ParserNext
<1>. QED BY <1>1, <1>2, PTL DEF ParserSpec

\* What has been received is parsed like what has left the buffer.
LEMMA Whole ==
  ASSUME ParserTyped, NEW pre, Parted(pre)
  PROVE  /\ PacketsIn(pre) \in Seq(Parsed) /\ PacketsIn(buffer) \in Seq(Parsed)
         /\ PacketsIn(received) = PacketsIn(pre) \o PacketsIn(buffer)
BY Apart DEF ParserTyped, Parted, PartedAs

THEOREM Uncut == ParserSpec => []PiecesDoNotMatter
<1>1. ParserInv => PiecesDoNotMatter
  <2> SUFFICES ASSUME ParserInv, ~threw PROVE returned = PacketsIn(received)
    BY DEF PiecesDoNotMatter, PacketsIn
  <2>1. PICK pre : Parted(pre)
    BY DEF ParserInv
  <2>2. returned = PacketsIn(pre) /\ Ends(buffer) = {} /\ buffer \in Seq(Byte) /\ ParserTyped
    BY <2>1 DEF Parted, PartedAs, ParserInv, ParserTyped
  <2>3. PacketsIn(buffer) = <<>>
    BY <2>2, NoPackets
  <2>4. returned \in Seq(Parsed) /\ PacketsIn(received) = returned \o <<>>
    BY <2>1, <2>2, <2>3, Whole
  <2>5. returned \o <<>> = returned
    BY <2>4
  <2>. QED BY <2>4, <2>5
<1>. QED BY <1>1, ParserInvariance, PTL

THEOREM Once == ParserSpec => []ReturnedOnce
<1>1. ParserInv => ReturnedOnce
  <2> SUFFICES ASSUME ParserInv PROVE IsPartOf(returned, PacketsIn(received))
    BY DEF ReturnedOnce, PacketsIn
  <2>1. PICK pre : Parted(pre)
    BY DEF ParserInv
  <2>2. returned \in Seq(Parsed) /\ IsPartOf(returned, PacketsIn(pre)) /\ ParserTyped
    BY <2>1 DEF Parted, PartedAs, ParserInv, ParserTyped
  <2>. QED BY <2>1, <2>2, Whole, PartOfLonger
<1>. QED BY <1>1, ParserInvariance, PTL

-----------------------------------------------------------------------------
(* What is picked from a sequence.                                          *)

\* What is picked, place by place.
PickedUpTo(s, places, f, S) ==
  /\ f \in [0 .. Len(s) -> Seq(S)]
  /\ f[0] = <<>>
  /\ \A i \in 1 .. Len(s) : f[i] = IF i \in places THEN Append(f[i - 1], s[i]) ELSE f[i - 1]

LEMMA PickedSteps ==
  ASSUME NEW S, NEW s \in Seq(S), NEW places
  PROVE  \E f : PickedUpTo(s, places, f, S) /\ Picked(s, places) = f[Len(s)]
<1> DEFINE n == Len(s)
           SS == Seq(S)
           Next1(i, t) == IF i \in places THEN Append(t, s[i]) ELSE t
           G == [p \in (1 .. n) \X SS |-> Next1(p[1], p[2])]
<1>1. n \in Nat /\ <<>> \in SS /\ \A i \in 1 .. n : s[i] \in S
  OBVIOUS
<1>w. \A i \in 1 .. n, t \in SS : Next1(i, t) \in SS
  BY <1>1
<1> HIDE DEF SS, Next1
<1>2. G \in [(1 .. n) \X SS -> SS]
  BY <1>w
<1>3. PICK f \in [0 .. n -> SS] : f[0] = <<>> /\ \A i \in 1 .. n : f[i] = G[<<i, f[i - 1]>>]
  <2> HIDE DEF n, G
  <2>1. \E f : IsRecursive(f, SS, <<>>, n, G)
    BY <1>1, <1>2, Recursion
  <2>. QED BY <2>1 DEF IsRecursive
<1>4. \A i \in 1 .. n : f[i] = Next1(i, f[i - 1])
  <2> TAKE i \in 1 .. n
  <2>1. f[i - 1] \in SS
    BY <1>1, <1>3
  <2>. QED BY <1>3, <2>1
<1>5. f = [i \in 0 .. n |-> IF i = 0 THEN <<>> ELSE Next1(i, f[i - 1])]
  BY <1>1, <1>3, <1>4
<1> DEFINE upTo == CHOOSE g : g = [i \in 0 .. n |-> IF i = 0 THEN <<>> ELSE Next1(i, g[i - 1])]
<1>6. Picked(s, places) = upTo[n]
  BY DEF Picked, Next1
<1>7. upTo = [i \in 0 .. n |-> IF i = 0 THEN <<>> ELSE Next1(i, upTo[i - 1])]
  BY <1>5
<1> HIDE DEF upTo, n
<1>8. upTo[0] = <<>> /\ \A i \in 1 .. n : upTo[i] = Next1(i, upTo[i - 1])
  BY <1>1, <1>7
<1> DEFINE T == {i \in Nat : i <= n => upTo[i] = f[i]}
<1>9. 0 \in T
  BY <1>3, <1>8
<1>10. ASSUME NEW i \in Nat, i \in T PROVE i + 1 \in T
  <2> SUFFICES ASSUME i + 1 <= n PROVE upTo[i + 1] = f[i + 1]
    OBVIOUS
  <2>1. i + 1 \in 1 .. n /\ (i + 1) - 1 = i /\ upTo[i] = f[i]
    BY <1>1, <1>10
  <2>. QED BY <1>4, <1>8, <2>1
<1>11. n \in T
  <2> HIDE DEF T
  <2>1. Nat \subseteq T
    BY <1>9, <1>10, NatSet
  <2>. QED BY <1>1, <2>1
<1>12. upTo[n] = f[n]
  BY <1>1, <1>11
<1>13. PickedUpTo(s, places, f, S)
  BY <1>3, <1>4 DEF PickedUpTo, n, SS, Next1
<1>. QED BY <1>6, <1>12, <1>13 DEF n

\* The same places of the same elements give the same.
LEMMA PickedAgree ==
  ASSUME NEW S, NEW s \in Seq(S), NEW t \in Seq(S), NEW a, NEW b, NEW f, NEW g,
         PickedUpTo(s, a, f, S), PickedUpTo(t, b, g, S),
         NEW m \in Nat, m <= Len(s), m <= Len(t),
         \A k \in 1 .. m : s[k] = t[k] /\ (k \in a <=> k \in b)
  PROVE  f[m] = g[m]
<1> DEFINE n == Len(s)
           l == Len(t)
<1>1. n \in Nat /\ l \in Nat /\ m <= n /\ m <= l
  OBVIOUS
<1>2. /\ f[0] = <<>> /\ g[0] = <<>>
      /\ \A i \in 1 .. n : f[i] = IF i \in a THEN Append(f[i - 1], s[i]) ELSE f[i - 1]
      /\ \A i \in 1 .. l : g[i] = IF i \in b THEN Append(g[i - 1], t[i]) ELSE g[i - 1]
  BY DEF PickedUpTo
<1> HIDE DEF n, l
<1> DEFINE T == {i \in Nat : i <= m => f[i] = g[i]}
<1>3. 0 \in T
  BY <1>2
<1>4. ASSUME NEW i \in Nat, i \in T PROVE i + 1 \in T
  <2> SUFFICES ASSUME i + 1 <= m PROVE f[i + 1] = g[i + 1]
    OBVIOUS
  <2> DEFINE j == i + 1
  <2>1. j \in 1 .. m /\ j \in 1 .. n /\ j \in 1 .. l /\ j - 1 = i /\ f[i] = g[i]
    BY <1>1, <1>4
  <2> HIDE DEF j
  <2>2. f[j] = IF j \in a THEN Append(f[i], s[j]) ELSE f[i]
    BY <1>2, <2>1
  <2>3. g[j] = IF j \in b THEN Append(g[i], t[j]) ELSE g[i]
    BY <1>2, <2>1
  <2>4. s[j] = t[j] /\ (j \in a <=> j \in b)
    BY <2>1
  <2>5. f[j] = g[j]
    BY <2>1, <2>2, <2>3, <2>4
  <2>. QED BY <2>5 DEF j
<1> HIDE DEF T
<1>5. Nat \subseteq T
  BY <1>3, <1>4, NatSet
<1>6. m \in T /\ m <= m
  BY <1>5
<1>. QED BY <1>6 DEF T

LEMMA PickedSame ==
  ASSUME NEW S, NEW s \in Seq(S), NEW a, NEW b, \A k \in DOMAIN s : k \in a <=> k \in b
  PROVE  Picked(s, a) = Picked(s, b)
<1>1. PICK f : PickedUpTo(s, a, f, S) /\ Picked(s, a) = f[Len(s)]
  BY PickedSteps
<1>2. PICK g : PickedUpTo(s, b, g, S) /\ Picked(s, b) = g[Len(s)]
  BY PickedSteps
<1>3. Len(s) \in Nat /\ Len(s) <= Len(s) /\ \A k \in 1 .. Len(s) : s[k] = s[k] /\ (k \in a <=> k \in b)
  OBVIOUS
<1>4. f[Len(s)] = g[Len(s)]
  BY <1>1, <1>2, <1>3, PickedAgree
<1>. QED BY <1>1, <1>2, <1>4

\* Nothing more is picked when nothing of what is new is.
LEMMA PickedOther ==
  ASSUME NEW S, NEW s \in Seq(S), NEW e \in S, NEW a, NEW b,
         \A k \in DOMAIN s : k \in a <=> k \in b, Len(s) + 1 \notin b
  PROVE  Picked(Append(s, e), b) = Picked(s, a)
<1> DEFINE t == Append(s, e)
           n == Len(s)
           l == n + 1
<1>0. /\ n \in Nat /\ t \in Seq(S) /\ Len(t) = l /\ l = n + 1 /\ l \in 1 .. l /\ l - 1 = n
      /\ n <= Len(s) /\ n <= Len(t)
      /\ \A k \in 1 .. n : s[k] = t[k] /\ (k \in a <=> k \in b)
  OBVIOUS
<1>b. l \notin b /\ Len(s) = n
  OBVIOUS
<1> HIDE DEF t, n, l
<1>1. PICK f : PickedUpTo(s, a, f, S) /\ Picked(s, a) = f[n]
  BY <1>b, PickedSteps
<1>2. PICK g : PickedUpTo(t, b, g, S) /\ Picked(t, b) = g[l]
  <2>1. t \in Seq(S)
    BY <1>0
  <2>2. Len(t) = l
    BY <1>0
  <2>3. \E g : PickedUpTo(t, b, g, S) /\ Picked(t, b) = g[Len(t)]
    BY ONLY <2>1, PickedSteps
  <2>. QED BY <2>2, <2>3
<1>3. f[n] = g[n]
  BY <1>0, <1>1, <1>2, PickedAgree
<1>4. g[l] = g[n]
  BY <1>0, <1>b, <1>2 DEF PickedUpTo
<1>. QED BY <1>1, <1>2, <1>3, <1>4 DEF t

\* The last element is picked at last.
LEMMA PickedLast ==
  ASSUME NEW S, NEW s \in Seq(S), s # <<>>, NEW a, NEW b,
         \A k \in 1 .. Len(s) - 1 : k \in a <=> k \in b, Len(s) \notin a, Len(s) \in b
  PROVE  /\ Picked(s, a) \in Seq(S)
         /\ Picked(s, b) = Append(Picked(s, a), s[Len(s)])
<1> DEFINE n == Len(s)
           l == n - 1
<1>0. /\ n \in Nat /\ l \in Nat /\ l = n - 1 /\ n \in 1 .. n /\ l <= Len(s) /\ l \in 0 .. n /\ n \in 0 .. n
      /\ \A k \in 1 .. l : s[k] = s[k] /\ (k \in a <=> k \in b)
  OBVIOUS
<1>b. n \notin a /\ n \in b /\ Len(s) = n
  OBVIOUS
<1> HIDE DEF n, l
<1>1. PICK f : PickedUpTo(s, a, f, S) /\ Picked(s, a) = f[n]
  BY <1>b, PickedSteps
<1>2. PICK g : PickedUpTo(s, b, g, S) /\ Picked(s, b) = g[n]
  BY <1>b, PickedSteps
<1>3. f[l] = g[l]
  BY <1>0, <1>1, <1>2, PickedAgree
<1>4. f[n] = f[l] /\ f[n] \in Seq(S)
  BY <1>0, <1>b, <1>1 DEF PickedUpTo
<1>5. g[n] = Append(g[l], s[n])
  BY <1>0, <1>b, <1>2 DEF PickedUpTo
<1>. QED BY <1>b, <1>1, <1>2, <1>3, <1>4, <1>5

\* What stands where in a sequence with one more element.
LEMMA LastOfMore ==
  ASSUME NEW S, NEW s \in Seq(S), NEW e \in S
  PROVE  /\ Append(s, e) \in Seq(S) /\ Len(Append(s, e)) = Len(s) + 1
         /\ Append(s, e)[Len(s) + 1] = e
         /\ \A k \in 1 .. Len(s) : Append(s, e)[k] = s[k]
  OBVIOUS

\* The same with TRUE, which not every backend takes for a value.
LEMMA OneMoreTrue ==
  ASSUME NEW s \in Seq(BOOLEAN), NEW t, t = Append(s, TRUE)
  PROVE  /\ t \in Seq(BOOLEAN) /\ Len(t) = Len(s) + 1 /\ t[Len(s) + 1] = TRUE
         /\ \A k \in 1 .. Len(s) : t[k] = s[k]
<1> DEFINE yes == TRUE
           B == BOOLEAN
<1>1. yes \in B /\ s \in Seq(B)
  OBVIOUS
<1>2. yes = TRUE /\ B = BOOLEAN
  OBVIOUS
<1>3. t = Append(s, yes)
  OBVIOUS
<1> HIDE DEF yes, B
<1>4. /\ Append(s, yes) \in Seq(B) /\ Len(Append(s, yes)) = Len(s) + 1
      /\ Append(s, yes)[Len(s) + 1] = yes
      /\ \A k \in 1 .. Len(s) : Append(s, yes)[k] = s[k]
  BY ONLY <1>1, LastOfMore
<1>5. /\ t \in Seq(B) /\ Len(t) = Len(s) + 1 /\ t[Len(s) + 1] = yes
      /\ \A k \in 1 .. Len(s) : t[k] = s[k]
  BY ONLY <1>3, <1>4
<1>. QED BY ONLY <1>2, <1>5, Zenon

\* c is the n elements of a and then the l elements of b.
IsJoin(c, a, n, b, l, S) ==
  /\ c \in Seq(S) /\ Len(c) = n + l
  /\ \A k \in 1 .. n + l : c[k] = IF k <= n THEN a[k] ELSE b[k - n]

LEMMA JoinOf ==
  ASSUME NEW S, NEW a, a \in Seq(S), NEW n, Len(a) = n, NEW b, b \in Seq(S), NEW l, Len(b) = l,
         NEW c, c = a \o b
  PROVE  IsJoin(c, a, n, b, l, S)
<1> DEFINE d == a \o b
<1>a. \A x, y \in Seq(S) :
        LET z == x \o y IN
        /\ z \in Seq(S) /\ Len(z) = Len(x) + Len(y)
        /\ \A k \in 1 .. Len(x) + Len(y) : z[k] = IF k <= Len(x) THEN x[k] ELSE y[k - Len(x)]
  BY Join
<1>1. /\ d \in Seq(S) /\ Len(d) = Len(a) + Len(b)
      /\ \A k \in 1 .. Len(a) + Len(b) : d[k] = IF k <= Len(a) THEN a[k] ELSE b[k - Len(a)]
  BY <1>a, Zenon
<1> HIDE DEF d
<1>2. c = d
  BY DEF d
<1>3. d = c /\ Len(a) = n /\ Len(b) = l
  BY <1>2
<1>4. /\ c \in Seq(S) /\ Len(c) = n + l
      /\ \A k \in 1 .. n + l : c[k] = IF k <= n THEN a[k] ELSE b[k - n]
  BY ONLY <1>1, <1>3
<1>. QED BY <1>4 DEF IsJoin

\* What the checksum is taken of are bytes, and it has two.
CrcHasTwoBytes == \A d \in Seq(Byte) : Crc(d) \in Seq(Byte) /\ Len(Crc(d)) = 2

\* What can be in a frame.
Carried == [cmd : Byte, payload : Seq(Byte)]

Sendable == {p \in Packets : Len(p.payload) < 128}

\* A valid message, as createFramed makes it, gives the packet back.
LEMMA MessageIs ==
  ASSUME CrcHasTwoBytes, NEW p \in Carried, Len(p.payload) < 128
  PROVE  /\ Message(p) \in Seq(Byte) /\ IsValid(Message(p)) /\ Packet(Message(p)) = p
         /\ Message(p)[1] = p.cmd
<1> DEFINE pay == p.payload
           n == Len(pay)
           cmd == p.cmd
           head == <<cmd, n>>
           body == head \o pay
           c == Crc(body)
           m == Message(p)
<1>1. pay \in Seq(Byte) /\ n \in Nat /\ n < 128 /\ cmd \in Byte /\ p = [cmd |-> cmd, payload |-> pay]
  BY DEF Carried
<1>2. head \in Seq(Byte) /\ Len(head) = 2 /\ head[1] = cmd /\ head[2] = n
  <2> HIDE DEF n, cmd
  <2>1. n \in Nat /\ n < 128
    BY <1>1
  <2>2. n \in Byte
    BY ONLY <2>1 DEF Byte
  <2>3. cmd \in Byte
    BY <1>1
  <2>. QED BY ONLY <2>2, <2>3
<1>n. n = Len(pay)
  OBVIOUS
<1>b. body = head \o pay
  OBVIOUS
<1>m. m = body \o c
  BY DEF Message
<1>c. c = Crc(body)
  OBVIOUS
<1> HIDE DEF pay, n, cmd, head, body, c, m
<1>3. /\ body \in Seq(Byte) /\ Len(body) = 2 + n
      /\ \A k \in 1 .. 2 + n : body[k] = IF k <= 2 THEN head[k] ELSE pay[k - 2]
  <2>1. head \in Seq(Byte) /\ Len(head) = 2
    BY <1>2
  <2>2. pay \in Seq(Byte) /\ Len(pay) = n
    BY <1>1, <1>n
  <2>3. IsJoin(body, head, 2, pay, n, Byte)
    BY ONLY <1>b, <2>1, <2>2, JoinOf
  <2>. QED BY <2>3 DEF IsJoin
<1>4. c \in Seq(Byte) /\ Len(c) = 2
  <2>1. body \in Seq(Byte)
    BY <1>3
  <2>. QED BY ONLY <1>c, <2>1, CrcHasTwoBytes DEF CrcHasTwoBytes
<1> DEFINE l == 2 + n
<1>l. l \in Nat /\ l = 2 + n
  BY <1>1
<1> HIDE DEF l
<1>5. /\ m \in Seq(Byte) /\ Len(m) = l + 2
      /\ \A k \in 1 .. l + 2 : m[k] = IF k <= l THEN body[k] ELSE c[k - l]
  <2>1. Len(body) = l /\ body \in Seq(Byte)
    BY <1>3, <1>l
  <2>2. c \in Seq(Byte) /\ Len(c) = 2
    BY <1>4
  <2>3. IsJoin(m, body, l, c, 2, Byte)
    BY ONLY <1>m, <2>1, <2>2, JoinOf
  <2>. QED BY <2>3 DEF IsJoin
<1>6. m[1] = cmd /\ m[2] = n
  BY <1>1, <1>2, <1>3, <1>5, <1>l
<1>7. AllButLastTwo(m) = body
  <2> DEFINE q == AllButLastTwo(m)
  <2>1. q = SubSeq(m, 1, l)
    <3>1. Len(m) - 2 = l
      BY <1>5, <1>l
    <3>. QED BY <3>1 DEF AllButLastTwo
  <2> HIDE DEF q
  <2>2. 1 \in Int /\ l \in Int /\ 1 <= 1 /\ 1 - 1 <= l /\ l <= Len(m)
    BY <1>5, <1>l
  <2>3. /\ q \in Seq(Byte) /\ Len(q) = (l - 1) + 1
        /\ \A k \in 1 .. (l - 1) + 1 : q[k] = m[(1 - 1) + k]
    BY <1>5, <2>1, <2>2, Piece
  <2>4. Len(q) = l /\ Len(body) = l /\ \A k \in 1 .. l : q[k] = body[k]
    BY <1>3, <1>5, <1>l, <2>3
  <2>5. q = body
    BY <1>3, <2>3, <2>4, SeqEqual
  <2>. QED BY <2>5 DEF q
<1>8. LastTwo(m) = c
  <2> DEFINE q == LastTwo(m)
             i == l + 1
             j == l + 2
  <2>1. q = SubSeq(m, i, j)
    <3>1. Len(m) - 1 = i /\ Len(m) = j
      BY <1>5, <1>l
    <3>. QED BY <3>1 DEF LastTwo
  <2>2. i \in Int /\ j \in Int /\ 1 <= i /\ i - 1 <= j /\ j <= Len(m) /\ (j - i) + 1 = 2 /\ i - 1 = l
    BY <1>5, <1>l
  <2> HIDE DEF q, i, j
  <2>3. /\ q \in Seq(Byte) /\ Len(q) = (j - i) + 1
        /\ \A k \in 1 .. (j - i) + 1 : q[k] = m[(i - 1) + k]
    BY <1>5, <2>1, <2>2, Piece
  <2>4. Len(q) = 2 /\ \A k \in 1 .. 2 : q[k] = m[l + k]
    BY <2>2, <2>3
  <2>5. \A k \in 1 .. 2 : m[l + k] = c[k]
    <3> TAKE k \in 1 .. 2
    <3> DEFINE x == l + k
    <3>1. x \in 1 .. l + 2 /\ ~(x <= l) /\ x - l = k
      BY <1>l
    <3> HIDE DEF x
    <3>2. m[x] = c[k]
      BY <1>5, <3>1
    <3>. QED BY <3>2 DEF x
  <2>6. q = c
    BY <1>4, <2>3, <2>4, <2>5, SeqEqual
  <2>. QED BY <2>6 DEF q
<1>9. IsValid(m)
  BY <1>1, <1>5, <1>6, <1>7, <1>8, <1>c, <1>l DEF IsValid
<1>10. Packet(m) = p
  <2> DEFINE q == SubSeq(m, 3, l)
  <2>0. Packet(m) = [cmd |-> m[1], payload |-> q]
    <3>1. Len(m) - 2 = l
      BY <1>5, <1>l
    <3>. QED BY <3>1 DEF Packet
  <2>1. q = SubSeq(m, 3, l)
    OBVIOUS
  <2> HIDE DEF q
  <2>2. 3 \in Int /\ l \in Int /\ 1 <= 3 /\ 3 - 1 <= l /\ l <= Len(m) /\ (l - 3) + 1 = n
    BY <1>1, <1>5, <1>l
  <2>3. /\ q \in Seq(Byte) /\ Len(q) = (l - 3) + 1
        /\ \A k \in 1 .. (l - 3) + 1 : q[k] = m[(3 - 1) + k]
    BY <1>5, <2>1, <2>2, Piece
  <2>4. Len(q) = n /\ \A k \in 1 .. n : q[k] = m[2 + k]
    BY <2>2, <2>3
  <2>5. \A k \in 1 .. n : m[2 + k] = pay[k]
    <3> TAKE k \in 1 .. n
    <3> DEFINE x == 2 + k
    <3>1. x \in 1 .. l + 2 /\ x <= l /\ x \in 1 .. 2 + n /\ ~(x <= 2) /\ x - 2 = k
      BY <1>1, <1>l
    <3> HIDE DEF x
    <3>2. m[x] = pay[k]
      BY <1>3, <1>5, <3>1
    <3>. QED BY <3>2 DEF x
  <2>6. q = pay
    BY <1>1, <1>n, <2>3, <2>4, <2>5, SeqEqual
  <2>. QED BY <1>1, <1>6, <2>0, <2>6
<1>. QED BY <1>5, <1>6, <1>9, <1>10 DEF m, cmd

\* What is behind the first element.
LEMMA HeadTail ==
  ASSUME NEW S, NEW x \in S, NEW t \in Seq(S), NEW s, s = <<x>> \o t
  PROVE  s \in Seq(S) /\ s # <<>> /\ Head(s) = x /\ Tail(s) = t
<1> DEFINE u == <<x>>
           n == Len(t)
<1>1. u \in Seq(S) /\ Len(u) = 1 /\ u[1] = x /\ n \in Nat /\ n = Len(t) /\ s = u \o t
  OBVIOUS
<1> HIDE DEF u, n
<1>2. s \in Seq(S) /\ Len(s) = 1 + n /\ \A k \in 1 .. 1 + n : s[k] = IF k <= 1 THEN u[k] ELSE t[k - 1]
  BY <1>1, Join
<1>3. s # <<>> /\ Head(s) = s[1] /\ s[1] = x
  BY <1>1, <1>2
<1>4. Tail(s) \in Seq(S) /\ Len(Tail(s)) = n /\ \A k \in 1 .. n : Tail(s)[k] = s[k + 1]
  BY <1>1, <1>2, <1>3
<1>5. \A k \in 1 .. n : s[k + 1] = t[k]
  <2> TAKE k \in 1 .. n
  <2>1. k + 1 \in 1 .. 1 + n /\ ~(k + 1 <= 1) /\ (k + 1) - 1 = k
    BY <1>1
  <2>. QED BY <1>2, <2>1
<1>6. Tail(s) = t
  BY <1>1, <1>4, <1>5, SeqEqual
<1>. QED BY <1>2, <1>3, <1>6

\* What a byte is escaped to.
LEMMA EscapeIs ==
  ASSUME NEW b \in Byte
  PROVE  /\ Escape(b) \in Seq(Byte)
         /\ \/ b \notin {SLIP_END, SLIP_ESC} /\ Escape(b) = <<b>>
            \/ \E x \in {SLIP_ESC_END, SLIP_ESC_ESC} :
                 Unescape(x) = b /\ Escape(b) = <<SLIP_ESC>> \o <<x>>
<1> DEFINE two(x) == <<SLIP_ESC>> \o <<x>>
<1>1. \A x \in Byte : two(x) = <<SLIP_ESC, x>>
  <2> TAKE x \in Byte
  <2>1. SLIP_ESC \in Nat /\ x \in Nat
    BY DEF SLIP_ESC, Byte
  <2>2. <<SLIP_ESC>> \in Seq(Nat)
    BY <2>1
  <2>3. Append(<<SLIP_ESC>>, x) = <<SLIP_ESC>> \o <<x>>
    BY <2>1, <2>2, AppendIsConcat
  <2> DEFINE u == Append(<<SLIP_ESC>>, x)
             v == <<SLIP_ESC, x>>
  <2>4. u \in Seq(Nat) /\ Len(u) = 2 /\ u[1] = SLIP_ESC /\ u[2] = x
    BY <2>1, <2>2
  <2>5. v \in Seq(Nat) /\ Len(v) = 2 /\ v[1] = SLIP_ESC /\ v[2] = x
    BY <2>1
  <2>6. u = v
    <3> HIDE DEF u, v
    <3>1. \A i \in 1 .. Len(u) : u[i] = v[i]
      <4> TAKE i \in 1 .. Len(u)
      <4>1. i = 1 \/ i = 2
        BY <2>4
      <4>. QED BY <2>4, <2>5, <4>1
    <3>. QED BY <2>4, <2>5, <3>1, SeqEqual
  <2>. QED BY <2>3, <2>6
<1>2. SLIP_END \in Byte /\ SLIP_ESC \in Byte /\ SLIP_ESC_END \in Byte /\ SLIP_ESC_ESC \in Byte
  BY DEF Byte, SLIP_END, SLIP_ESC, SLIP_ESC_END, SLIP_ESC_ESC
<1>3. \A x \in Byte : <<SLIP_ESC, x>> \in Seq(Byte) /\ <<x>> \in Seq(Byte)
  BY <1>2
<1>4. /\ Unescape(SLIP_ESC_END) = SLIP_END /\ Unescape(SLIP_ESC_ESC) = SLIP_ESC
  BY DEF Unescape, SLIP_END, SLIP_ESC, SLIP_ESC_END, SLIP_ESC_ESC
<1>5. CASE b = SLIP_END
  <2>1. Escape(b) = <<SLIP_ESC, SLIP_ESC_END>>
    BY <1>5 DEF Escape
  <2>. QED BY <1>1, <1>2, <1>3, <1>4, <1>5, <2>1
<1>6. CASE b = SLIP_ESC
  <2>1. Escape(b) = <<SLIP_ESC, SLIP_ESC_ESC>>
    BY <1>6 DEF Escape, SLIP_END, SLIP_ESC
  <2>. QED BY <1>1, <1>2, <1>3, <1>4, <1>6, <2>1
<1>7. CASE b \notin {SLIP_END, SLIP_ESC}
  <2>1. Escape(b) = <<b>>
    BY <1>7 DEF Escape
  <2>. QED BY <1>3, <1>7, <2>1
<1>. QED BY <1>5, <1>6, <1>7

\* encode, byte by byte.
EncodedUpTo(m, f) ==
  /\ f \in [0 .. Len(m) -> Seq(Byte)]
  /\ f[0] = <<>>
  /\ \A i \in 1 .. Len(m) : f[i] = f[i - 1] \o Escape(m[i])

LEMMA EncodeSteps ==
  ASSUME NEW m \in Seq(Byte)
  PROVE  \E f : EncodedUpTo(m, f) /\ encode(m) = f[Len(m)]
<1> DEFINE n == Len(m)
           SS == Seq(Byte)
           Next1(i, t) == t \o Escape(m[i])
           G == [p \in (1 .. n) \X SS |-> Next1(p[1], p[2])]
<1>1. n \in Nat /\ <<>> \in SS /\ \A i \in 1 .. n : m[i] \in Byte
  OBVIOUS
<1>w. \A i \in 1 .. n, t \in SS : Next1(i, t) \in SS
  <2> TAKE i \in 1 .. n, t \in SS
  <2> DEFINE e == Escape(m[i])
  <2>1. e \in SS
    BY <1>1, EscapeIs
  <2> HIDE DEF e
  <2>2. t \o e \in SS
    BY <2>1
  <2>. QED BY <2>2 DEF e
<1> HIDE DEF SS, Next1
<1>2. G \in [(1 .. n) \X SS -> SS]
  BY <1>w
<1>3. PICK f \in [0 .. n -> SS] : f[0] = <<>> /\ \A i \in 1 .. n : f[i] = G[<<i, f[i - 1]>>]
  <2> HIDE DEF n, G
  <2>1. \E f : IsRecursive(f, SS, <<>>, n, G)
    BY <1>1, <1>2, Recursion
  <2>. QED BY <2>1 DEF IsRecursive
<1>4. \A i \in 1 .. n : f[i] = Next1(i, f[i - 1])
  <2> TAKE i \in 1 .. n
  <2>1. f[i - 1] \in SS
    BY <1>1, <1>3
  <2>. QED BY <1>3, <2>1
<1>5. f = [i \in 0 .. n |-> IF i = 0 THEN <<>> ELSE Next1(i, f[i - 1])]
  BY <1>1, <1>3, <1>4
<1> DEFINE upTo == CHOOSE g : g = [i \in 0 .. n |-> IF i = 0 THEN <<>> ELSE Next1(i, g[i - 1])]
<1>6. encode(m) = upTo[n]
  BY DEF encode, Next1
<1>7. upTo = [i \in 0 .. n |-> IF i = 0 THEN <<>> ELSE Next1(i, upTo[i - 1])]
  BY <1>5
<1> HIDE DEF upTo, n
<1>8. upTo[0] = <<>> /\ \A i \in 1 .. n : upTo[i] = Next1(i, upTo[i - 1])
  BY <1>1, <1>7
<1> DEFINE T == {i \in Nat : i <= n => upTo[i] = f[i]}
<1>9. 0 \in T
  BY <1>3, <1>8
<1>10. ASSUME NEW i \in Nat, i \in T PROVE i + 1 \in T
  <2> SUFFICES ASSUME i + 1 <= n PROVE upTo[i + 1] = f[i + 1]
    OBVIOUS
  <2>1. i + 1 \in 1 .. n /\ (i + 1) - 1 = i /\ upTo[i] = f[i]
    BY <1>1, <1>10
  <2>. QED BY <1>4, <1>8, <2>1
<1>11. n \in T
  <2> HIDE DEF T
  <2>1. Nat \subseteq T
    BY <1>9, <1>10, NatSet
  <2>. QED BY <1>1, <2>1
<1>12. upTo[n] = f[n]
  BY <1>1, <1>11
<1>13. EncodedUpTo(m, f)
  BY <1>3, <1>4 DEF EncodedUpTo, n, SS, Next1
<1>. QED BY <1>6, <1>12, <1>13 DEF n

\* What is left of a frame when the last j bytes of its message are still to come.
Tails(m, rest) ==
  /\ rest \in [0 .. Len(m) -> Seq(Byte)]
  /\ rest[0] = <<SLIP_END>>
  /\ \A j \in 1 .. Len(m) : rest[j] = Escape(m[(Len(m) - j) + 1]) \o rest[j - 1]

LEMMA EncodeTails ==
  ASSUME NEW m \in Seq(Byte)
  PROVE  \E rest : Tails(m, rest) /\ encode(m) \o <<SLIP_END>> = rest[Len(m)]
<1> DEFINE n == Len(m)
           SS == Seq(Byte)
           last == <<SLIP_END>>
           E(i) == Escape(m[i])
           Next1(j, t) == E((n - j) + 1) \o t
           G == [p \in (1 .. n) \X SS |-> Next1(p[1], p[2])]
<1>1. n \in Nat /\ last \in SS /\ \A i \in 1 .. n : m[i] \in Byte
  <2>1. SLIP_END \in Byte
    BY DEF Byte, SLIP_END
  <2>. QED BY <2>1
<1>e. \A i \in 1 .. n : E(i) \in SS
  BY <1>1, EscapeIs
<1>w. \A j \in 1 .. n, t \in SS : Next1(j, t) \in SS
  <2> TAKE j \in 1 .. n, t \in SS
  <2> DEFINE e == E((n - j) + 1)
  <2>1. e \in SS
    <3>1. (n - j) + 1 \in 1 .. n
      BY <1>1
    <3>. QED BY <1>e, <3>1
  <2> HIDE DEF e
  <2>2. t \in SS /\ e \o t \in SS
    BY <2>1
  <2>. QED BY <2>2 DEF e
<1>c. \A a, b, c \in SS : (a \o b) \o c = a \o (b \o c)
  BY ConcatAssociative
<1>p. \A a \in SS : <<>> \o a = a
  OBVIOUS
<1> DEFINE Falls(g) == /\ g \in [0 .. n -> SS] /\ g[0] = last
                      /\ \A j \in 1 .. n : g[j] = E((n - j) + 1) \o g[j - 1]
           Upto(f) == /\ f \in [0 .. n -> SS] /\ f[0] = <<>>
                      /\ \A i \in 1 .. n : f[i] = f[i - 1] \o E(i)
<1>f. PICK f : Upto(f) /\ encode(m) = f[n]
  BY EncodeSteps DEF EncodedUpTo
<1> HIDE DEF SS, Next1, last
<1>2. G \in [(1 .. n) \X SS -> SS]
  BY <1>w
<1>3. PICK rest \in [0 .. n -> SS] : rest[0] = last /\ \A i \in 1 .. n : rest[i] = G[<<i, rest[i - 1]>>]
  <2> HIDE DEF n, G
  <2>1. \E g : IsRecursive(g, SS, last, n, G)
    BY <1>1, <1>2, Recursion
  <2>. QED BY <2>1 DEF IsRecursive
<1>4. \A i \in 1 .. n : rest[i] = Next1(i, rest[i - 1])
  <2> TAKE i \in 1 .. n
  <2>1. rest[i - 1] \in SS
    BY <1>1, <1>3
  <2>. QED BY <1>3, <2>1
<1>5. Falls(rest)
  BY <1>3, <1>4 DEF Next1
<1>6. Tails(m, rest)
  BY <1>5 DEF Tails, SS, last
<1> HIDE DEF E, n, G
<1> DEFINE P(k) == f[n - k] \o rest[k] = f[n] \o last
           T == {k \in Nat : k <= n => P(k)}
<1>7. P(0)
  <2>1. n - 0 = n
    BY <1>1
  <2>. QED BY <1>5, <2>1
<1>8. ASSUME NEW k \in Nat, k + 1 <= n, P(k) PROVE P(k + 1)
  <2> DEFINE i == n - k
             h == n - (k + 1)
             j == k + 1
  <2>1. i \in 1 .. n /\ h \in 0 .. n /\ h = i - 1 /\ j \in 1 .. n /\ k \in 0 .. n /\ j - 1 = k /\ (n - j) + 1 = i /\ k <= n
    BY <1>1, <1>8
  <2>2. f[i] \o rest[k] = f[n] \o last
    BY <1>8
  <2> HIDE DEF i, h, j
  <2>3. f[i] = f[h] \o E(i) /\ f[h] \in SS
    BY <1>f, <2>1
  <2>4. rest[j] = E(i) \o rest[k] /\ rest[k] \in SS
    BY <1>5, <2>1
  <2>5. E(i) \in SS
    BY <1>e, <2>1
  <2>6. (f[h] \o E(i)) \o rest[k] = f[h] \o (E(i) \o rest[k])
    BY <1>c, <2>3, <2>4, <2>5
  <2>7. f[h] \o rest[j] = f[n] \o last
    BY <2>2, <2>3, <2>4, <2>6
  <2>. QED BY <2>7 DEF h, j
<1>9. P(n)
  <2> HIDE DEF P
  <2>1. 0 \in T /\ \A k \in Nat : k \in T => k + 1 \in T
    BY <1>1, <1>7, <1>8
  <2> HIDE DEF T
  <2>2. Nat \subseteq T
    BY <2>1, NatSet
  <2>3. n \in T /\ n <= n
    BY <1>1, <2>2
  <2>. QED BY <2>3 DEF T
<1>10. f[0] \o rest[n] = f[n] \o last
  <2>1. n - n = 0
    BY <1>1
  <2>. QED BY <1>9, <2>1
<1>11. rest[n] = f[n] \o last
  <2>1. rest[n] \in SS /\ f[0] = <<>>
    BY <1>1, <1>5, <1>f
  <2>. QED BY <1>10, <2>1, <1>p
<1>. QED BY <1>6, <1>11, <1>f DEF n, last

-----------------------------------------------------------------------------
(* The commands on the line.                                                *)

LinkTyped ==
  /\ sent \in Seq(Sendable)
  /\ intact \in Seq(BOOLEAN) /\ Len(intact) = Len(sent)
  /\ line \in Seq(Byte)
  /\ line # <<>> => sent # <<>>
  /\ isEsc \in BOOLEAN /\ buf \in Seq(Byte) /\ handled \in Seq(Carried)

\* A frame is on its way: all of it, or all but what the car has seen of the
\* message.  Then j bytes of the message are to come, of the first of them
\* perhaps only the half behind SLIP_ESC; and the buffer has the others, or as
\* many of them as fit.
Held(k) == IF k <= MAX_MSG_LEN THEN k ELSE MAX_MSG_LEN

Within(m, rest, j, ln, es, bf) ==
  /\ bf = SubSeq(m, 1, Held(Len(m) - j))
  /\ \/ es = FALSE /\ ln = rest[j]
     \/ /\ es = TRUE /\ j > 0
        /\ \E x \in {SLIP_ESC_END, SLIP_ESC_ESC} :
             Unescape(x) = m[(Len(m) - j) + 1] /\ ln = <<x>> \o rest[j - 1]

Coming(m, ln, es, bf) ==
  \E rest : /\ Tails(m, rest)
            /\ \/ ln = <<SLIP_END>> \o rest[Len(m)]
               \/ \E j \in 0 .. Len(m) : Within(m, rest, j, ln, es, bf)

Underway ==
  line # <<>> /\ intact[Len(sent)] => Coming(Message(sent[Len(sent)]), line, isEsc, buf)

LinkInv == LinkTyped /\ Underway /\ IntactHandled

LEMMA SendableIs == Sendable \subseteq Carried /\ \A p \in Sendable : Len(p.payload) < 128
<1>1. Packets \subseteq Carried
  BY LinkAssumption DEF Carried, Byte
<1>. QED BY <1>1 DEF Sendable

\* A new frame.
LEMMA FrameComes ==
  ASSUME CrcHasTwoBytes, NEW p \in Sendable, NEW es, NEW bf
  PROVE  /\ createFramed(p) \in Seq(Byte) /\ createFramed(p) # <<>>
         /\ Coming(Message(p), createFramed(p), es, bf)
         /\ \E rest : /\ Tails(Message(p), rest)
                      /\ createFramed(p) = <<SLIP_END>> \o rest[Len(Message(p))]
<1> DEFINE m == Message(p)
           n == Len(m)
           first == <<SLIP_END>>
           e == encode(m)
           SS == Seq(Byte)
<1>1. m \in SS
  <2>1. p \in Carried /\ Len(p.payload) < 128
    BY SendableIs
  <2>. QED BY <2>1, MessageIs
<1>2. SLIP_END \in Byte
  BY DEF SLIP_END, Byte
<1>3. first \in SS
  BY <1>2
<1>4. n \in Nat
  BY <1>1
<1>5. e \in SS
  <2>1. PICK f : EncodedUpTo(m, f) /\ encode(m) = f[n]
    BY <1>1, EncodeSteps
  <2>. QED BY <1>4, <2>1 DEF EncodedUpTo
<1>6. PICK rest : Tails(m, rest) /\ encode(m) \o <<SLIP_END>> = rest[n]
  BY <1>1, EncodeTails
<1>7. rest[n] \in SS
  BY <1>4, <1>6 DEF Tails
<1>8. (first \o e) \o first = first \o (e \o first)
  BY <1>3, <1>5, ConcatAssociative
<1>9. createFramed(p) = <<SLIP_END>> \o rest[n]
  BY <1>6, <1>8 DEF createFramed
<1>10. createFramed(p) \in SS /\ createFramed(p) # <<>>
  BY <1>2, <1>7, <1>9, HeadTail
<1>11. Coming(m, createFramed(p), es, bf)
  BY <1>6, <1>9 DEF Coming
<1>. QED BY <1>6, <1>9, <1>10, <1>11

\* A valid message is a packet.
LEMMA PacketTyped ==
  ASSUME NEW m \in Seq(Byte), IsValid(m) PROVE Packet(m) \in Carried
<1> DEFINE q == SubSeq(m, 3, Len(m) - 2)
<1>1. Len(m) \in Nat /\ Len(m) >= 4
  BY DEF IsValid
<1>2. m[1] \in Byte
  BY <1>1
<1>3. q \in Seq(Byte)
  BY <1>1
<1> HIDE DEF q
<1>4. Packet(m) = [cmd |-> m[1], payload |-> q]
  BY DEF Packet, q
<1>. QED BY <1>2, <1>3, <1>4 DEF Carried

\* What a byte does to the parser, whatever it is.
LEMMA AnyByte ==
  ASSUME LinkTyped, NEW v \in Byte, ParseByte(v)
  PROVE  /\ isEsc' \in BOOLEAN /\ buf' \in Seq(Byte)
         /\ \E u \in Seq(Carried) : handled' = handled \o u
<1>1. isEsc \in BOOLEAN /\ buf \in Seq(Byte) /\ handled \in Seq(Carried)
  BY DEF LinkTyped
<1>2. \A h \in Seq(Carried) : <<>> \in Seq(Carried) /\ h = h \o <<>>
  BY ConcatEmptySeq
<1>3. CASE ParseEsc(v)
  BY <1>1, <1>2, <1>3 DEF ParseEsc
<1>4. CASE ParseEnd(v)
  <2>1. isEsc' \in BOOLEAN /\ buf' \in Seq(Byte)
    <3>1. isEsc' = FALSE /\ buf' = <<>>
      BY <1>4 DEF ParseEnd
    <3>2. <<>> \in Seq(Byte)
      OBVIOUS
    <3>3. buf' \in Seq(Byte)
      BY ONLY <3>1, <3>2, Zenon
    <3>4. isEsc' \in BOOLEAN
      BY ONLY <3>1
    <3>. QED BY <3>3, <3>4
  <2>2. CASE handled' = handled
    BY <1>1, <1>2, <2>1, <2>2
  <2>3. CASE handled' # handled
    <3>1. IsValid(buf) /\ handled' = Append(handled, Packet(buf))
      BY <1>4, <2>3 DEF ParseEnd
    <3> DEFINE p == Packet(buf)
    <3>2. p \in Carried
      BY <1>1, <3>1, PacketTyped
    <3> HIDE DEF p
    <3>3. <<p>> \in Seq(Carried) /\ Append(handled, p) = handled \o <<p>>
      BY <1>1, <3>2, AppendIsConcat
    <3>. QED BY <2>1, <3>1, <3>3 DEF p
  <2>. QED BY <2>2, <2>3
<1>5. CASE ParseData(v)
  <2>1. Unescape(v) \in Byte
    <3>1. SLIP_END \in Byte /\ SLIP_ESC \in Byte
      BY DEF Byte, SLIP_END, SLIP_ESC
    <3>2. Unescape(v) \in {SLIP_END, SLIP_ESC, v}
      BY DEF Unescape
    <3>. QED BY <3>1, <3>2
  <2>2. isEsc' = FALSE /\ handled' = handled
    BY <1>5 DEF ParseData
  <2>3. buf' = buf \/ buf' = Append(buf, Unescape(v)) \/ buf' = Append(buf, v)
    BY <1>5 DEF ParseData
  <2>4. buf' \in Seq(Byte)
    <3> DEFINE w == Unescape(v)
    <3>1. w \in Byte
      BY <2>1
    <3> HIDE DEF w
    <3>2. Append(buf, w) \in Seq(Byte) /\ Append(buf, v) \in Seq(Byte)
      BY <1>1, <3>1
    <3>. QED BY <1>1, <2>3, <3>2 DEF w
  <2>. QED BY <1>1, <1>2, <2>2, <2>4
<1>. QED BY <1>3, <1>4, <1>5 DEF ParseByte

\* One more byte of the message.
LEMMA OneMore ==
  ASSUME NEW m \in Seq(Byte), NEW k \in Nat, k + 1 <= Len(m)
  PROVE  Append(SubSeq(m, 1, k), m[k + 1]) = SubSeq(m, 1, k + 1)
<1> DEFINE a == SubSeq(m, 1, k)
           b == SubSeq(m, 1, k + 1)
           l == k + 1
           n == Len(m)
           c == Append(a, m[l])
<1>1. n \in Nat /\ l \in 1 .. n /\ l = k + 1 /\ m[l] \in Byte /\ l \in Nat /\ k <= n /\ l <= n /\ n = Len(m)
  OBVIOUS
<1>a. a = SubSeq(m, 1, k) /\ b = SubSeq(m, 1, l)
  OBVIOUS
<1>c. c = Append(a, m[l])
  OBVIOUS
<1> HIDE DEF a, b, c, l, n
<1>2. a \in Seq(Byte) /\ Len(a) = (k - 1) + 1 /\ \A i \in 1 .. (k - 1) + 1 : a[i] = m[(1 - 1) + i]
  <2>1. 1 \in Int /\ k \in Int /\ 1 <= 1 /\ 1 - 1 <= k /\ k <= Len(m)
    BY <1>1
  <2>. QED BY <1>a, <2>1, Piece
<1>3. b \in Seq(Byte) /\ Len(b) = (l - 1) + 1 /\ \A i \in 1 .. (l - 1) + 1 : b[i] = m[(1 - 1) + i]
  <2>1. 1 \in Int /\ l \in Int /\ 1 <= 1 /\ 1 - 1 <= l /\ l <= Len(m)
    BY <1>1
  <2>. QED BY <1>a, <2>1, Piece
<1>4. Len(a) = k /\ \A i \in 1 .. k : a[i] = m[i]
  BY <1>1, <1>2
<1>5. Len(b) = l /\ \A i \in 1 .. l : b[i] = m[i]
  BY <1>1, <1>3
<1>6. /\ c \in Seq(Byte) /\ Len(c) = l
      /\ \A i \in 1 .. l : c[i] = IF i = l THEN m[l] ELSE a[i]
  BY <1>1, <1>2, <1>4, <1>c
<1>7. \A i \in 1 .. l : c[i] = b[i]
  <2> TAKE i \in 1 .. l
  <2>1. CASE i = l
    BY <1>5, <1>6, <2>1
  <2>2. CASE i # l
    <3>1. i \in 1 .. k
      BY <1>1, <2>2
    <3>. QED BY <1>4, <1>5, <1>6, <2>2, <3>1
  <2>. QED BY <2>1, <2>2
<1>8. c = b
  BY <1>3, <1>5, <1>6, <1>7, SeqEqual
<1>. QED BY <1>8 DEF b, c, a, l

\* What the pieces of a frame that is under way look like.
LEMMA RestIs ==
  ASSUME NEW m \in Seq(Byte), NEW rest, Tails(m, rest)
  PROVE  /\ rest[0] = <<SLIP_END>> \o <<>>
         /\ \A j \in 0 .. Len(m) : rest[j] \in Seq(Byte) /\ rest[j] # <<>>
<1>1. Len(m) \in Nat /\ rest[0] = <<SLIP_END>> /\ \A j \in 0 .. Len(m) : rest[j] \in Seq(Byte)
  <2>1. Len(m) \in Nat
    OBVIOUS
  <2>2. rest \in [0 .. Len(m) -> Seq(Byte)] /\ rest[0] = <<SLIP_END>>
    BY DEF Tails
  <2>3. \A j \in 0 .. Len(m) : rest[j] \in Seq(Byte)
    <3> DEFINE SS == Seq(Byte)
               N == 0 .. Len(m)
    <3>1. rest \in [N -> SS]
      BY <2>2
    <3> HIDE DEF SS, N
    <3>2. \A j \in N : rest[j] \in SS
      BY ONLY <3>1
    <3>. QED BY <3>2 DEF SS, N
  <2>. QED BY <2>1, <2>2, <2>3
<1>2. <<SLIP_END>> \o <<>> = <<SLIP_END>>
  <2>1. <<SLIP_END>> \in Seq({SLIP_END})
    OBVIOUS
  <2>. QED BY <2>1, ConcatEmptySeq
<1>3. ASSUME NEW j \in 0 .. Len(m) PROVE rest[j] # <<>>
  <2>1. CASE j = 0
    <3>1. <<SLIP_END>> # <<>>
      OBVIOUS
    <3>2. rest[j] = <<SLIP_END>>
      BY ONLY <1>1, <2>1
    <3>. QED BY ONLY <3>1, <3>2
  <2>2. CASE j # 0
    <3> DEFINE i == (Len(m) - j) + 1
               t == rest[j - 1]
               e == Escape(m[i])
    <3>1. i \in 1 .. Len(m) /\ j \in 1 .. Len(m) /\ j - 1 \in 0 .. Len(m)
      BY <1>1, <2>2
    <3>2. m[i] \in Byte
      <4> HIDE DEF i
      <4>1. i \in 1 .. Len(m)
        BY <3>1
      <4>. QED BY ONLY <4>1, m \in Seq(Byte)
    <3>3. t \in Seq(Byte)
      BY <1>1, <3>1
    <3>4. e \in Seq(Byte) /\ e # <<>>
      <4>1. e \in Seq(Byte)
        BY <3>2, EscapeIs
      <4>2. CASE e = <<m[i]>>
        <5>1. e # <<>>
          BY ONLY <4>2
        <5>. QED BY <4>1, <5>1
      <4>3. CASE \E x \in {SLIP_ESC_END, SLIP_ESC_ESC} : e = <<SLIP_ESC>> \o <<x>>
        <5>1. PICK x \in {SLIP_ESC_END, SLIP_ESC_ESC} : e = <<SLIP_ESC>> \o <<x>>
          BY <4>3
        <5>2. x \in Byte /\ SLIP_ESC \in Byte
          BY DEF Byte, SLIP_ESC, SLIP_ESC_END, SLIP_ESC_ESC
        <5>3. <<x>> \in Seq(Byte)
          BY <5>2
        <5>4. e # <<>>
          BY <5>1, <5>2, <5>3, HeadTail
        <5>. QED BY <4>1, <5>4
      <4>. QED BY <3>2, <4>1, <4>2, <4>3, EscapeIs
    <3>5. rest[j] = e \o t
      BY <3>1 DEF Tails
    <3> HIDE DEF e, t
    <3>6. Len(e) > 0 /\ Len(t) >= 0 /\ Len(e) \in Nat /\ Len(t) \in Nat
      BY <3>3, <3>4
    <3>7. IsJoin(rest[j], e, Len(e), t, Len(t), Byte)
      BY <3>3, <3>4, <3>5, JoinOf
    <3>8. Len(rest[j]) = Len(e) + Len(t)
      BY <3>7 DEF IsJoin
    <3>. QED BY <3>6, <3>8
  <2>. QED BY <2>1, <2>2
<1>. QED BY <1>1, <1>2, <1>3

LEMMA BytesAssociate == \A a, b, c \in Seq(Byte) : (a \o b) \o c = a \o (b \o c)
  BY ConcatAssociative

\* All of a sequence.
LEMMA AllOf == ASSUME NEW m \in Seq(Byte) PROVE SubSeq(m, 1, Len(m)) = m
<1> DEFINE q == SubSeq(m, 1, Len(m))
           n == Len(m)
<1>1. n \in Nat /\ n = Len(m) /\ q = SubSeq(m, 1, n)
  OBVIOUS
<1> HIDE DEF q, n
<1>2. q \in Seq(Byte) /\ Len(q) = (n - 1) + 1 /\ \A i \in 1 .. (n - 1) + 1 : q[i] = m[(1 - 1) + i]
  <2>1. 1 \in Int /\ n \in Int /\ 1 <= 1 /\ 1 - 1 <= n /\ n <= Len(m)
    BY <1>1
  <2>. QED BY <1>1, <2>1, Piece
<1>3. Len(q) = Len(m) /\ \A i \in 1 .. Len(q) : q[i] = m[i]
  BY <1>1, <1>2
<1>4. q = m
  BY <1>2, <1>3, SeqEqual
<1>. QED BY <1>4 DEF q

\* What the three kinds of bytes do.
LEMMA EndDoes ==
  ASSUME ParseByte(SLIP_END) PROVE ParseEnd(SLIP_END)
<1>1. ~ParseEsc(SLIP_END) /\ ~ParseData(SLIP_END)
  BY DEF ParseEsc, ParseData, SLIP_END, SLIP_ESC
<1>. QED BY <1>1 DEF ParseByte

LEMMA EscDoes ==
  ASSUME ParseByte(SLIP_ESC) PROVE ParseEsc(SLIP_ESC)
<1>1. ~ParseEnd(SLIP_ESC) /\ ~ParseData(SLIP_ESC)
  BY DEF ParseEnd, ParseData, SLIP_END, SLIP_ESC
<1>. QED BY <1>1 DEF ParseByte

LEMMA DataDoes ==
  ASSUME NEW v, v \notin {SLIP_ESC, SLIP_END}, ParseByte(v)
  PROVE  /\ isEsc' = FALSE
         /\ buf' = IF Len(buf) < MAX_MSG_LEN
                     THEN Append(buf, IF isEsc THEN Unescape(v) ELSE v) ELSE buf
         /\ handled' = handled
<1>1. ~ParseEnd(v) /\ ~ParseEsc(v)
  BY DEF ParseEnd, ParseEsc
<1>2. ParseData(v)
  BY <1>1 DEF ParseByte
<1>. QED BY <1>2 DEF ParseData, msgLen

\* The SLIP_END in front of a message.
LEMMA FirstByte ==
  ASSUME NEW m \in Seq(Byte), NEW rest, Tails(m, rest), line = <<SLIP_END>> \o rest[Len(m)],
         ParseByte(Head(line)), line' = Tail(line)
  PROVE  /\ Within(m, rest, Len(m), line', isEsc', buf')
         /\ buf = <<>> => handled' = handled
<1> DEFINE n == Len(m)
           t == rest[n]
<1>1. n \in Nat /\ n \in 0 .. n /\ n - n = 0
  OBVIOUS
<1>2. t \in Seq(Byte)
  BY <1>1, RestIs
<1>3. SLIP_END \in Byte
  BY DEF SLIP_END, Byte
<1>4. Head(line) = SLIP_END /\ line' = t
  <2> HIDE DEF t
  <2>1. line = <<SLIP_END>> \o t
    BY DEF t
  <2>. QED BY <1>2, <1>3, <2>1, HeadTail
<1>5. isEsc' = FALSE /\ buf' = <<>> /\ (buf = <<>> => handled' = handled)
  <2>1. ParseEnd(SLIP_END)
    BY <1>4, EndDoes
  <2>2. buf = <<>> => ~IsValid(buf)
    <3>1. Len(<<>>) = 0 /\ ~(0 >= 4)
      OBVIOUS
    <3>. QED BY <3>1 DEF IsValid
  <2>. QED BY <2>1, <2>2 DEF ParseEnd
<1>6. SubSeq(m, 1, Held(n - n)) = <<>>
  <2>1. SubSeq(m, 1, 0) = <<>>
    OBVIOUS
  <2>2. Held(0) = 0
    BY DeframerAssumption DEF Held
  <2>. QED BY <1>1, <2>1, <2>2
<1>. QED BY <1>4, <1>5, <1>6 DEF Within

\* The one behind it.
LEMMA LastByte ==
  ASSUME NEW m \in Seq(Byte), IsValid(m),
         NEW rest, Tails(m, rest), Within(m, rest, 0, line, isEsc, buf),
         ParseByte(Head(line)), line' = Tail(line)
  PROVE  /\ line' = <<>> /\ buf' = <<>>
         /\ handled' = IF Len(m) <= MAX_MSG_LEN /\ m[1] < _NB_OF_CMDS
                         THEN Append(handled, Packet(m)) ELSE handled
<1>1. line = <<SLIP_END>> \o <<>>
  <2>1. line = rest[0]
    <3>1. ~(0 > 0)
      OBVIOUS
    <3>. QED BY <3>1 DEF Within
  <2>. QED BY <2>1, RestIs
<1>2. SLIP_END \in Byte /\ <<>> \in Seq(Byte)
  <2>1. SLIP_END \in Byte
    BY DEF SLIP_END, Byte
  <2>. QED BY <2>1
<1>3. Head(line) = SLIP_END /\ line' = <<>>
  BY <1>1, <1>2, HeadTail
<1>4. /\ handled' = IF IsValid(buf) /\ buf[1] < _NB_OF_CMDS
                      THEN Append(handled, Packet(buf)) ELSE handled
      /\ buf' = <<>>
  <2>1. ParseEnd(SLIP_END)
    BY <1>3, EndDoes
  <2>. QED BY <2>1 DEF ParseEnd
<1> DEFINE n == Len(m)
<1>5. n \in Nat /\ n - 0 = n /\ MAX_MSG_LEN \in Nat
  BY DeframerAssumption
<1>6. buf = SubSeq(m, 1, Held(n))
  BY <1>5 DEF Within
<1>7. CASE n <= MAX_MSG_LEN
  <2>1. buf = m
    BY <1>6, <1>7, AllOf DEF Held
  <2>. QED BY <1>3, <1>4, <1>7, <2>1
<1>8. CASE ~(n <= MAX_MSG_LEN)
  <2> DEFINE x == MAX_MSG_LEN
  <2>1. x \in Nat /\ x < n /\ x <= Len(m) /\ 1 \in Int /\ x \in Int /\ 1 <= 1 /\ 1 - 1 <= x
    BY <1>5, <1>8
  <2>2. buf = SubSeq(m, 1, x)
    BY <1>6, <1>8 DEF Held
  <2> HIDE DEF x
  <2>3. Len(buf) = (x - 1) + 1 /\ \A i \in 1 .. (x - 1) + 1 : buf[i] = m[(1 - 1) + i]
    BY <2>1, <2>2, Piece
  <2>4. Len(buf) = x /\ (x >= 4 => buf[2] = m[2])
    BY <2>1, <2>3
  <2>5. m[2] + 4 = n
    BY DEF IsValid
  <2>6. ~IsValid(buf)
    <3> SUFFICES ASSUME IsValid(buf) PROVE FALSE
      OBVIOUS
    <3>1. x >= 4 /\ buf[2] + 4 = x
      BY <2>4 DEF IsValid
    <3>. QED BY <2>1, <2>4, <2>5, <3>1
  <2>. QED BY <1>3, <1>4, <1>8, <2>6
<1>. QED BY <1>7, <1>8

\* A byte of the message, or half of one.
LEMMA NextByte ==
  ASSUME NEW m \in Seq(Byte), NEW rest, Tails(m, rest), NEW j \in 1 .. Len(m),
         Within(m, rest, j, line, isEsc, buf), ParseByte(Head(line)), line' = Tail(line)
  PROVE  /\ \E i \in 0 .. Len(m) : Within(m, rest, i, line', isEsc', buf')
         /\ handled' = handled
<1> DEFINE n == Len(m)
           k == n - j
           i == j - 1
           b == m[k + 1]
           have == SubSeq(m, 1, Held(k))
           more == SubSeq(m, 1, Held(n - i))
           added == IF Len(buf) < MAX_MSG_LEN THEN Append(buf, b) ELSE buf
           t == rest[i]
<1>1. n \in Nat /\ k \in Nat /\ k + 1 <= n /\ n - i = k + 1 /\ i \in 0 .. n /\ j \in 0 .. n /\ j > 0
  OBVIOUS
<1>2. b \in Byte
  BY <1>1
<1>3. t \in Seq(Byte) /\ rest[j] = Escape(b) \o t
  <2>1. t \in Seq(Byte)
    BY <1>1, RestIs
  <2>. QED BY <2>1 DEF Tails
<1>4. buf = have
  BY DEF Within
<1>m. MAX_MSG_LEN \in Nat
  BY DeframerAssumption
<1>5. added = more
  <2>1. CASE k + 1 <= MAX_MSG_LEN
    <3>1. Append(SubSeq(m, 1, k), m[k + 1]) = SubSeq(m, 1, k + 1)
      BY <1>1, OneMore
    <3>2. Held(k) = k /\ Held(n - i) = k + 1
      BY <1>1, <1>m, <2>1 DEF Held
    <3>3. Len(SubSeq(m, 1, k)) = k
      BY <1>1
    <3>4. k < MAX_MSG_LEN
      BY <1>1, <1>m, <2>1
    <3>. QED BY <1>4, <3>1, <3>2, <3>3, <3>4
  <2>2. CASE ~(k + 1 <= MAX_MSG_LEN)
    <3> DEFINE x == MAX_MSG_LEN
    <3>1. Held(k) = x /\ Held(n - i) = x /\ x <= n /\ x \in Nat
      BY <1>1, <1>m, <2>2 DEF Held
    <3>2. Len(SubSeq(m, 1, x)) = x
      BY <3>1
    <3>3. Len(buf) = x /\ ~(x < x)
      BY <1>4, <3>1, <3>2
    <3>. QED BY <1>4, <3>1, <3>3
  <2>. QED BY <2>1, <2>2
<1>w. ASSUME isEsc' = FALSE, line' = t, buf' = more PROVE Within(m, rest, i, line', isEsc', buf')
  BY <1>w DEF Within
<1>6. \/ isEsc = FALSE /\ line = rest[j]
      \/ /\ isEsc = TRUE
         /\ \E x \in {SLIP_ESC_END, SLIP_ESC_ESC} : Unescape(x) = b /\ line = <<x>> \o t
  BY DEF Within
<1>h. \A x \in Byte, r \in Seq(Byte) : line = <<x>> \o r => Head(line) = x /\ Tail(line) = r
  BY HeadTail
<1>x. SLIP_ESC \in Byte /\ \A x \in {SLIP_ESC_END, SLIP_ESC_ESC} : x \in Byte /\ x \notin {SLIP_ESC, SLIP_END}
  BY DEF Byte, SLIP_ESC, SLIP_END, SLIP_ESC_END, SLIP_ESC_ESC
<1>e. \/ b \notin {SLIP_END, SLIP_ESC} /\ Escape(b) = <<b>>
      \/ \E x \in {SLIP_ESC_END, SLIP_ESC_ESC} :
           Unescape(x) = b /\ Escape(b) = <<SLIP_ESC>> \o <<x>>
  BY <1>2, EscapeIs
<1>s. (\E x \in {SLIP_ESC_END, SLIP_ESC_ESC} : Unescape(x) = b /\ line' = <<x>> \o t)
        => Within(m, rest, j, line', TRUE, buf)
  <2> SUFFICES ASSUME NEW x \in {SLIP_ESC_END, SLIP_ESC_ESC}, Unescape(x) = b, line' = <<x>> \o t
               PROVE  Within(m, rest, j, line', TRUE, buf)
    OBVIOUS
  <2>. QED BY <1>1 DEF Within
<1> HIDE DEF n, k, i, b, have, more, t
<1>7. CASE isEsc = TRUE
  <2>1. PICK x \in {SLIP_ESC_END, SLIP_ESC_ESC} : Unescape(x) = b /\ line = <<x>> \o t
    BY <1>6, <1>7
  <2>2. x \in Byte /\ x \notin {SLIP_ESC, SLIP_END} /\ Head(line) = x /\ line' = t
    BY <1>3, <1>h, <1>x, <2>1
  <2>3. isEsc' = FALSE /\ buf' = added /\ handled' = handled
    BY <1>7, <2>1, <2>2, DataDoes
  <2>4. Within(m, rest, i, line', isEsc', buf')
    BY <1>5, <1>w, <2>2, <2>3
  <2>. QED BY <1>1, <2>3, <2>4 DEF n
<1>8. CASE isEsc = FALSE /\ b \notin {SLIP_END, SLIP_ESC} /\ Escape(b) = <<b>>
  <2>1. line = <<b>> \o t
    BY <1>3, <1>6, <1>8
  <2>2. Head(line) = b /\ line' = t
    BY <1>2, <1>3, <1>h, <2>1
  <2>3. isEsc' = FALSE /\ buf' = added /\ handled' = handled
    BY <1>8, <2>2, DataDoes
  <2>4. Within(m, rest, i, line', isEsc', buf')
    BY <1>5, <1>w, <2>2, <2>3
  <2>. QED BY <1>1, <2>3, <2>4 DEF n
<1>9. ASSUME isEsc = FALSE, NEW x \in {SLIP_ESC_END, SLIP_ESC_ESC}, Unescape(x) = b,
             Escape(b) = <<SLIP_ESC>> \o <<x>>
      PROVE  /\ \E l \in 0 .. Len(m) : Within(m, rest, l, line', isEsc', buf')
             /\ handled' = handled
  <2> DEFINE esc == <<SLIP_ESC>>
             two == <<x>>
             r == two \o t
  <2>1. esc \in Seq(Byte) /\ two \in Seq(Byte)
    BY <1>x
  <2>2. line = (esc \o two) \o t
    BY <1>3, <1>6, <1>9
  <2> HIDE DEF esc, two
  <2>3. (esc \o two) \o t = esc \o r
    <3>1. esc \in Seq(Byte)
      BY <2>1
    <3>2. two \in Seq(Byte)
      BY <2>1
    <3>3. t \in Seq(Byte)
      BY <1>3
    <3>4. (esc \o two) \o t = esc \o (two \o t)
      BY ONLY <3>1, <3>2, <3>3, BytesAssociate
    <3>. QED BY <3>4
  <2>4. r \in Seq(Byte)
    BY <1>3, <2>1
  <2>5. line = <<SLIP_ESC>> \o r
    BY <2>2, <2>3 DEF esc
  <2> HIDE DEF r
  <2>6. Head(line) = SLIP_ESC /\ line' = r
    BY <1>h, <1>x, <2>4, <2>5
  <2>7. isEsc' = TRUE /\ buf' = buf /\ handled' = handled
    <3>1. ParseEsc(SLIP_ESC)
      BY <2>6, EscDoes
    <3>. QED BY <3>1 DEF ParseEsc
  <2>8. Within(m, rest, j, line', TRUE, buf)
    BY <1>9, <1>s, <2>6 DEF r, two
  <2>. QED BY <1>1, <2>7, <2>8 DEF n
<1>. QED BY <1>6, <1>7, <1>8, <1>9, <1>e

\* The places of the packets that have arrived and that the car can take.
Arrived(snt, ok, ln) ==
  {k \in DOMAIN snt : /\ ok[k]
                      /\ k = Len(snt) => ln = <<>>
                      /\ Len(Message(snt[k])) <= MAX_MSG_LEN
                      /\ snt[k].cmd < _NB_OF_CMDS}

LEMMA ArrivedIs ==
  /\ IntactPackets = Picked(sent, Arrived(sent, intact, line))
  /\ IntactPackets' = Picked(sent', Arrived(sent', intact', line'))
  BY DEF IntactPackets, Arrived

\* More of them do not hurt.
LEMMA Kept ==
  ASSUME LinkTyped, IntactHandled, IntactPackets' = IntactPackets,
         NEW u \in Seq(Carried), handled' = handled \o u
  PROVE  IntactHandled'
<1>1. sent \in Seq(Carried) /\ handled \in Seq(Carried)
  BY SendableIs DEF LinkTyped
<1> DEFINE a == Arrived(sent, intact, line)
           q == Picked(sent, a)
<1>2. PICK f : PickedUpTo(sent, a, f, Carried) /\ q = f[Len(sent)]
  BY <1>1, PickedSteps
<1>3. q \in Seq(Carried)
  <2> DEFINE n == Len(sent)
  <2>1. n \in 0 .. n
    BY <1>1
  <2>. QED BY <1>2, <2>1 DEF PickedUpTo
<1>4. q = IntactPackets
  BY ArrivedIs
<1> HIDE DEF q
<1>5. IsPartOf(q, handled)
  BY <1>4 DEF IntactHandled
<1>6. IsPartOf(q, handled \o u)
  BY <1>1, <1>3, <1>5, PartOfLonger
<1>. QED BY <1>4, <1>6 DEF IntactHandled

\* The frame that is under way is spoilt.
LEMMA SpoilStep ==
  ASSUME LinkInv, Spoil, line' = Tail(line) \/ line' = line,
         isEsc' \in BOOLEAN, buf' \in Seq(Byte),
         NEW u \in Seq(Carried), handled' = handled \o u
  PROVE  LinkInv'
<1> DEFINE n == Len(sent)
<1>1. /\ sent \in Seq(Sendable) /\ intact \in Seq(BOOLEAN) /\ Len(intact) = n /\ line \in Seq(Byte)
      /\ line # <<>> /\ sent # <<>> /\ handled \in Seq(Carried)
      /\ sent' = sent /\ intact' = [intact EXCEPT ![n] = FALSE]
  BY DEF LinkInv, LinkTyped, Spoil
<1>2. n \in Nat /\ n \in 1 .. n /\ DOMAIN sent = 1 .. n /\ DOMAIN intact = 1 .. n
  BY <1>1
<1> HIDE DEF n
<1>3. intact' \in Seq(BOOLEAN) /\ Len(intact') = n /\ intact'[n] = FALSE
      /\ \A k \in 1 .. n : k # n => intact'[k] = intact[k]
  BY <1>1, <1>2
<1>4. LinkTyped'
  <2>1. line' \in Seq(Byte)
    <3>1. line \in Seq(Byte) /\ line # <<>>
      BY <1>1
    <3>2. Tail(line) \in Seq(Byte)
      BY ONLY <3>1
    <3>. QED BY <3>1, <3>2
  <2>2. handled' \in Seq(Carried)
    BY <1>1
  <2>3. Len(intact') = Len(sent') /\ sent' \in Seq(Sendable) /\ sent' # <<>>
    BY <1>1, <1>3 DEF n
  <2>. QED BY <1>3, <2>1, <2>2, <2>3 DEF LinkTyped
<1>5. Underway'
  <2>1. intact'[Len(sent')] = FALSE
    BY <1>1, <1>3 DEF n
  <2>. QED BY <2>1 DEF Underway
<1>6. IntactPackets' = IntactPackets
  <2> DEFINE a == Arrived(sent, intact, line)
             b == Arrived(sent', intact', line')
  <2>1. \A k \in DOMAIN sent : k \in a <=> k \in b
    <3> TAKE k \in DOMAIN sent
    <3>1. CASE k = n
      BY <1>1, <1>2, <1>3, <3>1 DEF Arrived, n
    <3>2. CASE k # n
      BY <1>1, <1>2, <1>3, <3>2 DEF Arrived, n
    <3>. QED BY <3>1, <3>2
  <2> HIDE DEF a, b
  <2>2. Picked(sent, a) = Picked(sent, b)
    BY <1>1, <2>1, PickedSame
  <2>. QED BY <1>1, <2>2, ArrivedIs DEF a, b
<1>7. IntactHandled'
  <2>1. LinkTyped /\ IntactHandled
    BY DEF LinkInv
  <2>. QED BY <1>6, <2>1, Kept
<1>. QED BY <1>4, <1>5, <1>7 DEF LinkInv

LEMMA SpoilSteps == ASSUME LinkInv, Lose \/ Change \/ Add PROVE LinkInv'
<1>1. LinkTyped
  BY DEF LinkInv
<1>2. CASE Lose
  <2>1. Spoil /\ line' = Tail(line) /\ isEsc' = isEsc /\ buf' = buf /\ handled' = handled
    BY <1>2 DEF Lose, deframer
  <2>2. /\ isEsc' \in BOOLEAN /\ buf' \in Seq(Byte) /\ <<>> \in Seq(Carried)
        /\ handled' = handled \o <<>>
    BY <1>1, <2>1, ConcatEmptySeq DEF LinkTyped
  <2>. QED BY <2>1, <2>2, SpoilStep
<1>3. ASSUME NEW v \in Byte, Spoil, ParseByte(v), line' = Tail(line) \/ line' = line PROVE LinkInv'
  <2>1. PICK u \in Seq(Carried) : handled' = handled \o u
    BY <1>1, <1>3, AnyByte
  <2>2. isEsc' \in BOOLEAN /\ buf' \in Seq(Byte)
    BY <1>1, <1>3, AnyByte
  <2>. QED BY <1>3, <2>1, <2>2, SpoilStep
<1>4. CASE Change
  BY <1>3, <1>4, LinkAssumption DEF Change, Byte
<1>5. CASE Add
  BY <1>3, <1>5, LinkAssumption DEF Add, Byte
<1>. QED BY <1>2, <1>4, <1>5

LEMMA CommandStep ==
  ASSUME CrcHasTwoBytes, LinkInv, SendCommand PROVE LinkInv' /\ IntactPackets' = IntactPackets
<1> DEFINE n == Len(sent)
           l == n + 1
<1>0. PICK p \in Packets : /\ Len(p.payload) < 128 /\ sent' = Append(sent, p)
                           /\ line' = createFramed(p)
  BY DEF SendCommand
<1>1. /\ sent \in Seq(Sendable) /\ intact \in Seq(BOOLEAN) /\ Len(intact) = n /\ line = <<>>
      /\ intact' = Append(intact, TRUE) /\ handled' = handled /\ buf' = buf /\ isEsc' = isEsc
      /\ p \in Sendable
  BY <1>0 DEF LinkInv, LinkTyped, SendCommand, deframer, Sendable
<1>2. /\ n \in Nat /\ l \in 1 .. l /\ DOMAIN sent = 1 .. n
      /\ sent' \in Seq(Sendable) /\ Len(sent') = l /\ sent' # <<>> /\ sent'[l] = p /\ DOMAIN sent' = 1 .. l
      /\ \A k \in 1 .. n : k # l /\ k \in 1 .. l /\ sent'[k] = sent[k]
  <2>1. n \in Nat
    BY <1>1
  <2>. QED BY <1>0, <1>1, <2>1
<1>3. /\ intact' \in Seq(BOOLEAN) /\ Len(intact') = l /\ intact'[l] = TRUE
      /\ \A k \in 1 .. n : intact'[k] = intact[k]
  <2>1. /\ intact' \in Seq(BOOLEAN) /\ Len(intact') = Len(intact) + 1
        /\ intact'[Len(intact) + 1] = TRUE
        /\ \A k \in 1 .. Len(intact) : intact'[k] = intact[k]
    BY <1>1, OneMoreTrue
  <2>2. Len(intact) = n /\ l = Len(intact) + 1
    BY <1>1
  <2> HIDE DEF n, l
  <2>. QED BY ONLY <2>1, <2>2, Zenon
<1>4. /\ line' \in Seq(Byte) /\ line' # <<>> /\ Coming(Message(p), line', isEsc', buf')
  BY <1>0, <1>1, FrameComes
<1>n. n = Len(sent)
  OBVIOUS
<1>l. l = Len(sent) + 1
  OBVIOUS
<1> HIDE DEF n, l
<1>5. LinkTyped'
  BY <1>1, <1>2, <1>3, <1>4 DEF LinkInv, LinkTyped
<1>6. Underway'
  <2>1. sent'[Len(sent')] = p
    BY <1>2
  <2>. QED BY <1>4, <2>1 DEF Underway
<1>7. IntactPackets' = IntactPackets
  <2> DEFINE a == Arrived(sent, intact, line)
             b == Arrived(sent', intact', line')
  <2>1. \A k \in DOMAIN sent : k \in a <=> k \in b
    BY <1>1, <1>2, <1>3 DEF Arrived
  <2>2. Len(sent) + 1 \notin b
    BY <1>2, <1>4, <1>l DEF Arrived
  <2> HIDE DEF a, b
  <2>3. Picked(Append(sent, p), b) = Picked(sent, a)
    BY <1>1, <2>1, <2>2, PickedOther
  <2>. QED BY <1>0, <2>3, ArrivedIs DEF a, b
<1>8. IntactHandled'
  <2>1. LinkTyped /\ IntactHandled
    BY DEF LinkInv
  <2>2. <<>> \in Seq(Carried) /\ handled' = handled \o <<>>
    BY <1>1, <2>1, ConcatEmptySeq DEF LinkTyped
  <2>. QED BY <1>7, <2>1, <2>2, Kept
<1>. QED BY <1>5, <1>6, <1>7, <1>8 DEF LinkInv

\* A byte arrives, and what is behind it does not change what has arrived before.
LEMMA ArriveSame ==
  ASSUME LinkInv, Arrive,
         line' # <<>> \/ ~intact[Len(sent)] \/ ~(Len(Message(sent[Len(sent)])) <= MAX_MSG_LEN)
                      \/ ~(sent[Len(sent)].cmd < _NB_OF_CMDS)
  PROVE  IntactPackets' = IntactPackets
<1>1. sent' = sent /\ intact' = intact /\ line # <<>> /\ sent \in Seq(Sendable)
  BY DEF Arrive, LinkInv, LinkTyped
<1> DEFINE a == Arrived(sent, intact, line)
           b == Arrived(sent', intact', line')
           n == Len(sent)
<1>2. \A k \in DOMAIN sent : k \in a <=> k \in b
  <2> TAKE k \in DOMAIN sent
  <2>1. CASE k # n
    BY <1>1, <2>1 DEF Arrived
  <2>2. CASE k = n
    <3>1. k \notin a
      BY <1>1, <2>2 DEF Arrived
    <3>2. k \notin b
      BY <1>1, <2>2 DEF Arrived
    <3>. QED BY <3>1, <3>2
  <2>. QED BY <2>1, <2>2
<1> HIDE DEF a, b
<1>3. Picked(sent, a) = Picked(sent, b)
  BY <1>1, <1>2, PickedSame
<1>. QED BY <1>1, <1>3, ArrivedIs DEF a, b

\* While a frame is under way there is something of it to come.
LEMMA WithinSome ==
  ASSUME NEW m \in Seq(Byte), NEW rest, Tails(m, rest), NEW j \in 0 .. Len(m), NEW ln, NEW es, NEW bf,
         Within(m, rest, j, ln, es, bf)
  PROVE  ln # <<>>
<1>1. CASE ln = rest[j]
  BY <1>1, RestIs
<1>2. ASSUME j > 0, NEW x \in {SLIP_ESC_END, SLIP_ESC_ESC}, ln = <<x>> \o rest[j - 1] PROVE ln # <<>>
  <2> DEFINE t == rest[j - 1]
  <2>1. t \in Seq(Byte)
    <3>1. j - 1 \in 0 .. Len(m)
      BY <1>2
    <3>. QED BY <3>1, RestIs
  <2> HIDE DEF t
  <2>2. x \in Byte /\ ln = <<x>> \o t
    BY <1>2 DEF t, Byte, SLIP_ESC_END, SLIP_ESC_ESC
  <2>. QED BY <2>1, <2>2, HeadTail
<1>. QED BY <1>1, <1>2 DEF Within

\* The last byte of a frame that the car can take arrives.
LEMMA ArriveMore ==
  ASSUME LinkInv, Arrive, line' = <<>>, intact[Len(sent)],
         Len(Message(sent[Len(sent)])) <= MAX_MSG_LEN, sent[Len(sent)].cmd < _NB_OF_CMDS
  PROVE  /\ IntactPackets \in Seq(Carried)
         /\ IntactPackets' = Append(IntactPackets, sent[Len(sent)])
<1> DEFINE a == Arrived(sent, intact, line)
           b == Arrived(sent', intact', line')
           q == Picked(sent, a)
<1>1. /\ sent \in Seq(Sendable) /\ line # <<>> /\ sent # <<>>
      /\ sent' = sent /\ intact' = intact
  BY DEF LinkInv, LinkTyped, Arrive
<1>2. Len(sent) \in Nat /\ Len(sent) \in 1 .. Len(sent)
  BY <1>1
<1>3. \A k \in 1 .. Len(sent) - 1 : k \in a <=> k \in b
  BY <1>1, <1>2 DEF Arrived
<1>4. Len(sent) \notin a
  BY <1>1 DEF Arrived
<1>5. Len(sent) \in b
  BY <1>1, <1>2 DEF Arrived
<1>6. sent \in Seq(Carried)
  BY <1>1, SendableIs
<1> HIDE DEF a, b
<1>7. q \in Seq(Carried) /\ Picked(sent, b) = Append(q, sent[Len(sent)])
  BY <1>1, <1>3, <1>4, <1>5, <1>6, PickedLast
<1>. QED BY <1>1, <1>7, ArrivedIs DEF a, b

LEMMA ArriveStep == ASSUME CrcHasTwoBytes, LinkInv, Arrive PROVE LinkInv'
<1> DEFINE n == Len(sent)
           p == sent[n]
           m == Message(p)
           v == Head(line)
<1>1. /\ sent \in Seq(Sendable) /\ intact \in Seq(BOOLEAN) /\ Len(intact) = n /\ line \in Seq(Byte)
      /\ line # <<>> /\ sent # <<>> /\ handled \in Seq(Carried)
      /\ sent' = sent /\ intact' = intact /\ ParseByte(v) /\ line' = Tail(line)
  BY DEF LinkInv, LinkTyped, Arrive
<1>2. n \in Nat /\ n \in 1 .. n /\ p \in Sendable
  BY <1>1
<1>3. p \in Carried /\ Len(p.payload) < 128
  BY <1>2, SendableIs
<1>4. m \in Seq(Byte) /\ IsValid(m) /\ Packet(m) = p /\ m[1] = p.cmd
  <2> HIDE DEF p
  <2>. QED BY <1>3, MessageIs
<1>5. v \in Byte /\ Tail(line) \in Seq(Byte)
  BY <1>1
<1>6. LinkTyped /\ IntactHandled /\ Underway
  BY DEF LinkInv
<1> HIDE DEF v
<1>7. PICK u \in Seq(Carried) : handled' = handled \o u
  BY <1>1, <1>5, <1>6, AnyByte
<1>8. isEsc' \in BOOLEAN /\ buf' \in Seq(Byte)
  BY <1>1, <1>5, <1>6, AnyByte
<1>9. LinkTyped'
  <2>1. handled' \in Seq(Carried)
    BY <1>1, <1>7
  <2>. QED BY <1>1, <1>5, <1>8, <2>1 DEF LinkTyped
<1> HIDE DEF p, m
<1>10. CASE ~intact[n]
  <2>1. Underway'
    BY <1>1, <1>10 DEF Underway
  <2>2. IntactPackets' = IntactPackets
    BY <1>10, ArriveSame
  <2>3. IntactHandled'
    BY <1>6, <1>7, <2>2, Kept
  <2>. QED BY <1>9, <2>1, <2>3 DEF LinkInv
<1>11. ASSUME NEW rest, Tails(m, rest), NEW i \in 0 .. Len(m), Within(m, rest, i, line', isEsc', buf')
       PROVE  LinkInv'
  <2>1. Coming(m, line', isEsc', buf')
    BY <1>11 DEF Coming
  <2>2. Underway'
    BY <1>1, <2>1 DEF Underway, m, p
  <2>3. line' # <<>>
    BY <1>4, <1>11, WithinSome
  <2>4. IntactPackets' = IntactPackets
    BY <2>3, ArriveSame
  <2>5. IntactHandled'
    BY <1>6, <1>7, <2>4, Kept
  <2>. QED BY <1>9, <2>2, <2>5 DEF LinkInv
<1>12. ASSUME intact[n], NEW rest, Tails(m, rest), Within(m, rest, 0, line, isEsc, buf) PROVE LinkInv'
  <2>1. /\ line' = <<>>
        /\ handled' = IF Len(m) <= MAX_MSG_LEN /\ p.cmd < _NB_OF_CMDS
                        THEN Append(handled, p) ELSE handled
    BY <1>1, <1>4, <1>12, LastByte DEF v
  <2>2. Underway'
    BY <2>1 DEF Underway
  <2>3. CASE ~(Len(m) <= MAX_MSG_LEN /\ p.cmd < _NB_OF_CMDS)
    <3>1. IntactPackets' = IntactPackets
      BY <2>3, ArriveSame DEF m, p
    <3>2. IntactHandled'
      BY <1>6, <1>7, <3>1, Kept
    <3>. QED BY <1>9, <2>2, <3>2 DEF LinkInv
  <2>4. CASE Len(m) <= MAX_MSG_LEN /\ p.cmd < _NB_OF_CMDS
    <3> DEFINE q == IntactPackets
    <3>5. q \in Seq(Carried) /\ IntactPackets' = Append(q, p)
      BY <1>12, <2>1, <2>4, ArriveMore DEF m, p
    <3>6. q = IntactPackets
      OBVIOUS
    <3> HIDE DEF q
    <3>7. IsPartOf(q, handled)
      BY <1>6, <3>6 DEF IntactHandled
    <3>8. IntactPackets' = q \o <<p>> /\ handled' = handled \o <<p>> /\ <<p>> \in Seq(Carried)
      <4>1. IntactPackets' = Append(q, p)
        BY <3>5
      <4>2. Append(q, p) = q \o <<p>> /\ Append(handled, p) = handled \o <<p>>
        BY <1>1, <1>3, <3>5, AppendIsConcat
      <4>3. <<p>> \in Seq(Carried)
        BY <1>3
      <4>. QED BY <2>1, <2>4, <4>1, <4>2, <4>3
    <3> DEFINE last == <<p>>
    <3>9. last \in Seq(Carried)
      BY <3>8
    <3> HIDE DEF last
    <3>10. IsPartOf(q \o last, handled \o last)
      BY <1>1, <3>5, <3>7, <3>9, PartOfBoth
    <3>11. IntactHandled'
      BY <3>8, <3>10 DEF IntactHandled, last
    <3>. QED BY <1>9, <2>2, <3>11 DEF LinkInv
  <2>. QED BY <2>3, <2>4
<1>13. CASE intact[n]
  <2>1. Coming(m, line, isEsc, buf)
    BY <1>1, <1>6, <1>13 DEF Underway, m, p
  <2>2. PICK rest : /\ Tails(m, rest)
                    /\ \/ line = <<SLIP_END>> \o rest[Len(m)]
                       \/ \E j \in 0 .. Len(m) : Within(m, rest, j, line, isEsc, buf)
    BY <2>1 DEF Coming
  <2>3. CASE line = <<SLIP_END>> \o rest[Len(m)]
    <3>1. Within(m, rest, Len(m), line', isEsc', buf')
      BY <1>1, <1>4, <2>2, <2>3, FirstByte DEF v
    <3>2. Len(m) \in 0 .. Len(m)
      BY <1>4
    <3>. QED BY <1>11, <2>2, <3>1, <3>2
  <2>4. ASSUME NEW j \in 1 .. Len(m), Within(m, rest, j, line, isEsc, buf) PROVE LinkInv'
    <3>1. \E i \in 0 .. Len(m) : Within(m, rest, i, line', isEsc', buf')
      BY <1>1, <1>4, <2>2, <2>4, NextByte DEF v
    <3>. QED BY <1>11, <2>2, <3>1
  <2>5. CASE Within(m, rest, 0, line, isEsc, buf)
    BY <1>12, <1>13, <2>2, <2>5
  <2>6. \A j \in 0 .. Len(m) : j = 0 \/ j \in 1 .. Len(m)
    OBVIOUS
  <2>. QED BY <2>2, <2>3, <2>4, <2>5, <2>6
<1>. QED BY <1>10, <1>13

\* Nothing has arrived of nothing.
LEMMA NothingYet == ASSUME sent = <<>> PROVE IntactPackets = <<>>
<1> DEFINE a == Arrived(sent, intact, line)
<1>1. sent \in Seq(Carried) /\ Len(sent) = 0
  OBVIOUS
<1> HIDE DEF a
<1>2. PICK f : PickedUpTo(sent, a, f, Carried) /\ Picked(sent, a) = f[Len(sent)]
  BY <1>1, PickedSteps
<1>3. Picked(sent, a) = <<>>
  BY <1>1, <1>2 DEF PickedUpTo
<1>. QED BY <1>3, ArrivedIs DEF a

LEMMA LinkInit == ASSUME InitLink PROVE LinkInv
<1>1. /\ sent = <<>> /\ intact = <<>> /\ line = <<>> /\ isEsc = FALSE /\ buf = <<>> /\ handled = <<>>
  BY DEF InitLink, InitDeframer
<1>2. LinkTyped
  <2>1. /\ <<>> \in Seq(Sendable) /\ <<>> \in Seq(BOOLEAN) /\ <<>> \in Seq(Byte)
        /\ <<>> \in Seq(Carried)
    OBVIOUS
  <2>2. FALSE \in BOOLEAN
    OBVIOUS
  <2>. QED BY <1>1, <2>1, <2>2, Zenon DEF LinkTyped
<1>3. Underway
  BY <1>1 DEF Underway
<1>4. IntactHandled
  <2>1. <<>> \in Seq(Carried)
    OBVIOUS
  <2>. QED BY <1>1, <2>1, NothingYet, PartOfItself DEF IntactHandled
<1>. QED BY <1>2, <1>3, <1>4 DEF LinkInv

LEMMA LinkStays == ASSUME LinkInv, UNCHANGED linkVars PROVE LinkInv'
<1>1. UNCHANGED <<sent, intact, line, isEsc, buf, handled>>
  BY DEF linkVars, deframer
<1>2. LinkTyped'
  BY <1>1 DEF LinkInv, LinkTyped
<1>3. Underway'
  BY <1>1 DEF LinkInv, Underway
<1>4. IntactHandled'
  BY <1>1 DEF LinkInv, IntactHandled, IntactPackets
<1>. QED BY <1>2, <1>3, <1>4 DEF LinkInv

THEOREM LinkInvariance == ASSUME CrcHasTwoBytes PROVE LinkSpec => []LinkInv
<1>1. InitLink => LinkInv
  BY LinkInit
<1>2. ASSUME LinkInv, [LinkNext]_linkVars PROVE LinkInv'
  BY <1>2, CommandStep, ArriveStep, SpoilSteps, LinkStays DEF LinkNext
<1>. QED BY <1>1, <1>2, PTL DEF LinkSpec

\* Every frame of a command that arrives unspoilt, fits the buffer of the car and
\* has a command that it knows is handled, in the order in which they were sent,
\* whatever has become of the others: for every set of packets, every loss, noise
\* and glitch on the line, and every checksum of two bytes.
THEOREM Intact == ASSUME CrcHasTwoBytes PROVE LinkSpec => []IntactHandled
<1>1. LinkInv => IntactHandled
  BY DEF LinkInv
<1>. QED BY <1>1, LinkInvariance, PTL

\* What is picked is part of the sequence.
LEMMA PickedIsPart ==
  ASSUME NEW S, NEW s \in Seq(S), NEW a
  PROVE  IsPartOf(Picked(s, a), s)
<1> DEFINE n == Len(s)
           Up(i) == SubSeq(s, 1, i)
<1>1. PICK f : PickedUpTo(s, a, f, S) /\ Picked(s, a) = f[n]
  BY PickedSteps
<1>2. n \in Nat
  OBVIOUS
<1>3. /\ \A i \in 0 .. n : f[i] \in Seq(S)
      /\ f[0] = <<>>
      /\ \A i \in 1 .. n : f[i] = IF i \in a THEN Append(f[i - 1], s[i]) ELSE f[i - 1]
  BY <1>1 DEF PickedUpTo
<1>4. \A i \in 0 .. n : Up(i) \in Seq(S)
  BY <1>2
<1>5. \A i \in 1 .. n : s[i] \in S /\ Up(i) = Up(i - 1) \o <<s[i]>>
  <2> TAKE i \in 1 .. n
  <2> DEFINE k == i - 1
             u == SubSeq(s, 1, k)
             v == SubSeq(s, 1, i)
             c == Append(u, s[i])
  <2>1. k \in Nat /\ k + 1 = i /\ i <= n /\ s[i] \in S
    BY <1>2
  <2>2. u \in Seq(S) /\ Len(u) = k /\ \A j \in 1 .. k : u[j] = s[j]
    BY <1>2
  <2>3. v \in Seq(S) /\ Len(v) = i /\ \A j \in 1 .. i : v[j] = s[j]
    BY <1>2
  <2>c. c = Append(u, s[i])
    OBVIOUS
  <2> HIDE DEF k, u, v, c
  <2>4. c \in Seq(S) /\ Len(c) = i /\ \A j \in 1 .. i : c[j] = IF j = i THEN s[i] ELSE u[j]
    BY <2>1, <2>2, <2>c
  <2>5. \A j \in 1 .. i : c[j] = v[j]
    <3> TAKE j \in 1 .. i
    <3>1. j # i => j \in 1 .. k
      BY <2>1
    <3>. QED BY <2>2, <2>3, <2>4, <3>1
  <2>6. c = v
    BY <2>3, <2>4, <2>5, SeqEqual
  <2>7. c = u \o <<s[i]>>
    BY <2>1, <2>2, <2>c, AppendIsConcat
  <2>. QED BY <2>1, <2>6, <2>7 DEF u, v, k
<1>6. Up(0) = <<>> /\ Up(n) = s
  <2>1. Up(0) = <<>>
    OBVIOUS
  <2>2. Up(n) \in Seq(S) /\ Len(Up(n)) = Len(s) /\ \A j \in 1 .. Len(s) : Up(n)[j] = s[j]
    BY <1>2
  <2>3. Up(n) = s
    <3> DEFINE w == Up(n)
    <3>1. w \in Seq(S) /\ Len(w) = Len(s) /\ \A j \in 1 .. Len(w) : w[j] = s[j]
      BY <2>2
    <3> HIDE DEF w
    <3>2. w = s
      BY <3>1, SeqEqual
    <3>. QED BY <3>2 DEF w
  <2>. QED BY <2>1, <2>3
<1> HIDE DEF Up, n
<1> DEFINE T == {i \in Nat : i <= n => IsPartOf(f[i], Up(i))}
<1>7. 0 \in T
  <2>1. <<>> \in Seq(S)
    OBVIOUS
  <2>2. IsPartOf(<<>>, <<>>)
    BY <2>1, PartOfItself
  <2>. QED BY <1>3, <1>6, <2>2
<1>8. ASSUME NEW i \in Nat, i \in T PROVE i + 1 \in T
  <2> SUFFICES ASSUME i + 1 <= n PROVE IsPartOf(f[i + 1], Up(i + 1))
    OBVIOUS
  <2> DEFINE j == i + 1
             e == s[j]
             one == <<e>>
             g == f[i]
             u == Up(i)
  <2>1. j \in 1 .. n /\ j - 1 = i /\ i \in 0 .. n /\ IsPartOf(g, u)
    BY <1>2, <1>8
  <2>2. g \in Seq(S) /\ u \in Seq(S) /\ e \in S
    BY <1>3, <1>4, <1>5, <2>1
  <2>3. Up(j) = u \o one /\ (f[j] = Append(g, e) \/ f[j] = g)
    BY <1>3, <1>5, <2>1
  <2> HIDE DEF j, e, g, u
  <2>4. one \in Seq(S) /\ Append(g, e) = g \o one
    BY <2>2, AppendIsConcat
  <2> HIDE DEF one
  <2>5. IsPartOf(g \o one, u \o one)
    BY <2>1, <2>2, <2>4, PartOfBoth
  <2>6. IsPartOf(g, u \o one)
    BY <2>1, <2>2, <2>4, PartOfLonger
  <2>7. IsPartOf(f[j], Up(j))
    BY <2>3, <2>4, <2>5, <2>6
  <2>. QED BY <2>7 DEF j
<1>9. n \in T
  <2> HIDE DEF T
  <2>1. Nat \subseteq T
    BY <1>7, <1>8, NatSet
  <2>. QED BY <1>2, <2>1
<1>10. n <= n
  BY <1>2
<1>. QED BY <1>1, <1>6, <1>9, <1>10

-----------------------------------------------------------------------------
(* A line that leaves the frames alone.                                    *)

Undisturbed == Lossy = FALSE /\ Noise = {} /\ Glitches = {}

\* Every frame comes after a SLIP_END that has emptied the buffer.
Begun ==
  IF line = <<>> THEN buf = <<>>
  ELSE LET m == Message(sent[Len(sent)])
       IN  \E rest : /\ Tails(m, rest)
                     /\ \/ line = <<SLIP_END>> \o rest[Len(m)] /\ buf = <<>>
                        \/ \E j \in 0 .. Len(m) : Within(m, rest, j, line, isEsc, buf)

AllIntact == \A k \in 1 .. Len(sent) : intact[k] = TRUE

ExactInv == LinkInv /\ Begun /\ AllIntact /\ handled = IntactPackets

LEMMA ExactCommand == ASSUME CrcHasTwoBytes, ExactInv, SendCommand PROVE ExactInv'
<1>1. LinkInv /\ LinkTyped /\ line = <<>> /\ buf = <<>> /\ handled = IntactPackets
  BY DEF ExactInv, LinkInv, Begun, SendCommand
<1>2. LinkInv' /\ IntactPackets' = IntactPackets
  BY <1>1, CommandStep
<1> DEFINE n == Len(sent)
           l == n + 1
<1>0. PICK p \in Packets : /\ Len(p.payload) < 128 /\ sent' = Append(sent, p)
                           /\ line' = createFramed(p)
  BY DEF SendCommand
<1>3. p \in Sendable /\ intact' = Append(intact, TRUE) /\ UNCHANGED <<buf, isEsc, handled>>
  BY <1>0 DEF SendCommand, deframer, Sendable
<1>4. Len(sent') = l /\ sent'[l] = p /\ n \in Nat /\ Len(intact) = n /\ intact \in Seq(BOOLEAN)
  BY <1>0, <1>1, <1>3 DEF LinkTyped
<1>5. Begun'
  <2>1. line' # <<>>
    BY <1>0, <1>3, FrameComes
  <2>2. PICK rest : /\ Tails(Message(p), rest)
                    /\ line' = <<SLIP_END>> \o rest[Len(Message(p))]
    BY <1>0, <1>3, FrameComes
  <2>3. Message(sent'[Len(sent')]) = Message(p) /\ buf' = <<>>
    BY <1>1, <1>3, <1>4
  <2>. QED BY <2>1, <2>2, <2>3 DEF Begun
<1>6. AllIntact'
  <2>1. /\ intact'[Len(intact) + 1] = TRUE
        /\ \A k \in 1 .. Len(intact) : intact'[k] = intact[k]
    BY <1>3, <1>4, OneMoreTrue
  <2>2. \A k \in 1 .. Len(sent') : k \in 1 .. Len(intact) \/ k = Len(intact) + 1
    BY <1>4
  <2>3. \A k \in 1 .. Len(intact) : intact[k] = TRUE
    BY <1>4 DEF ExactInv, AllIntact
  <2>. QED BY ONLY <2>1, <2>2, <2>3, Zenon DEF AllIntact
<1>. QED BY <1>1, <1>2, <1>3, <1>5, <1>6 DEF ExactInv

LEMMA ExactArrive == ASSUME CrcHasTwoBytes, ExactInv, Arrive PROVE ExactInv'
<1> DEFINE n == Len(sent)
           p == sent[n]
           m == Message(p)
           v == Head(line)
<1>1. /\ LinkInv /\ sent \in Seq(Sendable) /\ line # <<>> /\ sent # <<>>
      /\ sent' = sent /\ intact' = intact /\ ParseByte(v) /\ line' = Tail(line)
      /\ handled = IntactPackets /\ AllIntact
  BY DEF ExactInv, LinkInv, LinkTyped, Arrive
<1>2. n \in Nat /\ n \in 1 .. n /\ p \in Sendable
  BY <1>1
<1>3. m \in Seq(Byte) /\ IsValid(m) /\ Packet(m) = p /\ m[1] = p.cmd
  <2>1. p \in Carried /\ Len(p.payload) < 128
    BY <1>2, SendableIs
  <2> HIDE DEF p
  <2>. QED BY <2>1, MessageIs
<1>4. LinkInv'
  BY <1>1, ArriveStep
<1>5. AllIntact' /\ intact[n]
  BY <1>1, <1>2 DEF AllIntact
<1>6. PICK rest : /\ Tails(m, rest)
                  /\ \/ line = <<SLIP_END>> \o rest[Len(m)] /\ buf = <<>>
                     \/ \E j \in 0 .. Len(m) : Within(m, rest, j, line, isEsc, buf)
  BY <1>1 DEF ExactInv, Begun
<1> HIDE DEF v, m, p, n
<1>7. ASSUME handled' = handled, NEW i \in 0 .. Len(m), Within(m, rest, i, line', isEsc', buf')
      PROVE  ExactInv'
  <2>1. line' # <<>>
    BY <1>3, <1>6, <1>7, WithinSome
  <2>2. Begun'
    BY <1>1, <1>6, <1>7, <2>1 DEF Begun, m, p, n
  <2>3. IntactPackets' = IntactPackets
    BY <1>1, <2>1, ArriveSame
  <2>. QED BY <1>1, <1>4, <1>5, <1>7, <2>2, <2>3 DEF ExactInv
<1>8. CASE line = <<SLIP_END>> \o rest[Len(m)] /\ buf = <<>>
  <2>1. Within(m, rest, Len(m), line', isEsc', buf') /\ handled' = handled
    BY <1>1, <1>3, <1>6, <1>8, FirstByte DEF v
  <2>2. Len(m) \in 0 .. Len(m)
    BY <1>3
  <2>. QED BY <1>7, <2>1, <2>2
<1>9. ASSUME NEW j \in 1 .. Len(m), Within(m, rest, j, line, isEsc, buf) PROVE ExactInv'
  <2>1. (\E i \in 0 .. Len(m) : Within(m, rest, i, line', isEsc', buf')) /\ handled' = handled
    BY <1>1, <1>3, <1>6, <1>9, NextByte DEF v
  <2>. QED BY <1>7, <2>1
<1>10. CASE Within(m, rest, 0, line, isEsc, buf)
  <2>1. /\ line' = <<>> /\ buf' = <<>>
        /\ handled' = IF Len(m) <= MAX_MSG_LEN /\ p.cmd < _NB_OF_CMDS
                        THEN Append(handled, p) ELSE handled
    BY <1>1, <1>3, <1>6, <1>10, LastByte DEF v
  <2>2. Begun'
    BY <2>1 DEF Begun
  <2>3. handled' = IntactPackets'
    <3>1. CASE Len(m) <= MAX_MSG_LEN /\ p.cmd < _NB_OF_CMDS
      <4>1. IntactPackets' = Append(IntactPackets, p)
        BY <1>1, <1>5, <2>1, <3>1, ArriveMore DEF m, p, n
      <4>. QED BY <1>1, <2>1, <3>1, <4>1
    <3>2. CASE ~(Len(m) <= MAX_MSG_LEN /\ p.cmd < _NB_OF_CMDS)
      <4>1. IntactPackets' = IntactPackets
        BY <1>1, <3>2, ArriveSame DEF m, p, n
      <4>. QED BY <1>1, <2>1, <3>2, <4>1
    <3>. QED BY <3>1, <3>2
  <2>. QED BY <1>4, <1>5, <2>2, <2>3 DEF ExactInv
<1>11. \A j \in 0 .. Len(m) : j = 0 \/ j \in 1 .. Len(m)
  BY <1>3
<1>. QED BY <1>6, <1>8, <1>9, <1>10, <1>11

\* A line that leaves the frames alone carries out what the phone has sent: the car has
\* handled exactly the packets that have arrived, fit its buffer and have a
\* command that it knows, and so nothing but what was sent, without exception.
THEOREM Exact ==
  ASSUME CrcHasTwoBytes, Undisturbed
  PROVE  LinkSpec => [](handled = IntactPackets /\ DataIntegrity /\ OnlySentHandled)
<1>1. InitLink => ExactInv
  <2> SUFFICES ASSUME InitLink PROVE ExactInv
    OBVIOUS
  <2>1. sent = <<>> /\ line = <<>> /\ buf = <<>> /\ handled = <<>>
    BY DEF InitLink, InitDeframer
  <2>2. LinkInv
    BY LinkInit
  <2>3. Begun
    BY <2>1 DEF Begun
  <2>4. AllIntact
    <3>1. Len(sent) = 0
      BY <2>1
    <3>. QED BY <3>1 DEF AllIntact
  <2>5. handled = IntactPackets
    BY <2>1, NothingYet
  <2>. QED BY <2>2, <2>3, <2>4, <2>5 DEF ExactInv
<1>2. ASSUME ExactInv, UNCHANGED linkVars PROVE ExactInv'
  <2>1. UNCHANGED <<sent, intact, line, isEsc, buf, handled>>
    BY <1>2 DEF linkVars, deframer
  <2>2. LinkInv'
    BY <1>2, LinkStays DEF ExactInv
  <2>3. Begun' /\ AllIntact'
    BY <1>2, <2>1 DEF ExactInv, Begun, AllIntact
  <2>4. handled' = IntactPackets'
    BY <1>2, <2>1 DEF ExactInv, IntactPackets
  <2>. QED BY <2>2, <2>3, <2>4 DEF ExactInv
<1>3. ~Lose /\ ~Change /\ ~Add
  BY DEF Undisturbed, Lose, Change, Add
<1>4. ASSUME ExactInv, [LinkNext]_linkVars PROVE ExactInv'
  BY <1>2, <1>3, <1>4, ExactCommand, ExactArrive DEF LinkNext
<1>5. ExactInv => handled = IntactPackets /\ DataIntegrity /\ OnlySentHandled
  <2> SUFFICES ASSUME ExactInv PROVE handled = IntactPackets /\ DataIntegrity /\ OnlySentHandled
    OBVIOUS
  <2>1. handled = IntactPackets /\ sent \in Seq(Sendable)
    BY DEF ExactInv, LinkInv, LinkTyped
  <2> DEFINE a == Arrived(sent, intact, line)
  <2>2. IntactPackets = Picked(sent, a)
    BY ArrivedIs
  <2> HIDE DEF a
  <2>3. IsPartOf(Picked(sent, a), sent)
    BY <2>1, PickedIsPart
  <2>4. DataIntegrity
    BY <2>1, <2>2, <2>3 DEF DataIntegrity
  <2>5. OnlySentHandled
    BY <2>4 DEF DataIntegrity, IsPartOf, OnlySentHandled
  <2>. QED BY <2>1, <2>4, <2>5
<1>. QED BY <1>1, <1>4, <1>5, PTL DEF LinkSpec
=============================================================================

-------------------------- MODULE RingIndexProofs ---------------------------
(***************************************************************************)
(* What the counters and the positions of a ring do, for every size.       *)
(***************************************************************************)
EXTENDS RingIndex, SequenceTheorems, TLAPS

\* The counters stay in their range, and the count follows them by one as
\* long as it neither is empty nor reaches the wrap.
LEMMA Counters ==
  ASSUME NEW m \in 0 .. Wrap - 1, NEW n \in 0 .. Wrap - 1
  PROVE  /\ Inc(m) \in 0 .. Wrap - 1 /\ Inc(m) \in Nat /\ m \in Nat /\ n \in Nat
         /\ Minus(m, n) \in 0 .. Wrap - 1 /\ Minus(m, n) \in Nat
         /\ Minus(m, n) = 0 <=> m = n
         /\ Minus(m, n) < Wrap - 1 => Minus(Inc(m), n) = Minus(m, n) + 1
         /\ Minus(m, n) > 0 => Minus(m, Inc(n)) = Minus(m, n) - 1
  BY SizeAssumption DEF Inc, Minus

\* A slot is a position of the ring.
LEMMA SlotRange == \A n \in Nat : Slot(n) \in 0 .. Size - 1
  BY SizeAssumption DEF Slot

-----------------------------------------------------------------------------
(* Positions.  The provers know little of % with a symbolic divisor, so    *)
(* its quotient is made explicit.                                          *)

LEMMA Quotient ==
  ASSUME NEW N \in Nat \ {0}, NEW a \in Int
  PROVE  \E q \in Int : a = N * q + (a % N) /\ a % N \in 0 .. N - 1
<1>1. a = N * (a \div N) + (a % N) /\ a % N \in 0 .. N - 1 /\ a \div N \in Int
  OBVIOUS
<1>. QED BY <1>1

LEMMA Multiples ==
  ASSUME NEW N \in Nat \ {0}, NEW q \in Int, NEW r \in Int, r > q
  PROVE  N * r >= N * q + N /\ N * r \in Int /\ N * q \in Int
<1>1. N * r >= N * q + N
  OBVIOUS
<1>2. N * r \in Int /\ N * q \in Int
  OBVIOUS
<1>. QED BY <1>1, <1>2

\* Numbers less than N apart have different remainders.
LEMMA Apart ==
  ASSUME NEW N \in Nat \ {0}, NEW a \in Int, NEW b \in Int, a < b, b < a + N
  PROVE  a % N # b % N
<1> SUFFICES ASSUME a % N = b % N PROVE FALSE
  OBVIOUS
<1>1. PICK q \in Int : a = N * q + (a % N) /\ a % N \in 0 .. N - 1
  BY Quotient
<1>2. PICK r \in Int : b = N * r + (b % N) /\ b % N \in 0 .. N - 1
  BY Quotient
<1>3. CASE q < r
  <2>1. N * r >= N * q + N /\ N * r \in Int /\ N * q \in Int
    BY <1>3, Multiples
  <2>. QED BY <1>1, <1>2, <2>1
<1>4. CASE q = r
  BY <1>1, <1>2, <1>4
<1>5. CASE r < q
  <2>1. N * q >= N * r + N /\ N * r \in Int /\ N * q \in Int
    BY <1>5, Multiples
  <2>. QED BY <1>1, <1>2, <2>1
<1>. QED BY <1>3, <1>4, <1>5

\* A multiple of N can be left out.
LEMMA Shifted ==
  ASSUME NEW N \in Nat \ {0}, NEW M \in Nat, M % N = 0, NEW a \in Int
  PROVE  (a - M) % N = a % N
<1>1. PICK m \in Int : M = N * m
  <2>1. M \in Int
    OBVIOUS
  <2>2. PICK k \in Int : M = N * k + (M % N)
    BY <2>1, Quotient
  <2>3. M = N * k + 0 /\ N * k \in Int
    BY <2>2
  <2>4. M = N * k
    BY <2>3
  <2>. QED BY <2>4
<1>2. PICK q \in Int : a = N * q + (a % N) /\ a % N \in 0 .. N - 1
  BY Quotient
<1>3. PICK r \in Int : a - M = N * r + ((a - M) % N) /\ (a - M) % N \in 0 .. N - 1
  <2>1. a - M \in Int
    OBVIOUS
  <2>. QED BY <2>1, Quotient
<1>4. PICK s \in Int : s = q - m
  BY <1>1, <1>2
<1>5. N * s = N * q - N * m /\ N * s \in Int /\ N * q \in Int /\ N * m \in Int
  BY <1>1, <1>2, <1>4
<1>9. a - M = N * s + (a % N)
  BY <1>1, <1>2, <1>5
<1>6. CASE s < r
  <2>1. N * r >= N * s + N /\ N * r \in Int
    BY <1>5, <1>6, Multiples
  <2>. QED BY <1>2, <1>3, <1>5, <1>9, <2>1
<1>7. CASE s = r
  BY <1>2, <1>3, <1>5, <1>7, <1>9
<1>8. CASE r < s
  <2>1. N * s >= N * r + N /\ N * r \in Int
    BY <1>5, <1>8, Multiples
  <2>. QED BY <1>2, <1>3, <1>5, <1>9, <2>1
<1>. QED BY <1>4, <1>6, <1>7, <1>8

\* The next slot to be filled is the one behind the contents, also after "in"
\* has wrapped and "out" has not.
LEMMA NextSlot ==
  ASSUME NEW m \in 0 .. Wrap - 1, NEW n \in 0 .. Wrap - 1
  PROVE  Slot(n + Minus(m, n)) = Slot(m)
<1>1. CASE m >= n
  BY <1>1 DEF Minus
<1>2. CASE m < n
  <2>1. n + Minus(m, n) = m + Wrap /\ m + Wrap \in Int /\ m = (m + Wrap) - Wrap
    BY <1>2, SizeAssumption DEF Minus
  <2>2. ((m + Wrap) - Wrap) % Size = (m + Wrap) % Size
    BY <2>1, Shifted, SizeAssumption
  <2>. QED BY <2>1, <2>2 DEF Slot
<1>. QED BY <1>1, <1>2

\* A counter that wraps goes on to the next slot.
LEMMA IncSlot ==
  ASSUME NEW n \in 0 .. Wrap - 1, NEW k \in Nat
  PROVE  Slot(Inc(n) + k) = Slot(n + 1 + k)
<1>1. CASE n + 1 = Wrap
  <2>1. Inc(n) + k = (n + 1 + k) - Wrap /\ n + 1 + k \in Int
    BY <1>1, SizeAssumption DEF Inc
  <2>. QED BY <2>1, Shifted, SizeAssumption DEF Slot
<1>2. CASE n + 1 # Wrap
  BY <1>2 DEF Inc
<1>. QED BY <1>1, <1>2

-----------------------------------------------------------------------------
(* Contents.                                                               *)

LEMMA ContentsLen ==
  ASSUME NEW buf, NEW m \in 0 .. Wrap - 1, NEW n \in 0 .. Wrap - 1
  PROVE  Len(Contents(buf, m, n)) = Minus(m, n)
<1>1. Minus(m, n) \in Nat
  BY Counters
<1>. QED BY <1>1 DEF Contents

\* The contents are a sequence with as many bytes as the counters say.
LEMMA ContentsShape ==
  ASSUME NEW S, NEW buf \in [0 .. Size - 1 -> S],
         NEW m \in 0 .. Wrap - 1, NEW n \in 0 .. Wrap - 1
  PROVE  /\ Contents(buf, m, n) \in Seq(S)
         /\ Len(Contents(buf, m, n)) = Minus(m, n)
<1>1. Minus(m, n) \in Nat /\ n \in Nat
  BY Counters
<1>2. \A k \in 1 .. Minus(m, n) : n + k - 1 \in Nat
  BY <1>1
<1>3. \A k \in 1 .. Minus(m, n) : buf[Slot(n + k - 1)] \in S
  BY <1>2, SlotRange
<1>. QED BY <1>1, <1>3 DEF Contents

\* Writing the next slot to be filled leaves the contents alone.
LEMMA WriteFree ==
  ASSUME NEW m \in 0 .. Wrap - 1, NEW n \in 0 .. Wrap - 1, Minus(m, n) < Size,
         NEW buf, NEW new,
         \A s \in 0 .. Size - 1 : s # Slot(m) => new[s] = buf[s]
  PROVE  Contents(new, m, n) = Contents(buf, m, n)
<1>1. Minus(m, n) \in Nat /\ n \in Nat /\ m \in Nat
  BY Counters, SizeAssumption
<1>2. ASSUME NEW k \in 1 .. Minus(m, n)
      PROVE  new[Slot(n + k - 1)] = buf[Slot(n + k - 1)]
  <2>1. n + k - 1 \in Nat /\ n + k - 1 < n + Minus(m, n)
        /\ n + Minus(m, n) < (n + k - 1) + Size /\ n + Minus(m, n) \in Int
    BY <1>1, SizeAssumption
  <2>2. Slot(n + k - 1) # Slot(n + Minus(m, n))
    <3> DEFINE x == n + k - 1
               y == n + Minus(m, n)
    <3>1. x \in Int /\ y \in Int /\ x < y /\ y < x + Size
      BY <2>1
    <3> HIDE DEF x, y
    <3>2. x % Size # y % Size
      BY <3>1, Apart, SizeAssumption
    <3>. QED BY <3>2 DEF Slot, x, y
  <2>3. Slot(n + k - 1) \in 0 .. Size - 1
    BY <2>1, SlotRange
  <2>. QED BY <2>2, <2>3, NextSlot
<1>. QED BY <1>2 DEF Contents

\* Counting the slot that follows the contents appends its byte.
LEMMA CountIn ==
  ASSUME NEW S, NEW buf \in [0 .. Size - 1 -> S],
         NEW m \in 0 .. Wrap - 1, NEW n \in 0 .. Wrap - 1, Minus(m, n) < Size
  PROVE  Contents(buf, Inc(m), n) = Append(Contents(buf, m, n), buf[Slot(m)])
<1> DEFINE before == Contents(buf, m, n)
           after == Contents(buf, Inc(m), n)
<1>1. PICK c \in Nat : c = Minus(m, n) /\ Minus(Inc(m), n) = c + 1
  <2>1. Minus(m, n) \in Nat /\ Minus(m, n) < Wrap - 1
    BY Counters, SizeAssumption
  <2>. QED BY <2>1, Counters
<1>2. Inc(m) \in 0 .. Wrap - 1 /\ m \in Nat /\ n \in Nat
  BY Counters, SizeAssumption
<1>3. /\ before \in Seq(S) /\ Len(before) = c
      /\ \A k \in 1 .. c : before[k] = buf[Slot(n + k - 1)]
  BY <1>1, ContentsShape DEF Contents
<1>4. /\ after \in Seq(S) /\ Len(after) = c + 1
      /\ \A k \in 1 .. c + 1 : after[k] = buf[Slot(n + k - 1)]
  <2>1. after \in Seq(S) /\ Len(after) = Minus(Inc(m), n)
    BY <1>2, ContentsShape
  <2>. QED BY <1>1, <2>1 DEF Contents
<1>5. buf[Slot(m)] \in S
  BY <1>2, SlotRange
<1>6. after[c + 1] = buf[Slot(m)]
  <2>1. n + (c + 1) - 1 = n + Minus(m, n) /\ c + 1 \in 1 .. c + 1
    BY <1>1, <1>2
  <2>2. after[c + 1] = buf[Slot(n + Minus(m, n))]
    BY <1>4, <2>1
  <2>. QED BY <2>2, NextSlot
<1> HIDE DEF before, after
<1>7. /\ Append(before, buf[Slot(m)]) \in Seq(S)
      /\ Len(Append(before, buf[Slot(m)])) = c + 1
      /\ \A k \in 1 .. c : Append(before, buf[Slot(m)])[k] = before[k]
      /\ Append(before, buf[Slot(m)])[c + 1] = buf[Slot(m)]
  BY <1>3, <1>5, AppendProperties
<1>8. \A k \in 1 .. c + 1 : after[k] = Append(before, buf[Slot(m)])[k]
  <2> TAKE k \in 1 .. c + 1
  <2>1. CASE k \in 1 .. c
    BY <1>3, <1>4, <1>7, <2>1
  <2>2. CASE k = c + 1
    BY <1>6, <1>7, <2>2
  <2>3. k \in 1 .. c \/ k = c + 1
    BY <1>1
  <2>. QED BY <2>1, <2>2, <2>3
<1>9. after = Append(before, buf[Slot(m)])
  BY <1>4, <1>7, <1>8, SeqEqual
<1>. QED BY <1>9 DEF before, after

\* Counting a byte out takes it from the front of the contents.
LEMMA CountOut ==
  ASSUME NEW S, NEW buf \in [0 .. Size - 1 -> S],
         NEW m \in 0 .. Wrap - 1, NEW n \in 0 .. Wrap - 1, Minus(m, n) > 0
  PROVE  /\ Contents(buf, m, n) # <<>>
         /\ Head(Contents(buf, m, n)) = buf[Slot(n)]
         /\ Tail(Contents(buf, m, n)) = Contents(buf, m, Inc(n))
<1> DEFINE before == Contents(buf, m, n)
           after == Contents(buf, m, Inc(n))
<1>1. PICK c \in Nat : c + 1 = Minus(m, n) /\ Minus(m, Inc(n)) = c
  <2>1. Minus(m, n) \in Nat /\ Minus(m, Inc(n)) = Minus(m, n) - 1
    BY Counters, SizeAssumption
  <2>. QED BY <2>1
<1>2. Inc(n) \in 0 .. Wrap - 1 /\ Inc(n) \in Nat /\ n \in Nat
  BY Counters, SizeAssumption
<1>3. /\ before \in Seq(S) /\ Len(before) = c + 1
      /\ \A k \in 1 .. c + 1 : before[k] = buf[Slot(n + k - 1)]
  <2>1. before \in Seq(S) /\ Len(before) = Minus(m, n)
    BY ContentsShape
  <2>. QED BY <1>1, <2>1 DEF Contents
<1>4. /\ after \in Seq(S) /\ Len(after) = c
      /\ \A k \in 1 .. c : after[k] = buf[Slot(Inc(n) + k - 1)]
  <2>1. after \in Seq(S) /\ Len(after) = Minus(m, Inc(n))
    BY <1>2, ContentsShape
  <2>. QED BY <1>1, <2>1 DEF Contents
<1>5. before[1] = buf[Slot(n)]
  <2>1. n + 1 - 1 = n /\ 1 \in 1 .. c + 1
    BY <1>1, <1>2
  <2>. QED BY <1>3, <2>1
<1>6. ASSUME NEW k \in 1 .. c
      PROVE  before[k + 1] = after[k]
  <2>1. k + 1 \in 1 .. c + 1 /\ k - 1 \in Nat
        /\ n + (k + 1) - 1 = n + 1 + (k - 1) /\ Inc(n) + (k - 1) = Inc(n) + k - 1
    BY <1>1, <1>2
  <2>2. Slot(Inc(n) + (k - 1)) = Slot(n + 1 + (k - 1))
    BY <2>1, IncSlot
  <2>3. before[k + 1] = buf[Slot(n + (k + 1) - 1)]
    BY <1>3, <2>1
  <2>. QED BY <1>4, <2>1, <2>2, <2>3
<1> HIDE DEF before, after
<1>7. before # <<>> /\ Head(before) = before[1]
  BY <1>3
<1>8. /\ Tail(before) \in Seq(S) /\ Len(Tail(before)) = c
      /\ \A k \in 1 .. c : Tail(before)[k] = before[k + 1]
  BY <1>3, <1>7, HeadTailProperties
<1>9. Tail(before) = after
  BY <1>4, <1>6, <1>8, SeqEqual
<1>. QED BY <1>5, <1>7, <1>9 DEF before, after

=============================================================================

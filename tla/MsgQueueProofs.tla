--------------------------- MODULE MsgQueueProofs ---------------------------
(***************************************************************************)
(* The input queue for every size of the ring and every wrap of its        *)
(* counters.                                                               *)
(*                                                                         *)
(* The parser never looks at "in": what makes its reads safe is that the   *)
(* snapshot "end" is at most as far ahead of "out" as "in" is, whether or  *)
(* not "in" has wrapped since (SnapshotOK), and that the interrupt never   *)
(* fills more slots than there are (NeverOverfull).                        *)
(***************************************************************************)
EXTENDS MsgQueue, RingIndexProofs

\* While out is below the snapshot the bytes up to the snapshot are there.
SnapshotOK == pc # "idle" /\ out < end => Minus(end, out) <= Count

\* Inside the loop its test still holds.
LoopOK == pc \in {"take", "count"} => out < end

IInv == TypeOK /\ NeverOverfull /\ SnapshotOK /\ LoopOK

\* When the byte is read before it is counted, the byte loaded is the oldest
\* one until it has been counted.
LoadedOK ==
  /\ pc # "load"
  /\ pc = "count" => Waiting # <<>> /\ Head(Waiting) = value

-----------------------------------------------------------------------------
LEMMA TypeInit == Init => TypeOK
<1> SUFFICES ASSUME Init PROVE TypeOK
  OBVIOUS
<1>1. 0 \in 0 .. Wrap - 1
  BY SizeAssumption
<1>2. buf \in [0 .. Size - 1 -> Byte \cup {NoByte}]
  BY DEF Init
<1>. QED BY <1>1, <1>2 DEF Init, TypeOK, PC

LEMMA TypeStep ==
  ASSUME TypeOK, [Next]_vars
  PROVE  TypeOK'
<1> USE DEF TypeOK, PC, ring, receiver, parser
<1>a. /\ Inc(in) \in 0 .. Wrap - 1 /\ Inc(out) \in 0 .. Wrap - 1
      /\ Slot(in) \in 0 .. Size - 1 /\ Slot(out) \in 0 .. Size - 1
      /\ Slot(Dec(out)) \in 0 .. Size - 1
  <2>1. in \in Nat /\ out \in Nat /\ Dec(out) \in Nat
    BY SizeAssumption DEF Dec
  <2>2. /\ Slot(in) \in 0 .. Size - 1 /\ Slot(out) \in 0 .. Size - 1
        /\ Slot(Dec(out)) \in 0 .. Size - 1
    BY <2>1, SlotRange
  <2>. QED BY <2>2, Counters
<1>1. CASE Arrive
  BY <1>1 DEF Arrive
<1>2. CASE IsrStore
  <2>1. buf' \in [0 .. Size - 1 -> Byte \cup {NoByte}]
    BY <1>2, <1>a DEF IsrStore
  <2>. QED BY <1>2, <1>a, <2>1 DEF IsrStore
<1>3. CASE Start \/ Loop \/ Leave \/ Switch
  BY <1>3 DEF Start, Loop, Leave, Switch, Main
<1>4. CASE Load \/ CountOne \/ CountEarly \/ LoadLate
  BY <1>4, <1>a DEF Load, CountOne, CountEarly, LoadLate, Main
<1>5. CASE IsrLeave \/ UNCHANGED vars
  BY <1>5 DEF IsrLeave, vars
<1>. QED BY <1>1, <1>2, <1>3, <1>4, <1>5 DEF Next, Isr, Parse

\* A step moves one of the counters by one, in whichever has room for it.
LEMMA CountStep ==
  ASSUME TypeOK, NeverOverfull
  PROVE  /\ Count \in Nat /\ Size \in Nat /\ in \in Nat /\ out \in Nat /\ end \in Nat
         /\ ~IsFull => Minus(Inc(in), out) = Count + 1 /\ Count + 1 <= Size
         /\ Count > 0 => Minus(in, Inc(out)) = Count - 1
<1>1. /\ in \in 0 .. Wrap - 1 /\ out \in 0 .. Wrap - 1 /\ end \in Nat
      /\ Size \in Nat /\ Size < Wrap - 1
  BY SizeAssumption DEF TypeOK
<1>2. /\ Count \in Nat /\ in \in Nat /\ out \in Nat
      /\ Count < Wrap - 1 => Minus(Inc(in), out) = Count + 1
      /\ Count > 0 => Minus(in, Inc(out)) = Count - 1
  BY <1>1, Counters DEF Count
<1>. QED BY <1>1, <1>2, SizeAssumption DEF NeverOverfull, IsFull

\* Below the snapshot the counter out neither wraps nor passes it.
LEMMA SnapshotStep ==
  ASSUME TypeOK, out < end
  PROVE  /\ Minus(end, out) = end - out /\ Minus(end, out) > 0
         /\ Inc(out) = out + 1
         /\ Inc(out) < end => Minus(end, Inc(out)) = Minus(end, out) - 1
  BY SizeAssumption DEF TypeOK, Minus, Inc

LEMMA CountOutStep ==
  ASSUME IInv, pc \in {"take", "count"}, out' = Inc(out), in' = in, end' = end
  PROVE  /\ NeverOverfull'
         /\ out' < end' => Minus(end', out') <= Count'
<1>1. out < end /\ Minus(end, out) <= Count /\ Minus(end, out) > 0 /\ TypeOK
  BY SnapshotStep DEF IInv, SnapshotOK, LoopOK
<1>2. Count > 0 /\ Count \in Nat /\ Size \in Nat /\ Count <= Size
      /\ Count' = Count - 1 /\ Minus(end, out) \in Int
  BY <1>1, CountStep, SnapshotStep DEF IInv, NeverOverfull, Count, TypeOK
<1>3. NeverOverfull'
  BY <1>2 DEF NeverOverfull
<1>4. out' < end' => Minus(end', out') = Minus(end, out) - 1
  BY <1>1, SnapshotStep
<1>. QED BY <1>1, <1>2, <1>3, <1>4

LEMMA InvInit == Init => IInv
<1> SUFFICES ASSUME Init PROVE IInv
  OBVIOUS
<1>1. TypeOK
  BY TypeInit
<1>2. Count = 0
  BY <1>1, Counters DEF Init, TypeOK, Count
<1>. QED BY <1>1, <1>2, SizeAssumption
        DEF Init, IInv, NeverOverfull, SnapshotOK, LoopOK

LEMMA InvStep ==
  ASSUME IInv, [Next]_vars
  PROVE  IInv'
<1> USE DEF Main, ring, receiver, parser
<1>a. TypeOK /\ TypeOK' /\ NeverOverfull /\ SnapshotOK /\ LoopOK
  BY TypeStep DEF IInv
<1>b. /\ Count \in Nat /\ Size \in Nat /\ in \in Nat /\ out \in Nat /\ end \in Nat
      /\ ~IsFull => Minus(Inc(in), out) = Count + 1 /\ Count + 1 <= Size
  BY <1>a, CountStep
<1>c. Minus(end, out) \in Int
  BY <1>a, SizeAssumption DEF TypeOK, Minus
<1>1. NeverOverfull' /\ SnapshotOK'
  <2>1. CASE IsrStore
    <3>1. Count' = Count + 1 /\ Count' <= Size
      BY <2>1, <1>b DEF IsrStore, Count
    <3>2. UNCHANGED <<pc, out, end>>
      BY <2>1 DEF IsrStore
    <3>. QED BY <1>a, <1>b, <1>c, <3>1, <3>2 DEF NeverOverfull, SnapshotOK
  <2>2. CASE CountOne \/ CountEarly
    <3>1. pc \in {"take", "count"} /\ out' = Inc(out) /\ in' = in /\ end' = end
      BY <2>2 DEF CountOne, CountEarly
    <3>. QED BY <3>1, CountOutStep DEF SnapshotOK
  <2>3. CASE Start
    <3>1. UNCHANGED <<in, out>> /\ end' = in
      BY <2>3 DEF Start
    <3>. QED BY <1>a, <1>b, <3>1 DEF NeverOverfull, SnapshotOK, Count
  <2>4. CASE Arrive \/ IsrLeave \/ Loop \/ Leave \/ Load \/ LoadLate \/ Switch
             \/ UNCHANGED vars
    <3>1. UNCHANGED <<in, out, end>> /\ (pc' # "idle" => pc # "idle")
      BY <2>4 DEF Arrive, IsrLeave, Loop, Leave, Load, LoadLate, Switch, vars
    <3>. QED BY <1>a, <3>1 DEF NeverOverfull, SnapshotOK, Count
  <2>. QED BY <2>1, <2>2, <2>3, <2>4 DEF Next, Isr, Parse
<1>2. LoopOK'
  <2>1. CASE Arrive \/ IsrStore \/ IsrLeave \/ UNCHANGED vars
    BY <2>1, <1>a DEF Arrive, IsrStore, IsrLeave, vars, LoopOK
  <2>2. CASE Start \/ Loop \/ Leave \/ Switch
    BY <2>2, <1>a DEF Start, Loop, Leave, Switch, LoopOK
  <2>3. CASE Load \/ CountOne \/ CountEarly \/ LoadLate
    BY <2>3, <1>a DEF Load, CountOne, CountEarly, LoadLate, LoopOK
  <2>. QED BY <2>1, <2>2, <2>3 DEF Next, Isr, Parse
<1>. QED BY <1>a, <1>1, <1>2 DEF IInv

LEMMA InvHolds == Spec => []IInv
  BY InvInit, InvStep, PTL DEF Spec

\* The variables have their types in every reachable state.
THEOREM TypeCorrect == Spec => []TypeOK
<1>1. IInv => TypeOK
  BY DEF IInv
<1>. QED BY <1>1, InvHolds, PTL

\* The interrupt never fills more slots than there are (line 177), for any size,
\* any wrap and either order of the two accesses of buf[out++].
THEOREM Fits == Spec => []NeverOverfull
<1>1. IInv => NeverOverfull
  BY DEF IInv
<1>. QED BY <1>1, InvHolds, PTL

\* The parser takes only bytes that are there (line 66), although it compares
\* out with a snapshot and both counters wrap.
THEOREM Stored == Spec => []OnlyWhatIsThere
<1>1. ASSUME IInv PROVE OnlyWhatIsThere
  <2>1. ASSUME pc \in {"take", "count"} PROVE Count > 0
    <3>1. out < end /\ pc # "idle" /\ TypeOK /\ NeverOverfull
      BY <1>1, <2>1 DEF IInv, LoopOK
    <3>2. Minus(end, out) > 0 /\ Minus(end, out) <= Count /\ Minus(end, out) \in Int
      BY <1>1, <3>1, SnapshotStep DEF IInv, SnapshotOK, TypeOK
    <3>. QED BY <3>1, <3>2, CountStep
  <2>. QED BY <2>1 DEF OnlyWhatIsThere
<1>. QED BY <1>1, InvHolds, PTL

-----------------------------------------------------------------------------
(* The queue implements ByteStream when the byte is read before it is      *)
(* counted.                                                                *)

LEMMA StreamStep ==
  ASSUME ReadOrders = {"slotFirst"}, IInv, LoadedOK, [Next]_vars
  PROVE  LoadedOK' /\ [Stream!Next]_(Stream!streamVars)
<1> USE DEF Main, ring, receiver, parser
<1>a. TypeOK /\ NeverOverfull /\ LoopOK /\ SnapshotOK
  BY DEF IInv
<1>b. /\ buf \in [0 .. Size - 1 -> Byte \cup {NoByte}]
      /\ in \in 0 .. Wrap - 1 /\ out \in 0 .. Wrap - 1
  BY <1>a DEF TypeOK
<1>c. Waiting \in Seq(Byte \cup {NoByte}) /\ Len(Waiting) = Minus(in, out)
  BY <1>b, ContentsShape DEF Waiting
<1>1. CASE IsrStore
  <2>1. /\ received \in Byte /\ in' = Inc(in) /\ UNCHANGED <<out, value, parsed, pc>>
        /\ buf' = [buf EXCEPT ![Slot(in)] = received]
    BY <1>1, <1>a DEF IsrStore, TypeOK
  <2>2. Minus(in, out) < Size /\ Slot(in) \in 0 .. Size - 1
    <3>1. Minus(in, out) < Size
      BY <1>1, <1>a, CountStep DEF IsrStore, IsFull, Count
    <3>2. in \in Nat
      BY <1>a, CountStep
    <3>. QED BY <3>1, <3>2, SlotRange
  <2>3. Contents(buf', in, out) = Contents(buf, in, out)
    <3>1. \A s \in 0 .. Size - 1 : s # Slot(in) => buf'[s] = buf[s]
      BY <1>b, <2>1
    <3>. QED BY <1>b, <2>2, <3>1, WriteFree
  <2>4. buf' \in [0 .. Size - 1 -> Byte \cup {NoByte}] /\ buf'[Slot(in)] = received
    BY <1>b, <2>1, <2>2
  <2>5. Contents(buf', Inc(in), out) = Append(Contents(buf', in, out), buf'[Slot(in)])
    BY <1>b, <2>2, <2>4, CountIn
  <2>6. Waiting' = Append(Waiting, received)
    BY <2>1, <2>3, <2>4, <2>5 DEF Waiting
  <2>7. Stream!Put(received)
    BY <1>c, <2>1, <2>2, <2>6 DEF Stream!Put
  <2>8. LoadedOK'
    <3>1. received \in Byte \cup {NoByte}
      BY <2>1
    <3>2. Waiting' # <<>> /\ (Waiting # <<>> => Head(Waiting') = Head(Waiting))
      BY <1>c, <2>6, <3>1
    <3>. QED BY <2>1, <3>2 DEF LoadedOK
  <2>. QED BY <2>1, <2>7, <2>8 DEF Stream!Next
<1>2. CASE Load
  <2>1. Minus(in, out) > 0
    <3>1. out < end /\ pc # "idle"
      BY <1>2, <1>a DEF Load, LoopOK
    <3>2. Minus(end, out) > 0 /\ Minus(end, out) <= Count /\ Minus(end, out) \in Int
      BY <1>a, <3>1, SnapshotStep DEF SnapshotOK, TypeOK
    <3>. QED BY <1>a, <3>2, CountStep DEF Count
  <2>2. Waiting # <<>> /\ Head(Waiting) = buf[Slot(out)]
    BY <1>b, <2>1, CountOut DEF Waiting
  <2>3. UNCHANGED <<Waiting, parsed>> /\ value' = buf[Slot(out)] /\ pc' # "load"
    BY <1>2 DEF Load, Waiting
  <2>. QED BY <2>2, <2>3 DEF LoadedOK, Stream!streamVars
<1>3. CASE CountOne
  <2>1. Waiting # <<>> /\ Head(Waiting) = value
    BY <1>3 DEF CountOne, LoadedOK
  <2>2. Minus(in, out) > 0
    <3>1. Len(Waiting) > 0
      BY <1>c, <2>1
    <3>. QED BY <1>c, <3>1
  <2>3. Tail(Waiting) = Contents(buf, in, Inc(out))
    BY <1>b, <2>2, CountOut DEF Waiting
  <2>4. UNCHANGED <<buf, in>> /\ out' = Inc(out) /\ parsed' = value /\ pc' = "switch"
    BY <1>3 DEF CountOne
  <2>5. Stream!Take
    BY <2>1, <2>3, <2>4 DEF Stream!Take, Waiting
  <2>. QED BY <2>4, <2>5 DEF Stream!Next, LoadedOK
<1>4. CASE CountEarly
  BY <1>4 DEF CountEarly
<1>5. CASE LoadLate
  BY <1>5 DEF LoadLate, LoadedOK
<1>6. CASE \/ Arrive \/ IsrLeave \/ Start \/ Loop \/ Leave \/ Switch
           \/ UNCHANGED vars
  <2>1. /\ UNCHANGED <<buf, in, out, parsed, value>>
        /\ pc' \in {"count", "load"} => pc' = pc
    BY <1>6 DEF Arrive, IsrLeave, Start, Loop, Leave, Switch, vars
  <2>2. UNCHANGED <<Waiting, parsed, value>>
    BY <2>1 DEF Waiting
  <2>. QED BY <2>1, <2>2 DEF LoadedOK, Stream!streamVars
<1>. QED BY <1>1, <1>2, <1>3, <1>4, <1>5, <1>6 DEF Next, Isr, Parse

\* What the interrupt stores is what the SLIP switch is given, each byte once
\* and in order, if the byte is read before the counter is stored.
THEOREM Refinement ==
  ASSUME ReadOrders = {"slotFirst"}
  PROVE  Spec => BytesInOrder
<1>1. Init => LoadedOK /\ Stream!Init
  <2> SUFFICES ASSUME Init PROVE LoadedOK /\ Stream!Init
    OBVIOUS
  <2>1. /\ buf \in [0 .. Size - 1 -> Byte \cup {NoByte}] /\ Minus(in, out) = 0
        /\ in \in 0 .. Wrap - 1 /\ out \in 0 .. Wrap - 1
    BY TypeInit, Counters DEF Init, TypeOK
  <2>2. Waiting \in Seq(Byte \cup {NoByte}) /\ Len(Waiting) = 0
    <3>1. Contents(buf, in, out) \in Seq(Byte \cup {NoByte})
      BY <2>1, ContentsShape
    <3>2. Len(Contents(buf, in, out)) = Minus(in, out)
      BY <2>1, ContentsLen
    <3>. QED BY <2>1, <3>1, <3>2 DEF Waiting
  <2>3. Waiting = <<>>
    BY <2>2, EmptySeq
  <2>. QED BY <2>3 DEF Init, LoadedOK, Stream!Init
<1>2. IInv /\ LoadedOK /\ [Next]_vars
      => LoadedOK' /\ [Stream!Next]_(Stream!streamVars)
  BY StreamStep
<1>. QED BY <1>1, <1>2, InvHolds, PTL DEF Spec, BytesInOrder, Stream!Spec

=============================================================================

----------------------------- MODULE CommandLink -----------------------------
(***************************************************************************)
(* Commands on their way from the phone to the car: Packet.createFramed on *)
(* one end, ESPClientParseMessages on the other, and between them a serial *)
(* line that may spoil a byte of every frame: lose it, change it or add    *)
(* one.  The line is external; the checksum and the escapes are there for  *)
(* it.                                                                     *)
(***************************************************************************)
EXTENDS Deframer, Parts

CONSTANTS
  Packets,          \* packets that are sent
  MaxPackets,       \* bound: packets sent
  Lossy,            \* the line may lose bytes
  Noise,            \* what it may change them into
  Glitches          \* what it may add

ASSUME LinkAssumption ==
  /\ Packets \subseteq [cmd : 0 .. 255, payload : Seq(0 .. 255)]
  /\ MaxPackets \in Nat
  /\ Lossy \in BOOLEAN
  /\ Noise \subseteq 0 .. 255 /\ Glitches \subseteq 0 .. 255

-----------------------------------------------------------------------------
VARIABLES
  sent,             \* the packets sent so far
  intact,           \* whether the frame of each has not been spoilt
  line              \* the bytes of the last frame that have not arrived

linkVars == <<deframer, sent, intact, line>>

InitLink == InitDeframer /\ sent = <<>> /\ intact = <<>> /\ line = <<>>

SendCommand ==
  /\ line = <<>>
  /\ Len(sent) < MaxPackets
  /\ \E p \in Packets :
       /\ Len(p.payload) < 128      \* or createFramed returns null: length is signed
       /\ sent' = Append(sent, p)
       /\ line' = createFramed(p)
  /\ intact' = Append(intact, TRUE)
  /\ UNCHANGED deframer

Arrive ==
  /\ line # <<>>
  /\ ParseByte(Head(line))
  /\ line' = Tail(line)
  /\ UNCHANGED <<sent, intact>>

\* At most one byte of a frame is spoilt.
Spoil ==
  /\ line # <<>>
  /\ intact[Len(intact)]
  /\ intact' = [intact EXCEPT ![Len(intact)] = FALSE]
  /\ sent' = sent

Lose ==
  /\ Lossy
  /\ Spoil
  /\ line' = Tail(line)
  /\ UNCHANGED deframer

Change ==
  /\ Spoil
  /\ \E v \in Noise \ {Head(line)} : ParseByte(v)
  /\ line' = Tail(line)

Add ==
  /\ Spoil
  /\ \E v \in Glitches : ParseByte(v)
  /\ line' = line

LinkNext == SendCommand \/ Arrive \/ Lose \/ Change \/ Add

LinkSpec == InitLink /\ [][LinkNext]_linkVars

-----------------------------------------------------------------------------
\* The packets that have arrived as they were sent and that the car can take.
IntactPackets ==
  Picked(sent, {k \in DOMAIN sent :
                  /\ intact[k]
                  /\ k = Len(sent) => line = <<>>
                  /\ Len(Message(sent[k])) <= MAX_MSG_LEN
                  /\ sent[k].cmd < _NB_OF_CMDS})

-----------------------------------------------------------------------------
\* What the car reads when the SLIP_END in front of p arrives as 0, or a 0 comes
\* behind it: the command stands where the length is looked for, and the checksum,
\* which starts from 0, does not see the 0.
Shifted(p) == [cmd |-> 0, payload |-> <<Len(p.payload)>> \o p.payload]

\* What is handled comes from what was sent (ESPClient.c:91): each packet that a
\* callback is called with has a packet of its own on the phone's side, in the
\* same order, and is equal to it - but for the 0 in front, of which the frame has
\* then been spoilt, and the command one more than the length, as KEEPALIVE's is.
\* This is said of the packets of a run and one byte lost, changed or added in each
\* frame; a frame cut short or cut in two has, for some packet, by chance the right
\* checksum.
OnlySentHandled ==
  \E from \in [DOMAIN handled -> DOMAIN sent] :
    /\ \A i, j \in DOMAIN handled : i < j => from[i] < from[j]
    /\ \A i \in DOMAIN handled :
         LET p == sent[from[i]]
         IN  \/ handled[i] = p
             \/ /\ ~intact[from[i]]
                /\ p.cmd = Len(p.payload) + 1
                /\ handled[i] = Shifted(p)

\* A spoilt frame, or one that is too long, does no harm to its neighbours:
\* every frame of a command that arrives as it was sent is handled once its last
\* byte has arrived (lines 131-134; both frames bring their own SLIP_END).
IntactHandled == IsPartOf(IntactPackets, handled)

-----------------------------------------------------------------------------
(* What the header says and the code does not do.                          *)

\* "verifiy data integrity" (ESPClient.h:109): nothing is handled but what was
\* sent, in its order and no more than once.
DataIntegrity == IsPartOf(handled, sent)
=============================================================================

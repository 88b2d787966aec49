---------------------------- MODULE MessageParser ----------------------------
(***************************************************************************)
(* The phone's end of the frames (MessageParser.java): what a connection   *)
(* reads comes in pieces that have nothing to do with the frames in it,    *)
(* and Parse is called for each.  What follows the last SLIP_END of a      *)
(* piece stays in a static buffer for the next call, on whichever          *)
(* connection that is.                                                     *)
(*                                                                         *)
(* External: the car, which sends frames and the status text between them, *)
(* and the connection, which may break with bytes on their way.            *)
(***************************************************************************)
EXTENDS Slip, Parts

CONSTANTS
  Items,            \* byte sequences that the car sends, each as a whole
  MaxItems,         \* bound: items sent
  MaxBreaks         \* bound: breaks of the connection

ASSUME ParserAssumption ==
  /\ Items \subseteq Seq(0 .. 255)
  /\ MaxItems \in Nat /\ MaxBreaks \in Nat

-----------------------------------------------------------------------------
VARIABLES
  stream,           \* bytes of this connection that have not been read
  buffer,           \* MessageParser.buffer
  returned,         \* the packets that all calls of Parse have returned
  received,         \* all that has been read, on all connections
  breaks,           \* how much that was when each connection was lost
  threw,            \* a call of Parse has thrown an exception
  items             \* items sent

parserVars == <<stream, buffer, returned, received, breaks, threw, items>>

InitParser ==
  /\ stream = <<>> /\ buffer = <<>> /\ returned = <<>>
  /\ received = <<>> /\ breaks = <<>> /\ threw = FALSE /\ items = 0

-----------------------------------------------------------------------------
Ends(data) == {k \in DOMAIN data : data[k] = SLIP_END}

LastEnd(data) ==
  IF Ends(data) = {} THEN 0 ELSE CHOOSE k \in Ends(data) : \A j \in Ends(data) : j <= k

\* What is between the SLIP_END at k and the one before it, or the start.
FrameAt(data, k) ==
  LET start == LastEnd(SubSeq(data, 1, k - 1)) IN SubSeq(data, start + 1, k - 1)

\* cmd, length and the checksum are read with get(), which throws a
\* BufferUnderflowException when there are not two bytes.
Throws(msg) == msg # <<>> /\ Len(decode(msg)) < 2

FromTo(s, from, to) == IF from > to THEN <<>> ELSE SubSeq(s, from, to)

\* Packet.isValid.  A message of three bytes or two has no payload, and bytes
\* of cmd and length serve as its checksum once more.  length is signed.
isValid(dec) ==
  LET payload == FromTo(dec, 3, Len(dec) - 2)
  IN  /\ Len(dec) >= 2
      /\ dec[2] = Len(payload) /\ dec[2] < 128
      /\ SubSeq(dec, Len(dec) - 1, Len(dec)) = Crc(<<dec[1], dec[2]>> \o payload)

PacketOf(dec) == [cmd |-> dec[1], payload |-> FromTo(dec, 3, Len(dec) - 2)]

\* The packets of the frames that end at one of these places, in their order.
PacketsAt(data, ends) ==
  LET upTo[k \in 0 .. Len(data)] ==
        IF k = 0 THEN <<>>
        ELSE IF k \in ends /\ isValid(decode(FrameAt(data, k)))
             THEN Append(upTo[k - 1], PacketOf(decode(FrameAt(data, k))))
             ELSE upTo[k - 1]
  IN  upTo[Len(data)]

\* Mutants of Rest: the buffer is emptied after each call ...
NoRest(data) == <<>>

\* ... or left as it is, without compact().
AllRest(data) == data

\* compact() after each SLIP_END: the rest of the data.
Rest(data) == SubSeq(data, LastEnd(data) + 1, Len(data))

\* A call of Parse with the bytes read.
Parse(piece) ==
  LET data == buffer \o piece
      bad  == {k \in Ends(data) : Throws(FrameAt(data, k))}
  IN  \/ bad = {}
         /\ returned' = returned \o PacketsAt(data, Ends(data))
         /\ buffer' = Rest(data)
         /\ threw' = threw
      \* The exception: nothing is returned, and the buffer starts after the
      \* first frame that is too short.
      \/ \E k \in bad :
           /\ \A j \in bad : k <= j
           /\ returned' = returned
           /\ buffer' = SubSeq(data, k + 1, Len(data))
           /\ threw' = TRUE

\* A call of onRead with some of what the car has sent.
Read ==
  \E n \in 1 .. Len(stream) :
    /\ Parse(SubSeq(stream, 1, n))
    /\ stream' = SubSeq(stream, n + 1, Len(stream))
    /\ received' = received \o SubSeq(stream, 1, n)
    /\ UNCHANGED <<breaks, items>>

\* External.
CarSends ==
  /\ items < MaxItems
  /\ \E item \in Items : stream' = stream \o item
  /\ items' = items + 1
  /\ UNCHANGED <<buffer, returned, received, breaks, threw>>

\* External: the connection is lost, and there is another one.
Break ==
  /\ Len(breaks) < MaxBreaks
  /\ stream' = <<>>
  /\ breaks' = Append(breaks, Len(received))
  /\ UNCHANGED <<buffer, returned, received, threw, items>>

ParserNext == Read \/ CarSends \/ Break

ParserSpec == InitParser /\ [][ParserNext]_parserVars

-----------------------------------------------------------------------------
\* The packets of the frames with both of their SLIP_END on one connection.
WholePackets ==
  LET Start(k) == LastEnd(SubSeq(received, 1, k - 1))
      Whole(k) == Start(k) > 0 /\ \A b \in DOMAIN breaks : breaks[b] \notin Start(k) .. k - 1
  IN  PacketsAt(received, {k \in Ends(received) : Whole(k)})

-----------------------------------------------------------------------------
\* However the stream is cut into pieces, Parse returns the packets of the
\* stream as a whole: a frame is neither lost nor returned twice where a piece
\* ends (lines 22-26, 62-63 and 70).
PiecesDoNotMatter == ~threw => returned = PacketsAt(received, Ends(received))

\* Nor is a packet returned twice, or out of its order, after an exception has
\* left the static buffer in the middle of its frames (lines 42-43 and 62).
ReturnedOnce == IsPartOf(returned, PacketsAt(received, Ends(received)))

-----------------------------------------------------------------------------
(* What a comment says and the code does not do.                           *)

\* "Loop through new data and check if we have a correctly framed packet."
\* (line 28): no correctly framed packet of a connection is lost, whatever else
\* was received; it has been returned, or waits in the buffer for the next call.
FramedReturned ==
  IsPartOf(WholePackets, returned \o PacketsAt(buffer, Ends(buffer)))

\* The same line: it is the new data that is looked through, so the call that is
\* given the last byte of a correctly framed packet returns it.
ReturnedByItsCall == IsPartOf(WholePackets, returned)
=============================================================================

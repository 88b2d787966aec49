------------------------------ MODULE Deframer ------------------------------
(***************************************************************************)
(* The car's end of the frames: what ESPClientParseMessages makes of the   *)
(* bytes it takes out of the message queue, one step per byte.  Which      *)
(* bytes those are is MsgQueue; what a callback does is CarControl.        *)
(***************************************************************************)
EXTENDS Slip

CONSTANTS
  MAX_MSG_LEN,
  _NB_OF_CMDS

ASSUME DeframerAssumption ==
  /\ MAX_MSG_LEN \in Nat
  /\ _NB_OF_CMDS \in 0 .. 255

-----------------------------------------------------------------------------
VARIABLES
  isEsc,            \* the last byte was SLIP_ESC
  buf,              \* the message so far: the first msgLen bytes of buf
  handled           \* the packets that callbacks were called with

deframer == <<isEsc, buf, handled>>

InitDeframer == isEsc = FALSE /\ buf = <<>> /\ handled = <<>>

msgLen == Len(buf)

LastTwo(m) == SubSeq(m, Len(m) - 1, Len(m))

AllButLastTwo(m) == SubSeq(m, 1, Len(m) - 2)

\* Mutant of IsValid: the checksum is not compared.
HasLength(m) == Len(m) >= 4 /\ m[2] + 4 = Len(m)

IsValid(m) ==
  /\ Len(m) >= 4
  /\ m[2] + 4 = Len(m)
  /\ LastTwo(m) = Crc(AllButLastTwo(m))

Packet(m) == [cmd |-> m[1], payload |-> SubSeq(m, 3, Len(m) - 2)]

ParseEsc(value) ==
  /\ value = SLIP_ESC
  /\ isEsc' = TRUE
  /\ UNCHANGED <<buf, handled>>

\* Mutant of ParseEnd: a message that is not valid is kept.
ParseEndKeep(value) ==
  /\ value = SLIP_END
  /\ IF msgLen >= 4
       THEN /\ handled' = IF IsValid(buf) /\ buf[1] < _NB_OF_CMDS
                            THEN Append(handled, Packet(buf)) ELSE handled
            /\ buf' = <<>>
       ELSE UNCHANGED <<buf, handled>>
  /\ isEsc' = FALSE

\* The end of a message: it is handled when it is valid and has a command;
\* in any case the next one starts anew.
ParseEnd(value) ==
  /\ value = SLIP_END
  /\ handled' = IF IsValid(buf) /\ buf[1] < _NB_OF_CMDS
                  THEN Append(handled, Packet(buf)) ELSE handled
  /\ buf' = <<>>
  /\ isEsc' = FALSE

\* Any other byte.  What does not fit the buffer is dropped.
ParseData(value) ==
  /\ value \notin {SLIP_ESC, SLIP_END}
  /\ buf' = IF msgLen < MAX_MSG_LEN
              THEN Append(buf, IF isEsc THEN Unescape(value) ELSE value) ELSE buf
  /\ isEsc' = FALSE
  /\ UNCHANGED handled

ParseByte(value) == ParseEsc(value) \/ ParseEnd(value) \/ ParseData(value)
=============================================================================

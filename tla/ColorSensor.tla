----------------------------- MODULE ColorSensor -----------------------------
(***************************************************************************)
(* The set-up of the color sensor (TCS34725.c) over I2C (I2CRoutines.c):   *)
(* its ID is read by polling, its registers are written by DMA.  A         *)
(* transfer that gets no start condition or no acknowledge in time returns *)
(* Error, without a stop condition and with its DMA channel enabled;       *)
(* nobody looks at what it returns.  The waits for the data have no end of *)
(* their own.                                                              *)
(*                                                                         *)
(* External: the bus, the sensor and its registers.                        *)
(***************************************************************************)
EXTENDS Integers, Sequences, MainThread

CONSTANTS Faults            \* of {"noStart", "noAck", "stuck"}

ASSUME FaultAssumption == Faults \subseteq {"noStart", "noAck", "stuck"}

\* What a transfer is for: the register to read from, the read, and the writes.
SelectId == "TCS34725_ID"
ReadId == "read"
None == "none"
Writes == {"TCS34725_ATIME", "TCS34725_CONTROL", "PON", "PON|AEN"}

VARIABLES
  transfer,         \* the current one
  x,                \* initColorSensor: whether the ID is that of the sensor
  failed,           \* a transfer has returned Error
  registers,        \* the writes that have arrived, as long as none has failed
  warm,             \* ticks since "PON" was the last of them, WarmEnough at most
  busTaken,         \* a start condition was sent and no stop condition since
  dmaEnabled        \* the DMA channel may still write to the bus

sensor == <<transfer, x, failed, registers, warm, busTaken, dmaEnabled>>

WarmEnough == 3

InitColorSensor ==
  /\ transfer = None /\ x = FALSE
  /\ registers = <<>> /\ warm = 0 /\ failed = FALSE
  /\ busTaken = FALSE /\ dmaEnabled = FALSE

-----------------------------------------------------------------------------
I2C_Master(t) ==
  /\ Go("next", "i2cStart")
  /\ transfer' = t
  /\ dmaEnabled' = (t \in Writes \/ dmaEnabled)
  /\ UNCHANGED <<x, registers, warm, failed, busTaken>>

Started ==
  /\ Go("i2cStart", "i2cAddress")
  /\ busTaken' = TRUE
  /\ UNCHANGED <<transfer, x, registers, warm, failed, dmaEnabled>>

Acknowledged ==
  /\ Go("i2cAddress", "i2cData")
  /\ UNCHANGED sensor

\* A read that failed leaves the value uninitialized.
TimedOut(place, fault) ==
  /\ Go(place, "next")
  /\ fault \in Faults
  /\ failed' = TRUE /\ registers' = <<>> /\ warm' = 0
  /\ x' \in IF transfer = ReadId THEN BOOLEAN ELSE {x}
  /\ transfer' = None
  /\ UNCHANGED <<busTaken, dmaEnabled>>

\* The data, the last acknowledge and the stop condition.  What is read without
\* the register selected is whatever was before.
Transferred ==
  /\ Go("i2cData", "next")
  /\ busTaken' = FALSE
  /\ x' \in IF transfer = ReadId THEN IF failed THEN BOOLEAN ELSE {TRUE} ELSE {x}
  /\ IF transfer \in Writes
       THEN /\ dmaEnabled' = FALSE
            /\ registers' = IF failed THEN <<>> ELSE Append(registers, transfer)
       ELSE UNCHANGED <<dmaEnabled, registers>>
  /\ transfer' = None
  /\ UNCHANGED <<failed, warm>>

I2CMain == Started \/ Acknowledged \/ TimedOut("i2cStart", "noStart")
             \/ TimedOut("i2cAddress", "noAck")

\* A tick passes.
Warm ==
  LET warming == registers # <<>> /\ registers[Len(registers)] = "PON" /\ warm < WarmEnough
  IN  warm' = IF warming THEN warm + 1 ELSE warm
=============================================================================

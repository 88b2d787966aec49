\* Frames, and a frame of one byte.
SPECIFICATION ParserSpec
CONSTANTS
  Crc <- CrcBytes
  Items <- MCShortItems
  MaxItems = 2
  MaxBreaks = 0
INVARIANT FramedReturned
CHECK_DEADLOCK FALSE

\* Three items of any kind, cut anywhere, and a break.
SPECIFICATION ParserSpec
CONSTANTS
  Crc <- CrcBytes
  Items <- MCItems
  MaxItems = 3
  MaxBreaks = 1
INVARIANTS PiecesDoNotMatter ReturnedOnce
CHECK_DEADLOCK FALSE

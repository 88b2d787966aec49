\* The sender leaves room; the counters wrap.
SPECIFICATION FairSpec
CONSTANTS
  Size = 4
  Wrap = 12
  x = x
  y = y
  Byte <- MCByte
  NoByte = NoByte
  ReadOrders = {"slotFirst"}
  Paced = TRUE
  LongRun = TRUE
PROPERTY BytesParsed

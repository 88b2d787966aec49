\* The sender leaves room and the counters do not wrap.
SPECIFICATION FairSpec
CONSTANTS
  Size = 4
  Wrap = 12
  x = x
  y = y
  Byte <- MCByte
  NoByte = NoByte
  ReadOrders = {"slotFirst"}
  Paced = TRUE
  LongRun = FALSE
PROPERTIES BytesInOrder BytesParsed

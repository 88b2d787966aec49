\* A sender that does not wait.
SPECIFICATION FairSpec
CONSTANTS
  Size = 4
  Wrap = 12
  x = x
  y = y
  Byte <- MCByte
  NoByte = NoByte
  ReadOrders = {"slotFirst"}
  Paced = FALSE
  LongRun = FALSE
PROPERTY CallReturns

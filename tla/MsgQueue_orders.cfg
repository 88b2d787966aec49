\* A sender that does not wait, counters that wrap, the read of buf[out++] in either order.
SPECIFICATION FairSpec
CONSTANTS
  Size = 4
  Wrap = 12
  x = x
  y = y
  Byte <- MCByte
  NoByte = NoByte
  ReadOrders = {"slotFirst", "counterFirst"}
  Paced = FALSE
  LongRun = TRUE
INVARIANTS TypeOK NeverOverfull OnlyWhatIsThere
PROPERTY CallEnds

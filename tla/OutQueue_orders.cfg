\* Bytes that need escapes; the two stores of buf[in++] = b in either order.
SPECIFICATION FairSpec
CONSTANTS
  Size = 4
  Wrap = 12
  Byte <- MCByte
  NoByte = NoByte
  SLIP_END = SLIP_END
  SLIP_ESC = SLIP_ESC
  SLIP_ESC_END = SLIP_ESC_END
  SLIP_ESC_ESC = SLIP_ESC_ESC
  x = x
  y = y
  Packets <- EscapedPackets
  Texts <- EscapedTexts
  StoreOrders = {"slotFirst", "counterFirst"}
  CharTimes = 1
INVARIANTS TypeOK OneByteOfExcess KickIsSafe NoLostWakeup RefusedOnlyWhileSending
PROPERTY BytesDelivered

\* Bytes that need escapes; the stores of buf[in++] = b in source order.
SPECIFICATION Spec
CONSTANTS
  Size = 4
  Wrap = 12
  Byte <- MCByte
  NoByte = NoByte
  SLIP_END = SLIP_END
  SLIP_ESC = SLIP_ESC
  SLIP_ESC_END = SLIP_ESC_END
  SLIP_ESC_ESC = SLIP_ESC_ESC
  x = x
  y = y
  Packets <- EscapedPackets
  Texts <- EscapedTexts
  StoreOrders = {"slotFirst"}
  CharTimes = 1
PROPERTY BytesInOrder

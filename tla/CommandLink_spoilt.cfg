\* Frames whose spoilt byte may be lost, changed or added.
SPECIFICATION LinkSpec
CONSTANTS
  Crc <- CrcBytes
  MAX_MSG_LEN = 7
  _NB_OF_CMDS = 11
  Packets <- MCPackets
  MaxPackets = 3
  Lossy = TRUE
  Noise <- MCNoise
  Glitches = {192, 219, 0, 1}
INVARIANTS OnlySentHandled IntactHandled
CHECK_DEADLOCK FALSE

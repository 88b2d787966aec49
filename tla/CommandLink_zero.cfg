\* Frames one byte of which may be received as zero.
SPECIFICATION LinkSpec
CONSTANTS
  Crc <- CrcBytes
  MAX_MSG_LEN = 8
  _NB_OF_CMDS = 11
  Packets <- MCShortPackets
  MaxPackets = 1
  Lossy = FALSE
  Noise = {0}
  Glitches = {}
INVARIANT DataIntegrity
CHECK_DEADLOCK FALSE

-------------------------------- MODULE Crc16 --------------------------------
(***************************************************************************)
(* The checksum of a message: crc16Add and crc16Data (ESPClient.c), and    *)
(* CRC16.java on the phone, which computes the same.  The accumulator has  *)
(* 16 bits.                                                                *)
(***************************************************************************)
EXTENDS Integers, Sequences

Short(n) == n % 65536               \* & 0xffff
LowByte(n) == n % 256               \* & 0xff
HighByte(n) == n \div 256           \* >> 8

\* The bit of n that weighs w is set.
Bit(n, w) == (n \div w) % 2 = 1

\* a ^ b, of bytes and of 16 bits.
XorByte(a, b) ==
  LET x(w) == IF Bit(a, w) = Bit(b, w) THEN 0 ELSE w
  IN  x(1) + x(2) + x(4) + x(8) + x(16) + x(32) + x(64) + x(128)

Xor(a, b) == XorByte(a, b) + 256 * XorByte(HighByte(a), HighByte(b))

Swapped(acc) == HighByte(acc) + 256 * LowByte(acc)

\* Mutant of crc16Add: the last step of the shifts is missing.
crc16AddShort(b, acc) ==
  LET first   == Xor(Swapped(acc), b)
      second  == Xor(first, LowByte(first) \div 16)
  IN  Xor(second, Short(second * 4096))

crc16Add(b, acc) ==
  LET first   == Xor(Swapped(acc), b)
      second  == Xor(first, LowByte(first) \div 16)
      third   == Xor(second, Short(second * 4096))
  IN  Xor(third, Short(LowByte(third) * 32))

crc16Data(data, acc) ==
  LET crc[i \in 0 .. Len(data)] == IF i = 0 THEN acc ELSE crc16Add(data[i], crc[i - 1])
  IN  crc[Len(data)]

\* The checksum as it stands in a message: the low byte first.
CrcBytes(data) ==
  LET crc == crc16Data(data, 0) IN <<LowByte(crc), HighByte(crc)>>
=============================================================================

------------------------------- MODULE Crc32 -------------------------------
(***************************************************************************)
(* mz_crc32 (src/miniz.c): the checksum over an entry's content, which the *)
(* extract loops compute piece by piece as output comes out.  A register   *)
(* is the set of the numbers of its one bits, so that exclusive or is the  *)
(* symmetric difference.                                                   *)
(***************************************************************************)
EXTENDS Bits, Sequences, FiniteSetsExt

CONSTANTS ByteBits,   \* 8
          CrcBits,    \* 32
          CrcPoly     \* the bits of 0xEDB88320

Register == 0..(CrcBits - 1)
LowByte == 0..(ByteBits - 1)
BitsOfByte(b) == {i \in LowByte : Bit(b, i) = 1}
ShiftedRight(c, n) == {i - n : i \in {j \in c : j >= n}}

\* s_crc_table[b]: what b leaves when it is shifted out of the register (the 256
\* constants of the code are the values of this rule).
CrcTable(b) ==
  LET out[k \in 0..ByteBits] ==
        IF k = 0 THEN b
        ELSE SymDiff(ShiftedRight(out[k - 1], 1), IF 0 \in out[k - 1] THEN CrcPoly ELSE {})
  IN  out[ByteBits]

\* What one byte does to the register
CrcByte(b) ==
  [c \in SUBSET Register |->
     LET index == SymDiff(c, BitsOfByte(b)) \cap LowByte
         entry == CrcTable(index)
     IN  SymDiff(ShiftedRight(c, ByteBits), entry)]

\* MZ_CRC32_INIT, and the register inverted before the first and after the last
\* byte of every piece.
CrcInit == {}
Crc(c, bytes) ==
  LET at[k \in 0..Len(bytes)] ==
        IF k = 0 THEN Register \ c ELSE CrcByte(bytes[k])[at[k - 1]]
  IN  Register \ at[Len(bytes)]
=============================================================================

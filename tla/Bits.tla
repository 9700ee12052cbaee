-------------------------------- MODULE Bits --------------------------------
(***************************************************************************)
(* Shifts and single bits, as the decompressor and the checksum use them.  *)
(***************************************************************************)
EXTENDS Integers

\* 1 << n
Pow2[n \in Nat] == IF n = 0 THEN 1 ELSE 2 * Pow2[n - 1]

\* (n >> i) & 1
Bit(n, i) == (n \div Pow2[i]) % 2
=============================================================================

-------------------------- MODULE InternetChecksum --------------------------
(***************************************************************************)
(* Byte order and checksums: htons and htonl as src/ uses them, and sum16  *)
(* and internet_checksum of src/utils/protocols.c and .h.                  *)
(*                                                                         *)
(* Memory is a sequence of 16-bit words as a little-endian machine loads   *)
(* them.  The left-over byte of an odd count is a last word below 256.     *)
(***************************************************************************)
EXTENDS Integers, Sequences

UINT8_MAX == 255
Byte == 0..UINT8_MAX

UINT16_MAX == 65535
Word == 0..UINT16_MAX

\* A 32-bit field is the pair of its words in memory.
Long == Word \X Word

htons(w) == (w % 256) * 256 + (w \div 256)
htonl(l) == <<htons(l[2]), htons(l[1])>>

\* The inner loop of sum16: sum[m] is its sum after m words.
Total(ws) ==
  LET sum[m \in 0..Len(ws)] == IF m = 0 THEN 0 ELSE sum[m - 1] + ws[m]
  IN  sum[Len(ws)]

\* A faulty sum16 that adds the carry only once.
FoldOnce(sum) == ((sum % 65536) + (sum \div 65536)) % 65536

\* The last loop of sum16.
fold[sum \in Nat] ==
  IF sum \div 65536 = 0 THEN sum ELSE fold[(sum % 65536) + (sum \div 65536)]

Fold(sum) == fold[sum]

sum16(ws) == Fold(Total(ws))

\* The complement of the sum.
internet_checksum(ws) == UINT16_MAX - sum16(ws)

\* RFC 1071, which protocols.c names: the one's complement sum, whose value
\* is the remainder modulo 65535, zero being written 65535 unless every word
\* is zero.
OnesComplementSum(ws) ==
  IF Total(ws) = 0 THEN 0 ELSE 1 + ((Total(ws) - 1) % UINT16_MAX)

\* What a receiver demands of words that include a checksum.
Intact(ws) == OnesComplementSum(ws) = UINT16_MAX
=============================================================================

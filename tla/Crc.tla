--------------------------------- MODULE Crc ---------------------------------
(***************************************************************************)
(* crc.py: the two CRCs, computed with tables, and the CRCs of their       *)
(* polynomials, a bit at a time, that they are to be.                      *)
(***************************************************************************)
EXTENDS Naturals, Sequences

\* a ^ b
Xor(a, b) ==
  LET f[p \in Nat \X Nat] ==
        IF p = << 0, 0 >> THEN 0
        ELSE 2 * f[<< p[1] \div 2, p[2] \div 2 >>] + ((p[1] + p[2]) % 2)
  IN f[<< a, b >>]

\* What a loop over seq makes of base.  (A function, and not FoldLeft, whose
\* operators nest too deep for TLC here.)
Loop(turn, base, seq) ==
  LET f[i \in 0..Len(seq)] == IF i = 0 THEN base ELSE turn[<< f[i - 1], seq[i] >>]
  IN f[Len(seq)]

\* A 32-bit word is two halves, since TLC's integers have a sign.
Byte          == 0..255
HalfRange     == 65536
Halves        == 0..(HalfRange - 1)
Words         == [hi : Halves, lo : Halves]
Word(h, l)    == [hi |-> h, lo |-> l]
WordXor(v, w) == Word(Xor(v.hi, w.hi), Xor(v.lo, w.lo))
HalfOf(w)     == Word(w.hi \div 2, w.lo \div 2 + 32768 * (w.hi % 2))
Ones          == Word(65535, 65535)

-----------------------------------------------------------------------------
(* The tables *)

\* A turn of the inner loop of _build_crc16_table, which masks its entry at the
\* end only, and of that of _build_crc32_table.
Shift16(c) == IF c >= 32768 THEN Xor(2 * c - 65536, 4129) ELSE 2 * c
Shift32(w) == IF w.lo % 2 = 1 THEN WordXor(HalfOf(w), Word(60856, 33568)) ELSE HalfOf(w)

Entry16(i, rounds) ==
  Loop([p \in Halves \X (1..rounds) |-> Shift16(p[1])], 256 * i, [k \in 1..rounds |-> k])
Entry32(i, rounds) ==
  Loop([p \in Words \X (1..rounds) |-> Shift32(p[1])], Word(0, i), [k \in 1..rounds |-> k])

\* Faulty: seven rounds.
Table16Short == [i \in Byte |-> Entry16(i, 7)]

\* _CRC16_TABLE and _CRC32_TABLE.
Table16 == [i \in Byte |-> Entry16(i, 8)]
Table32 == [i \in Byte |-> Entry32(i, 8)]

-----------------------------------------------------------------------------
(* The CRCs *)

Turn16(c, b) == Xor(256 * (c % 256), Table16[Xor(c \div 256, b)])
Turn32(w, b) ==
  WordXor(Word(w.hi \div 256, w.lo \div 256 + 256 * (w.hi % 256)), Table32[Xor(w.lo % 256, b)])

crc16(data) == Loop([p \in Halves \X Byte |-> Turn16(p[1], p[2])], 0, data)
crc32(data) ==
  WordXor(Loop([p \in Words \X Byte |-> Turn32(p[1], p[2])], Ones, data), Ones)

-----------------------------------------------------------------------------
(* The remainder of the data by the polynomial, a bit at a time: the high    *)
(* bit of a byte first for 16 bits, the low one for 32.                      *)

Bits(b, places) == [k \in 1..8 |-> (b \div places[k]) % 2]
LowFirst(b)     == Bits(b, << 1, 2, 4, 8, 16, 32, 64, 128 >>)
HighFirst(b)    == Bits(b, << 128, 64, 32, 16, 8, 4, 2, 1 >>)

\* One bit more.
Bit16(c, x) ==
  IF (c \div 32768 + x) % 2 = 1 THEN Xor((2 * c) % 65536, 4129) ELSE (2 * c) % 65536
Bit32(w, x) ==
  IF (w.lo + x) % 2 = 1 THEN WordXor(HalfOf(w), Word(60856, 33568)) ELSE HalfOf(w)

Byte16(c, b) == Loop([p \in Halves \X (0..1) |-> Bit16(p[1], p[2])], c, HighFirst(b))
Byte32(w, b) == Loop([p \in Words \X (0..1) |-> Bit32(p[1], p[2])], w, LowFirst(b))

Serial16(data) == Loop([p \in Halves \X Byte |-> Byte16(p[1], p[2])], 0, data)
Serial32(data) ==
  WordXor(Loop([p \in Words \X Byte |-> Byte32(p[1], p[2])], Ones, data), Ones)
=============================================================================

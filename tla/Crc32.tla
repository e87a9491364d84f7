-------------------------------- MODULE Crc32 --------------------------------
(***************************************************************************)
(* CCRC32 (zhy_crc32.cpp): the table and the sum of a buffer.  An unsigned *)
(* int is the set of its bits that are one, a subset of 0..31, so that ^ is *)
(* the symmetric difference and nothing is wider than 32 bits; a byte is a  *)
(* subset of 0..7, and indexes the table.                                   *)
(***************************************************************************)
EXTENDS Integers, Sequences, SequencesExt

Byte == SUBSET (0..7)
AllOnes == 0..31                        \* 0xffffffff

ShiftLeft(word, n) == {b + n : b \in word} \cap AllOnes
ShiftRight(word, n) == {b - n : b \in word} \cap AllOnes

\* 0x04c11db7
ulPolynomial == {26, 23, 22, 16, 12, 11, 10, 8, 7, 5, 4, 2, 1, 0}

\* The ch low bits of ref in the opposite order.
Reflect(ref, ch) == {ch - 1 - b : b \in ref \cap (0..(ch - 1))}

\* One turn of the inner loop of Init_CRC32_Table.
Reduce(word) ==
    SymDiff(ShiftLeft(word, 1), IF 31 \in word THEN ulPolynomial ELSE {})

\* The eight of them.
Reduced(word) ==
    LET turn[j \in 0..8] == IF j = 0 THEN word ELSE Reduce(turn[j - 1])
    IN  turn[8]

\* Init_CRC32_Table.
crc32_table ==
    [i \in Byte |-> Reflect(Reduced(ShiftLeft(Reflect(i, 8), 24)), 32)]

\* One turn of the loop of Get_CRC.
Absorb(crc, byte) ==
    SymDiff(ShiftRight(crc, 8), crc32_table[SymDiff(crc \cap (0..7), byte)])

\* crc after each turn of that loop.
Sums(buffer) ==
    LET crc[i \in 0..Len(buffer)] ==
            IF i = 0 THEN AllOnes ELSE Absorb(crc[i - 1], buffer[i])
    IN  crc

\* A mutant of Get_CRC: the last exclusive or is left out.
Get_CRCRaw(buffer) == Sums(buffer)[Len(buffer)]

Get_CRC(buffer) == SymDiff(Sums(buffer)[Len(buffer)], AllOnes)

-----------------------------------------------------------------------------
(* What the sum is, without a table: the buffer is a polynomial over GF(2),  *)
(* the low bit of its first byte in front, its first 32 coefficients        *)
(* complemented; the sum is the complement of the remainder of that times   *)
(* x^32, divided by the generator, bit by bit from the top.                 *)

Coefficients(buffer) ==
    LET ones == {p \in (DOMAIN buffer) \X (0..7) : p[2] \in buffer[p[1]]} IN
    {8 * (Len(buffer) - p[1]) + 7 - p[2] + 32 : p \in ones}

Remainder(buffer) ==
    LET top == 8 * Len(buffer)
        generator == ulPolynomial \cup {32}
        Subtract(p, d) == IF d \in p THEN SymDiff(p, {g + d - 32 : g \in generator}) ELSE p
        \* what is left once the coefficients from d upwards are gone
        left[d \in 32..(top + 32)] ==
            IF d = top + 32 THEN SymDiff(Coefficients(buffer), top..(top + 31))
                            ELSE Subtract(left[d + 1], d)
    IN  left[32]

RemainderSum(buffer) == SymDiff(Reflect(Remainder(buffer), 32), AllOnes)
=============================================================================

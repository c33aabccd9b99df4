------------------------------ MODULE Uint256 ------------------------------
(***************************************************************************)
(* The 256-bit unsigned target type and its compact ("nBits") encoding.    *)
(* The type lives in arith_uint256, outside the files under src/; it is    *)
(* modelled from the specification (spec.md, sections 3 and 6) and from    *)
(* the uses the sources make of it: SetCompact and the comparison in the   *)
(* genesis search of src/src/chainparams.cpp, and the compact values that  *)
(* src/src/test/pow_tests.cpp expects.                                     *)
(*                                                                         *)
(* A number is its 32 bytes, least significant first.  The numbers that    *)
(* are multiplied and divided are decoded compact targets, a word of at    *)
(* most 23 bits shifted left by whole bytes: the bytes of the product and  *)
(* of the quotient are computed each on its own, exactly, from values that *)
(* stay within the integers of the model checker.                          *)
(***************************************************************************)
EXTENDS Integers, FiniteSetsExt

Width == 32                      \* bytes of a 256-bit number
Bytes == 1 .. Width
Uint256 == [Bytes -> 0 .. 255]

\* The 256-bit number of a value that fits in 31 bits.
FromWord(n) == [i \in Bytes |-> IF i <= 4 THEN (n \div 256^(i - 1)) % 256 ELSE 0]

\* The low 32 bits of x, when they fit in 31 bits.
LowWord(x) == x[1] + \H100 * x[2] + \H10000 * x[3] + \H1000000 * x[4]

\* ~uint256(0) >> nBits: the form in which the pow limits are written.
OnesShiftedRight(nBits) ==
    [i \in Bytes |->
        CASE i < Width - nBits \div 8 -> 255
          [] i = Width - nBits \div 8 -> 255 \div 2^(nBits % 8)
          [] OTHER -> 0]

\* x << 8*n and x >> 8*n; bytes shifted out of the 256 bits are lost.
ShiftLeftBytes(x, n) == [i \in Bytes |-> IF i > n THEN x[i - n] ELSE 0]
ShiftRightBytes(x, n) == [i \in Bytes |-> IF i + n <= Width THEN x[i + n] ELSE 0]

\* The number of bytes x needs: (bits() + 7) / 8.
SizeInBytes(x) == Max({0} \cup {i \in Bytes : x[i] # 0})

\* x <= y, decided at the most significant byte in which they differ.
LessEq(x, y) ==
    LET differ == {i \in Bytes : x[i] # y[i]}
    IN  differ = {} \/ x[Max(differ)] < y[Max(differ)]

\* word * 256^shift, for a word below 2^31.
Scaled(word, shift) == ShiftLeftBytes(FromWord(word), shift)

\* 256^e modulo d, by repeated squaring.
RECURSIVE Pow256Mod(_, _)
Pow256Mod(e, d) ==
    IF e = 0 THEN 1 % d
    ELSE LET half == Pow256Mod(e \div 2, d)
         IN  IF e % 2 = 0 THEN (half * half) % d
             ELSE (((half * half) % d) * 256) % d

\* (word * 256^shift) / d rounded down, for a word below 2^31 and a d with
\* d * d below 2^31.  The bytes at and above the shift are those of
\* word / d; the byte t places below it is the t-th digit, in base 256, of
\* the fraction (word % d) / d.
ScaledQuotient(word, shift, d) ==
    [i \in Bytes |->
        IF i > shift
        THEN IF i - shift <= 4 THEN ((word \div d) \div 256^(i - shift - 1)) % 256
             ELSE 0
        ELSE ((((word % d) * Pow256Mod(shift - i, d)) % d) * 256) \div d]

----------------------------------------------------------------------------
(* The compact encoding: the top byte is the size in bytes, bit 23 the     *)
(* sign, the low 23 bits the mantissa.  A compact value is a number below  *)
(* 2^31 here, so its size byte is below 128.                               *)

nSizeOf(nCompact) == nCompact \div \H1000000
nWordOf(nCompact) == nCompact % \H800000
SignBit(nCompact) == (nCompact \div \H800000) % 2

\* The decoded number is CompactWord * 256^CompactShift: a size below 3
\* shifts the mantissa right, a size above 3 shifts it left.
CompactWord(nCompact) ==
    IF nSizeOf(nCompact) <= 3
    THEN nWordOf(nCompact) \div 256^(3 - nSizeOf(nCompact))
    ELSE nWordOf(nCompact)

CompactShift(nCompact) == Max({nSizeOf(nCompact) - 3, 0})

\* arith_uint256::SetCompact: the number, and the two flags pfNegative and
\* pfOverflow that the callers test.
SetCompact(nCompact) ==
    LET nSize == nSizeOf(nCompact)
        nWord == nWordOf(nCompact)
    IN  [ value     |-> Scaled(CompactWord(nCompact), CompactShift(nCompact)),
          fNegative |-> nWord # 0 /\ SignBit(nCompact) = 1,
          fOverflow |-> /\ nWord # 0
                        /\ \/ nSize > 34
                           \/ nWord > 255 /\ nSize > 33
                           \/ nWord > 65535 /\ nSize > 32 ]

(* Mutation of GetCompact: a mantissa whose top bit is set is stored as it *)
(* is, so that it reads back as the sign.                                  *)
GetCompactUnnormalised(x) ==
    LET nSize == SizeInBytes(x)
        nWord == IF nSize <= 3 THEN LowWord(x) * 256^(3 - nSize)
                 ELSE LowWord(ShiftRightBytes(x, nSize - 3))
    IN  nWord + \H1000000 * nSize

\* arith_uint256::GetCompact of a number that is not negative: the three
\* most significant bytes, one byte fewer when the top bit would be set.
GetCompact(x) ==
    LET nSize == SizeInBytes(x)
        nWord == IF nSize <= 3 THEN LowWord(x) * 256^(3 - nSize)
                 ELSE LowWord(ShiftRightBytes(x, nSize - 3))
    IN  IF nWord >= \H800000
        THEN nWord \div 256 + \H1000000 * (nSize + 1)
        ELSE nWord + \H1000000 * nSize

=============================================================================

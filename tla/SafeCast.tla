-------------------------------- MODULE SafeCast -------------------------------
(***************************************************************************)
(* The checked casts of the SafeCast template. WordBits is 256 in the      *)
(* code; the narrower types are those of fewer bits. A cast comes in two   *)
(* parts: what it requires, and the number it returns when that holds.     *)
(***************************************************************************)
EXTENDS Integers

CONSTANT WordBits

ASSUME WordBitsAssumption == WordBits \in Nat \ {0}

\* What powers of two are; the proof system knows nothing of ^.
ASSUME PowersAssumption ==
    \A bits \in 1..WordBits :
        2 ^ (bits - 1) \in Nat \ {0} /\ 2 ^ bits = 2 * 2 ^ (bits - 1)

\* The code goes through the lengths in steps of eight bits, below 256.
LENGTHS == 1..(WordBits - 1)

MaxUint(bits) == 2 ^ bits - 1
MaxInt(bits) == 2 ^ (bits - 1) - 1
MinInt(bits) == -(2 ^ (bits - 1))

\* Solidity's uintN(value) and intN(value) keep the low bits, the second
\* with the highest of them as the sign.
Truncate(length, value) == value % (2 ^ length)

TruncateSigned(length, value) ==
    LET low == Truncate(length, value)
    IN  IF low > MaxInt(length) THEN low - 2 ^ length ELSE low

FitsUint(length, value) == value <= MaxUint(length)
ToUintDownCast(length, value) == Truncate(length, value)

\* A slip: only the upper end is looked at.
FitsIntAbove(length, value) == value <= MaxInt(length)

FitsInt(length, value) == TruncateSigned(length, value) = value
ToIntDownCast(length, value) == TruncateSigned(length, value)

FitsSigned(value) == value <= MaxInt(WordBits)
ToInt(value) == TruncateSigned(WordBits, value)

FitsUnsigned(value) == value >= 0
ToUint(value) == Truncate(WordBits, value)
================================================================================

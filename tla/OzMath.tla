--------------------------------- MODULE OzMath --------------------------------
(***************************************************************************)
(* Math.sqrt of the vendored OpenZeppelin library (Math.sol), the only     *)
(* arithmetic the Checkpoints template relies on beside an average.        *)
(***************************************************************************)
EXTENDS Naturals

\* Math.log2, rounded down.
Log2(a) == CHOOSE k \in 0..a : 2 ^ k <= a /\ a < 2 ^ (k + 1)

\* One round of Newton's method, and the seven the code has.
Newton(a, r) == (r + a \div r) \div 2

Sqrt(a) ==
    LET guess == 2 ^ (Log2(a) \div 2)
        r[i \in 0..7] == IF i = 0 THEN guess ELSE Newton(a, r[i - 1])
    IN  IF a = 0 THEN 0
        ELSE IF r[7] < a \div r[7] THEN r[7] ELSE a \div r[7]
================================================================================

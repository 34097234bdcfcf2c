-------------------------------- MODULE Bytes32 --------------------------------
(***************************************************************************)
(* The words the generated OpenZeppelin containers store, and how the      *)
(* types of their callers go in and out of them (conversion.js). A word    *)
(* is a number below WordMod (2^256); an address is a number below         *)
(* AddressMod (2^160); the other two types fill a word.                    *)
(***************************************************************************)
EXTENDS Integers

CONSTANTS WordMod, AddressMod

ASSUME WordsAssumption ==
    /\ WordMod \in Nat \ {0}
    /\ AddressMod \in 1..WordMod

Word == 0..(WordMod - 1)

Types == {"bytes32", "uint256", "address"}

ValuesOf(type) == IF type = "address" THEN 0..(AddressMod - 1) ELSE Word

\* Every cast keeps the low bits: uint160 cuts a word down to an address.
ToBytes32(type, value) ==
    IF type = "address" THEN value % AddressMod ELSE value

FromBytes32(type, word) ==
    IF type = "address" THEN word % AddressMod ELSE word
================================================================================

------------------------------- MODULE MCFrontend ------------------------------
(***************************************************************************)
(* Instances of Frontend for TLC.                                          *)
(***************************************************************************)
EXTENDS Frontend

CONSTANTS c1, c2, t1, t2, t3

TwoListed == AddTokenId(AddTokenId(EmptyList(Ids), t1), t2)

FirstRoyalty == [c \in Collections |-> IF c = c1 THEN 5 ELSE 0]
================================================================================

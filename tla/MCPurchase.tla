------------------------------- MODULE MCPurchase -------------------------------
(***************************************************************************)
(* Instances of Purchase for TLC: one token, listed at two prices by one   *)
(* seller and at one by the next, with royalties of a hundred percent; at  *)
(* five percent some of the prices are no whole numbers.                   *)
(***************************************************************************)
EXTENDS Purchase

CONSTANTS alice, bob, artist, c1, t1

Listing(u, price, royalties) ==
    [offerer |-> u, token |-> c1, tokenId |-> t1, amount |-> price,
     recipients |-> <<[recipient |-> artist, amount |-> royalties]>>,
     startTime |-> 0, endTime |-> 1, salt |-> 1, shape |-> "market"]

RoyaltyOrders == {Listing(alice, 10, 10), Listing(alice, 20, 20), Listing(bob, 10, 10)}

NoApprovals == {}
================================================================================

------------------------------- MODULE MCListings ------------------------------
(***************************************************************************)
(* An instance of MarketMap for TLC over all lists and all numbers of      *)
(* recipients. Bound: the orders of one behaviour are of one kind, three   *)
(* tokens with one order each or one token with every number of            *)
(* recipients, and tokens for which there is none stay as they are.        *)
(***************************************************************************)
EXTENDS MCMarketMap

VARIABLE kind

listingsVars == <<vars, kind>>

AllOrders == PlainOrders \cup MixedOrders

ListingsInit == Init /\ kind \in {PlainOrders, MixedOrders}

OfKind ==
    \A c \in Collections, t \in Ids :
        /\ orders'[c][t].signature # NoSignature =>
               orders'[c][t].signature.order \in kind
        /\ t \notin {o.tokenId : o \in kind} =>
               /\ owner'[c][t] = owner[c][t]
               /\ approved'[c][t] = approved[c][t]

ListingsNext == Next /\ OfKind /\ UNCHANGED kind

ListingsSpec == ListingsInit /\ [][ListingsNext]_listingsVars
================================================================================

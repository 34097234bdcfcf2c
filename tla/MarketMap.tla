------------------------------- MODULE MarketMap -------------------------------
(***************************************************************************)
(* The market's backend, MarketMap.sol: a database of the orders listed    *)
(* for sale, kept beside Seaport, which does every trade.                  *)
(*                                                                         *)
(* A transaction is one step: it takes all its effects or reverts and      *)
(* takes none, and a call that reverts is a step that is not enabled.      *)
(* Between any two of them stand the steps of Seaport's and the            *)
(* collections' other users, which the market is not told of.              *)
(*                                                                         *)
(* A signature is modelled by the digest it signs, so a stored order       *)
(* remembers which order its seller listed.                                *)
(***************************************************************************)
EXTENDS Seaport, TokenList, OrderCodec

CONSTANTS
    Payees,     \* recipients of further considerations
    Orders,     \* the orders sellers sign and list
    WithOpensea, \* bound: may an OpenSea signature come along: some BOOLEANs
    NoSignature \* the zero signature of a deleted order

OrderType == OrdersAmong(Users, Collections, Ids, Payees)

ASSUME OrdersAssumption == Orders \subseteq OrderType /\ WithOpensea \subseteq BOOLEAN

\* The zero signature signs nothing.
ASSUME SignatureAssumption ==
    NoSignature \notin [order : Orders, counter : 0..MaxCounter]

VARIABLES
    orders,               \* orders[token][tokenId]
    additionalRecipients, \* additionalRecipients[token][tokenId][slot]
    tokenIdsWithOrders,   \* tokenIdsWithOrders[token]
    tokenIdToIndex        \* tokenIdToIndex[token][tokenId]

marketVars == <<orders, additionalRecipients, tokenIdsWithOrders, tokenIdToIndex>>
vars == <<marketVars, erc721Vars, seaportVars>>

NoOrder == [amount |-> 0, startTime |-> 0, endTime |-> 0, salt |-> 0,
            signature |-> NoSignature]

List(c) == [ids |-> tokenIdsWithOrders[c], index |-> tokenIdToIndex[c]]

MarketInit ==
    /\ orders = [c \in Collections |-> [t \in Ids |-> NoOrder]]
    /\ additionalRecipients =
           [c \in Collections |-> [t \in Ids |-> [i \in Slots |-> EmptySlot]]]
    /\ tokenIdsWithOrders = [c \in Collections |-> EmptyList(Ids).ids]
    /\ tokenIdToIndex = [c \in Collections |-> EmptyList(Ids).index]

Init == Erc721Init /\ SeaportInit /\ MarketInit

--------------------------------------------------------------------------------

\* composeOrder: the stored terms with the token's present owner as offerer.
Composed(c, t) ==
    ComposeOrder(orders[c][t], additionalRecipients[c][t], owner[c][t], c, t)

\* It reverts for a burned token, and when its slot counter overflows.
CanCompose(c, t) ==
    /\ Exists(c, t)
    /\ HasEmptySlot(additionalRecipients[c][t])

\* getOrderStatus: Seaport's isValidated of the composed order's hash.
OrderStatus(c, t) ==
    /\ CanCompose(c, t)
    /\ Digest(Composed(c, t)) \in validated

SetList(c, list) ==
    /\ tokenIdsWithOrders' = [tokenIdsWithOrders EXCEPT ![c] = list.ids]
    /\ tokenIdToIndex' = [tokenIdToIndex EXCEPT ![c] = list.index]

\* A slip: the new order never gets into the list.
StoreOrderForgetsList(o, signature) ==
    /\ additionalRecipients' =
           [additionalRecipients EXCEPT ![o.token][o.tokenId] =
               StoreAdditionalRecipients(@, o.recipients)]
    /\ orders' = [orders EXCEPT ![o.token][o.tokenId] =
                     UniqueOrderParameters(o, signature)]
    /\ UNCHANGED <<tokenIdsWithOrders, tokenIdToIndex>>

StoreOrderAndRecipients(o, signature) ==
    LET c == o.token
        t == o.tokenId
    IN  /\ additionalRecipients' =
               [additionalRecipients EXCEPT ![c][t] =
                   StoreAdditionalRecipients(@, o.recipients)]
        /\ orders' = [orders EXCEPT ![c][t] = UniqueOrderParameters(o, signature)]
        /\ SetList(c, AddTokenId(List(c), t))

\* The orders handed to Seaport. The second one is there with an OpenSea
\* signature, which its seller may have made of any order: Seaport compares
\* it with the one composed here.
OrderList(o, opensea) ==
    IF opensea THEN {o, ComposeOpenseaOrder(o)} ELSE {o}

--------------------------------------------------------------------------------
(* Slips of the hand in the transactions below: no validation, a delisting *)
(* that forgets one of its two structures, or one that leaves Seaport's    *)
(* order alone.                                                            *)

SellUnvalidated(o, opensea) ==
    /\ ValidParameters(o)
    /\ approved[o.token][o.tokenId]
    /\ StoreOrderAndRecipients(o, Digest(o))
    /\ UNCHANGED <<validated, cancelled, filled, counter, now, owner, approved>>

BuyKeepsOrder(c, t, recipient) ==
    /\ CanCompose(c, t)
    /\ FulfilOrder(Digest(Composed(c, t)), orders[c][t].signature, recipient)
    /\ HasIndex(List(c), t)
    /\ SetList(c, RemoveTokenId(List(c), t))
    /\ UNCHANGED <<orders, additionalRecipients>>

CancelOrderInDatabaseOnly(u, c, t) ==
    /\ CanCompose(c, t)
    /\ u = owner[c][t]
    /\ HasIndex(List(c), t)
    /\ orders' = [orders EXCEPT ![c][t] = NoOrder]
    /\ additionalRecipients' =
           [additionalRecipients EXCEPT ![c][t] = ClearAdditionalRecipients(@)]
    /\ SetList(c, RemoveTokenId(List(c), t))
    /\ UNCHANGED <<validated, cancelled, filled, counter, now, owner, approved>>

--------------------------------------------------------------------------------
(* The transactions. Anybody may send a signed order to sell.              *)

Sell(o, opensea) ==
    /\ ValidParameters(o)
    /\ approved[o.token][o.tokenId]
    /\ ValidateOrders({Digest(p) : p \in OrderList(o, opensea)})
    /\ StoreOrderAndRecipients(o, Digest(o))

\* The payment is exact: the market cannot receive Seaport's refund. Further
\* recipients stay in storage.
Buy(c, t, recipient) ==
    /\ CanCompose(c, t)
    /\ FulfilOrder(Digest(Composed(c, t)), orders[c][t].signature, recipient)
    /\ HasIndex(List(c), t)
    /\ orders' = [orders EXCEPT ![c][t] = NoOrder]
    /\ SetList(c, RemoveTokenId(List(c), t))
    /\ UNCHANGED additionalRecipients

\* The market is the zone of the composed order and may cancel it for u.
CancelOrder(u, c, t) ==
    /\ CanCompose(c, t)
    /\ u = owner[c][t]
    /\ CancelDigest(Digest(Composed(c, t)))
    /\ orders' = [orders EXCEPT ![c][t] = NoOrder]
    /\ additionalRecipients' =
           [additionalRecipients EXCEPT ![c][t] = ClearAdditionalRecipients(@)]
    /\ HasIndex(List(c), t)
    /\ SetList(c, RemoveTokenId(List(c), t))

--------------------------------------------------------------------------------

Selling == \E o \in Orders, opensea \in WithOpensea : Sell(o, opensea)
Buying == \E c \in Collections, t \in Ids, r \in Users : Buy(c, t, r)
Cancelling == \E u \in Users, c \in Collections, t \in Ids : CancelOrder(u, c, t)
Elsewhere == ChainStep /\ UNCHANGED marketVars

Next == Selling \/ Buying \/ Cancelling \/ Elsewhere

Spec == Init /\ [][Next]_vars

--------------------------------------------------------------------------------
(* Properties.                                                             *)

Signatures == {NoSignature} \cup
    [order : Orders, counter : 0..MaxCounter]

Terms == [amount : 0..(AmountMod - 1), startTime : 0..(TimeMod - 1),
          endTime : 0..(TimeMod - 1), salt : 0..(SaltMod - 1),
          signature : Signatures]

SlotValues == [recipient : Payees \cup {NoRecipient}, amount : 0..(AmountMod - 1)]

MarketType ==
    /\ orders \in [Collections -> [Ids -> Terms]]
    /\ additionalRecipients \in [Collections -> [Ids -> [Slots -> SlotValues]]]
    /\ tokenIdsWithOrders \in [Collections -> Seq(Ids)]
    /\ tokenIdToIndex \in [Collections -> [Ids -> Nat]]

SeaportType ==
    /\ counter \in [Users -> 0..MaxCounter]
    /\ now \in 0..MaxNow

\* Every stored field stays within its Solidity type, whatever order is sold.
TypeOK == Erc721Type /\ SeaportType /\ MarketType

Listed(c, t) == HasIndex(List(c), t)

\* The array that getOrders returns and the index mapping stay inverse to
\* each other through every mix of listings, re-listings, sales and
\* cancellations (addTokenId, removeTokenId).
IndexSound == \A c \in Collections : ListSound(Ids, List(c))

\* A token is in its collection's list exactly when an order is stored for
\* it: the two structures are updated by separate code in sell, buy and
\* cancelOrder and never part.
ListedIffStored ==
    \A c \in Collections, t \in Ids :
        Listed(c, t) <=> orders[c][t].signature # NoSignature

\* composeOrder's uint8 slot counter never overflows, so the only listing that
\* can get stuck, with buy, cancelOrder and getOrderStatus always reverting, is
\* that of a burned token, whatever number of recipients was ever stored.
ComposeNeverOverflows ==
    \A c \in Collections, t \in Ids : Exists(c, t) => CanCompose(c, t)

\* Orders the contract can store, and as many recipients in every order for
\* the same token: what the frontend makes of a collection whose royalty
\* does not come or go.
UniformOrders ==
    /\ \A o \in Orders : Storable(o)
    /\ \A o, p \in Orders : o.token = p.token /\ o.tokenId = p.tokenId =>
           Len(o.recipients) = Len(p.recipients)

\* What composeOrder makes of a listing is the order its seller listed, but
\* for the offerer, which is the token's present owner.
RoundTrip ==
    \A c \in Collections, t \in Ids :
        Listed(c, t) =>
            Composed(c, t) = [orders[c][t].signature.order
                                  EXCEPT !.offerer = owner[c][t]]

\* The signed recipients of a listing are still the first ones of the order
\* composeOrder makes of it, even when storage left behind by an earlier
\* listing adds more.
RecipientsKept ==
    \A c \in Collections, t \in Ids :
        Listed(c, t) /\ Storable(orders[c][t].signature.order) =>
            IsPrefix(orders[c][t].signature.order.recipients,
                     Composed(c, t).recipients)

Buyable(c, t) ==
    /\ CanCompose(c, t)
    /\ LET d == Digest(Composed(c, t))
       IN  Tradable(d) /\ Authorised(d, orders[c][t].signature)

\* The frontend shows an order only while getOrderStatus says true: no order
\* that buy would accept is hidden by that.
BuyableIsShown ==
    \A c \in Collections, t \in Ids : Buyable(c, t) => OrderStatus(c, t)

\* "It queries the order status from Seaport to ensure it is still a valid
\* order", one that "has not been sold", as the change log says of
\* getOrderStatus.
ShownIsUnsold ==
    \A c \in Collections, t \in Ids :
        OrderStatus(c, t) => Digest(Composed(c, t)) \notin filled

\* A seller's own listing leaves the database only together with its order:
\* the order is traded or cancelled in Seaport by the very same step. (The
\* listing of somebody who no longer owns the token, or whose counter moved
\* on, is dead already.)
DelistedMeansSpent ==
    [][\A c \in Collections, t \in Ids :
           LET d == orders[c][t].signature
           IN  /\ Listed(c, t) /\ ~Listed(c, t)'
               /\ d.order.offerer = owner[c][t]
               /\ d.counter = counter[d.order.offerer]
               => d \in cancelled' \cup filled']_vars

\* The four mappings implement a plain listing book: one entry for a token,
\* each listed token once on the page, one entry changed by a step.
Book == INSTANCE ListingBook WITH
    Entries <- [c \in Collections |-> [t \in Ids |->
                   {d \in Signatures \ {NoSignature} :
                        d.order.token = c /\ d.order.tokenId = t}]],
    None <- NoSignature,
    book <- [c \in Collections |-> [t \in Ids |-> orders[c][t].signature]],
    page <- tokenIdsWithOrders

ImplementsBook == Book!BookSpec

\* "Allows a seller to cancel their order" (cancelOrder): the order listed by
\* its present owner is cancelled in Seaport.
CancelTakesEffect ==
    [][\A u \in Users, c \in Collections, t \in Ids :
           LET d == orders[c][t].signature
           IN  CancelOrder(u, c, t) /\ d.order.offerer = u /\ d.counter = counter[u]
               => d \in cancelled']_vars

\* "Cancel the sale of an item" (README): after cancelOrder no order that the
\* seller listed for the token can be traded.
CancelEndsSale ==
    [][\A u \in Users, c \in Collections, t \in Ids :
           CancelOrder(u, c, t) =>
               \A d \in validated' :
                   ~ /\ d.order.token = c /\ d.order.tokenId = t
                     /\ d.order.offerer = u
                     /\ Tradable(d)']_vars
================================================================================

----------------------------- MODULE OrderStorage ------------------------------
(***************************************************************************)
(* What the contract stores for one token, over orders of every shape and  *)
(* size: sell overwrites the terms and as many recipient slots as the      *)
(* order fills, buy deletes the terms, cancelOrder deletes the terms and   *)
(* runs its clearing loop. Whether Seaport lets these calls through is     *)
(* left open here; MarketMap puts the storage and Seaport together.        *)
(***************************************************************************)
EXTENDS OrderCodec

CONSTANTS
    Accounts, Collections, Ids,
    Inputs,   \* the orders handed to sell
    NoListing \* nothing is listed

ASSUME InputsAssumption ==
    /\ Inputs \subseteq OrdersAmong(Accounts, Collections, Ids, Accounts)
    /\ NoListing \notin Inputs

VARIABLES
    listed, \* the order that was listed, or NoListing
    terms,  \* orders[token][tokenId]
    slots,  \* additionalRecipients[token][tokenId]
    most    \* the most recipients any order stored so far had

storageVars == <<listed, terms, slots, most>>

NoTerms == [amount |-> 0, startTime |-> 0, endTime |-> 0, salt |-> 0,
            signature |-> NoListing]

StorageInit ==
    /\ listed = NoListing
    /\ terms = NoTerms
    /\ slots = [i \in Slots |-> EmptySlot]
    /\ most = 0

Store(o) ==
    /\ ValidParameters(o)
    /\ listed' = o
    /\ terms' = UniqueOrderParameters(o, o)
    /\ slots' = StoreAdditionalRecipients(slots, o.recipients)
    /\ most' = IF Len(o.recipients) > most THEN Len(o.recipients) ELSE most

DeleteSold ==
    /\ listed # NoListing
    /\ HasEmptySlot(slots)
    /\ listed' = NoListing
    /\ terms' = NoTerms
    /\ UNCHANGED <<slots, most>>

DeleteCancelled ==
    /\ listed # NoListing
    /\ HasEmptySlot(slots)
    /\ listed' = NoListing
    /\ terms' = NoTerms
    /\ slots' = ClearAdditionalRecipients(slots)
    /\ UNCHANGED most

StorageNext == (\E o \in Inputs : Store(o)) \/ DeleteSold \/ DeleteCancelled

StorageSpec == StorageInit /\ [][StorageNext]_storageVars

--------------------------------------------------------------------------------

Recomposed ==
    ComposeOrder(terms, slots, listed.offerer, listed.token, listed.tokenId)

\* composeOrder gives back exactly the listed order, at every boundary of the
\* fields' ranges, for an order that fits (Storable) and fills every slot
\* that was ever filled for its token.
StorableComposes ==
    /\ listed # NoListing
    /\ Storable(listed)
    /\ Len(listed.recipients) = most
    => Recomposed = listed

\* The contract computes the OpenSea order the seller signed in the frontend,
\* fee and positions, for an order with no royalty or one.
OpenseaAsSigned ==
    /\ listed # NoListing
    /\ Len(listed.recipients) <= 1
    /\ FeeIsWhole(listed)
    => ComposeOpenseaOrder(listed) = SignedOpenseaOrder(listed)

\* "Pre-validates the order parameters to ensure they can be stored without
\* issues" (validateOrderParameters): what it accepts for a token that had no
\* order before is composed again as it was.
ValidatedIsKept ==
    (listed # NoListing /\ Len(listed.recipients) = most) => Recomposed = listed
================================================================================

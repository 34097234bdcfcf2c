-------------------------------- MODULE Seaport --------------------------------
(***************************************************************************)
(* What the market uses of Seaport (interface ISeaport): validate,         *)
(* fulfillAdvancedOrder, cancel, getCounter, getOrderHash and              *)
(* getOrderStatus, and what Seaport's other users do to the same orders.   *)
(* External code.                                                          *)
(*                                                                         *)
(* Seaport keeps orders by hash only. The hash, and what a seller signs,   *)
(* is the whole order with the offerer's counter: a Digest.                *)
(***************************************************************************)
EXTENDS Erc721, Sequences

CONSTANTS
    MaxCounter, \* bound: how often a user increments the counter
    MaxNow      \* bound: how far the block time goes

ASSUME SeaportAssumption == MaxCounter \in Nat /\ MaxNow \in Nat

VARIABLES
    validated, \* digests with isValidated
    cancelled, \* digests with isCancelled
    filled,    \* digests whose full quantity has been traded
    counter,   \* counter[u]
    now        \* block.timestamp

seaportVars == <<validated, cancelled, filled, counter, now>>

Digest(o) == [order |-> o, counter |-> counter[o.offerer]]

SeaportInit ==
    /\ validated = {} /\ cancelled = {} /\ filled = {}
    /\ counter = [u \in Users |-> 0]
    /\ now = 0

Spent(d) == d \in cancelled \cup filled

Spender(o) == IF o.shape = "market" THEN "seaport" ELSE "conduit"

InWindow(o) == o.startTime <= now /\ now < o.endTime

\* It transfers no empty amount.
NothingEmpty(o) ==
    o.amount # 0 /\ \A i \in 1..Len(o.recipients) : o.recipients[i].amount # 0

\* Seaport would trade the order that has digest d, were it authorised.
Tradable(d) ==
    /\ ~Spent(d)
    /\ d.counter = counter[d.order.offerer]
    /\ InWindow(d.order) /\ NothingEmpty(d.order)
    /\ owner[d.order.token][d.order.tokenId] = d.order.offerer
    /\ CanMove(d.order.token, d.order.tokenId, Spender(d.order))

\* Validated once, or with a signature of exactly this digest.
Authorised(d, signature) == d \in validated \/ signature = d

\* validate: marks every order of a list, or reverts.
ValidateOrders(ds) ==
    /\ \A d \in ds : ~Spent(d)
    /\ validated' = validated \cup ds
    /\ UNCHANGED <<cancelled, filled, counter, now, owner, approved>>

\* fulfillAdvancedOrder: a traded order also counts as validated.
FulfilOrder(d, signature, recipient) ==
    /\ Tradable(d)
    /\ Authorised(d, signature)
    /\ filled' = filled \cup {d}
    /\ validated' = validated \cup {d}
    /\ MoveToken(d.order.token, d.order.tokenId, recipient)
    /\ UNCHANGED <<cancelled, counter, now>>

\* cancel, by the offerer or the zone: any digest, known or not.
CancelDigest(d) ==
    /\ cancelled' = cancelled \cup {d}
    /\ validated' = validated \ {d}
    /\ UNCHANGED <<filled, counter, now, owner, approved>>

--------------------------------------------------------------------------------
(* Steps that do not go through the market.                                *)

DirectFulfil ==
    \E d \in validated, r \in Users :
        FulfilOrder(d, d, r)

DirectCancel ==
    \E d \in validated \ filled : CancelDigest(d)

IncrementCounter ==
    \E u \in Users :
        /\ counter[u] < MaxCounter
        /\ counter' = [counter EXCEPT ![u] = @ + 1]
        /\ UNCHANGED <<validated, cancelled, filled, now, owner, approved>>

Tick ==
    /\ now < MaxNow
    /\ now' = now + 1
    /\ UNCHANGED <<validated, cancelled, filled, counter, owner, approved>>

Approve ==
    \E c \in Collections, t \in Ids, b \in BOOLEAN :
        SetApproval(c, t, b) /\ UNCHANGED seaportVars

Transfer ==
    \E c \in Collections, t \in Ids, u \in Users :
        TransferToken(c, t, u) /\ UNCHANGED seaportVars

Burn ==
    \E c \in Collections, t \in Ids : BurnToken(c, t) /\ UNCHANGED seaportVars

ChainStep == \/ DirectFulfil \/ DirectCancel \/ IncrementCounter \/ Tick
             \/ Approve \/ Transfer \/ Burn
================================================================================

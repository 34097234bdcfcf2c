------------------------------- MODULE OrderCodec -------------------------------
(***************************************************************************)
(* How MarketMap.sol squeezes a Seaport order into narrow storage fields   *)
(* and composes it again: validateOrderParameters,                         *)
(* createUniqueOrderParameters, storeAdditionalRecipients, composeOrder,   *)
(* and the second order composeOpenseaOrder derives for OpenSea.           *)
(*                                                                         *)
(* An order is a record of what varies between the orders of one market:   *)
(*   offerer, token, tokenId    the seller and the one offered NFT;        *)
(*   amount                     consideration[0].startAmount, in wei;      *)
(*   recipients                 consideration[1..], a sequence of          *)
(*                              [recipient, amount in wei];                *)
(*   startTime, endTime, salt;                                             *)
(*   shape                      everything else. "market" is what          *)
(*     composeOrder fills in: this market as zone, no conduit, FULL_OPEN,  *)
(*     one ERC721 item, native considerations whose end amount is their    *)
(*     start amount, the first of them paid to the offerer. "opensea" is   *)
(*     the same with no zone and OpenSea's conduit. "other" is any other.  *)
(***************************************************************************)
EXTENDS Naturals, SequencesExt

CONSTANTS
    Unit,        \* 1e3: amounts are stored divided by it
    AmountMod,   \* 2^64, the range of a stored amount
    AmountCap,   \* 1.84e22, the price validateOrderParameters refuses
    TimeMod,     \* 2^32, the range of a stored time
    EndTimeCap,  \* 4.2e9, the endTime validateOrderParameters refuses
    SaltMod,     \* 2^16, the range of a stored salt
    SaltCap,     \* 65000, the salt validateOrderParameters refuses
    SlotMax,     \* 255, the last index a uint8 key can name
    FeeNum,      \* openseaFee
    FeeDen,      \* 1e18
    NoRecipient, \* address(0)
    OpenSea      \* openseaAddress

\* What the constants of the contract satisfy, and all that is used of them.
ASSUME CodecAssumption ==
    /\ Unit \in Nat \ {0}
    /\ AmountMod \in Nat \ {0}
    /\ AmountCap \in Nat /\ AmountCap <= Unit * AmountMod
    /\ TimeMod \in Nat /\ EndTimeCap \in Nat /\ EndTimeCap <= TimeMod
    /\ SaltMod \in Nat /\ SaltCap \in Nat /\ SaltCap <= SaltMod
    /\ TimeMod > 0 /\ SaltMod > 0
    /\ SlotMax \in Nat /\ SlotMax >= 2
    /\ FeeNum \in Nat /\ FeeDen \in Nat \ {0}

Slots == 1..SlotMax
EmptySlot == [recipient |-> NoRecipient, amount |-> 0]
Shapes == {"market", "opensea", "other"}

\* The amounts of the recipients rs, added up.
SumOfAmounts(rs) ==
    LET sum[i \in 0..Len(rs)] == IF i = 0 THEN 0 ELSE sum[i - 1] + rs[i].amount
    IN  sum[Len(rs)]

\* The orders of some users for some tokens, paying some accounts.
OrdersAmong(users, collections, ids, payees) ==
    [offerer : users, token : collections, tokenId : ids, amount : Nat,
     recipients : Seq([recipient : payees, amount : Nat]),
     startTime : Nat, endTime : Nat, salt : Nat, shape : Shapes]

--------------------------------------------------------------------------------
(* Slips of the hand in the operators below, in their order.               *)

ValidParametersLaxPrice(o) ==
    /\ o.amount < AmountCap
    /\ o.endTime < EndTimeCap
    /\ o.salt < SaltCap

PackAmountUncast(wei) == wei \div Unit

StoreAdditionalRecipientsOneLess(slots, rs) ==
    [i \in Slots |-> IF i < Len(rs)
                     THEN [recipient |-> rs[i].recipient,
                           amount    |-> (rs[i].amount \div Unit) % AmountMod]
                     ELSE slots[i]]

StoreAdditionalRecipientsUncast(slots, rs) ==
    [i \in Slots |-> IF i <= Len(rs)
                     THEN [recipient |-> rs[i].recipient,
                           amount    |-> (rs[i].amount \div Unit) % AmountMod]
                     ELSE slots[i]]

OpenseaFeeOnPriceOnly(o) == (o.amount * FeeNum) \div FeeDen

--------------------------------------------------------------------------------
(* Into storage.                                                           *)

\* The numeric checks of validateOrderParameters. It looks at the first
\* consideration only, and not at startTime.
ValidParameters(o) ==
    /\ o.amount % Unit = 0
    /\ o.amount < AmountCap
    /\ o.endTime < EndTimeCap
    /\ o.salt < SaltCap

\* A uint64 cast of a wei amount divided by 1e3.
PackAmount(wei) == (wei \div Unit) % AmountMod

UniqueOrderParameters(o, signature) ==
    [amount    |-> PackAmount(o.amount),
     startTime |-> o.startTime % TimeMod,
     endTime   |-> o.endTime % TimeMod,
     salt      |-> o.salt % SaltMod,
     signature |-> signature]

\* Stores one slot per further consideration. Their number is cast to uint8,
\* and a slot the order has no consideration for is left as it was.
StoreAdditionalRecipients(slots, rs) ==
    LET considerations == (Len(rs) + 1) % (SlotMax + 1)
    IN  [i \in Slots |-> IF i < considerations
                         THEN [recipient |-> rs[i].recipient,
                               amount    |-> PackAmount(rs[i].amount)]
                         ELSE slots[i]]

--------------------------------------------------------------------------------
(* Out of storage.                                                         *)

\* composeOrder reads slots until the first one with amount 0. With none,
\* its uint8 counter overflows and the call reverts.
HasEmptySlot(slots) == \E i \in Slots : slots[i].amount = 0

FirstEmptySlot(slots) ==
    CHOOSE i \in Slots : /\ slots[i].amount = 0
                         /\ \A j \in 1..(i - 1) : slots[j].amount # 0

LoadRecipients(slots) ==
    [i \in 1..(FirstEmptySlot(slots) - 1) |->
        [recipient |-> slots[i].recipient, amount |-> slots[i].amount * Unit]]

ComposeOrder(terms, slots, offerer, token, tokenId) ==
    [offerer    |-> offerer,
     token      |-> token,
     tokenId    |-> tokenId,
     amount     |-> terms.amount * Unit,
     recipients |-> LoadRecipients(slots),
     startTime  |-> terms.startTime,
     endTime    |-> terms.endTime,
     salt       |-> terms.salt,
     shape      |-> "market"]

\* cancelOrder's clearing loop, which advances before it deletes: it deletes
\* slot 2, finds it empty and stops. Slot 1 and the slots after 2 stay.
ClearAdditionalRecipients(slots) ==
    IF slots[1].amount > 0 THEN [slots EXCEPT ![2] = EmptySlot] ELSE slots

--------------------------------------------------------------------------------
(* The OpenSea order.                                                      *)

\* The fee counts the price and the first further consideration.
OpenseaFee(o) ==
    LET base == IF o.recipients = << >> THEN o.amount
                ELSE o.amount + o.recipients[1].amount
    IN  (base * FeeNum) \div FeeDen

FeeItem(o) == [recipient |-> OpenSea, amount |-> OpenseaFee(o)]

\* The contract's order: one further consideration is carried over after the
\* fee; when there are more, their places are left blank.
ComposeOpenseaOrder(o) ==
    [o EXCEPT !.shape = "opensea",
              !.recipients = <<FeeItem(o)>> \o
                  IF Len(o.recipients) = 1 THEN o.recipients
                  ELSE [i \in 1..Len(o.recipients) |-> EmptySlot]]

\* The order the frontend asks the seller to sign for OpenSea: the fee on the
\* whole price and then every royalty. Its amounts are numbers with a
\* fraction, and only a whole fee is an amount a wallet signs.
WholePrice(o) == o.amount + SumOfAmounts(o.recipients)

FeeIsWhole(o) == (WholePrice(o) * FeeNum) % FeeDen = 0

SignedOpenseaOrder(o) ==
    LET fee == [recipient |-> OpenSea,
                amount    |-> (WholePrice(o) * FeeNum) \div FeeDen]
    IN  [o EXCEPT !.shape = "opensea", !.recipients = <<fee>> \o o.recipients]

--------------------------------------------------------------------------------

\* An order the contract can store without loss: what validateOrderParameters
\* checks, and what it leaves to the caller.
Storable(o) ==
    /\ o.shape = "market"
    /\ ValidParameters(o)
    /\ o.startTime < TimeMod
    /\ Len(o.recipients) < SlotMax
    /\ \A i \in 1..Len(o.recipients) :
           /\ o.recipients[i].amount # 0
           /\ o.recipients[i].amount % Unit = 0
           /\ o.recipients[i].amount < Unit * AmountMod
================================================================================

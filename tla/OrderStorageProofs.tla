--------------------------- MODULE OrderStorageProofs --------------------------
(***************************************************************************)
(* What OrderStorage keeps for one token, for orders of every shape and    *)
(* size and every width of the storage fields.                             *)
(***************************************************************************)
EXTENDS OrderStorage, OrderCodecProofs

\* No order ever filled the slots after the most that were filled, nor the
\* last one.
SlotsAfter ==
    /\ \A i \in Slots : i > most => slots[i].amount = 0
    /\ slots[SlotMax].amount = 0

\* The listed order is the one stored, and it fits the slots.
ListedStored ==
    listed # NoListing =>
        /\ terms = UniqueOrderParameters(listed, listed)
        /\ Len(listed.recipients) <= most
        /\ Storable(listed) => HoldsFirst(slots, listed.recipients)

StorageInv ==
    /\ listed \in Inputs \cup {NoListing}
    /\ most \in Nat
    /\ slots = [i \in Slots |-> slots[i]]
    /\ SlotsAfter /\ ListedStored

\* The orders handed to sell are orders of OrderCodec.
LEMMA InputsAreOrders == \A o \in Inputs : IsOrder(o)
BY InputsAssumption DEF IsOrder

\* Nothing is stored initially.
LEMMA StorageInvInit == StorageInit => StorageInv
BY CodecAssumption
   DEF StorageInit, StorageInv, SlotsAfter, ListedStored, Slots, EmptySlot

\* sell writes a slot for each consideration it counts and leaves the others.
LEMMA StoreInv ==
    ASSUME StorageInv, NEW o \in Inputs, Store(o)
    PROVE  StorageInv'
<1> DEFINE n == Len(o.recipients)
           k == (n + 1) % (SlotMax + 1)
<1>1. /\ IsOrder(o) /\ o # NoListing
      /\ n \in Nat /\ most \in Nat /\ SlotMax \in Nat \ {0}
  <2>1. IsOrder(o) /\ o # NoListing
    BY InputsAreOrders, InputsAssumption
  <2>2. n \in Nat
    BY <2>1, OrderFields, RecipientFields
  <2>3. SlotMax \in Nat \ {0}
    BY CodecAssumption
  <2> QED
    BY <2>1, <2>2, <2>3 DEF StorageInv
<1>2. k \in 0..SlotMax /\ k <= n + 1
  BY <1>1, ConsiderationCount
<1>3. /\ listed' = o /\ terms' = UniqueOrderParameters(o, o)
      /\ slots' = StoreAdditionalRecipients(slots, o.recipients)
      /\ most' = IF n > most THEN n ELSE most
  BY DEF Store
<1>4. slots' = [i \in Slots |-> IF i < k THEN SlotOf(o.recipients[i]) ELSE slots[i]]
  BY <1>3 DEF StoreAdditionalRecipients, SlotOf
<1>5. Storable(o) => HoldsFirst(slots', o.recipients)
  BY <1>1, <1>3, StoredFirst DEF HoldsFirst
<1> HIDE DEF n, k
<1>6. most' \in Nat /\ most' >= n /\ most' >= most
  BY <1>1, <1>3
<1>7. SlotsAfter'
  <2>1. ASSUME NEW i \in Slots, i > most' PROVE slots'[i].amount = 0
    <3>1. ~(i < k) /\ i > most
      BY <2>1, <1>1, <1>2, <1>6 DEF Slots
    <3> QED
      BY <3>1, <1>4 DEF StorageInv, SlotsAfter
  <2>2. slots'[SlotMax].amount = 0
    <3>1. SlotMax \in Slots /\ ~(SlotMax < k)
      BY <1>1, <1>2 DEF Slots
    <3> QED
      BY <3>1, <1>4 DEF StorageInv, SlotsAfter
  <2> QED
    BY <2>1, <2>2 DEF SlotsAfter
<1>8. ListedStored'
  BY <1>3, <1>5, <1>6 DEF ListedStored, n
<1> QED
  BY <1>3, <1>4, <1>6, <1>7, <1>8 DEF StorageInv

\* buy and cancelOrder empty a slot at most.
LEMMA DeleteInv ==
    ASSUME StorageInv, DeleteSold \/ DeleteCancelled
    PROVE  StorageInv'
<1>1. /\ listed' = NoListing /\ most' = most
      /\ slots' = slots \/ slots' = [slots EXCEPT ![2] = EmptySlot]
  BY DEF DeleteSold, DeleteCancelled, ClearAdditionalRecipients
<1>2. /\ slots' = [i \in Slots |-> slots'[i]]
      /\ \A i \in Slots : slots'[i] = slots[i] \/ slots'[i] = EmptySlot
  BY <1>1 DEF StorageInv
<1>3. SlotMax \in Slots
  BY CodecAssumption DEF Slots
<1>4. SlotsAfter'
  BY <1>1, <1>2, <1>3 DEF StorageInv, SlotsAfter, EmptySlot
<1> QED
  BY <1>1, <1>2, <1>4 DEF StorageInv, ListedStored

\* The invariant holds in every reachable state.
LEMMA StorageInvariance == StorageSpec => []StorageInv
<1>1. StorageInv /\ [StorageNext]_storageVars => StorageInv'
  <2> SUFFICES ASSUME StorageInv, [StorageNext]_storageVars PROVE StorageInv'
    OBVIOUS
  <2>1. CASE \E o \in Inputs : Store(o)
    BY <2>1, StoreInv
  <2>2. CASE DeleteSold \/ DeleteCancelled
    BY <2>2, DeleteInv
  <2>3. CASE UNCHANGED storageVars
    BY <2>3 DEF storageVars, StorageInv, SlotsAfter, ListedStored
  <2> QED
    BY <2>1, <2>2, <2>3 DEF StorageNext
<1> QED
  BY <1>1, StorageInvInit, PTL DEF StorageSpec

--------------------------------------------------------------------------------

\* composeOrder gives back a storable order, whatever was stored before it
\* for the token with no more recipients, sold or cancelled or overwritten.
THEOREM StorableOrdersCompose == StorageSpec => []StorableComposes
<1>1. ASSUME StorageInv PROVE StorableComposes
  <2> SUFFICES ASSUME listed # NoListing, Storable(listed),
                      Len(listed.recipients) = most
               PROVE  Recomposed = listed
    BY DEF StorableComposes
  <2>1. /\ IsOrder(listed)
        /\ terms = UniqueOrderParameters(listed, listed)
        /\ HoldsFirst(slots, listed.recipients)
    BY <1>1, InputsAreOrders DEF StorageInv, ListedStored
  <2>2. slots[Len(listed.recipients) + 1].amount = 0
    <3>1. most \in Nat /\ most < SlotMax
      BY <1>1 DEF StorageInv, Storable
    <3>2. SlotMax \in Nat
      BY CodecAssumption
    <3>3. most + 1 \in Slots /\ most + 1 > most
      BY <3>1, <3>2 DEF Slots
    <3> QED
      BY <1>1, <3>3 DEF StorageInv, SlotsAfter
  <2>3. HoldsRecipients(slots, listed.recipients)
    BY <2>1, <2>2 DEF HoldsFirst, HoldsRecipients
  <2>4. Recomposed = [listed EXCEPT !.offerer = listed.offerer]
    BY <2>1, <2>3, ComposeInvertsStore DEF Recomposed
  <2>5. [listed EXCEPT !.offerer = listed.offerer] = listed
    BY <2>1, OrderFields
  <2> QED
    BY <2>4, <2>5
<1> QED
  BY <1>1, StorageInvariance, PTL

\* The contract's fee and recipients for OpenSea are those the seller signed,
\* for an order with at most one royalty.
LEMMA OneRoyaltyAsSigned ==
    ASSUME NEW o, IsOrder(o), Len(o.recipients) <= 1
    PROVE  ComposeOpenseaOrder(o) = SignedOpenseaOrder(o)
<1> DEFINE rs == o.recipients
           signed == [recipient |-> OpenSea,
                      amount    |-> (WholePrice(o) * FeeNum) \div FeeDen]
<1>1. /\ IsRecipients(rs) /\ rs = [i \in 1..Len(rs) |-> rs[i]]
      /\ o.amount \in Nat
      /\ Len(rs) = 0 \/ Len(rs) = 1
  <2>1. IsRecipients(rs) /\ o.amount \in Nat
    BY OrderFields
  <2>2. rs = [i \in 1..Len(rs) |-> rs[i]]
    BY <2>1, RecipientFields
  <2>3. Len(rs) \in Nat
    BY <2>1, RecipientFields
  <2>4. Len(rs) = 0 \/ Len(rs) = 1
    <3> DEFINE n == Len(rs)
    <3>1. n \in Nat /\ n <= 1
      BY <2>3
    <3> HIDE DEF n
    <3>2. n = 0 \/ n = 1
      BY <3>1
    <3> QED
      BY <3>2 DEF n
  <2> QED
    BY <2>1, <2>2, <2>4
<1>2. /\ SumOfAmounts(rs) \in Nat
      /\ Len(rs) = 0 => SumOfAmounts(rs) = 0
      /\ Len(rs) = 1 => SumOfAmounts(rs) = rs[1].amount
  <2> HIDE DEF rs
  <2> QED
    BY <1>1, SumOfAmountsType, Zenon
<1>3. FeeItem(o) = signed
  <2>1. CASE Len(rs) = 0
    <3>1. rs = << >> /\ SumOfAmounts(rs) = 0
      BY <1>1, <1>2, <2>1
    <3>2. WholePrice(o) = o.amount
      BY <1>1, <3>1 DEF WholePrice
    <3> QED
      BY <3>1, <3>2 DEF FeeItem, OpenseaFee
  <2>2. CASE Len(rs) = 1
    <3>1. rs # << >> /\ SumOfAmounts(rs) = rs[1].amount
      BY <1>1, <1>2, <2>2
    <3>2. WholePrice(o) = o.amount + rs[1].amount
      BY <3>1 DEF WholePrice
    <3> QED
      BY <3>1, <3>2 DEF FeeItem, OpenseaFee
  <2> QED
    BY <1>1, <2>1, <2>2
<1>4. (IF Len(rs) = 1 THEN rs ELSE [i \in 1..Len(rs) |-> EmptySlot]) = rs
  <2>1. CASE Len(rs) = 1
    BY <2>1
  <2>2. CASE Len(rs) = 0
    <3>1. rs = << >> /\ [i \in 1..0 |-> EmptySlot] = << >>
      BY <1>1, <2>2
    <3> QED
      BY <2>2, <3>1
  <2> QED
    BY <1>1, <2>1, <2>2
<1> HIDE DEF signed
<1>5. ComposeOpenseaOrder(o) = [o EXCEPT !.shape = "opensea",
                                         !.recipients = <<signed>> \o rs]
  BY <1>3, <1>4 DEF ComposeOpenseaOrder
<1> QED
  BY <1>5 DEF SignedOpenseaOrder, signed

\* So the signature for OpenSea fits the order the contract computes.
THEOREM OpenseaOrdersAsSigned == StorageSpec => []OpenseaAsSigned
<1>1. StorageInv => OpenseaAsSigned
  BY OneRoyaltyAsSigned, InputsAreOrders DEF StorageInv, OpenseaAsSigned
<1> QED
  BY <1>1, StorageInvariance, PTL
================================================================================

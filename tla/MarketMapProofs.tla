---------------------------- MODULE MarketMapProofs ----------------------------
(***************************************************************************)
(* Theorems about MarketMap, for every set of users, collections, ids and  *)
(* orders and every width of the storage fields: what the database keeps   *)
(* true, and that it is a listing book.                                    *)
(***************************************************************************)
EXTENDS MarketMap, TokenListProofs, OrderCodecProofs, FiniteSetTheorems

USE Erc721Assumption, SeaportAssumption, CodecAssumption

\* The slot a uint8 loop counter reaches last is never written.
LastSlotEmpty ==
    \A c \in Collections, t \in Ids :
        additionalRecipients[c][t][SlotMax].amount = 0

\* The inductive invariant of the database.
IInv == TypeOK /\ IndexSound /\ ListedIffStored /\ LastSlotEmpty

--------------------------------------------------------------------------------
(* What the storage operations return.                                     *)

\* The market's orders are orders of OrderCodec.
LEMMA OrdersAreOrders == \A o \in Orders : IsOrder(o)
BY OrdersAssumption DEF OrderType, IsOrder

\* createUniqueOrderParameters fills every field within its width.
LEMMA TermsType ==
    ASSUME TypeOK, NEW o \in Orders
    PROVE  /\ UniqueOrderParameters(o, Digest(o)) \in Terms
           /\ Digest(o) \in Signatures \ {NoSignature}
<1>1. Digest(o) \in Signatures \ {NoSignature}
  BY OrdersAssumption, SignatureAssumption
     DEF OrderType, OrdersAmong, Digest, Signatures, TypeOK, SeaportType
<1>2. PackAmount(o.amount) \in 0..(AmountMod - 1)
  BY OrdersAssumption, PackAmountType DEF OrderType, OrdersAmong
<1>3. /\ o.startTime % TimeMod \in 0..(TimeMod - 1)
      /\ o.endTime % TimeMod \in 0..(TimeMod - 1)
      /\ o.salt % SaltMod \in 0..(SaltMod - 1)
  BY SMTT(30), OrdersAssumption DEF OrderType, OrdersAmong
<1> QED
  BY <1>1, <1>2, <1>3 DEF UniqueOrderParameters, Terms

\* A deleted order is a value of the orders mapping.
LEMMA NoOrderType == NoOrder \in Terms
BY DEF NoOrder, Terms, Signatures

\* A deleted slot is a value of the additionalRecipients mapping.
LEMMA EmptySlotType == EmptySlot \in SlotValues
BY DEF EmptySlot, SlotValues

\* Storing recipients fills the slots below the (wrapped) number of
\* considerations, which is at most SlotMax, and so not the last slot.
LEMMA StoredSlots ==
    ASSUME NEW o \in Orders, NEW slots \in [Slots -> SlotValues]
    PROVE  /\ StoreAdditionalRecipients(slots, o.recipients)
                  \in [Slots -> SlotValues]
           /\ StoreAdditionalRecipients(slots, o.recipients)[SlotMax]
                  = slots[SlotMax]
<1> DEFINE n == Len(o.recipients)
           k == (n + 1) % (SlotMax + 1)
<1>1. n \in Nat
  BY OrdersAssumption DEF OrderType, OrdersAmong
<1>2. k \in 0..SlotMax /\ k <= n + 1
  BY <1>1, ConsiderationCount
<1>3. ASSUME NEW i \in Slots, i < k
      PROVE  [recipient |-> o.recipients[i].recipient,
              amount    |-> PackAmount(o.recipients[i].amount)] \in SlotValues
  <2> HIDE DEF n, k
  <2>1. i \in 1..n
    BY <1>1, <1>2, <1>3 DEF Slots
  <2>2. o.recipients[i] \in [recipient : Payees, amount : Nat]
    <3>1. o.recipients \in Seq([recipient : Payees, amount : Nat])
      BY OrdersAssumption DEF OrderType, OrdersAmong
    <3> QED
      BY <2>1, <3>1, ElementOfSeq, Zenon DEF n
  <2>3. PackAmount(o.recipients[i].amount) \in 0..(AmountMod - 1)
    BY <2>2, PackAmountType
  <2>4. o.recipients[i].recipient \in Payees
    BY <2>2
  <2> QED
    BY <2>3, <2>4 DEF SlotValues
<1>4. SlotMax \in Slots /\ ~(SlotMax < k)
  <2> HIDE DEF k
  <2> QED
    BY <1>2 DEF Slots
<1> QED
  BY <1>3, <1>4 DEF StoreAdditionalRecipients

\* cancelOrder's clearing loop keeps the slots' types and the last one empty.
LEMMA ClearedSlots ==
    ASSUME NEW slots \in [Slots -> SlotValues], slots[SlotMax].amount = 0
    PROVE  /\ ClearAdditionalRecipients(slots) \in [Slots -> SlotValues]
           /\ ClearAdditionalRecipients(slots)[SlotMax].amount = 0
<1>1. SlotMax \in Slots
  BY DEF Slots
<1> QED
  BY <1>1, EmptySlotType DEF ClearAdditionalRecipients, EmptySlot

--------------------------------------------------------------------------------
(* What a step does to the list of one collection, to its other users'     *)
(* state, and to one stored order.                                         *)

\* A sound new list for c leaves every list sound, and changes which tokens
\* are listed in c only.
LEMMA SetListEffect ==
    ASSUME TypeOK, IndexSound, NEW c \in Collections,
           NEW list, ListType(Ids, list), ListSound(Ids, list),
           SetList(c, list)
    PROVE  /\ tokenIdsWithOrders' \in [Collections -> Seq(Ids)]
           /\ tokenIdToIndex' \in [Collections -> [Ids -> Nat]]
           /\ IndexSound'
           /\ \A t \in Ids : Listed(c, t)' <=> HasIndex(list, t)
           /\ \A d \in Collections \ {c}, t \in Ids : Listed(d, t)' <=> Listed(d, t)
<1>1. /\ tokenIdsWithOrders \in [Collections -> Seq(Ids)]
      /\ tokenIdToIndex \in [Collections -> [Ids -> Nat]]
      /\ list.ids \in Seq(Ids) /\ list.index \in [Ids -> Nat]
  BY DEF TypeOK, MarketType, ListType
<1>2. /\ tokenIdsWithOrders' = [tokenIdsWithOrders EXCEPT ![c] = list.ids]
      /\ tokenIdToIndex' = [tokenIdToIndex EXCEPT ![c] = list.index]
  BY DEF SetList
<1>3. /\ tokenIdsWithOrders' \in [Collections -> Seq(Ids)]
      /\ tokenIdToIndex' \in [Collections -> [Ids -> Nat]]
      /\ tokenIdsWithOrders'[c] = list.ids /\ tokenIdToIndex'[c] = list.index
      /\ \A d \in Collections \ {c} :
             /\ tokenIdsWithOrders'[d] = tokenIdsWithOrders[d]
             /\ tokenIdToIndex'[d] = tokenIdToIndex[d]
  BY <1>1, <1>2
<1>4. ASSUME NEW d \in Collections
      PROVE  ListSound(Ids, List(d))'
  <2>1. CASE d = c
    <3>1. List(d)'.ids = list.ids /\ List(d)'.index = list.index
      BY <2>1, <1>3 DEF List
    <3> QED
      BY <3>1 DEF ListSound
  <2>2. CASE d # c
    <3>1. List(d)' = List(d)
      BY <2>2, <1>3 DEF List
    <3> QED
      BY <3>1 DEF IndexSound, ListSound
  <2> QED
    BY <2>1, <2>2
<1> QED
  BY <1>3, <1>4 DEF IndexSound, Listed, HasIndex, List

\* The list of one collection in a state where all of them are sound.
LEMMA ListOfCollection ==
    ASSUME TypeOK, IndexSound, NEW c \in Collections
    PROVE  ListType(Ids, List(c)) /\ ListSound(Ids, List(c))
BY DEF TypeOK, MarketType, IndexSound, List, ListType

\* A token added to a collection's list.
LEMMA AddToList ==
    ASSUME TypeOK, IndexSound, NEW c \in Collections, NEW t \in Ids
    PROVE  /\ ListType(Ids, AddTokenId(List(c), t))
           /\ ListSound(Ids, AddTokenId(List(c), t))
           /\ \A u \in Ids : HasIndex(AddTokenId(List(c), t), u)
                                 <=> HasIndex(List(c), u) \/ u = t
<1> DEFINE list == List(c)
<1>1. ListType(Ids, list) /\ ListSound(Ids, list)
  BY ListOfCollection
<1> HIDE DEF list
<1>2. /\ ListType(Ids, AddTokenId(list, t))
      /\ ListSound(Ids, AddTokenId(list, t))
      /\ \A u \in Ids : HasIndex(AddTokenId(list, t), u) <=> HasIndex(list, u) \/ u = t
  BY <1>1, AddTokenIdCorrect
<1> QED
  BY <1>2 DEF list

\* A transfer, a burning or a trade keeps the tokens' types, wherever the order came
\* from: writing outside the domain of owner changes nothing.
LEMMA MoveTokenType ==
    ASSUME Erc721Type, NEW c, NEW t, NEW u \in Users \cup {NoOwner}, MoveToken(c, t, u)
    PROVE  Erc721Type'
<1>1. owner' \in [Collections -> [Ids -> Users \cup {NoOwner}]]
  <2>1. \A d \in Collections : owner[d] \in [Ids -> Users \cup {NoOwner}]
    BY DEF Erc721Type
  <2>2. \A d \in Collections : [owner[d] EXCEPT ![t] = u] \in [Ids -> Users \cup {NoOwner}]
    BY <2>1
  <2>3. owner' = [owner EXCEPT ![c] = [owner[c] EXCEPT ![t] = u]]
    BY DEF MoveToken
  <2> QED
    BY <2>1, <2>2, <2>3 DEF Erc721Type
<1>2. approved' \in [Collections -> [Ids -> BOOLEAN]]
  <2>1. \A d \in Collections : approved[d] \in [Ids -> BOOLEAN]
    BY DEF Erc721Type
  <2>2. \A d \in Collections : [approved[d] EXCEPT ![t] = FALSE] \in [Ids -> BOOLEAN]
    BY <2>1
  <2>3. approved' = [approved EXCEPT ![c] = [approved[c] EXCEPT ![t] = FALSE]]
    BY DEF MoveToken
  <2> QED
    BY <2>1, <2>2, <2>3 DEF Erc721Type
<1> QED
  BY <1>1, <1>2 DEF Erc721Type

\* Steps that do not go through the market keep the types of Seaport's and
\* the collections' state.
LEMMA ChainTypes ==
    ASSUME TypeOK, ChainStep
    PROVE  Erc721Type' /\ SeaportType'
<1> USE DEF TypeOK, SeaportType
<1>1. CASE DirectFulfil
  <2>1. PICK d \in validated, r \in Users : FulfilOrder(d, d, r)
    BY <1>1 DEF DirectFulfil
  <2> QED
    BY <2>1, MoveTokenType DEF FulfilOrder
<1>2. CASE DirectCancel
  BY <1>2 DEF DirectCancel, CancelDigest, Erc721Type
<1>3. CASE IncrementCounter
  <2>1. PICK u \in Users :
            /\ counter[u] < MaxCounter
            /\ counter' = [counter EXCEPT ![u] = @ + 1]
    BY <1>3 DEF IncrementCounter
  <2>2. counter[u] + 1 \in 0..MaxCounter
    BY <2>1
  <2> QED
    BY <1>3, <2>1, <2>2 DEF IncrementCounter, Erc721Type
<1>4. CASE Tick
  BY <1>4 DEF Tick, Erc721Type
<1>5. CASE Approve
  BY <1>5 DEF Approve, SetApproval, seaportVars, Erc721Type
<1>6. CASE Transfer
  <2>1. PICK c \in Collections, t \in Ids, u \in Users :
            MoveToken(c, t, u) /\ UNCHANGED seaportVars
    BY <1>6 DEF Transfer, TransferToken
  <2> QED
    BY <2>1, MoveTokenType DEF seaportVars
<1>7. CASE Burn
  <2>1. PICK c \in Collections, t \in Ids :
            MoveToken(c, t, NoOwner) /\ UNCHANGED seaportVars
    BY <1>7 DEF Burn, BurnToken
  <2> QED
    BY <2>1, MoveTokenType DEF seaportVars
<1> QED
  BY <1>1, <1>2, <1>3, <1>4, <1>5, <1>6, <1>7 DEF ChainStep

\* buy and cancelOrder delete the stored order of a listed token and strike
\* the token from the list; they leave the last slot as it was.
LEMMA Delisting ==
    ASSUME IInv, NEW c \in Collections, NEW t \in Ids,
           HasIndex(List(c), t),
           orders' = [orders EXCEPT ![c][t] = NoOrder],
           SetList(c, RemoveTokenId(List(c), t)),
           \/ UNCHANGED additionalRecipients
           \/ additionalRecipients' =
                  [additionalRecipients EXCEPT ![c][t] = ClearAdditionalRecipients(@)]
    PROVE  MarketType' /\ IndexSound' /\ ListedIffStored' /\ LastSlotEmpty'
<1> USE DEF IInv
<1>1. ListType(Ids, List(c)) /\ ListSound(Ids, List(c))
  BY ListOfCollection
<1>2. /\ ListType(Ids, RemoveTokenId(List(c), t))
      /\ ListSound(Ids, RemoveTokenId(List(c), t))
      /\ \A u \in Ids : HasIndex(RemoveTokenId(List(c), t), u)
                            <=> HasIndex(List(c), u) /\ u # t
  BY <1>1, RemoveTokenIdCorrect
<1>3. /\ tokenIdsWithOrders' \in [Collections -> Seq(Ids)]
      /\ tokenIdToIndex' \in [Collections -> [Ids -> Nat]]
      /\ IndexSound'
      /\ \A u \in Ids : Listed(c, u)' <=> HasIndex(RemoveTokenId(List(c), t), u)
      /\ \A d \in Collections \ {c}, u \in Ids : Listed(d, u)' <=> Listed(d, u)
  BY <1>2, SetListEffect
<1>4. /\ orders \in [Collections -> [Ids -> Terms]]
      /\ additionalRecipients \in [Collections -> [Ids -> [Slots -> SlotValues]]]
  BY DEF TypeOK, MarketType
<1>5. /\ orders' \in [Collections -> [Ids -> Terms]]
      /\ orders'[c][t] = NoOrder
      /\ \A d \in Collections, u \in Ids :
             d # c \/ u # t => orders'[d][u] = orders[d][u]
  BY <1>4, NoOrderType
<1>6. ListedIffStored'
  <2>1. \A u \in Ids : Listed(c, u)' <=> Listed(c, u) /\ u # t
    BY <1>2, <1>3 DEF Listed
  <2>2. NoOrder.signature = NoSignature
    BY DEF NoOrder
  <2>3. ASSUME NEW d \in Collections, NEW u \in Ids
        PROVE  Listed(d, u)' <=> orders'[d][u].signature # NoSignature
    <3>1. Listed(d, u) <=> orders[d][u].signature # NoSignature
      BY DEF ListedIffStored
    <3>2. CASE d = c /\ u = t
      BY <3>2, <1>5, <2>1, <2>2
    <3>3. CASE d = c /\ u # t
      <4>1. orders'[d][u] = orders[d][u]
        BY <3>3, <1>5
      <4> QED
        BY <3>1, <3>3, <4>1, <2>1
    <3>4. CASE d # c
      <4>1. orders'[d][u] = orders[d][u]
        BY <3>4, <1>5
      <4>2. Listed(d, u)' <=> Listed(d, u)
        BY <3>4, <1>3
      <4> QED
        BY <3>1, <4>1, <4>2
    <3> QED
      BY <3>2, <3>3, <3>4
  <2> QED
    BY <2>3 DEF ListedIffStored
<1>7. /\ additionalRecipients' \in [Collections -> [Ids -> [Slots -> SlotValues]]]
      /\ LastSlotEmpty'
  <2>1. CASE UNCHANGED additionalRecipients
    BY <2>1, <1>4 DEF LastSlotEmpty
  <2>2. CASE additionalRecipients' =
                 [additionalRecipients EXCEPT ![c][t] = ClearAdditionalRecipients(@)]
    <3> DEFINE new == ClearAdditionalRecipients(additionalRecipients[c][t])
    <3>1. new \in [Slots -> SlotValues] /\ new[SlotMax].amount = 0
      <4>1. /\ additionalRecipients[c][t] \in [Slots -> SlotValues]
            /\ additionalRecipients[c][t][SlotMax].amount = 0
        BY <1>4 DEF LastSlotEmpty
      <4> QED
        BY <4>1, ClearedSlots
    <3>2. additionalRecipients' = [additionalRecipients EXCEPT ![c][t] = new]
      BY <2>2, <1>4
    <3> HIDE DEF new
    <3>3. /\ additionalRecipients' \in [Collections -> [Ids -> [Slots -> SlotValues]]]
          /\ additionalRecipients'[c][t] = new
          /\ \A d \in Collections, u \in Ids : d # c \/ u # t =>
                 additionalRecipients'[d][u] = additionalRecipients[d][u]
      BY <3>1, <3>2, <1>4
    <3> QED
      BY SMTT(30), <3>1, <3>3 DEF LastSlotEmpty
  <2> QED
    BY <2>1, <2>2
<1> QED
  BY <1>3, <1>5, <1>6, <1>7 DEF MarketType

\* sell stores an order with a signature and puts its token on the list.
LEMMA Listing ==
    ASSUME IInv, NEW o \in Orders, StoreOrderAndRecipients(o, Digest(o))
    PROVE  MarketType' /\ IndexSound' /\ ListedIffStored' /\ LastSlotEmpty'
<1> USE DEF IInv
<1> DEFINE c == o.token
           t == o.tokenId
           new == StoreAdditionalRecipients(additionalRecipients[c][t], o.recipients)
           terms == UniqueOrderParameters(o, Digest(o))
<1>1. c \in Collections /\ t \in Ids
  BY OrdersAssumption DEF OrderType, OrdersAmong
<1>2. /\ additionalRecipients' = [additionalRecipients EXCEPT ![c][t] = new]
      /\ orders' = [orders EXCEPT ![c][t] = terms]
      /\ SetList(c, AddTokenId(List(c), t))
  BY DEF StoreOrderAndRecipients
<1>3. /\ terms \in Terms
      /\ terms.signature # NoSignature
  BY TermsType DEF UniqueOrderParameters
<1>4. /\ orders \in [Collections -> [Ids -> Terms]]
      /\ additionalRecipients \in [Collections -> [Ids -> [Slots -> SlotValues]]]
  BY DEF TypeOK, MarketType
<1>5. new \in [Slots -> SlotValues] /\ new[SlotMax].amount = 0
  <2>1. /\ additionalRecipients[c][t] \in [Slots -> SlotValues]
        /\ additionalRecipients[c][t][SlotMax].amount = 0
    BY <1>1, <1>4 DEF LastSlotEmpty
  <2> QED
    BY <2>1, StoredSlots
<1>6. /\ ListType(Ids, AddTokenId(List(c), t))
      /\ ListSound(Ids, AddTokenId(List(c), t))
      /\ \A u \in Ids : HasIndex(AddTokenId(List(c), t), u)
                            <=> HasIndex(List(c), u) \/ u = t
  <2> HIDE DEF c, t
  <2> QED
    BY <1>1, AddToList DEF IInv
<1> HIDE DEF c, t, new, terms
<1>7. /\ tokenIdsWithOrders' \in [Collections -> Seq(Ids)]
      /\ tokenIdToIndex' \in [Collections -> [Ids -> Nat]]
      /\ IndexSound'
      /\ \A u \in Ids : Listed(c, u)' <=> HasIndex(AddTokenId(List(c), t), u)
      /\ \A d \in Collections \ {c}, u \in Ids : Listed(d, u)' <=> Listed(d, u)
  BY <1>1, <1>2, <1>6, SetListEffect
<1>8. /\ orders' \in [Collections -> [Ids -> Terms]]
      /\ orders'[c][t] = terms
      /\ \A d \in Collections, u \in Ids :
             d # c \/ u # t => orders'[d][u] = orders[d][u]
  BY <1>1, <1>2, <1>3, <1>4
<1>9. ListedIffStored'
  <2>1. \A u \in Ids : Listed(c, u)' <=> Listed(c, u) \/ u = t
    BY <1>6, <1>7 DEF Listed
  <2>2. ASSUME NEW d \in Collections, NEW u \in Ids
        PROVE  Listed(d, u)' <=> orders'[d][u].signature # NoSignature
    <3>1. Listed(d, u) <=> orders[d][u].signature # NoSignature
      BY DEF ListedIffStored
    <3>2. CASE d = c /\ u = t
      BY <3>2, <1>3, <1>8, <2>1
    <3>3. CASE ~(d = c /\ u = t)
      BY <3>1, <3>3, <1>7, <1>8, <2>1
    <3> QED
      BY <3>2, <3>3
  <2> QED
    BY <2>2 DEF ListedIffStored
<1>10. /\ additionalRecipients' \in [Collections -> [Ids -> [Slots -> SlotValues]]]
       /\ LastSlotEmpty'
  <2>1. /\ additionalRecipients' \in [Collections -> [Ids -> [Slots -> SlotValues]]]
        /\ additionalRecipients'[c][t] = new
        /\ \A d \in Collections, u \in Ids : d # c \/ u # t =>
               additionalRecipients'[d][u] = additionalRecipients[d][u]
    BY <1>1, <1>2, <1>4, <1>5
  <2>2. ASSUME NEW d \in Collections, NEW u \in Ids
        PROVE  additionalRecipients'[d][u][SlotMax].amount = 0
    <3>1. additionalRecipients[d][u][SlotMax].amount = 0
      BY DEF LastSlotEmpty
    <3>2. CASE d = c /\ u = t
      BY <3>2, <2>1, <1>5
    <3>3. CASE ~(d = c /\ u = t)
      BY <3>1, <3>3, <2>1
    <3> QED
      BY <3>2, <3>3
  <2> QED
    BY <2>1, <2>2 DEF LastSlotEmpty
<1> QED
  BY <1>7, <1>8, <1>9, <1>10 DEF MarketType

--------------------------------------------------------------------------------

\* The contract's initial storage satisfies the invariant.
LEMMA InitIInv == Init => IInv
<1> SUFFICES ASSUME Init PROVE IInv
  OBVIOUS
<1>1. Erc721Type
  BY DEF Init, Erc721Init, Erc721Type
<1>2. SeaportType
  BY DEF Init, SeaportInit, SeaportType
<1>3. /\ \A c \in Collections : tokenIdsWithOrders[c] = << >>
      /\ \A c \in Collections, t \in Ids : tokenIdToIndex[c][t] = 0
      /\ \A c \in Collections, t \in Ids : orders[c][t] = NoOrder
      /\ \A c \in Collections, t \in Ids, i \in Slots :
             additionalRecipients[c][t][i] = EmptySlot
  BY DEF Init, MarketInit, EmptyList
<1>4. MarketType
  BY NoOrderType, EmptySlotType DEF Init, MarketInit, EmptyList, MarketType
<1>5. IndexSound
  BY <1>3 DEF IndexSound, ListSound, List
<1>6. ListedIffStored
  BY <1>3 DEF ListedIffStored, Listed, HasIndex, List, NoOrder
<1>7. LastSlotEmpty
  BY <1>3 DEF LastSlotEmpty, Slots, EmptySlot
<1> QED
  BY <1>1, <1>2, <1>4, <1>5, <1>6, <1>7 DEF IInv, TypeOK

\* Every transaction keeps the invariant.
LEMMA NextIInv == IInv /\ [Next]_vars => IInv'
<1> SUFFICES ASSUME IInv, [Next]_vars PROVE IInv'
  OBVIOUS
<1>1. CASE Selling
  <2>1. PICK o \in Orders, opensea \in WithOpensea : Sell(o, opensea)
    BY <1>1 DEF Selling
  <2>2. MarketType' /\ IndexSound' /\ ListedIffStored' /\ LastSlotEmpty'
    BY <2>1, Listing DEF Sell
  <2>3. Erc721Type' /\ SeaportType'
    BY <2>1 DEF Sell, ValidateOrders, IInv, TypeOK, Erc721Type, SeaportType
  <2> QED
    BY <2>2, <2>3 DEF IInv, TypeOK
<1>2. CASE Buying
  <2>1. PICK c \in Collections, t \in Ids, r \in Users : Buy(c, t, r)
    BY <1>2 DEF Buying
  <2>2. MarketType' /\ IndexSound' /\ ListedIffStored' /\ LastSlotEmpty'
    BY <2>1, Delisting DEF Buy
  <2>3. Erc721Type' /\ SeaportType'
    BY <2>1, MoveTokenType
       DEF Buy, FulfilOrder, IInv, TypeOK, SeaportType
  <2> QED
    BY <2>2, <2>3 DEF IInv, TypeOK
<1>3. CASE Cancelling
  <2>1. PICK u \in Users, c \in Collections, t \in Ids : CancelOrder(u, c, t)
    BY <1>3 DEF Cancelling
  <2>2. MarketType' /\ IndexSound' /\ ListedIffStored' /\ LastSlotEmpty'
    BY <2>1, Delisting DEF CancelOrder
  <2>3. Erc721Type' /\ SeaportType'
    BY <2>1 DEF CancelOrder, CancelDigest, IInv, TypeOK, Erc721Type, SeaportType
  <2> QED
    BY <2>2, <2>3 DEF IInv, TypeOK
<1>4. CASE Elsewhere
  <2>1. Erc721Type' /\ SeaportType'
    BY <1>4, ChainTypes DEF Elsewhere, IInv
  <2>2. UNCHANGED marketVars
    BY <1>4 DEF Elsewhere
  <2> QED
    BY <2>1, <2>2 DEF marketVars, IInv, TypeOK, MarketType, IndexSound, ListSound,
        ListedIffStored, LastSlotEmpty, Listed, HasIndex, List
<1>5. CASE UNCHANGED vars
  BY <1>5 DEF vars, marketVars, erc721Vars, seaportVars, IInv, TypeOK, Erc721Type,
     SeaportType, MarketType, IndexSound, ListSound, ListedIffStored,
     LastSlotEmpty, Listed, HasIndex, List
<1> QED
  BY <1>1, <1>2, <1>3, <1>4, <1>5 DEF Next

\* The inductive invariant holds in every reachable state: types, the sound
\* list, its agreement with the stored orders, and a last slot never written.
THEOREM Invariance == Spec => []IInv
BY InitIInv, NextIInv, PTL DEF Spec

\* Every stored field stays within its Solidity type.
THEOREM TypeCorrect == Spec => []TypeOK
<1>1. IInv => TypeOK
  BY DEF IInv
<1> QED
  BY <1>1, Invariance, PTL

\* The list of a collection and its index mapping stay inverse to each other.
THEOREM IndexSoundness == Spec => []IndexSound
<1>1. IInv => IndexSound
  BY DEF IInv
<1> QED
  BY <1>1, Invariance, PTL

\* A token is on the list exactly when an order is stored for it.
THEOREM ListedTokensHaveOrders == Spec => []ListedIffStored
<1>1. IInv => ListedIffStored
  BY DEF IInv
<1> QED
  BY <1>1, Invariance, PTL

\* composeOrder's slot counter never overflows: with slots numbered up to
\* SlotMax and counts of considerations modulo SlotMax + 1, no listing can
\* write the last slot.
THEOREM ComposeAlwaysReturns == Spec => []ComposeNeverOverflows
<1>1. IInv => ComposeNeverOverflows
  BY DEF IInv, LastSlotEmpty, ComposeNeverOverflows, CanCompose, HasEmptySlot, Slots
<1> QED
  BY <1>1, Invariance, PTL
--------------------------------------------------------------------------------
(* No order that can be bought is hidden.                                  *)

\* The digests Seaport has ever marked.
Seen == validated \cup cancelled \cup filled

\* A stored order is empty, or Seaport has marked the digest its signature
\* signs.
StoredIsSeen ==
    \A c \in Collections, t \in Ids :
        orders[c][t] = NoOrder \/ orders[c][t].signature \in Seen

\* A mark is taken back only when another one takes its place.
LEMMA SeenGrows ==
    ASSUME [Next]_vars
    PROVE  Seen \subseteq Seen'
<1>1. CASE Selling
  BY <1>1 DEF Selling, Sell, ValidateOrders, Seen
<1>2. CASE Buying
  BY <1>2 DEF Buying, Buy, FulfilOrder, Seen
<1>3. CASE Cancelling
  BY <1>3 DEF Cancelling, CancelOrder, CancelDigest, Seen
<1>4. CASE Elsewhere
  BY <1>4 DEF Elsewhere, ChainStep, DirectFulfil, FulfilOrder, DirectCancel,
     CancelDigest, IncrementCounter, Tick, Approve, Transfer, TransferToken,
     Burn, BurnToken, seaportVars, Seen
<1>5. CASE UNCHANGED vars
  BY <1>5 DEF vars, seaportVars, Seen
<1> QED
  BY <1>1, <1>2, <1>3, <1>4, <1>5 DEF Next

\* Every transaction keeps stored orders seen: sell validates what it stores.
LEMMA StoredIsSeenStep ==
    ASSUME IInv, StoredIsSeen, [Next]_vars
    PROVE  StoredIsSeen'
<1>1. Seen \subseteq Seen'
  BY SeenGrows
<1>2. orders \in [Collections -> [Ids -> Terms]]
  BY DEF IInv, TypeOK, MarketType
<1>3. CASE Selling
  <2>1. PICK o \in Orders, opensea \in WithOpensea : Sell(o, opensea)
    BY <1>3 DEF Selling
  <2>2. Digest(o) \in Seen'
    BY <2>1 DEF Sell, OrderList, ValidateOrders, Seen
  <2>3. orders' = [orders EXCEPT ![o.token][o.tokenId] =
                       UniqueOrderParameters(o, Digest(o))]
    BY <2>1 DEF Sell, StoreOrderAndRecipients
  <2>4. UniqueOrderParameters(o, Digest(o)).signature = Digest(o)
    BY DEF UniqueOrderParameters
  <2>5. ASSUME NEW c \in Collections, NEW t \in Ids
        PROVE  \/ orders'[c][t] = orders[c][t]
               \/ orders'[c][t].signature = Digest(o)
    BY <1>2, <2>3, <2>4
  <2> QED
    BY <1>1, <2>2, <2>5 DEF StoredIsSeen
<1>4. CASE Buying \/ Cancelling
  <2>1. PICK c \in Collections, t \in Ids : orders' = [orders EXCEPT ![c][t] = NoOrder]
    BY <1>4 DEF Buying, Buy, Cancelling, CancelOrder
  <2>2. ASSUME NEW d \in Collections, NEW u \in Ids
        PROVE  orders'[d][u] = orders[d][u] \/ orders'[d][u] = NoOrder
    BY <1>2, <2>1
  <2> QED
    BY <1>1, <2>2 DEF StoredIsSeen
<1>5. CASE UNCHANGED marketVars
  BY <1>1, <1>5 DEF marketVars, StoredIsSeen
<1> QED
  BY <1>3, <1>4, <1>5 DEF Next, Elsewhere, vars

\* getOrderStatus never hides an order that buy would accept: what is not
\* validated and yet authorised has been cancelled or traded, and a deleted
\* order's time window is empty.
THEOREM BuyableTokensAreShown == Spec => []BuyableIsShown
<1>1. Init => StoredIsSeen
  BY DEF Init, MarketInit, StoredIsSeen
<1>2. Spec => [](IInv /\ StoredIsSeen)
  BY <1>1, StoredIsSeenStep, Invariance, PTL DEF Spec
<1>3. ASSUME IInv, StoredIsSeen PROVE BuyableIsShown
  <2> SUFFICES ASSUME NEW c \in Collections, NEW t \in Ids, Buyable(c, t)
               PROVE  OrderStatus(c, t)
    BY DEF BuyableIsShown
  <2> DEFINE d == Digest(Composed(c, t))
  <2>1. /\ CanCompose(c, t)
        /\ ~Spent(d) /\ InWindow(d.order)
        /\ d \in validated \/ orders[c][t].signature = d
    BY DEF Buyable, Tradable, Authorised
  <2>2. CASE orders[c][t] = NoOrder
    <3>1. d.order.startTime = 0 /\ d.order.endTime = 0
      BY <2>2 DEF Digest, Composed, ComposeOrder, NoOrder
    <3>2. now \in Nat
      BY <1>3 DEF IInv, TypeOK, SeaportType
    <3> QED
      BY <2>1, <3>1, <3>2 DEF InWindow
  <2>3. CASE orders[c][t].signature \in Seen
    BY <2>1, <2>3 DEF OrderStatus, Seen, Spent
  <2> QED
    BY <1>3, <2>2, <2>3 DEF StoredIsSeen
<1> QED
  BY <1>2, <1>3, PTL

--------------------------------------------------------------------------------
(* The four mappings implement the listing book.                          *)

\* The instance's Cardinality is the library's.
LEMMA SameCardinality == \A S : Book!Cardinality(S) = Cardinality(S)
BY DEF Book!Cardinality, Cardinality

\* And so is its ToSet,
LEMMA SameToSet == \A p : Book!ToSet(p) = ToSet(p)
BY DEF Book!ToSet, ToSet

\* and its Last.
LEMMA SameLast == \A p : Book!Last(p) = Last(p)
BY DEF Book!Last, Last

\* A sound list names every indexed token, once.
LEMMA SoundListEnumerates ==
    ASSUME NEW s, ListType(Ids, s), ListSound(Ids, s)
    PROVE  Book!Enumerates(s.ids, {t \in Ids : HasIndex(s, t)})
<1> DEFINE n == Len(s.ids)
           S == {t \in Ids : HasIndex(s, t)}
           at == [k \in 1..n |-> s.ids[k]]
<1>1. s.ids \in Seq(Ids) /\ n \in Nat
  BY DEF ListType
<1>2. \A k \in 1..n : s.ids[k] \in Ids /\ s.index[s.ids[k]] = k
  BY <1>1 DEF ListSound
<1>3. \A t \in S : s.index[t] \in 1..n /\ s.ids[s.index[t]] = t
  BY DEF ListSound, HasIndex
<1>4. \A k \in 1..n : s.ids[k] \in S
  BY <1>1, <1>2 DEF HasIndex
<1>5. ToSet(s.ids) = S
  BY <1>3, <1>4 DEF ToSet
<1>6. at \in Bijection(1..n, S)
  <2>1. at \in [1..n -> S]
    BY <1>4
  <2>2. \A k, l \in 1..n : at[k] = at[l] => k = l
    BY <1>2
  <2>3. \A t \in S : \E k \in 1..n : at[k] = t
    BY <1>3
  <2> HIDE DEF at, S
  <2> QED
    BY <2>1, <2>2, <2>3 DEF Bijection, Injection, Surjection, IsInjective
<1>7. Cardinality(S) = n
  <2> HIDE DEF at, S, n
  <2>1. ExistsBijection(1..n, S)
    BY <1>6 DEF ExistsBijection
  <2> QED
    BY <2>1, <1>1, FS_CountingElements
<1> QED
  BY <1>5, <1>7, SameToSet, SameCardinality DEF Book!Enumerates

\* The book: the signatures of the stored orders.
Signed == [c \in Collections |-> [t \in Ids |-> orders[c][t].signature]]

\* The page of every collection enumerates the tokens with an entry.
PagesKnown ==
    \A c \in Collections :
        Book!Enumerates(tokenIdsWithOrders[c], Book!Entered(Signed[c]))

\* They do wherever the market's invariant holds.
LEMMA PagesAreKnown == IInv => PagesKnown
<1> SUFFICES ASSUME IInv, NEW c \in Collections
             PROVE  Book!Enumerates(tokenIdsWithOrders[c], Book!Entered(Signed[c]))
  BY DEF PagesKnown
<1>1. ListType(Ids, List(c)) /\ ListSound(Ids, List(c))
  BY ListOfCollection DEF IInv
<1>2. List(c).ids = tokenIdsWithOrders[c]
  BY DEF List
<1>3. Book!Entered(Signed[c]) = {t \in Ids : HasIndex(List(c), t)}
  BY DEF IInv, ListedIffStored, Listed, Book!Entered, Signed
<1> QED
  BY <1>1, <1>2, <1>3, SoundListEnumerates

--------------------------------------------------------------------------------
(* The steps of the market as steps of the book.                           *)

\* Writing the stored order of one token and the list of its collection
\* rewrites that collection's entries and page, and no other's.
LEMMA RewriteStep ==
    ASSUME IInv, PagesKnown', NEW c \in Collections, NEW t \in Ids,
           NEW terms \in Terms, orders' = [orders EXCEPT ![c][t] = terms],
           \E list : SetList(c, list)
    PROVE  Book!Rewrite(c, [Signed[c] EXCEPT ![t] = terms.signature])
<1> DEFINE b == [Signed[c] EXCEPT ![t] = terms.signature]
<1>1. /\ orders \in [Collections -> [Ids -> Terms]]
      /\ tokenIdsWithOrders \in [Collections -> Seq(Ids)]
  BY DEF IInv, TypeOK, MarketType
<1>2. /\ orders'[c] = [orders[c] EXCEPT ![t] = terms]
      /\ \A d \in Collections \ {c} : orders'[d] = orders[d]
  BY <1>1
<1>3. Signed'[c] = b
  BY <1>1, <1>2 DEF Signed
<1>4. \A d \in Collections \ {c} : Signed'[d] = Signed[d]
  BY <1>2 DEF Signed
<1>5. Book!Enumerates(tokenIdsWithOrders'[c], Book!Entered(b))
  BY <1>3 DEF PagesKnown
<1>6. tokenIdsWithOrders' = [tokenIdsWithOrders EXCEPT ![c] = tokenIdsWithOrders'[c]]
  BY <1>1 DEF SetList
<1>7. Signed' = [Signed EXCEPT ![c] = b]
  BY <1>3, <1>4 DEF Signed
<1> QED
  BY <1>5, <1>6, <1>7 DEF Book!Rewrite, Signed

\* A signature for the token is an entry it may take.
LEMMA EntryStep ==
    ASSUME NEW c \in Collections, NEW t \in Ids,
           NEW e \in Signatures \ {NoSignature},
           e.order.token = c, e.order.tokenId = t,
           Book!Rewrite(c, [Signed[c] EXCEPT ![t] = e]),
           Last(tokenIdsWithOrders'[c]) = t
    PROVE  Book!Enter(c, t)
<1> DEFINE of == [d \in Collections |-> [u \in Ids |->
                      {g \in Signatures \ {NoSignature} :
                           g.order.token = d /\ g.order.tokenId = u}]]
<1>1. e \in of[c][t]
  OBVIOUS
<1>2. Book!Last(tokenIdsWithOrders'[c]) = t
  BY SameLast
<1>3. \E g \in of[c][t] : Book!Rewrite(c, [Signed[c] EXCEPT ![t] = g])
  <2> HIDE DEF of
  <2> QED
    BY <1>1 DEF Book!Rewrite
<1> QED
  BY <1>2, <1>3 DEF Book!Enter, Signed

\* sell enters the order it stores, and its token stands last.
LEMMA EnterStep ==
    ASSUME IInv, PagesKnown', NEW o \in Orders,
           StoreOrderAndRecipients(o, Digest(o))
    PROVE  Book!Enter(o.token, o.tokenId)
<1> DEFINE c == o.token
           t == o.tokenId
           terms == UniqueOrderParameters(o, Digest(o))
           list == AddTokenId(List(c), t)
<1>1. c \in Collections /\ t \in Ids
  BY OrdersAssumption DEF OrderType, OrdersAmong
<1>2. /\ orders' = [orders EXCEPT ![c][t] = terms]
      /\ SetList(c, list)
  BY DEF StoreOrderAndRecipients
<1>3. /\ terms \in Terms /\ terms.signature = Digest(o)
      /\ Digest(o) \in Signatures \ {NoSignature}
      /\ Digest(o).order = o
  BY TermsType DEF IInv, UniqueOrderParameters, Digest
<1>4. Last(tokenIdsWithOrders'[c]) = t
  <2>1. ListType(Ids, List(c)) /\ ListSound(Ids, List(c))
    BY <1>1, ListOfCollection DEF IInv
  <2>2. PICK q \in Seq(Ids) : list.ids = Append(q, t)
    <3> HIDE DEF c, t
    <3>1. CASE HasIndex(List(c), t)
      BY <1>1, <2>1, <3>1, RemoveTokenIdCorrect DEF AddTokenId, ListType
    <3>2. CASE ~HasIndex(List(c), t)
      BY <2>1, <3>2 DEF AddTokenId, ListType
    <3> QED
      BY <3>1, <3>2
  <2>3. tokenIdsWithOrders'[c] = list.ids
    BY <1>1, <1>2 DEF SetList, IInv, TypeOK, MarketType
  <2> QED
    BY <1>1, <2>2, <2>3 DEF Last
<1> HIDE DEF c, t, terms, list
<1>5. Book!Rewrite(c, [Signed[c] EXCEPT ![t] = terms.signature])
  BY <1>1, <1>2, <1>3, RewriteStep
<1>6. Book!Rewrite(c, [Signed[c] EXCEPT ![t] = Digest(o)])
  BY <1>3, <1>5 DEF Book!Rewrite
<1>7. Digest(o).order.token = c /\ Digest(o).order.tokenId = t
  BY <1>3 DEF c, t
<1>8. Book!Enter(c, t)
  BY <1>1, <1>3, <1>4, <1>6, <1>7, EntryStep DEF Book!Rewrite
<1> QED
  BY <1>8 DEF c, t

\* buy and cancelOrder strike out the entry of a listed token.
LEMMA StrikeStep ==
    ASSUME IInv, PagesKnown', NEW c \in Collections, NEW t \in Ids,
           HasIndex(List(c), t),
           orders' = [orders EXCEPT ![c][t] = NoOrder],
           SetList(c, RemoveTokenId(List(c), t))
    PROVE  Book!Strike(c, t)
<1>1. Book!Rewrite(c, [Signed[c] EXCEPT ![t] = NoSignature])
  <2> DEFINE terms == NoOrder
             list == RemoveTokenId(List(c), t)
  <2>1. terms \in Terms /\ terms.signature = NoSignature
    BY NoOrderType DEF NoOrder
  <2>2. orders' = [orders EXCEPT ![c][t] = terms] /\ SetList(c, list)
    OBVIOUS
  <2> HIDE DEF terms, list
  <2>3. Book!Rewrite(c, [Signed[c] EXCEPT ![t] = terms.signature])
    BY <2>1, <2>2, RewriteStep
  <2> QED
    BY <2>1, <2>3 DEF Book!Rewrite
<1>2. orders[c][t].signature # NoSignature
  BY DEF IInv, ListedIffStored, Listed
<1> QED
  BY <1>1, <1>2 DEF Book!Strike, Signed

\* Every transaction is a step of the book, or leaves the book as it is.
LEMMA BookStep ==
    ASSUME IInv, PagesKnown', [Next]_vars
    PROVE  [Book!BookNext]_(Book!bookVars)
<1>1. CASE Selling
  <2>1. PICK o \in Orders, opensea \in WithOpensea : Sell(o, opensea)
    BY <1>1 DEF Selling
  <2>2. Book!Enter(o.token, o.tokenId)
    BY <2>1, EnterStep DEF Sell
  <2>3. o.token \in Collections /\ o.tokenId \in Ids
    BY OrdersAssumption DEF OrderType, OrdersAmong
  <2> QED
    BY <2>2, <2>3 DEF Book!BookNext
<1>2. CASE Buying
  <2>1. PICK c \in Collections, t \in Ids, r \in Users : Buy(c, t, r)
    BY <1>2 DEF Buying
  <2>2. Book!Strike(c, t)
    BY <2>1, StrikeStep DEF Buy
  <2> QED
    BY <2>2 DEF Book!BookNext
<1>3. CASE Cancelling
  <2>1. PICK u \in Users, c \in Collections, t \in Ids : CancelOrder(u, c, t)
    BY <1>3 DEF Cancelling
  <2>2. Book!Strike(c, t)
    BY <2>1, StrikeStep DEF CancelOrder
  <2> QED
    BY <2>2 DEF Book!BookNext
<1>4. CASE Elsewhere \/ UNCHANGED vars
  BY <1>4 DEF Elsewhere, vars, marketVars, Book!bookVars
<1> QED
  BY <1>1, <1>2, <1>3, <1>4 DEF Next

\* The market's storage is a listing book: at most one entry for each token,
\* a page with every listed token once, and no step that touches two entries
\* (the swap of the last id into a freed place never shows).
THEOREM MarketIsListingBook == Spec => ImplementsBook
<1>1. ASSUME Init PROVE Book!BookInit
  BY <1>1 DEF Init, MarketInit, NoOrder, EmptyList, Book!BookInit
<1>2. IInv /\ PagesKnown' /\ [Next]_vars => [Book!BookNext]_(Book!bookVars)
  BY BookStep
<1> QED
  BY <1>1, <1>2, Invariance, PagesAreKnown, PTL
     DEF Spec, ImplementsBook, Book!BookSpec
================================================================================

---------------------------- MODULE RoundTripProofs ----------------------------
(***************************************************************************)
(* composeOrder gives back what sell stored, as an invariant of the        *)
(* market; what buyers, sellers and the page have of it: a listing that    *)
(* leaves the database is spent, a cancellation is one of the order that   *)
(* was listed, a purchase costs what the seller signed, and a tile buys.   *)
(***************************************************************************)
EXTENDS MarketMapProofs, Purchase

--------------------------------------------------------------------------------
(* The invariant.                                                          *)

\* The slot after those an order for the token fills is empty.
SlotsFit(c, t) ==
    \A o \in Orders : o.token = c /\ o.tokenId = t =>
        additionalRecipients[c][t][Len(o.recipients) + 1].amount = 0

\* A listed token's storage holds the order its stored signature signs.
StoredAsListed(c, t) ==
    LET d == orders[c][t].signature
    IN  Listed(c, t) =>
            /\ d.order \in Orders
            /\ d.order.token = c /\ d.order.tokenId = t
            /\ orders[c][t] = UniqueOrderParameters(d.order, d)
            /\ HoldsRecipients(additionalRecipients[c][t], d.order.recipients)

RInv ==
    /\ IInv
    /\ \A c \in Collections, t \in Ids : SlotsFit(c, t) /\ StoredAsListed(c, t)

\* The invariant gives the property: what is held in storage composes to the
\* listed order.
LEMMA RInvRoundTrip == UniformOrders /\ RInv => RoundTrip
<1> SUFFICES ASSUME UniformOrders, RInv,
                    NEW c \in Collections, NEW t \in Ids, Listed(c, t)
             PROVE  Composed(c, t) = [orders[c][t].signature.order
                                          EXCEPT !.offerer = owner[c][t]]
  BY DEF RoundTrip
<1> DEFINE d == orders[c][t].signature
<1>1. /\ d.order \in Orders
      /\ d.order.token = c /\ d.order.tokenId = t
      /\ orders[c][t] = UniqueOrderParameters(d.order, d)
      /\ HoldsRecipients(additionalRecipients[c][t], d.order.recipients)
  BY DEF RInv, StoredAsListed
<1>3. Storable(d.order)
  BY <1>1 DEF UniformOrders
<1> HIDE DEF d
<1>4. ComposeOrder(UniqueOrderParameters(d.order, d), additionalRecipients[c][t],
                   owner[c][t], d.order.token, d.order.tokenId)
          = [d.order EXCEPT !.offerer = owner[c][t]]
  BY <1>1, <1>3, OrdersAreOrders, ComposeInvertsStore
<1> QED
  BY <1>1, <1>4 DEF Composed, d

\* Nothing is listed initially and every slot is empty.
LEMMA RInvInit == UniformOrders /\ Init => RInv
<1> SUFFICES ASSUME UniformOrders, Init PROVE RInv
  OBVIOUS
<1>1. IInv
  BY InitIInv
<1>2. ASSUME NEW c \in Collections, NEW t \in Ids
      PROVE  SlotsFit(c, t) /\ StoredAsListed(c, t)
  <2>1. ~Listed(c, t)
    BY DEF Init, MarketInit, EmptyList, Listed, HasIndex, List
  <2>2. ASSUME NEW o \in Orders
        PROVE  additionalRecipients[c][t][Len(o.recipients) + 1].amount = 0
    <3>1. Len(o.recipients) \in Nat /\ Len(o.recipients) < SlotMax
      BY OrdersAssumption DEF UniformOrders, Storable, OrderType, OrdersAmong
    <3>2. Len(o.recipients) + 1 \in Slots
      BY <3>1, CodecAssumption DEF Slots
    <3> QED
      BY <3>2 DEF Init, MarketInit, EmptySlot
  <2> QED
    BY <2>1, <2>2 DEF SlotsFit, StoredAsListed
<1> QED
  BY <1>1, <1>2 DEF RInv

\* A token whose order and slots a step leaves alone keeps its part of the
\* invariant.
LEMMA Untouched ==
    ASSUME IInv, IInv', NEW c \in Collections, NEW t \in Ids,
           SlotsFit(c, t), StoredAsListed(c, t),
           orders'[c][t] = orders[c][t],
           additionalRecipients'[c][t] = additionalRecipients[c][t]
    PROVE  SlotsFit(c, t)' /\ StoredAsListed(c, t)'
<1>1. Listed(c, t)' <=> Listed(c, t)
  BY DEF IInv, ListedIffStored
<1> QED
  BY <1>1 DEF SlotsFit, StoredAsListed

\* A step that deletes a token's order keeps the invariant when it leaves an
\* empty slot empty.
LEMMA Deleted ==
    ASSUME UniformOrders, RInv, IInv', NEW c \in Collections, NEW t \in Ids,
           orders' = [orders EXCEPT ![c][t] = NoOrder],
           \/ UNCHANGED additionalRecipients
           \/ additionalRecipients' =
                  [additionalRecipients EXCEPT ![c][t] = ClearAdditionalRecipients(@)]
    PROVE  RInv'
<1>1. /\ orders \in [Collections -> [Ids -> Terms]]
      /\ additionalRecipients \in [Collections -> [Ids -> [Slots -> SlotValues]]]
  BY DEF RInv, IInv, TypeOK, MarketType
<1>2. /\ orders'[c][t] = NoOrder
      /\ \A d \in Collections, u \in Ids :
             d # c \/ u # t => orders'[d][u] = orders[d][u]
  BY <1>1
<1>3. /\ \A d \in Collections, u \in Ids : d # c \/ u # t =>
             additionalRecipients'[d][u] = additionalRecipients[d][u]
      /\ \/ additionalRecipients'[c][t] = additionalRecipients[c][t]
         \/ additionalRecipients'[c][t] =
                ClearAdditionalRecipients(additionalRecipients[c][t])
  BY <1>1
<1>4. ASSUME NEW d \in Collections, NEW u \in Ids, d # c \/ u # t
      PROVE  SlotsFit(d, u)' /\ StoredAsListed(d, u)'
  <2>1. SlotsFit(d, u) /\ StoredAsListed(d, u)
    BY DEF RInv
  <2>2. orders'[d][u] = orders[d][u]
    BY <1>2, <1>4
  <2>3. additionalRecipients'[d][u] = additionalRecipients[d][u]
    BY <1>3, <1>4
  <2> QED
    BY <2>1, <2>2, <2>3, Untouched DEF RInv
<1>5. StoredAsListed(c, t)'
  <2>1. orders'[c][t].signature = NoSignature
    BY <1>2 DEF NoOrder
  <2>2. ~Listed(c, t)'
    BY <2>1 DEF IInv, ListedIffStored
  <2> QED
    BY <2>2 DEF StoredAsListed
<1>6. SlotsFit(c, t)'
  <2>1. SUFFICES ASSUME NEW o \in Orders, o.token = c, o.tokenId = t
                 PROVE  additionalRecipients'[c][t][Len(o.recipients) + 1].amount = 0
    BY DEF SlotsFit
  <2> DEFINE i == Len(o.recipients) + 1
             slots == additionalRecipients[c][t]
  <2>2. slots[i].amount = 0
    BY <2>1 DEF RInv, SlotsFit
  <2>3. slots \in [Slots -> SlotValues]
    BY <1>1
  <2> HIDE DEF i, slots
  <2>4. ClearAdditionalRecipients(slots)[i].amount = 0
    BY <2>2, <2>3 DEF ClearAdditionalRecipients, EmptySlot
  <2> QED
    BY <1>3, <2>2, <2>4 DEF i, slots
<1> QED
  <2>1. ASSUME NEW d \in Collections, NEW u \in Ids
        PROVE  SlotsFit(d, u)' /\ StoredAsListed(d, u)'
    <3>1. CASE d = c /\ u = t
      BY <3>1, <1>5, <1>6
    <3>2. CASE d # c \/ u # t
      BY <3>2, <1>4
    <3> QED
      BY <3>1, <3>2
  <2> QED
    BY <2>1 DEF RInv

\* sell keeps the invariant: it stores the order it was given.
LEMMA Sold ==
    ASSUME UniformOrders, RInv, IInv', NEW o \in Orders,
           StoreOrderAndRecipients(o, Digest(o))
    PROVE  RInv'
<1> DEFINE c == o.token
           t == o.tokenId
           new == StoreAdditionalRecipients(additionalRecipients[c][t], o.recipients)
           terms == UniqueOrderParameters(o, Digest(o))
<1>1. /\ c \in Collections /\ t \in Ids
      /\ orders \in [Collections -> [Ids -> Terms]]
      /\ additionalRecipients \in [Collections -> [Ids -> [Slots -> SlotValues]]]
      /\ Storable(o)
  BY OrdersAssumption
     DEF OrderType, OrdersAmong, RInv, IInv, TypeOK, MarketType, UniformOrders
<1>2. /\ additionalRecipients' = [additionalRecipients EXCEPT ![c][t] = new]
      /\ orders' = [orders EXCEPT ![c][t] = terms]
  BY DEF StoreOrderAndRecipients
<1>3. HoldsRecipients(new, o.recipients)
  <2>1. SlotsFit(c, t)
    BY <1>1 DEF RInv
  <2>2. additionalRecipients[c][t][Len(o.recipients) + 1].amount = 0
    BY <2>1 DEF SlotsFit
  <2> QED
    BY <1>1, <2>2, StoredRecipients, OrdersAreOrders
<1>4. /\ terms = UniqueOrderParameters(o, terms.signature)
      /\ terms.signature.order = o
  BY DEF UniqueOrderParameters, Digest
<1> HIDE DEF new, terms
<1>5. /\ orders'[c][t] = terms
      /\ additionalRecipients'[c][t] = new
      /\ \A d \in Collections, u \in Ids : d # c \/ u # t =>
             /\ orders'[d][u] = orders[d][u]
             /\ additionalRecipients'[d][u] = additionalRecipients[d][u]
  BY <1>1, <1>2
<1>6. StoredAsListed(c, t)'
  BY <1>3, <1>4, <1>5 DEF StoredAsListed
<1>7. SlotsFit(c, t)'
  <2>1. SUFFICES ASSUME NEW p \in Orders, p.token = c, p.tokenId = t
                 PROVE  new[Len(p.recipients) + 1].amount = 0
    BY <1>5 DEF SlotsFit
  <2>2. Len(p.recipients) = Len(o.recipients)
    BY <2>1 DEF UniformOrders
  <2> QED
    BY <2>2, <1>3 DEF HoldsRecipients
<1> HIDE DEF c, t
<1>8. ASSUME NEW d \in Collections, NEW u \in Ids
      PROVE  SlotsFit(d, u)' /\ StoredAsListed(d, u)'
  <2>1. CASE d = c /\ u = t
    BY <2>1, <1>6, <1>7
  <2>2. CASE d # c \/ u # t
    <3>1. SlotsFit(d, u) /\ StoredAsListed(d, u)
      BY DEF RInv
    <3>2. /\ orders'[d][u] = orders[d][u]
          /\ additionalRecipients'[d][u] = additionalRecipients[d][u]
      BY <2>2, <1>5
    <3> QED
      BY <3>1, <3>2, Untouched DEF RInv
  <2> QED
    BY <2>1, <2>2
<1> QED
  BY <1>8 DEF RInv

\* Every transaction keeps the invariant.
LEMMA RInvNext == UniformOrders /\ RInv /\ [Next]_vars => RInv'
<1> SUFFICES ASSUME UniformOrders, RInv, [Next]_vars PROVE RInv'
  OBVIOUS
<1>1. IInv'
  BY NextIInv DEF RInv
<1>2. CASE Selling
  BY <1>1, <1>2, Sold DEF Selling, Sell
<1>3. CASE Buying
  BY <1>1, <1>3, Deleted DEF Buying, Buy
<1>4. CASE Cancelling
  BY <1>1, <1>4, Deleted DEF Cancelling, CancelOrder
<1>5. CASE UNCHANGED marketVars
  BY <1>1, <1>5
     DEF marketVars, RInv, SlotsFit, StoredAsListed, Listed, HasIndex, List
<1> QED
  BY <1>2, <1>3, <1>4, <1>5 DEF Next, Elsewhere, vars

\* Composing a listing gives the listed order, for its token's present owner,
\* after any sequence of listings, re-listings, sales and cancellations, when
\* the orders for one token all have equally many recipients.
THEOREM RoundTripTheorem == UniformOrders => (Spec => []RoundTrip)
<1> SUFFICES ASSUME UniformOrders PROVE Spec => []RoundTrip
  OBVIOUS
<1>1. Init => RInv
  BY RInvInit
<1>2. RInv /\ [Next]_vars => RInv'
  BY RInvNext
<1>3. RInv => RoundTrip
  BY RInvRoundTrip
<1> QED
  BY <1>1, <1>2, <1>3, PTL DEF Spec

--------------------------------------------------------------------------------
(* What leaves the database is spent.                                      *)

\* The order composed for its own seller, at the counter it was signed with,
\* has the digest that was signed.
LEMMA OwnListingDigest ==
    ASSUME UniformOrders, RInv, NEW c \in Collections, NEW t \in Ids, Listed(c, t),
           orders[c][t].signature.order.offerer = owner[c][t],
           orders[c][t].signature.counter =
               counter[orders[c][t].signature.order.offerer]
    PROVE  Digest(Composed(c, t)) = orders[c][t].signature
<1> DEFINE d == orders[c][t].signature
<1>1. d \in [order : Orders, counter : 0..MaxCounter]
  BY DEF RInv, IInv, TypeOK, MarketType, Terms, Signatures, ListedIffStored
<1>2. Composed(c, t) = [d.order EXCEPT !.offerer = owner[c][t]]
  BY RInvRoundTrip DEF RoundTrip
<1>3. d.order \in OrderType /\ d.order.offerer = owner[c][t]
  BY <1>1, OrdersAssumption
<1> HIDE DEF d
<1>4. Composed(c, t) = d.order
  BY <1>2, <1>3 DEF OrderType, OrdersAmong
<1> QED
  BY <1>1, <1>3, <1>4 DEF Digest, d

\* A step that delists a seller's own live listing is a buy or a cancelOrder of
\* it, and spends its digest.
LEMMA DelistingStep ==
    ASSUME UniformOrders, RInv, RInv', [Next]_vars,
           NEW c \in Collections, NEW t \in Ids, Listed(c, t), ~Listed(c, t)',
           orders[c][t].signature.order.offerer = owner[c][t],
           orders[c][t].signature.counter =
               counter[orders[c][t].signature.order.offerer]
    PROVE  orders[c][t].signature \in cancelled' \cup filled'
<1>1. /\ orders[c][t].signature # NoSignature
      /\ orders'[c][t].signature = NoSignature
      /\ orders \in [Collections -> [Ids -> Terms]]
  BY DEF RInv, IInv, ListedIffStored, TypeOK, MarketType
<1>2. Digest(Composed(c, t)) = orders[c][t].signature
  BY OwnListingDigest
<1>3. ASSUME NEW o \in Orders, NEW opensea \in WithOpensea, Sell(o, opensea)
      PROVE  FALSE
  <2>1. /\ orders' = [orders EXCEPT ![o.token][o.tokenId] =
                          UniqueOrderParameters(o, Digest(o))]
        /\ o.token \in Collections /\ o.tokenId \in Ids
    BY <1>3, OrdersAssumption DEF Sell, StoreOrderAndRecipients, OrderType, OrdersAmong
  <2>2. UniqueOrderParameters(o, Digest(o)).signature # NoSignature
    BY TermsType DEF UniqueOrderParameters, RInv, IInv
  <2>3. CASE c = o.token /\ t = o.tokenId
    BY <2>1, <2>2, <2>3, <1>1
  <2>4. CASE ~(c = o.token /\ t = o.tokenId)
    BY <2>1, <2>4, <1>1
  <2> QED
    BY <2>3, <2>4
<1>4. ASSUME NEW e \in Collections, NEW u \in Ids,
             orders' = [orders EXCEPT ![e][u] = NoOrder]
      PROVE  e = c /\ u = t
  BY <1>1, <1>4
<1>5. CASE Selling
  BY <1>3, <1>5 DEF Selling
<1>6. CASE Buying
  <2>1. PICK e \in Collections, u \in Ids, r \in Users : Buy(e, u, r)
    BY <1>6 DEF Buying
  <2>2. e = c /\ u = t
    BY <2>1, <1>4 DEF Buy
  <2> QED
    BY <2>1, <2>2, <1>2 DEF Buy, FulfilOrder
<1>7. CASE Cancelling
  <2>1. PICK v \in Users, e \in Collections, u \in Ids : CancelOrder(v, e, u)
    BY <1>7 DEF Cancelling
  <2>2. e = c /\ u = t
    BY <2>1, <1>4 DEF CancelOrder
  <2> QED
    BY <2>1, <2>2, <1>2 DEF CancelOrder, CancelDigest
<1>8. CASE UNCHANGED marketVars
  BY <1>1, <1>8 DEF marketVars
<1> QED
  BY <1>5, <1>6, <1>7, <1>8 DEF Next, Elsewhere, vars

\* A seller's own listing leaves the database only when its order is traded
\* or cancelled in Seaport by the same step, when the orders for one token
\* all have equally many recipients.
THEOREM DelistedTheorem == UniformOrders => (Spec => DelistedMeansSpent)
<1> SUFFICES ASSUME UniformOrders PROVE Spec => DelistedMeansSpent
  OBVIOUS
<1>1. Init => RInv
  BY RInvInit
<1>2. RInv /\ [Next]_vars => RInv'
  BY RInvNext
<1>3. RInv /\ RInv' /\ [Next]_vars =>
          [\A c \in Collections, t \in Ids :
               LET d == orders[c][t].signature
               IN  /\ Listed(c, t) /\ ~Listed(c, t)'
                   /\ d.order.offerer = owner[c][t]
                   /\ d.counter = counter[d.order.offerer]
                   => d \in cancelled' \cup filled']_vars
  BY DelistingStep
<1> QED
  BY <1>1, <1>2, <1>3, PTL DEF Spec, DelistedMeansSpent

\* Under the same condition cancelOrder cancels in Seaport the very order its
\* caller listed, if the caller's counter is still the one it was signed at.
\* Without it the property fails, as clearing leaves recipients behind.
THEOREM CancelsTakeEffect == UniformOrders => (Spec => CancelTakesEffect)
<1> SUFFICES ASSUME UniformOrders PROVE Spec => CancelTakesEffect
  OBVIOUS
<1>1. ASSUME RInv, NEW u \in Users, NEW c \in Collections, NEW t \in Ids,
             CancelOrder(u, c, t),
             orders[c][t].signature.order.offerer = u,
             orders[c][t].signature.counter = counter[u]
      PROVE  orders[c][t].signature \in cancelled'
  <2>1. u = owner[c][t] /\ Listed(c, t)
    BY <1>1 DEF CancelOrder, Listed
  <2>2. Digest(Composed(c, t)) = orders[c][t].signature
    BY <1>1, <2>1, OwnListingDigest
  <2> QED
    BY <1>1, <2>2 DEF CancelOrder, CancelDigest
<1>2. Init => RInv
  BY RInvInit
<1>3. RInv /\ [Next]_vars => RInv'
  BY RInvNext
<1>4. RInv /\ [Next]_vars =>
          [\A u \in Users, c \in Collections, t \in Ids :
               LET d == orders[c][t].signature
               IN  CancelOrder(u, c, t) /\ d.order.offerer = u
                   /\ d.counter = counter[u]
                   => d \in cancelled']_vars
  BY <1>1
<1> QED
  BY <1>2, <1>3, <1>4, PTL DEF Spec, CancelTakesEffect

--------------------------------------------------------------------------------
(* The signed recipients are the first ones, whatever else is stored.      *)

\* A listed token's slots hold the recipients of the order its stored
\* signature signs, if the order can be stored at all.
KeptFirst ==
    \A c \in Collections, t \in Ids :
        LET o == orders[c][t].signature.order
        IN  Listed(c, t) =>
                /\ o \in Orders
                /\ Storable(o) => HoldsFirst(additionalRecipients[c][t], o.recipients)
\* Every transaction keeps them: sell fills the slots anew, and what deletes
\* recipients delists the token.
LEMMA KeptFirstStep ==
    ASSUME IInv, IInv', KeptFirst, [Next]_vars
    PROVE  KeptFirst'
<1>1. /\ orders \in [Collections -> [Ids -> Terms]]
      /\ additionalRecipients \in [Collections -> [Ids -> [Slots -> SlotValues]]]
  BY DEF IInv, TypeOK, MarketType
<1>2. \A c \in Collections, t \in Ids :
          /\ Listed(c, t) <=> orders[c][t].signature # NoSignature
          /\ Listed(c, t)' <=> orders'[c][t].signature # NoSignature
  BY DEF IInv, ListedIffStored
<1>3. CASE Selling
  <2>1. PICK o \in Orders : StoreOrderAndRecipients(o, Digest(o))
    BY <1>3 DEF Selling, Sell
  <2> DEFINE c == o.token
             t == o.tokenId
             new == StoreAdditionalRecipients(additionalRecipients[c][t], o.recipients)
             terms == UniqueOrderParameters(o, Digest(o))
  <2>2. c \in Collections /\ t \in Ids
    BY OrdersAssumption DEF OrderType, OrdersAmong
  <2>3. Storable(o) => HoldsFirst(new, o.recipients)
    BY StoredFirst, OrdersAreOrders DEF HoldsFirst
  <2>4. terms.signature.order = o
    BY DEF UniqueOrderParameters, Digest
  <2>5. /\ additionalRecipients' = [additionalRecipients EXCEPT ![c][t] = new]
        /\ orders' = [orders EXCEPT ![c][t] = terms]
    BY <2>1 DEF StoreOrderAndRecipients
  <2> HIDE DEF new, terms
  <2>6. /\ orders'[c][t] = terms /\ additionalRecipients'[c][t] = new
        /\ \A d \in Collections, u \in Ids : d # c \/ u # t =>
               /\ orders'[d][u] = orders[d][u]
               /\ additionalRecipients'[d][u] = additionalRecipients[d][u]
    BY <1>1, <2>2, <2>5
  <2>7. ASSUME NEW d \in Collections, NEW u \in Ids, Listed(d, u)'
        PROVE  LET p == orders'[d][u].signature.order
               IN  /\ p \in Orders
                   /\ Storable(p) =>
                          HoldsFirst(additionalRecipients'[d][u], p.recipients)
    <3>1. CASE d = c /\ u = t
      BY <3>1, <2>3, <2>4, <2>6
    <3>2. CASE d # c \/ u # t
      BY <3>2, <2>6, <2>7, <1>2 DEF KeptFirst
    <3> QED
      BY <3>1, <3>2
  <2> QED
    BY <2>7 DEF KeptFirst
<1>4. CASE Buying \/ Cancelling
  <2>1. PICK c \in Collections, t \in Ids :
            /\ orders' = [orders EXCEPT ![c][t] = NoOrder]
            /\ \/ UNCHANGED additionalRecipients
               \/ additionalRecipients' =
                      [additionalRecipients EXCEPT
                           ![c][t] = ClearAdditionalRecipients(@)]
    BY <1>4 DEF Buying, Buy, Cancelling, CancelOrder
  <2>2. /\ orders'[c][t].signature = NoSignature
        /\ \A d \in Collections, u \in Ids : d # c \/ u # t =>
               /\ orders'[d][u] = orders[d][u]
               /\ additionalRecipients'[d][u] = additionalRecipients[d][u]
    BY <1>1, <2>1 DEF NoOrder
  <2>3. ASSUME NEW d \in Collections, NEW u \in Ids, Listed(d, u)'
        PROVE  LET p == orders'[d][u].signature.order
               IN  /\ p \in Orders
                   /\ Storable(p) =>
                          HoldsFirst(additionalRecipients'[d][u], p.recipients)
    <3>1. d # c \/ u # t
      BY <2>2, <2>3, <1>2
    <3> QED
      BY <3>1, <2>2, <2>3, <1>2 DEF KeptFirst
  <2> QED
    BY <2>3 DEF KeptFirst
<1>5. CASE UNCHANGED marketVars
  BY <1>5 DEF marketVars, KeptFirst, Listed, HasIndex, List
<1> QED
  BY <1>3, <1>4, <1>5 DEF Next, Elsewhere, vars

\* No recipient a seller signed is lost or overwritten while the token is
\* listed, whatever orders were stored for it before: the orders need not be
\* uniform.
THEOREM RecipientsKeptTheorem == Spec => []RecipientsKept
<1>1. Init => KeptFirst
  BY DEF Init, MarketInit, EmptyList, KeptFirst, Listed, HasIndex, List
<1>2. Spec => [](IInv /\ KeptFirst)
  BY <1>1, KeptFirstStep, Invariance, PTL DEF Spec
<1>3. ASSUME IInv, KeptFirst PROVE RecipientsKept
  <2> SUFFICES ASSUME NEW c \in Collections, NEW t \in Ids, Listed(c, t),
                      Storable(orders[c][t].signature.order)
               PROVE  IsPrefix(orders[c][t].signature.order.recipients,
                               Composed(c, t).recipients)
    BY DEF RecipientsKept
  <2> DEFINE o == orders[c][t].signature.order
             slots == additionalRecipients[c][t]
  <2>1. o \in Orders /\ Storable(o) /\ HoldsFirst(slots, o.recipients)
    BY <1>3 DEF KeptFirst
  <2>2. HasEmptySlot(slots)
    <3>1. SlotMax \in Slots
      BY CodecAssumption DEF Slots
    <3> QED
      BY <1>3, <3>1 DEF IInv, LastSlotEmpty, HasEmptySlot
  <2>3. Composed(c, t).recipients = LoadRecipients(slots)
    BY DEF Composed, ComposeOrder
  <2> HIDE DEF o, slots
  <2>4. IsPrefix(o.recipients, LoadRecipients(slots))
    BY <2>1, <2>2, LoadFirstRecipients, OrdersAreOrders
  <2> QED
    BY <2>3, <2>4 DEF o, slots
<1> QED
  BY <1>2, <1>3, PTL

--------------------------------------------------------------------------------
(* Purchases cost what was listed.                                         *)

\* The tile and the transaction name a token of the market.
PageKnown ==
    /\ tile.pc \in {"details", "shown", "unpriced"} =>
           tile.token \in Collections /\ tile.id \in Ids
    /\ tx.pc = "sent" => tx.token \in Collections /\ tx.id \in Ids

\* Every step keeps that so.
LEMMA PageKnownNext ==
    ASSUME PageKnown, [PurchaseNext]_allVars
    PROVE  PageKnown'
<1>1. ASSUME NEW c \in Collections, NEW t \in Ids, StatusRead(c, t)
      PROVE  PageKnown'
  BY <1>1 DEF StatusRead, PageKnown
<1>2. CASE DetailsRead \/ ClickBuy
  BY <1>2 DEF DetailsRead, ClickBuy, PageKnown
<1>3. CASE Reload \/ BuyMined \/ BuyReverted
  BY <1>3 DEF Reload, BuyMined, BuyReverted, NoTile, NoTx, PageKnown
<1>4. CASE UNCHANGED pageVars
  BY <1>4 DEF pageVars, PageKnown
<1> QED
  BY <1>1, <1>2, <1>3, <1>4 DEF PurchaseNext, PageStep, allVars

\* The page's steps are those of one more user of the market.
LEMMA PageIsAUser ==
    ASSUME PageKnown, [PurchaseNext]_allVars
    PROVE  [Next]_vars
<1>1. CASE BuyMined
  <2>1. tx.token \in Collections /\ tx.id \in Ids /\ Wallet \in Users
    BY <1>1, PurchaseAssumption DEF BuyMined, PageKnown
  <2>2. Buy(tx.token, tx.id, Wallet)
    BY <1>1 DEF BuyMined
  <2> QED
    BY <2>1, <2>2 DEF Next, Buying
<1>2. CASE PageStep /\ ~BuyMined
  BY <1>2 DEF PageStep, StatusRead, DetailsRead, Reload, ClickBuy, BuyReverted
<1>3. CASE Next \/ UNCHANGED allVars
  BY <1>3 DEF allVars
<1> QED
  BY <1>1, <1>2, <1>3 DEF PurchaseNext

\* The market with the page is a market: whatever holds of every behaviour of
\* MarketMap holds while pages buy.
THEOREM PagesUseTheMarket == PurchaseSpec => Spec
<1>1. PurchaseInit => Init /\ PageKnown
  BY DEF PurchaseInit, NoTile, NoTx, PageKnown
<1>2. PageKnown /\ [PurchaseNext]_allVars => PageKnown'
  BY PageKnownNext
<1>3. PageKnown /\ [PurchaseNext]_allVars => [Next]_vars
  BY PageIsAUser
<1> QED
  BY <1>1, <1>2, <1>3, PTL DEF PurchaseSpec, Spec

\* A tile is made from the packed price of the order it was read from, and
\* keeps it; it has no button only when there is no price.
TileKnown ==
    tile.pc \in {"shown", "unpriced"} =>
        /\ tile.rate \in Nat
        /\ tile.pc = "shown" <=> HasPrice(tile.amount, tile.rate)
        /\ tile.listing # NoSignature =>
               /\ tile.listing.order \in Orders
               /\ tile.amount = PackAmount(tile.listing.order.amount)

PInv == RInv /\ PageKnown /\ TileKnown

\* A listed order is one that can be signed, and its stored amount is that
\* order's, packed.
LEMMA StoredAmount ==
    ASSUME RInv, NEW c \in Collections, NEW t \in Ids,
           orders[c][t].signature # NoSignature
    PROVE  /\ orders[c][t].signature.order \in Orders
           /\ orders[c][t].amount = PackAmount(orders[c][t].signature.order.amount)
<1>1. Listed(c, t)
  BY DEF RInv, IInv, ListedIffStored
<1>2. StoredAsListed(c, t)
  BY DEF RInv
<1> QED
  BY <1>1, <1>2 DEF StoredAsListed, UniqueOrderParameters

\* Every step of the page or the market keeps tiles and transactions known.
LEMMA PInvNext ==
    ASSUME UniformOrders, PInv, [PurchaseNext]_allVars
    PROVE  PInv'
<1> USE DEF PInv
<1>1. RInv'
  BY PageIsAUser, RInvNext
<1> SUFFICES TileKnown'
  BY <1>1, PageKnownNext
<1>2. ASSUME NEW c \in Collections, NEW t \in Ids, StatusRead(c, t)
      PROVE  TileKnown'
  BY <1>2 DEF StatusRead, TileKnown
<1>3. CASE DetailsRead
  <2>1. /\ tile.pc = "details" /\ UNCHANGED tx
        /\ tile.token \in Collections /\ tile.id \in Ids
    BY <1>3 DEF DetailsRead, PageKnown
  <2> DEFINE order == orders[tile.token][tile.id]
  <2>2. PICK rate \in Rates :
            tile' = [pc |-> IF HasPrice(order.amount, rate) THEN "shown"
                            ELSE "unpriced",
                     token |-> tile.token, id |-> tile.id,
                     amount |-> order.amount, rate |-> rate,
                     listing |-> order.signature]
    BY <1>3 DEF DetailsRead
  <2>3. order.signature # NoSignature =>
            /\ order.signature.order \in Orders
            /\ order.amount = PackAmount(order.signature.order.amount)
    BY <2>1, StoredAmount
  <2> HIDE DEF order
  <2>4. rate \in Nat
    BY PurchaseAssumption
  <2> QED
    BY <2>1, <2>2, <2>3, <2>4 DEF TileKnown
<1>4. CASE Reload
  BY <1>4 DEF Reload, NoTile, TileKnown
<1>5. CASE ClickBuy
  BY <1>5 DEF ClickBuy, TileKnown
<1>6. CASE BuyMined \/ BuyReverted
  BY <1>6 DEF BuyMined, BuyReverted, NoTx, TileKnown
<1>7. CASE UNCHANGED pageVars
  BY <1>7 DEF pageVars, TileKnown
<1> QED
  BY <1>2, <1>3, <1>4, <1>5, <1>6, <1>7 DEF PurchaseNext, PageStep, allVars

\* The invariant of a market with the page.
LEMMA PurchaseInvariance == UniformOrders => (PurchaseSpec => []PInv)
<1> SUFFICES ASSUME UniformOrders PROVE PurchaseSpec => []PInv
  OBVIOUS
<1>1. PurchaseInit => PInv
  BY RInvInit DEF PurchaseInit, NoTile, NoTx, PInv, PageKnown, TileKnown
<1>2. PInv /\ [PurchaseNext]_allVars => PInv'
  BY PInvNext
<1> QED
  BY <1>1, <1>2, PTL DEF PurchaseSpec

\* What Seaport asks for does not depend on who owns the token.
LEMMA ComposedTotal ==
    ASSUME UniformOrders, RInv, NEW c \in Collections, NEW t \in Ids, Listed(c, t)
    PROVE  Total(Composed(c, t)) = Total(orders[c][t].signature.order)
<1> DEFINE o == orders[c][t].signature.order
<1>1. IsOrder(o)
  BY OrdersAreOrders DEF RInv, StoredAsListed
<1>2. Composed(c, t) = [o EXCEPT !.offerer = owner[c][t]]
  BY RInvRoundTrip DEF RoundTrip
<1> HIDE DEF o
<1>3. Composed(c, t).amount = o.amount /\ Composed(c, t).recipients = o.recipients
  BY <1>1, <1>2, OrderFields
<1>4. Total(Composed(c, t)) = Total(o)
  BY <1>3 DEF Total
<1> QED
  BY <1>4 DEF o

\* Whatever the market did between the tile and the block, a purchase that
\* goes through costs what the present seller signed.
THEOREM PurchasesCostAsListed == UniformOrders => (PurchaseSpec => PaidAsListed)
<1> SUFFICES ASSUME UniformOrders PROVE PurchaseSpec => PaidAsListed
  OBVIOUS
<1>1. ASSUME PInv, BuyMined
      PROVE  tx.value = Total(orders[tx.token][tx.id].signature.order)
  <2>1. tx.token \in Collections /\ tx.id \in Ids
    BY <1>1 DEF PInv, PageKnown, BuyMined
  <2>2. /\ Listed(tx.token, tx.id)
        /\ tx.value = Total(Composed(tx.token, tx.id))
    BY <1>1 DEF BuyMined, Buys, Pays, Listed
  <2> QED
    BY <1>1, <2>1, <2>2, ComposedTotal DEF PInv
<1>2. PInv /\ [PurchaseNext]_allVars =>
          [BuyMined => tx.value = Total(orders[tx.token][tx.id].signature.order)]_allVars
  BY <1>1
<1> QED
  BY <1>2, PurchaseInvariance, PTL DEF PurchaseSpec, PaidAsListed

\* A multiple of a number divides by it exactly.
LEMMA ExactDivision ==
    ASSUME NEW m \in Nat \ {0}, NEW n \in Nat
    PROVE  (m * n) % m = 0 /\ (m * n) \div m = n
  OBVIOUS

\* The page has a price at an order's own royalty rate, and it is what the
\* order asks for, once its amount is packed and unpacked.
LEMMA PriceAtRate ==
    ASSUME NEW o \in Orders, Storable(o), NEW rate \in Nat, AtRate(o, rate)
    PROVE  /\ HasPrice(PackAmount(o.amount), rate)
           /\ Price(PackAmount(o.amount), rate) = Total(o)
<1> DEFINE a == o.amount
           sum == SumOfAmounts(o.recipients)
<1>1. a \in Nat /\ sum \in Nat
  BY OrdersAreOrders, OrderFields, SumOfAmountsType
<1>2. PackAmount(a) * Unit = a
  <2>1. a % Unit = 0 /\ a < AmountCap
    BY DEF Storable, ValidParameters
  <2>2. a < Unit * AmountMod
    BY <1>1, <2>1, CodecAssumption
  <2> QED
    BY <1>1, <2>1, <2>2, PackAmountExact
<1>3. Total(o) = a + sum
  BY DEF Total
<1>4. Parts * ((a + sum) - a) = rate * a
  BY <1>3 DEF AtRate
<1>5. Parts \in Nat \ {0}
  BY PurchaseAssumption
<1> HIDE DEF a, sum
<1>6. a * (Parts + rate) = Parts * (a + sum)
  <2>1. (a + sum) - a = sum
    BY <1>1
  <2>2. a * (Parts + rate) = Parts * a + rate * a
    BY <1>1, <1>5
  <2>3. Parts * (a + sum) = Parts * a + Parts * sum
    BY <1>1, <1>5
  <2> QED
    BY <1>4, <2>1, <2>2, <2>3
<1>7. /\ (Parts * (a + sum)) % Parts = 0
      /\ (Parts * (a + sum)) \div Parts = a + sum
  <2>1. a + sum \in Nat
    BY <1>1
  <2> QED
    BY <2>1, <1>5, ExactDivision
<1> QED
  BY <1>2, <1>3, <1>6, <1>7 DEF Price, HasPrice, a

\* A tile's button works for as long as the listing it was made from is
\* stored and can be bought.
THEOREM TilesBuy == UniformOrders => (PurchaseSpec => []TileBuys)
<1> SUFFICES ASSUME UniformOrders PROVE PurchaseSpec => []TileBuys
  OBVIOUS
<1>1. ASSUME PInv PROVE TileBuys
  <2> DEFINE c == tile.token
             t == tile.id
             o == tile.listing.order
  <2> SUFFICES ASSUME tile.pc \in {"shown", "unpriced"}, tile.listing # NoSignature,
                      orders[c][t].signature = tile.listing,
                      Buyable(c, t), AtRate(o, tile.rate)
               PROVE  /\ tile.pc = "shown"
                      /\ Buys(c, t, Price(tile.amount, tile.rate))
    BY DEF TileBuys
  <2>1. /\ c \in Collections /\ t \in Ids /\ o \in Orders /\ tile.rate \in Nat
        /\ tile.amount = PackAmount(o.amount)
    BY <1>1 DEF PInv, PageKnown, TileKnown
  <2>2. Listed(c, t)
    BY <1>1, <2>1 DEF PInv, RInv, IInv, ListedIffStored
  <2>3. /\ HasPrice(tile.amount, tile.rate)
        /\ Price(tile.amount, tile.rate) = Total(o)
    <3>1. Storable(o)
      BY <2>1 DEF UniformOrders
    <3> HIDE DEF o
    <3> QED
      BY <2>1, <3>1, PriceAtRate
  <2>4. Total(Composed(c, t)) = Total(o)
    BY <1>1, <2>1, <2>2, ComposedTotal DEF PInv
  <2>5. tile.pc = "shown"
    BY <1>1, <2>3 DEF PInv, TileKnown
  <2> QED
    BY <2>2, <2>3, <2>4, <2>5 DEF Buys, Pays, Listed
<1> QED
  BY <1>1, PurchaseInvariance, PTL
================================================================================

---------------------------- MODULE OrderCodecProofs ---------------------------
(***************************************************************************)
(* The codec of OrderCodec on its own: what is stored comes back, and the  *)
(* sum of an order's amounts is a number.                                  *)
(***************************************************************************)
EXTENDS OrderCodec, SequenceTheorems, WellFoundedInduction, TLAPS

--------------------------------------------------------------------------------
(* Arithmetic of the packed amounts.                                       *)

\* A remainder lies below its modulus, and a number below it is its own remainder.
LEMMA ModRange ==
    ASSUME NEW a \in Nat, NEW m \in Nat \ {0}
    PROVE  /\ a % m \in 0..(m - 1)
           /\ a < m => a % m = a
           /\ a % m <= a
<1>1. a % m \in 0..(m - 1)
  OBVIOUS
<1>2. a < m => a % m = a
  OBVIOUS
<1> QED
  BY <1>1, <1>2

\* A packed amount fits its uint64 field.
LEMMA PackAmountType ==
    ASSUME NEW wei \in Nat
    PROVE  PackAmount(wei) \in 0..(AmountMod - 1)
<1>1. wei \div Unit \in Nat
  BY CodecAssumption
<1> QED
  BY <1>1, CodecAssumption DEF PackAmount

\* Dividing a multiple and multiplying again gives it back.
LEMMA DivExact ==
    ASSUME NEW a \in Nat, NEW u \in Nat \ {0}, a % u = 0
    PROVE  /\ a \div u \in Nat
           /\ (a \div u) * u = a
OBVIOUS

\* The quotient of a number below a product is below the other factor.
LEMMA DivBelow ==
    ASSUME NEW q \in Nat, NEW u \in Nat \ {0}, NEW m \in Nat, q * u < u * m
    PROVE  q < m
<1>1. SUFFICES ASSUME q >= m PROVE FALSE
  OBVIOUS
<1>2. PICK d \in Nat : q = m + d
  BY <1>1
<1>3. q * u = m * u + d * u /\ d * u >= 0
  BY <1>2
<1> QED
  BY <1>3

\* A wei amount that is a multiple of the unit and below the field's range
\* comes back from storage unchanged.
LEMMA PackAmountExact ==
    ASSUME NEW wei \in Nat, wei % Unit = 0, wei < Unit * AmountMod
    PROVE  /\ PackAmount(wei) * Unit = wei
           /\ wei # 0 => PackAmount(wei) # 0
<1> DEFINE q == wei \div Unit
<1>0. Unit \in Nat \ {0} /\ AmountMod \in Nat \ {0}
  BY CodecAssumption
<1>1. q \in Nat /\ q * Unit = wei
  BY <1>0, DivExact
<1> HIDE DEF q
<1>2. q < AmountMod
  BY <1>0, <1>1, DivBelow
<1>3. q % AmountMod = q
  BY <1>0, <1>1, <1>2, ModRange
<1>4. PackAmount(wei) = q
  BY <1>3 DEF PackAmount, q
<1>5. wei # 0 => q # 0
  BY <1>0, <1>1
<1> QED
  BY <1>1, <1>4, <1>5

--------------------------------------------------------------------------------
(* Orders.                                                                 *)

IsOrder(o) == \E U, C, I, P : o \in OrdersAmong(U, C, I, P)

IsRecipients(rs) == \E P : rs \in Seq([recipient : P, amount : Nat])

\* What the fields of an order are.
LEMMA OrderFields ==
    ASSUME NEW o, IsOrder(o)
    PROVE  /\ o.amount \in Nat /\ o.startTime \in Nat
           /\ o.endTime \in Nat /\ o.salt \in Nat
           /\ IsRecipients(o.recipients)
           /\ \A u : [o EXCEPT !.offerer = u] =
                  [offerer |-> u, token |-> o.token, tokenId |-> o.tokenId,
                   amount |-> o.amount, recipients |-> o.recipients,
                   startTime |-> o.startTime, endTime |-> o.endTime,
                   salt |-> o.salt, shape |-> o.shape]
           /\ [o EXCEPT !.offerer = o.offerer] = o
<1>1. PICK U, C, I, P :
          o \in [offerer : U, token : C, tokenId : I, amount : Nat,
                recipients : Seq([recipient : P, amount : Nat]),
                startTime : Nat, endTime : Nat, salt : Nat, shape : Shapes]
  BY DEF IsOrder, OrdersAmong
<1>2. IsRecipients(o.recipients)
  BY <1>1 DEF IsRecipients
<1>3. ASSUME NEW u
      PROVE  [o EXCEPT !.offerer = u] =
                 [offerer |-> u, token |-> o.token, tokenId |-> o.tokenId,
                  amount |-> o.amount, recipients |-> o.recipients,
                  startTime |-> o.startTime, endTime |-> o.endTime,
                  salt |-> o.salt, shape |-> o.shape]
  BY <1>1
<1>4. [o EXCEPT !.offerer = o.offerer] = o
  BY <1>1
<1>5. /\ o.amount \in Nat /\ o.startTime \in Nat
      /\ o.endTime \in Nat /\ o.salt \in Nat
  BY <1>1
<1> QED
  BY <1>2, <1>3, <1>4, <1>5

\* And those of a list of recipients.
LEMMA RecipientFields ==
    ASSUME NEW rs, IsRecipients(rs)
    PROVE  /\ Len(rs) \in Nat
           /\ rs = [i \in 1..Len(rs) |-> rs[i]]
           /\ SubSeq(rs, 1, Len(rs)) = rs
           /\ \A i \in 1..Len(rs) :
                  /\ rs[i].amount \in Nat
                  /\ rs[i] = [recipient |-> rs[i].recipient, amount |-> rs[i].amount]
<1>1. PICK P : rs \in Seq([recipient : P, amount : Nat])
  BY DEF IsRecipients
<1>2. \A i \in 1..Len(rs) : rs[i] \in [recipient : P, amount : Nat]
  BY <1>1, ElementOfSeq, Zenon
<1>3. SubSeq(rs, 1, Len(rs)) = rs
  BY <1>1
<1> QED
  BY <1>1, <1>2, <1>3

--------------------------------------------------------------------------------
(* The codec.                                                              *)

SlotOf(r) == [recipient |-> r.recipient, amount |-> PackAmount(r.amount)]

\* The slots hold rs and, after it, an empty slot.
HoldsRecipients(slots, rs) ==
    /\ \A i \in 1..Len(rs) : slots[i] = SlotOf(rs[i])
    /\ slots[Len(rs) + 1].amount = 0

\* composeOrder's loop reads back the recipients the slots hold.
LEMMA LoadHeldRecipients ==
    ASSUME NEW slots, NEW o, IsOrder(o), Storable(o), HoldsRecipients(slots, o.recipients)
    PROVE  LoadRecipients(slots) = o.recipients
<1> DEFINE rs == o.recipients
           n == Len(rs)
<1>1. /\ n \in Nat /\ n + 1 <= SlotMax
      /\ SlotMax \in Nat /\ Unit \in Nat \ {0}
  <2>1. n \in Nat /\ n < SlotMax
    BY OrderFields, RecipientFields DEF Storable
  <2>2. SlotMax \in Nat /\ Unit \in Nat \ {0}
    BY CodecAssumption
  <2> QED
    BY <2>1, <2>2
<1>2. \A i \in 1..n :
          /\ rs[i].amount \in Nat
          /\ rs[i] = [recipient |-> rs[i].recipient, amount |-> rs[i].amount]
  BY OrderFields, RecipientFields
<1>3. ASSUME NEW i \in 1..n
      PROVE  /\ slots[i].recipient = rs[i].recipient
             /\ slots[i].amount * Unit = rs[i].amount
             /\ slots[i].amount # 0
  <2>1. /\ rs[i].amount \in Nat /\ rs[i].amount # 0
        /\ rs[i].amount % Unit = 0 /\ rs[i].amount < Unit * AmountMod
    BY <1>2 DEF Storable
  <2>2. slots[i] = SlotOf(rs[i])
    BY DEF HoldsRecipients
  <2> QED
    BY <2>1, <2>2, PackAmountExact DEF SlotOf
<1>4. slots[n + 1].amount = 0
  BY DEF HoldsRecipients
<1> HIDE DEF n, rs
<1>5. FirstEmptySlot(slots) = n + 1
  <2>1. /\ n + 1 \in Slots
        /\ \A j \in 1..((n + 1) - 1) : slots[j].amount # 0
    BY <1>1, <1>3 DEF Slots
  <2>2. ASSUME NEW i \in Slots, slots[i].amount = 0,
               \A j \in 1..(i - 1) : slots[j].amount # 0
        PROVE  i = n + 1
    <3>1. i \in 1..SlotMax
      BY DEF Slots
    <3>2. ~(i < n + 1)
      BY <3>1, <2>2, <1>1, <1>3
    <3>3. ~(i > n + 1)
      BY <3>1, <2>2, <1>1, <1>4
    <3> QED
      BY <3>1, <3>2, <3>3, <1>1
  <2> QED
    BY <2>1, <2>2, <1>4 DEF FirstEmptySlot
<1>6. LoadRecipients(slots) =
          [i \in 1..n |-> [recipient |-> slots[i].recipient,
                           amount    |-> slots[i].amount * Unit]]
  BY <1>1, <1>5 DEF LoadRecipients
<1>7. ASSUME NEW i \in 1..n
      PROVE  [recipient |-> slots[i].recipient, amount |-> slots[i].amount * Unit]
                 = rs[i]
  BY <1>2, <1>3
<1>8. rs = [i \in 1..n |-> rs[i]]
  BY OrderFields, RecipientFields DEF n, rs
<1> QED
  BY <1>6, <1>7, <1>8 DEF rs

\* The terms and the recipients of a storable order, taken out of storage
\* with u as the owner of its token, are that order with u as its offerer.
THEOREM ComposeInvertsStore ==
    ASSUME NEW slots, NEW signature, NEW u, NEW o, IsOrder(o), Storable(o), HoldsRecipients(slots, o.recipients)
    PROVE  ComposeOrder(UniqueOrderParameters(o, signature), slots, u,
                        o.token, o.tokenId) = [o EXCEPT !.offerer = u]
<1>1. /\ o.shape = "market"
      /\ o.amount \in Nat /\ o.startTime \in Nat
      /\ o.endTime \in Nat /\ o.salt \in Nat
  BY OrderFields DEF Storable
<1>2. PackAmount(o.amount) * Unit = o.amount
  <2>1. o.amount % Unit = 0 /\ o.amount < AmountCap
    BY DEF Storable, ValidParameters
  <2>2. o.amount < Unit * AmountMod
    BY <1>1, <2>1, CodecAssumption
  <2> QED
    BY <1>1, <2>1, <2>2, PackAmountExact
<1>3. /\ o.startTime % TimeMod = o.startTime
      /\ o.endTime % TimeMod = o.endTime
      /\ o.salt % SaltMod = o.salt
  <2>1. /\ o.startTime < TimeMod /\ o.endTime < TimeMod /\ o.salt < SaltMod
        /\ TimeMod \in Nat \ {0} /\ SaltMod \in Nat \ {0}
    BY SMTT(30), <1>1, CodecAssumption DEF Storable, ValidParameters
  <2> QED
    BY <1>1, <2>1, ModRange
<1>4. LoadRecipients(slots) = o.recipients
  BY LoadHeldRecipients
<1> DEFINE result == [offerer |-> u, token |-> o.token, tokenId |-> o.tokenId,
                      amount |-> o.amount, recipients |-> o.recipients,
                      startTime |-> o.startTime, endTime |-> o.endTime,
                      salt |-> o.salt, shape |-> o.shape]
<1>5. ComposeOrder(UniqueOrderParameters(o, signature), slots, u,
                   o.token, o.tokenId) = result
  BY <1>1, <1>2, <1>3, <1>4 DEF ComposeOrder, UniqueOrderParameters
<1>6. [o EXCEPT !.offerer = u] = result
  BY OrderFields
<1> QED
  BY <1>5, <1>6

\* The number of considerations, cast to uint8, names no slot after the last
\* consideration, and never the last slot.
LEMMA ConsiderationCount ==
    ASSUME NEW n \in Nat
    PROVE  /\ (n + 1) % (SlotMax + 1) \in 0..SlotMax
           /\ (n + 1) % (SlotMax + 1) <= n + 1
<1>1. SlotMax + 1 \in Nat \ {0} /\ n + 1 \in Nat /\ SlotMax \in Nat
  BY CodecAssumption
<1>2. ASSUME NEW a \in Nat, NEW m \in Nat \ {0}
      PROVE  a % m \in 0..(m - 1) /\ a % m <= a
  BY ModRange
<1> DEFINE k == (n + 1) % (SlotMax + 1)
<1>3. k \in 0..((SlotMax + 1) - 1) /\ k <= n + 1
  BY <1>1, <1>2, Zenon
<1> HIDE DEF k
<1>4. k \in 0..SlotMax /\ k <= n + 1
  BY <1>1, <1>3
<1> QED
  BY <1>4 DEF k

\* Storing the recipients of a storable order writes one slot for each of
\* them and not the next.
LEMMA StoredFirst ==
    ASSUME NEW slots, NEW o, IsOrder(o), Storable(o)
    PROVE  LET new == StoreAdditionalRecipients(slots, o.recipients)
               n == Len(o.recipients)
           IN  /\ \A i \in 1..n : new[i] = SlotOf(o.recipients[i])
               /\ new[n + 1] = slots[n + 1]
<1> DEFINE n == Len(o.recipients)
           k == (n + 1) % (SlotMax + 1)
           new == StoreAdditionalRecipients(slots, o.recipients)
<1>1. n \in Nat /\ SlotMax \in Nat /\ n < SlotMax
  <2>1. n \in Nat
    BY OrderFields, RecipientFields
  <2> QED
    BY <2>1, CodecAssumption DEF Storable
<1>2. k = n + 1
  <2>1. n + 1 \in Nat /\ SlotMax + 1 \in Nat \ {0} /\ n + 1 < SlotMax + 1
    BY <1>1
  <2> HIDE DEF n
  <2> QED
    BY <2>1, ModRange
<1>3. new = [i \in Slots |-> IF i < n + 1 THEN SlotOf(o.recipients[i]) ELSE slots[i]]
  BY <1>2 DEF StoreAdditionalRecipients, SlotOf
<1> HIDE DEF n, k, new
<1>4. \A i \in 1..n : new[i] = SlotOf(o.recipients[i])
  BY <1>1, <1>3 DEF Slots
<1>5. new[n + 1] = slots[n + 1]
  BY <1>1, <1>3 DEF Slots
<1> QED
  BY <1>4, <1>5 DEF n, new

\* They are then all the slots hold, if the next one was empty.
LEMMA StoredRecipients ==
    ASSUME NEW slots, NEW o, IsOrder(o), Storable(o),
           slots[Len(o.recipients) + 1].amount = 0
    PROVE  HoldsRecipients(StoreAdditionalRecipients(slots, o.recipients),
                           o.recipients)
BY StoredFirst DEF HoldsRecipients

\* A set of numbers with a member has a smallest one.
LEMMA SmallestOf ==
    ASSUME NEW S \in SUBSET Nat, S # {}
    PROVE  \E x \in S : \A y \in S : ~ (y < x)
<1> DEFINE R == OpToRel(<, Nat)
<1>1. IsWellFoundedOn(R, Nat)
  BY NatLessThanWellFounded
<1>2. \A x, y \in Nat : x < y => <<x, y>> \in R
  BY DEF OpToRel
<1> HIDE DEF R
<1>3. PICK x \in S : \A y \in S : ~ (<<y, x>> \in R)
  BY <1>1, WFMin
<1>4. \A y \in S : ~ (y < x)
  BY <1>2, <1>3, Zenon
<1> QED
  BY <1>4

\* The slots hold rs, and perhaps more.
HoldsFirst(slots, rs) == \A i \in 1..Len(rs) : slots[i] = SlotOf(rs[i])

\* composeOrder's loop stops at an empty slot, if there is one, and at none
\* before it.
LEMMA FirstEmpty ==
    ASSUME NEW slots, HasEmptySlot(slots)
    PROVE  /\ FirstEmptySlot(slots) \in Slots
           /\ slots[FirstEmptySlot(slots)].amount = 0
<1> DEFINE E == {i \in Slots : slots[i].amount = 0}
<1>1. E \in SUBSET Nat /\ E # {}
  BY DEF Slots, HasEmptySlot
<1>2. PICK k \in E : \A j \in E : ~ (j < k)
  BY <1>1, SmallestOf
<1>3. k \in Slots /\ slots[k].amount = 0
  BY <1>2
<1>4. \A j \in 1..(k - 1) : slots[j].amount # 0
  BY <1>2, <1>3, CodecAssumption DEF Slots
<1> QED
  BY <1>3, <1>4 DEF FirstEmptySlot

\* Recipients held in slots with an empty one somewhere come first among
\* those composeOrder reads back.
LEMMA LoadFirstRecipients ==
    ASSUME NEW slots, NEW o, IsOrder(o), Storable(o), HasEmptySlot(slots),
           HoldsFirst(slots, o.recipients)
    PROVE  IsPrefix(o.recipients, LoadRecipients(slots))
<1> DEFINE rs == o.recipients
           n == Len(rs)
           e == FirstEmptySlot(slots)
           m == e - 1
           load == LoadRecipients(slots)
<1>1. n \in Nat
  BY OrderFields, RecipientFields
<1>2. \A i \in 1..n :
          /\ rs[i].amount \in Nat
          /\ rs[i] = [recipient |-> rs[i].recipient, amount |-> rs[i].amount]
  BY OrderFields, RecipientFields
<1>3. ASSUME NEW i \in 1..n
      PROVE  /\ slots[i].recipient = rs[i].recipient
             /\ slots[i].amount * Unit = rs[i].amount
             /\ slots[i].amount # 0
  <2>1. /\ rs[i].amount \in Nat /\ rs[i].amount # 0
        /\ rs[i].amount % Unit = 0 /\ rs[i].amount < Unit * AmountMod
    BY <1>2 DEF Storable
  <2>2. slots[i] = SlotOf(rs[i])
    BY DEF HoldsFirst
  <2> QED
    BY <2>1, <2>2, PackAmountExact DEF SlotOf
<1>4. m \in Nat /\ n <= m
  <2>1. e \in Slots /\ slots[e].amount = 0
    BY FirstEmpty
  <2>2. e \in Nat /\ e >= 1
    BY <2>1 DEF Slots
  <2>3. ~ (e \in 1..n)
    BY <2>1, <1>3
  <2> HIDE DEF n, e
  <2> QED
    BY <1>1, <2>2, <2>3
<1>5. load = [i \in 1..m |-> [recipient |-> slots[i].recipient,
                              amount    |-> slots[i].amount * Unit]]
  BY DEF LoadRecipients
<1> HIDE DEF e, m, n, load
<1>6. ASSUME NEW i \in 1..n
      PROVE  load[i] = rs[i]
  <2>1. load[i] = [recipient |-> slots[i].recipient, amount |-> slots[i].amount * Unit]
    BY <1>1, <1>4, <1>5
  <2>2. [recipient |-> slots[i].recipient, amount |-> slots[i].amount * Unit] = rs[i]
    BY <1>2, <1>3
  <2> QED
    BY <2>1, <2>2
<1>7. Len(load) = m
  BY <1>4, <1>5
<1>8. SubSeq(rs, 1, n) = [i \in 1..n |-> rs[i]]
  BY OrderFields, RecipientFields DEF n, rs
<1>9. SubSeq(load, 1, n) = [i \in 1..n |-> load[i]]
  BY <1>1, <1>4, <1>5, <1>7
<1> QED
  BY <1>4, <1>6, <1>7, <1>8, <1>9 DEF IsPrefix, n, rs, load

--------------------------------------------------------------------------------
(* The sum of the amounts, a recursive function: it exists, and is a       *)
(* number.                                                                 *)

Sums(rs, n, f) ==
    f = [i \in 0..n |-> IF i = 0 THEN 0 ELSE f[i - 1] + rs[i].amount]

\* The first n amounts can be added up.
LEMMA SumsExist ==
    ASSUME NEW rs, IsRecipients(rs)
    PROVE  \A n \in 0..Len(rs) : \E f : Sums(rs, n, f)
<1> DEFINE S == {n \in 0..Len(rs) : ~ \E f : Sums(rs, n, f)}
<1>1. Len(rs) \in Nat
  BY RecipientFields
<1>2. SUFFICES ASSUME S # {} PROVE FALSE
  OBVIOUS
<1>3. PICK n \in S : \A m \in S : ~ (m < n)
  <2>1. S \in SUBSET Nat
    BY <1>1
  <2> HIDE DEF S
  <2> QED
    BY <1>2, <2>1, SmallestOf
<1>4. n \in 0..Len(rs) /\ ~ \E f : Sums(rs, n, f)
  OBVIOUS
<1>5. CASE n = 0
  <2>1. Sums(rs, 0, [i \in 0..0 |-> 0])
    BY DEF Sums
  <2> QED
    BY <1>4, <1>5, <2>1
<1>6. CASE n # 0
  <2>1. n - 1 \in 0..Len(rs) /\ n - 1 < n
    BY <1>1, <1>4, <1>6
  <2>2. ~ (n - 1 \in S)
    BY <1>3, <2>1
  <2>3. PICK f : Sums(rs, n - 1, f)
    BY <2>1, <2>2
  <2> DEFINE g == [i \in 0..n |-> IF i = n THEN f[n - 1] + rs[n].amount ELSE f[i]]
  <2>4. ASSUME NEW i \in 0..n
        PROVE  g[i] = IF i = 0 THEN 0 ELSE g[i - 1] + rs[i].amount
    <3>1. f = [j \in 0..(n - 1) |-> IF j = 0 THEN 0 ELSE f[j - 1] + rs[j].amount]
      BY <2>3 DEF Sums
    <3>2. CASE i = n
      BY <3>2, <1>1, <1>4, <1>6
    <3>3. CASE i # n
      <4>1. i \in 0..(n - 1) /\ i - 1 # n
        BY <3>3, <1>1, <1>4, <1>6
      <4>2. f[i] = IF i = 0 THEN 0 ELSE f[i - 1] + rs[i].amount
        BY <3>1, <4>1
      <4>3. i # 0 => i - 1 \in 0..n
        BY <4>1, <1>1, <1>4
      <4> QED
        BY <4>1, <4>2, <4>3
    <3> QED
      BY <3>2, <3>3
  <2>5. Sums(rs, n, g)
    <3>1. g = [i \in 0..n |-> g[i]]
      OBVIOUS
    <3> QED
      BY <2>4, <3>1 DEF Sums
  <2> QED
    BY <1>4, <2>5
<1> QED
  BY <1>5, <1>6

\* Each of them is a number.
LEMMA SumsNat ==
    ASSUME NEW rs, IsRecipients(rs),
           NEW f, Sums(rs, Len(rs), f)
    PROVE  \A n \in 0..Len(rs) : f[n] \in Nat
<1> DEFINE S == {n \in 0..Len(rs) : f[n] \notin Nat}
<1>1. Len(rs) \in Nat
  BY RecipientFields
<1>2. SUFFICES ASSUME S # {} PROVE FALSE
  OBVIOUS
<1>3. PICK n \in S : \A m \in S : ~ (m < n)
  <2>1. S \in SUBSET Nat
    BY <1>1
  <2> HIDE DEF S
  <2> QED
    BY <1>2, <2>1, SmallestOf
<1>4. n \in 0..Len(rs) /\ f[n] \notin Nat
  OBVIOUS
<1>5. f[n] = IF n = 0 THEN 0 ELSE f[n - 1] + rs[n].amount
  BY <1>4 DEF Sums
<1>6. CASE n = 0
  BY <1>4, <1>5, <1>6
<1>7. CASE n # 0
  <2>1. n - 1 \in 0..Len(rs) /\ n - 1 < n /\ n \in 1..Len(rs)
    BY <1>1, <1>4, <1>7
  <2>2. ~ (n - 1 \in S)
    BY <1>3, <2>1
  <2>3. f[n - 1] \in Nat
    BY <2>1, <2>2
  <2>4. rs[n].amount \in Nat
    BY <2>1, RecipientFields
  <2> QED
    BY <1>4, <1>5, <1>7, <2>3, <2>4
<1> QED
  BY <1>6, <1>7

\* An order's further considerations add up to a number: nothing when there
\* is none, and the amount of the only one.
LEMMA SumOfAmountsType ==
    ASSUME NEW rs, IsRecipients(rs)
    PROVE  /\ SumOfAmounts(rs) \in Nat
           /\ Len(rs) = 0 => SumOfAmounts(rs) = 0
           /\ Len(rs) = 1 => SumOfAmounts(rs) = rs[1].amount
<1> DEFINE n == Len(rs)
           sum == CHOOSE f : Sums(rs, n, f)
<1>1. n \in Nat /\ n \in 0..n
  <2>1. n \in Nat
    BY RecipientFields
  <2> QED
    BY <2>1
<1>2. Sums(rs, n, sum)
  <2>1. \E f : Sums(rs, n, f)
    BY <1>1, SumsExist
  <2> QED
    BY <2>1
<1>3. SumOfAmounts(rs) = sum[n]
  BY DEF SumOfAmounts, Sums
<1> HIDE DEF sum
<1>4. sum[n] \in Nat
  BY <1>1, <1>2, SumsNat
<1>5. \A i \in 0..n : sum[i] = IF i = 0 THEN 0 ELSE sum[i - 1] + rs[i].amount
  BY <1>2 DEF Sums
<1>6. n = 0 => sum[n] = 0
  BY <1>1, <1>5
<1>7. ASSUME n = 1 PROVE sum[n] = rs[1].amount
  <2>1. sum[1] = sum[0] + rs[1].amount /\ sum[0] = 0
    BY <1>5, <1>7
  <2>2. rs[1].amount \in Nat
    <3>1. 1 \in 1..Len(rs)
      BY <1>7
    <3> QED
      BY <3>1, RecipientFields
  <2> QED
    BY <1>7, <2>1, <2>2
<1> QED
  BY <1>3, <1>4, <1>6, <1>7

================================================================================

----------------------------- MODULE FrontendProofs ----------------------------
(***************************************************************************)
(* What the page of frontend.html keeps, for any collections, any number   *)
(* of loads and any changes of the market meanwhile: its types, the tiles  *)
(* a finished load owes, and the order of approval and sale.               *)
(***************************************************************************)
EXTENDS Frontend, TokenListProofs, WellFoundedInduction

--------------------------------------------------------------------------------
(* The count of orders.                                                    *)

\* A set of numbers with a member has a smallest one.
LEMMA SmallestOf ==
    ASSUME NEW S \in SUBSET Nat, S # {}
    PROVE  \E x \in S : \A y \in S : ~ (y < x)
<1> DEFINE R == OpToRel(<, Nat)
<1>1. IsWellFoundedOn(R, Nat)
  BY NatLessThanWellFounded
<1>2. \A x, y \in Nat : x < y => <<x, y>> \in R
  BY DEF OpToRel
<1> HIDE DEF R
<1>3. PICK x \in S : \A y \in S : ~ (<<y, x>> \in R)
  BY <1>1, WFMin
<1>4. \A y \in S : ~ (y < x)
  BY <1>2, <1>3, Zenon
<1> QED
  BY <1>4

NothingRead == [value |-> 0, open |-> TRUE]

\* What is read of the numbers up to n, digit by digit.
Reads(n, f) ==
    f = [m \in 0..n |-> IF m = 0 THEN NothingRead
                        ELSE ReadDigit(f[m \div HexBase], m % HexBase)]

\* A number's last digit, and the smaller number that is left without it.
LEMMA LastDigit ==
    ASSUME NEW n \in Nat, n # 0
    PROVE  /\ n \div HexBase \in Nat /\ n \div HexBase <= n - 1
           /\ n % HexBase \in Nat
           /\ n = HexBase * (n \div HexBase) + (n % HexBase)
<1> DEFINE q == n \div HexBase
           d == n % HexBase
<1>1. HexBase \in Nat /\ HexBase >= 2
  BY FrontendAssumption
<1>2. q \in Nat /\ d \in Nat /\ n = HexBase * q + d
  BY <1>1
<1> HIDE DEF q, d
<1>3. HexBase * q >= 2 * q
  BY <1>1, <1>2
<1>4. HexBase * q \in Nat
  BY <1>1, <1>2
<1>5. q <= n - 1
  BY <1>2, <1>3, <1>4
<1> QED
  BY <1>2, <1>5 DEF q, d

\* Reading is defined, for every number.
LEMMA ReadsExist ==
    ASSUME NEW n \in Nat
    PROVE  \E f : Reads(n, f)
<1> DEFINE S == {m \in Nat : ~ \E f : Reads(m, f)}
<1>1. SUFFICES ASSUME S # {} PROVE FALSE
  OBVIOUS
<1>2. PICK m \in S : \A j \in S : ~ (j < m)
  <2>1. S \in SUBSET Nat
    OBVIOUS
  <2> HIDE DEF S
  <2> QED
    BY <1>1, <2>1, SmallestOf
<1>3. m \in Nat /\ ~ \E f : Reads(m, f)
  OBVIOUS
<1>4. CASE m = 0
  <2> DEFINE f == [j \in 0..0 |-> NothingRead]
  <2>1. f = [j \in 0..0 |-> IF j = 0 THEN NothingRead
                            ELSE ReadDigit(f[j \div HexBase], j % HexBase)]
    <3>1. \A j \in 0..0 : j = 0
      OBVIOUS
    <3> QED
      BY <3>1
  <2>2. Reads(m, f)
    BY <1>4, <2>1 DEF Reads
  <2> QED
    BY <1>3, <2>2
<1>5. CASE m # 0
  <2>1. m - 1 \in Nat /\ m - 1 < m
    BY <1>3, <1>5
  <2>2. PICK f : Reads(m - 1, f)
    BY <1>2, <2>1
  <2> DEFINE g == [j \in 0..m |->
                       IF j = m THEN ReadDigit(f[m \div HexBase], m % HexBase)
                       ELSE f[j]]
  <2>3. ASSUME NEW j \in 0..m
        PROVE  g[j] = IF j = 0 THEN NothingRead
                      ELSE ReadDigit(g[j \div HexBase], j % HexBase)
    <3>1. f = [i \in 0..(m - 1) |->
                   IF i = 0 THEN NothingRead
                   ELSE ReadDigit(f[i \div HexBase], i % HexBase)]
      BY <2>2 DEF Reads
    <3>2. j # 0 => /\ j \div HexBase \in 0..m /\ j \div HexBase # m
                   /\ j \div HexBase <= j - 1
      BY <1>3, LastDigit
    <3>3. j # 0 => g[j \div HexBase] = f[j \div HexBase]
      BY <3>2
    <3>4. CASE j = m
      BY <1>5, <3>3, <3>4
    <3>5. CASE j # m
      <4>1. j \in 0..(m - 1)
        BY <1>3, <3>5
      <4>2. f[j] = IF j = 0 THEN NothingRead
                   ELSE ReadDigit(f[j \div HexBase], j % HexBase)
        BY <3>1, <4>1
      <4>3. g[j] = f[j]
        BY <3>5
      <4> QED
        BY <3>3, <4>2, <4>3
    <3> QED
      BY <3>4, <3>5
  <2>4. Reads(m, g)
    <3>1. g = [j \in 0..m |-> g[j]]
      OBVIOUS
    <3> HIDE DEF g
    <3> QED
      BY <2>3, <3>1 DEF Reads
  <2> QED
    BY <1>3, <2>4
<1> QED
  BY <1>4, <1>5

\* What is read is never above the number that was written.
LEMMA ReadsBound ==
    ASSUME NEW n \in Nat, NEW f, Reads(n, f)
    PROVE  f[n].value \in 0..n
<1> DEFINE S == {m \in 0..n : f[m].value \notin 0..m}
<1>1. SUFFICES ASSUME S # {} PROVE FALSE
  OBVIOUS
<1>2. PICK m \in S : \A j \in S : ~ (j < m)
  <2>1. S \in SUBSET Nat
    OBVIOUS
  <2> HIDE DEF S
  <2> QED
    BY <1>1, <2>1, SmallestOf
<1>3. m \in 0..n /\ f[m].value \notin 0..m
  OBVIOUS
<1>4. f[m] = IF m = 0 THEN NothingRead
             ELSE ReadDigit(f[m \div HexBase], m % HexBase)
  BY <1>3 DEF Reads
<1>5. m # 0
  BY <1>3, <1>4 DEF NothingRead
<1> DEFINE q == m \div HexBase
           d == m % HexBase
           v == f[q].value
<1>6. q \in Nat /\ q <= m - 1 /\ d \in Nat /\ m = HexBase * q + d
  BY <1>3, <1>5, LastDigit
<1>7. v \in 0..q
  <2>1. q \in 0..n /\ q < m
    BY <1>3, <1>6
  <2>2. ~ (q \in S)
    BY <1>2, <2>1
  <2> HIDE DEF q
  <2> QED
    BY <2>1, <2>2
<1>8. f[m].value = v * DecBase + d \/ f[m].value = v
  BY <1>4, <1>5 DEF ReadDigit
<1> HIDE DEF q, d, v, S
<1>9. v * DecBase + d \in 0..m
  <2>1. DecBase \in Nat /\ HexBase \in Nat /\ DecBase <= HexBase
    BY FrontendAssumption
  <2>2. v \in Nat /\ v <= q
    BY <1>6, <1>7
  <2>3. v * DecBase \in Nat /\ v * DecBase <= q * DecBase
    BY <1>6, <2>1, <2>2
  <2>4. q * DecBase <= HexBase * q /\ q * DecBase \in Nat /\ HexBase * q \in Nat
    BY <1>6, <2>1
  <2> QED
    BY <1>6, <2>3, <2>4
<1> QED
  BY <1>3, <1>6, <1>7, <1>8, <1>9

\* The count the page reads is one of these readings.
LEMMA ParseCountReads ==
    ASSUME NEW n \in Nat
    PROVE  \E f : Reads(n, f) /\ ParseCount(n) = f[n].value
<1> DEFINE f == CHOOSE g : Reads(n, g)
<1>1. Reads(n, f)
  BY ReadsExist
<1>2. ParseCount(n) = f[n].value
  BY DEF ParseCount, Reads, NothingRead
<1> QED
  BY <1>1, <1>2

\* The count the page reads is never above the count the market sent.
LEMMA ParseCountBound ==
    ASSUME NEW n \in Nat PROVE ParseCount(n) \in 0..n
BY ParseCountReads, ReadsBound

\* A list shorter than the page's base is counted as it is.
THEOREM ShortListsCounted ==
    ASSUME NEW n \in Nat, n < DecBase PROVE ParseCount(n) = n
<1>1. PICK f : Reads(n, f) /\ ParseCount(n) = f[n].value
  BY ParseCountReads
<1>2. \A m \in 0..n : f[m] = IF m = 0 THEN NothingRead
                             ELSE ReadDigit(f[m \div HexBase], m % HexBase)
  BY <1>1 DEF Reads
<1>3. f[0] = NothingRead
  BY <1>2
<1>4. CASE n = 0
  BY <1>1, <1>3, <1>4 DEF NothingRead
<1>5. CASE n # 0
  <2>1. HexBase \in Nat /\ DecBase \in Nat /\ n < HexBase
    BY FrontendAssumption
  <2>2. n \div HexBase = 0 /\ n % HexBase = n
    BY <2>1
  <2>3. f[n] = ReadDigit(NothingRead, n)
    BY <1>2, <1>3, <1>5, <2>2
  <2>4. f[n].value = 0 * DecBase + n
    BY <2>1, <2>3 DEF ReadDigit, NothingRead
  <2> QED
    BY <1>1, <2>1, <2>4
<1> QED
  BY <1>4, <1>5

--------------------------------------------------------------------------------
(* The invariant.                                                          *)

\* What a call of connect holds: a collection from its first request to the
\* market on, and a place in its list that the loop may read.
Calls ==
    {l \in [pc : LoadPcs, token : Collections \cup {Unset}, ids : Seq(Ids),
            count : Nat, i : Nat] :
        /\ l.pc \in {"list", "status", "order", "uri", "done"} =>
               l.token \in Collections
        /\ l.pc \in {"status", "order", "uri"} =>
               l.i \in 1..l.count /\ l.count <= Len(l.ids)}

Tiles == [token : Collections, id : Ids, priced : BOOLEAN]

PageTypes ==
    /\ field \in Collections
    /\ royalties \in Nat \cup {Unset, NaN}
    /\ load \in [Loads -> Calls]
    /\ check \in [Loads -> Collections \cup {Unset}]
    /\ tiles \subseteq Tiles

\* Every list the market holds is sound.
MarketTypes ==
    /\ listing \in [Collections -> [ids : Seq(Ids), index : [Ids -> Nat]]]
    /\ \A c \in Collections : ListSound(Ids, listing[c])
    /\ active \in [Collections -> SUBSET Ids]

TypeInv == PageTypes /\ MarketTypes

\* The tokens a load still owes a tile are active: none before its list is
\* read, and afterwards only tokens of its own collection.
SteadyKnown ==
    /\ steady \in [Loads -> SUBSET Ids]
    /\ \A k \in Loads :
           /\ load[k].pc \in {"idle", "network", "list"} => steady[k] = {}
           /\ steady[k] # {} => /\ load[k].token \in Collections
                                /\ steady[k] \subseteq active[load[k].token]

Tile(k, t) == [token |-> load[k].token, id |-> t, priced |-> TRUE]

\* Token t is at a place of the list that the loop of load k has to come to.
Ahead(k, t) ==
    /\ load[k].pc \in {"status", "order", "uri"}
    /\ \E j \in load[k].i..load[k].count : load[k].ids[j] = t

\* Whatever the load that emptied the page owes is shown or yet to be read.
TilesComing ==
    \A k \in Loads :
        page = k /\ load[k].pc \in {"status", "order", "uri", "done"} =>
            \A t \in steady[k] : Tile(k, t) \in tiles \/ Ahead(k, t)

PageInv == TypeInv /\ SteadyKnown /\ TilesComing

\* The count of every collection's list comes out right.
CountsRead ==
    \A c \in Collections :
        ParseCount(Len(listing[c].ids)) = Len(listing[c].ids)

--------------------------------------------------------------------------------
(* The steps of a load.                                                    *)

\* Going on to another request that needs no more than the last one did.
LEMMA GotoKnown ==
    ASSUME load \in [Loads -> Calls], NEW k \in Loads, NEW pc \in LoadPcs,
           Goto(k, pc),
           \/ pc = "network"
           \/ load[k].pc \in {"status", "order"} /\ pc \in {"order", "uri"}
    PROVE  /\ load' \in [Loads -> Calls]
           /\ load' = [load EXCEPT ![k] = [load[k] EXCEPT !.pc = pc]]
<1> DEFINE l == [load[k] EXCEPT !.pc = pc]
<1>1. load[k] \in Calls
  OBVIOUS
<1>2. /\ l \in [pc : LoadPcs, token : Collections \cup {Unset}, ids : Seq(Ids),
                count : Nat, i : Nat]
      /\ l.pc = pc /\ l.token = load[k].token /\ l.ids = load[k].ids
      /\ l.count = load[k].count /\ l.i = load[k].i
  BY <1>1 DEF Calls
<1>3. l \in Calls
  BY <1>1, <1>2 DEF Calls
<1>4. load' = [load EXCEPT ![k] = l]
  BY DEF Goto
<1> QED
  BY <1>3, <1>4

\* The end of a call.
LEMMA ReturnKnown ==
    ASSUME load \in [Loads -> Calls], NEW k \in Loads, NEW pc \in LoadPcs,
           Return(k, pc),
           pc = "failed" \/ (pc = "done" /\ load[k].token \in Collections)
    PROVE  /\ load' \in [Loads -> Calls]
           /\ load' = [load EXCEPT ![k] =
                          [Idle EXCEPT !.pc = pc, !.token = load[k].token]]
<1> DEFINE l == [Idle EXCEPT !.pc = pc, !.token = load[k].token]
<1>1. load[k].token \in Collections \cup {Unset}
  <2>1. load[k] \in Calls
    OBVIOUS
  <2> QED
    BY <2>1 DEF Calls
<1>2. /\ l \in [pc : LoadPcs, token : Collections \cup {Unset}, ids : Seq(Ids),
                count : Nat, i : Nat]
      /\ l.pc = pc /\ l.token = load[k].token
  <2>1. Idle \in [pc : {"idle"}, token : {Unset}, ids : Seq(Ids), count : Nat,
                  i : Nat]
    BY DEF Idle
  <2> HIDE DEF Idle
  <2> QED
    BY <1>1, <2>1
<1>4. l \in Calls
  <2> HIDE DEF l
  <2> QED
    BY <1>1, <1>2 DEF Calls
<1>5. load' = [load EXCEPT ![k] = l]
  BY DEF Return
<1> QED
  BY <1>4, <1>5

\* The next round of the loop, or its end.
LEMMA RoundKnown ==
    ASSUME load \in [Loads -> Calls], NEW k \in Loads,
           load[k].token \in Collections,
           NEW i \in Nat \ {0}, NEW count \in Nat, NEW ids \in Seq(Ids),
           count <= Len(ids), Round(k, i, count, ids)
    PROVE  /\ load' \in [Loads -> Calls]
           /\ \A j \in Loads \ {k} : load'[j] = load[j]
           /\ load'[k].token = load[k].token
           /\ i <= count => /\ load'[k].pc = "status" /\ load'[k].i = i
                            /\ load'[k].count = count /\ load'[k].ids = ids
           /\ i > count => load'[k].pc = "done"
<1>1. CASE i <= count
  <2> DEFINE l == [load[k] EXCEPT !.pc = "status", !.i = i, !.count = count,
                                  !.ids = ids]
  <2>1. load[k] \in Calls
    OBVIOUS
  <2>2. /\ l \in [pc : LoadPcs, token : Collections \cup {Unset},
                  ids : Seq(Ids), count : Nat, i : Nat]
        /\ l.pc = "status" /\ l.token = load[k].token /\ l.ids = ids
        /\ l.count = count /\ l.i = i
    BY <2>1 DEF Calls, LoadPcs
  <2>3. l \in Calls
    <3>1. i \in 1..count
      BY <1>1
    <3> QED
      BY <2>2, <3>1 DEF Calls
  <2>4. load' = [load EXCEPT ![k] = l]
    BY <1>1 DEF Round
  <2> HIDE DEF l
  <2>5. load'[k] = l /\ load' \in [Loads -> Calls]
        /\ \A j \in Loads \ {k} : load'[j] = load[j]
    BY <2>3, <2>4
  <2> QED
    BY <1>1, <2>2, <2>5
<1>2. CASE i > count
  <2>1. Return(k, "done")
    BY <1>2 DEF Round
  <2>2. load' = [load EXCEPT ![k] =
                    [Idle EXCEPT !.pc = "done", !.token = load[k].token]]
        /\ load' \in [Loads -> Calls]
    BY <2>1, ReturnKnown DEF LoadPcs
  <2>3. load'[k] = [Idle EXCEPT !.pc = "done", !.token = load[k].token]
        /\ \A j \in Loads \ {k} : load'[j] = load[j]
    BY <2>2
  <2>4. load'[k].pc = "done" /\ load'[k].token = load[k].token
    BY <2>3 DEF Idle
  <2> QED
    BY <1>2, <2>2, <2>3, <2>4
<1> QED
  BY <1>1, <1>2

\* What one load's step means for what the load holds.
LEMMA LoadStepTypes ==
    ASSUME TypeInv, NEW k \in Loads, LoadStep(k)
    PROVE  PageTypes'
<1>1. /\ load \in [Loads -> Calls] /\ load[k] \in Calls
      /\ field \in Collections /\ royalties \in Nat \cup {Unset, NaN}
      /\ check \in [Loads -> Collections \cup {Unset}] /\ tiles \subseteq Tiles
  BY DEF TypeInv, PageTypes
<1>2. /\ load[k].i \in Nat /\ load[k].count \in Nat /\ load[k].ids \in Seq(Ids)
      /\ load[k].pc \in {"list", "status", "order", "uri", "done"} =>
             load[k].token \in Collections
      /\ load[k].pc \in {"status", "order", "uri"} =>
             load[k].i \in 1..load[k].count /\ load[k].count <= Len(load[k].ids)
  BY <1>1 DEF Calls
<1>3. load[k].pc \in {"status", "order", "uri"} =>
          /\ load[k].i + 1 \in Nat \ {0} /\ RoundId(k) \in Ids
          /\ load[k].token \in Collections /\ load[k].count <= Len(load[k].ids)
  BY <1>2 DEF RoundId
<1>4. ASSUME NextRound(k), load[k].pc \in {"status", "order", "uri"}
      PROVE  load' \in [Loads -> Calls]
  BY <1>1, <1>2, <1>3, <1>4, RoundKnown DEF NextRound
<1>5. CASE AccountsAnswer(k)
  <2>1. load' \in [Loads -> Calls]
    BY <1>1, <1>5, GotoKnown DEF AccountsAnswer, LoadPcs
  <2> QED
    BY <1>1, <1>5, <2>1 DEF AccountsAnswer, besideLoad, PageTypes
<1>6. CASE WrongNetwork(k)
  <2>1. load' \in [Loads -> Calls]
    BY <1>1, <1>6, ReturnKnown DEF WrongNetwork, LoadPcs
  <2> QED
    BY <1>1, <1>6, <2>1 DEF WrongNetwork, besideLoad, PageTypes
<1>7. CASE NetworkAnswer(k)
  <2> DEFINE l == [load[k] EXCEPT !.pc = "list", !.token = field]
  <2>1. l \in Calls
    BY <1>1 DEF Calls, LoadPcs
  <2>2. load' = [load EXCEPT ![k] = l]
    BY <1>7 DEF NetworkAnswer
  <2>3. load' \in [Loads -> Calls]
    BY <1>1, <2>1, <2>2
  <2>4. /\ check' = [check EXCEPT ![k] = field] /\ tiles' = {}
        /\ field' = field /\ royalties' = royalties
    BY <1>7 DEF NetworkAnswer
  <2> QED
    BY <1>1, <2>3, <2>4 DEF PageTypes
<1>8. CASE ListAnswer(k)
  <2> DEFINE ids == listing[load[k].token].ids
  <2>1. load[k].token \in Collections
    BY <1>2, <1>8 DEF ListAnswer
  <2>2. ids \in Seq(Ids)
    BY <2>1 DEF TypeInv, MarketTypes
  <2>3. ParseCount(Len(ids)) \in Nat /\ ParseCount(Len(ids)) <= Len(ids)
    BY <2>2, ParseCountBound
  <2>4. Round(k, 1, ParseCount(Len(ids)), ids)
    BY <1>8 DEF ListAnswer
  <2> HIDE DEF ids
  <2>5. load' \in [Loads -> Calls]
    BY <1>1, <2>1, <2>2, <2>3, <2>4, RoundKnown
  <2> QED
    BY <1>1, <1>8, <2>5 DEF ListAnswer, PageTypes
<1>9. CASE StatusAnswer(k)
  <2>1. load' \in [Loads -> Calls]
    BY <1>1, <1>4, <1>9, GotoKnown DEF StatusAnswer, LoadPcs
  <2> QED
    BY <1>1, <1>9, <2>1 DEF StatusAnswer, PageTypes
<1>10. CASE OrderAnswer(k)
  <2>1. load' \in [Loads -> Calls]
    BY <1>1, <1>10, GotoKnown DEF OrderAnswer, LoadPcs
  <2> QED
    BY <1>1, <1>10, <2>1 DEF OrderAnswer, besideLoad, PageTypes
<1>11. CASE UriAnswer(k)
  <2>1. load' \in [Loads -> Calls]
    <3>1. CASE Return(k, "failed")
      BY <1>1, <3>1, ReturnKnown DEF LoadPcs
    <3> QED
      BY <1>4, <1>11, <3>1 DEF UriAnswer
  <2>2. tiles' \subseteq Tiles
    <3>1. load[k].token \in Collections /\ RoundId(k) \in Ids
      BY <1>3, <1>11 DEF UriAnswer
    <3>2. PICK priced \in BOOLEAN :
              tiles' = tiles \cup {[token |-> load[k].token, id |-> RoundId(k),
                                    priced |-> priced]}
      BY <1>11 DEF UriAnswer
    <3> DEFINE tile == [token |-> load[k].token, id |-> RoundId(k),
                        priced |-> priced]
    <3>3. tile \in Tiles
      BY <3>1 DEF Tiles
    <3>4. tiles' = tiles \cup {tile}
      BY <3>2
    <3> HIDE DEF tile
    <3> QED
      BY <1>1, <3>3, <3>4
  <2> QED
    BY <1>1, <1>11, <2>1, <2>2 DEF UriAnswer, PageTypes
<1>12. CASE LoadFails(k)
  <2>1. load' \in [Loads -> Calls]
    BY <1>1, <1>12, ReturnKnown DEF LoadFails, LoadPcs
  <2> QED
    BY <1>1, <1>12, <2>1 DEF LoadFails, besideLoad, PageTypes
<1>13. CASE RoyaltyAnswer(k)
  <2>1. check[k] \in Collections
    BY <1>1, <1>13 DEF RoyaltyAnswer
  <2>2. royalties' \in Nat \cup {NaN}
    BY <1>13, <2>1, FrontendAssumption DEF RoyaltyAnswer
  <2>3. check' \in [Loads -> Collections \cup {Unset}]
    BY <1>1, <1>13 DEF RoyaltyAnswer
  <2> QED
    BY <1>1, <1>13, <2>2, <2>3 DEF RoyaltyAnswer, PageTypes
<1> QED
  BY <1>5, <1>6, <1>7, <1>8, <1>9, <1>10, <1>11, <1>12, <1>13
  DEF LoadStep, LoadAnswer

\* A change of the market keeps every list sound.
LEMMA MarketStepTypes ==
    ASSUME TypeInv, MarketStep
    PROVE  MarketTypes' /\ UNCHANGED <<pageVars, saleVars>>
<1>1. PICK c \in Collections, t \in Ids :
          Listed(c, t) \/ Delisted(c, t) \/ Died(c, t)
  BY DEF MarketStep
<1>2. /\ listing \in [Collections -> [ids : Seq(Ids), index : [Ids -> Nat]]]
      /\ \A d \in Collections : ListSound(Ids, listing[d])
      /\ active \in [Collections -> SUBSET Ids]
      /\ ListType(Ids, listing[c])
  BY DEF TypeInv, MarketTypes, ListType
<1>3. UNCHANGED <<pageVars, saleVars>>
  BY <1>1 DEF Listed, Delisted, Died, Change
<1>4. CASE Listed(c, t)
  <2> DEFINE s == AddTokenId(listing[c], t)
  <2>1. ListType(Ids, s) /\ ListSound(Ids, s)
    BY <1>2, AddTokenIdCorrect
  <2>2. s \in [ids : Seq(Ids), index : [Ids -> Nat]]
    BY <2>1 DEF AddTokenId, ListType
  <2>3. /\ listing' = [listing EXCEPT ![c] = s]
        /\ active' = [active EXCEPT ![c] = @ \cup {t}]
    BY <1>4 DEF Listed
  <2> HIDE DEF s
  <2> QED
    BY <1>2, <1>3, <2>1, <2>2, <2>3 DEF MarketTypes
<1>5. CASE Delisted(c, t)
  <2> DEFINE s == RemoveTokenId(listing[c], t)
  <2>1. ListType(Ids, s) /\ ListSound(Ids, s)
    BY <1>2, <1>5, RemoveTokenIdCorrect DEF Delisted
  <2>2. s \in [ids : Seq(Ids), index : [Ids -> Nat]]
    BY <2>1 DEF RemoveTokenId, ListType
  <2>3. /\ listing' = [listing EXCEPT ![c] = s]
        /\ active' = [active EXCEPT ![c] = @ \ {t}]
    BY <1>5 DEF Delisted
  <2> HIDE DEF s
  <2> QED
    BY <1>2, <1>3, <2>1, <2>2, <2>3 DEF MarketTypes
<1>6. CASE Died(c, t)
  BY <1>2, <1>3, <1>6 DEF Died, MarketTypes
<1> QED
  BY <1>1, <1>4, <1>5, <1>6

\* The market's lists change in its own steps only.
LEMMA MarketStill ==
    ASSUME (\E k \in Loads : LoadStep(k)) \/ TypeCollection \/ SaleStep
    PROVE  UNCHANGED <<listing, active>>
BY DEF LoadStep, LoadAnswer, AccountsAnswer, WrongNetwork, NetworkAnswer,
       ListAnswer, StatusAnswer, OrderAnswer, UriAnswer, LoadFails,
       RoyaltyAnswer, TypeCollection, SaleStep, ClickSell, ApprovalAnswer,
       SendApproval, MineApproval, ApprovalReceipt, CounterAnswer, SendSell,
       SaleFails, chainVars

\* The types and the soundness of the lists hold throughout.
LEMMA TypeInvInvariant == Spec => []TypeInv
<1>1. Init => TypeInv
  <2> SUFFICES ASSUME Init PROVE TypeInv
    OBVIOUS
  <2>1. Idle \in Calls
    BY DEF Idle, Calls, LoadPcs
  <2>2. /\ load = [k \in Loads |-> Idle]
        /\ check = [k \in Loads |-> Unset] /\ tiles = {}
        /\ field = defaultCollection /\ royalties = Unset
    BY DEF Init
  <2>3. PageTypes
    <3> HIDE DEF Init
    <3> QED
      BY <2>1, <2>2, FrontendAssumption DEF PageTypes
  <2>4. ListSound(Ids, OldList)
    BY FrontendAssumption
  <2>5. OldList \in [ids : Seq(Ids), index : [Ids -> Nat]]
    BY FrontendAssumption
  <2>6. Members(OldList) \subseteq Ids
    BY <2>5 DEF Members, ToSet
  <2>7. MarketTypes
    BY <2>4, <2>5, <2>6 DEF Init, MarketTypes
  <2> QED
    BY <2>3, <2>7 DEF TypeInv
<1>2. TypeInv /\ [Next]_vars => TypeInv'
  <2> SUFFICES ASSUME TypeInv, [Next]_vars PROVE TypeInv'
    OBVIOUS
  <2>1. CASE \E k \in Loads : LoadStep(k)
    BY <2>1, LoadStepTypes, MarketStill DEF TypeInv, MarketTypes
  <2>2. CASE TypeCollection
    <3>1. UNCHANGED <<royalties, load, check, tiles>> /\ field' \in Collections
      BY <2>2 DEF TypeCollection
    <3> QED
      BY <2>2, <3>1, MarketStill DEF TypeInv, PageTypes, MarketTypes
  <2>3. CASE SaleStep
    <3>1. UNCHANGED pageVars
      BY <2>3 DEF SaleStep, ClickSell, ApprovalAnswer, SendApproval,
         MineApproval, ApprovalReceipt, CounterAnswer, SendSell, SaleFails
    <3> QED
      BY <2>3, <3>1, MarketStill
      DEF TypeInv, PageTypes, MarketTypes, pageVars, besideLoad
  <2>4. CASE MarketStep
    BY <2>4, MarketStepTypes DEF TypeInv, PageTypes, pageVars, besideLoad
  <2>5. CASE UNCHANGED vars
    BY <2>5 DEF TypeInv, PageTypes, MarketTypes, vars, pageVars, besideLoad,
                chainVars
  <2> QED
    BY <2>1, <2>2, <2>3, <2>4, <2>5 DEF Next
<1> QED
  BY <1>1, <1>2, PTL DEF Spec

\* The variables of the page stay in their types, and connect's loop never
\* reads past the list getOrders answered, however its count is parsed.
THEOREM FrontendTypes == Spec => []TypeOK
<1>1. TypeInv => TypeOK
  <2> SUFFICES ASSUME TypeInv PROVE TypeOK
    OBVIOUS
  <2>1. \A k \in Loads : load[k] \in Calls
    BY DEF TypeInv, PageTypes
  <2>2. ASSUME NEW k \in Loads
        PROVE  /\ load[k].pc \in LoadPcs
               /\ load[k].token \in Collections \cup {Unset}
               /\ load[k].pc \in {"status", "order", "uri"} =>
                      load[k].i \in 1..Len(load[k].ids)
    BY <2>1 DEF Calls
  <2> QED
    BY <2>2 DEF TypeInv, PageTypes, TypeOK, Tiles
<1> QED
  BY <1>1, TypeInvInvariant, PTL

--------------------------------------------------------------------------------
(* Every order that stays active gets its tile.                            *)

\* A step of a load other than its list's answer: the other loads stay as
\* they are, and this one keeps its collection once it has a list.
LEMMA LoadStepFrame ==
    ASSUME TypeInv, NEW k \in Loads, LoadStep(k), ~ListAnswer(k)
    PROVE  /\ \A j \in Loads \ {k} : load'[j] = load[j]
           /\ steady' = steady
           /\ \/ load' = load
              \/ load[k].pc \in {"idle", "network"}
              \/ /\ load'[k].token = load[k].token
                 /\ load'[k].pc \notin {"idle", "network", "list"}
<1>1. load \in [Loads -> Calls] /\ load[k] \in Calls
  BY DEF TypeInv, PageTypes
<1>2. /\ load[k].i \in Nat /\ load[k].count \in Nat /\ load[k].ids \in Seq(Ids)
      /\ load[k].pc \in {"status", "order", "uri"} =>
             load[k].token \in Collections /\ load[k].count <= Len(load[k].ids)
  BY <1>1 DEF Calls
<1>3. steady' = steady
  BY DEF LoadStep, LoadAnswer, AccountsAnswer, WrongNetwork, NetworkAnswer,
     StatusAnswer, OrderAnswer, UriAnswer, LoadFails, RoyaltyAnswer, chainVars
<1>4. ASSUME NextRound(k), load[k].pc \in {"status", "order", "uri"}
      PROVE  /\ \A j \in Loads \ {k} : load'[j] = load[j]
             /\ load'[k].token = load[k].token
             /\ load'[k].pc \in {"status", "done"}
  <2>1. load[k].i + 1 \in Nat \ {0}
    BY <1>2
  <2>2. Round(k, load[k].i + 1, load[k].count, load[k].ids)
    BY <1>4 DEF NextRound
  <2>3. load[k].i + 1 <= load[k].count \/ load[k].i + 1 > load[k].count
    BY <1>2
  <2> QED
    BY <1>1, <1>2, <1>4, <2>1, <2>2, <2>3, RoundKnown
<1>5. ASSUME NEW pc, load' = [load EXCEPT ![k] = [load[k] EXCEPT !.pc = pc]]
      PROVE  /\ \A j \in Loads \ {k} : load'[j] = load[j]
             /\ load'[k].token = load[k].token /\ load'[k].pc = pc
  <2>1. /\ \A j \in Loads \ {k} : load'[j] = load[j]
        /\ load'[k] = [load[k] EXCEPT !.pc = pc]
    BY <1>1, <1>5
  <2>2. /\ [load[k] EXCEPT !.pc = pc].token = load[k].token
        /\ [load[k] EXCEPT !.pc = pc].pc = pc
    BY <1>1 DEF Calls
  <2> QED
    BY <2>1, <2>2
<1>6. ASSUME Return(k, "failed")
      PROVE  /\ \A j \in Loads \ {k} : load'[j] = load[j]
             /\ load'[k].token = load[k].token /\ load'[k].pc = "failed"
  <2>1. /\ \A j \in Loads \ {k} : load'[j] = load[j]
        /\ load'[k] = [Idle EXCEPT !.pc = "failed", !.token = load[k].token]
    BY <1>1, <1>6 DEF Return
  <2> QED
    BY <2>1 DEF Idle
<1>7. CASE AccountsAnswer(k)
  BY <1>1, <1>3, <1>7 DEF AccountsAnswer, Goto
<1>8. CASE WrongNetwork(k)
  BY <1>3, <1>6, <1>8 DEF WrongNetwork
<1>9. CASE NetworkAnswer(k)
  BY <1>1, <1>3, <1>9 DEF NetworkAnswer
<1>10. CASE StatusAnswer(k)
  <2>1. CASE Goto(k, "order")
    <3>1. load' = [load EXCEPT ![k] = [load[k] EXCEPT !.pc = "order"]]
      BY <2>1 DEF Goto
    <3>2. /\ \A j \in Loads \ {k} : load'[j] = load[j]
          /\ load'[k].token = load[k].token /\ load'[k].pc = "order"
      BY <1>5, <3>1
    <3> QED
      BY <1>3, <3>2
  <2>2. CASE NextRound(k)
    BY <1>3, <1>4, <1>10, <2>2 DEF StatusAnswer
  <2> QED
    BY <1>10, <2>1, <2>2 DEF StatusAnswer
<1>11. CASE OrderAnswer(k)
  <2>1. load' = [load EXCEPT ![k] = [load[k] EXCEPT !.pc = "uri"]]
    BY <1>11 DEF OrderAnswer, Goto
  <2>2. /\ \A j \in Loads \ {k} : load'[j] = load[j]
        /\ load'[k].token = load[k].token /\ load'[k].pc = "uri"
    BY <1>5, <2>1
  <2> QED
    BY <1>3, <2>2
<1>12. CASE UriAnswer(k)
  <2>1. CASE Return(k, "failed")
    BY <1>3, <1>6, <2>1
  <2>2. CASE NextRound(k)
    BY <1>3, <1>4, <1>12, <2>2 DEF UriAnswer
  <2> QED
    BY <1>12, <2>1, <2>2 DEF UriAnswer
<1>13. CASE LoadFails(k)
  BY <1>3, <1>6, <1>13 DEF LoadFails
<1>14. CASE RoyaltyAnswer(k)
  BY <1>3, <1>14 DEF RoyaltyAnswer
<1> QED
  BY <1>7, <1>8, <1>9, <1>10, <1>11, <1>12, <1>13, <1>14
  DEF LoadStep, LoadAnswer

\* The answer of getOrders: the loop starts at the first of the ids.
LEMMA ListAnswerKnown ==
    ASSUME TypeInv, NEW k \in Loads, ListAnswer(k),
           NEW ids, ids = listing[load[k].token].ids
    PROVE  /\ load[k].pc = "list" /\ load[k].token \in Collections
           /\ ids \in Seq(Ids)
           /\ \A j \in Loads \ {k} : load'[j] = load[j]
           /\ load'[k].token = load[k].token
           /\ load'[k].pc \in {"status", "done"}
           /\ 1 <= ParseCount(Len(ids)) =>
                  /\ load'[k].pc = "status" /\ load'[k].i = 1
                  /\ load'[k].count = ParseCount(Len(ids)) /\ load'[k].ids = ids
           /\ steady' = [steady EXCEPT ![k] = ToSet(ids) \cap active[load[k].token]]
           /\ UNCHANGED <<page, tiles, active>>
<1>1. load \in [Loads -> Calls] /\ load[k] \in Calls /\ load[k].pc = "list"
  BY DEF TypeInv, PageTypes, ListAnswer
<1>2. load[k].token \in Collections
  BY <1>1 DEF Calls
<1>3. ids \in Seq(Ids)
  BY <1>2 DEF TypeInv, MarketTypes
<1>4. ParseCount(Len(ids)) \in Nat /\ ParseCount(Len(ids)) <= Len(ids)
  BY <1>3, ParseCountBound
<1>5. /\ Round(k, 1, ParseCount(Len(ids)), ids)
      /\ steady' = [steady EXCEPT ![k] = ToSet(ids) \cap active[load[k].token]]
      /\ UNCHANGED <<page, tiles, active>>
  BY DEF ListAnswer
<1>6. 1 <= ParseCount(Len(ids)) \/ 1 > ParseCount(Len(ids))
  BY <1>4
<1> QED
  BY <1>1, <1>2, <1>3, <1>4, <1>5, <1>6, RoundKnown

\* The loads' own steps keep what is known of the steady tokens.
LEMMA SteadyLoadStep ==
    ASSUME TypeInv, SteadyKnown, NEW k \in Loads, LoadStep(k)
    PROVE  SteadyKnown'
<1>1. /\ steady \in [Loads -> SUBSET Ids]
      /\ \A j \in Loads :
             /\ load[j].pc \in {"idle", "network", "list"} => steady[j] = {}
             /\ steady[j] # {} => /\ load[j].token \in Collections
                                  /\ steady[j] \subseteq active[load[j].token]
  BY DEF SteadyKnown
<1>2. active' = active
  BY MarketStill
<1>3. CASE ListAnswer(k)
  <2> DEFINE ids == listing[load[k].token].ids
             S == ToSet(ids) \cap active[load[k].token]
  <2>1. /\ load[k].token \in Collections
        /\ ids \in Seq(Ids)
        /\ \A j \in Loads \ {k} : load'[j] = load[j]
        /\ load'[k].token = load[k].token
        /\ load'[k].pc \in {"status", "done"}
        /\ steady' = [steady EXCEPT ![k] = S]
    BY <1>3, ListAnswerKnown
  <2>2. S \subseteq Ids /\ S \subseteq active[load[k].token]
    BY <2>1 DEF ToSet
  <2> HIDE DEF S, ids
  <2>3. /\ steady' \in [Loads -> SUBSET Ids] /\ steady'[k] = S
        /\ \A j \in Loads \ {k} : steady'[j] = steady[j]
    BY <1>1, <2>1, <2>2
  <2>4. ASSUME NEW j \in Loads
        PROVE  /\ load'[j].pc \in {"idle", "network", "list"} => steady'[j] = {}
               /\ steady'[j] # {} => /\ load'[j].token \in Collections
                                     /\ steady'[j] \subseteq active'[load'[j].token]
    <3>1. CASE j = k
      BY <1>2, <2>1, <2>2, <2>3, <3>1
    <3>2. CASE j # k
      BY <1>1, <1>2, <2>1, <2>3, <3>2
    <3> QED
      BY <3>1, <3>2
  <2> QED
    BY <2>3, <2>4 DEF SteadyKnown
<1>4. CASE ~ListAnswer(k)
  BY <1>1, <1>2, <1>4, LoadStepFrame DEF SteadyKnown
<1> QED
  BY <1>3, <1>4

\* And so do the changes of the market.
LEMMA SteadyMarketStep ==
    ASSUME TypeInv, SteadyKnown, MarketStep
    PROVE  SteadyKnown' /\ \A k \in Loads : steady'[k] \subseteq steady[k]
<1>1. PICK c \in Collections, t \in Ids :
          Listed(c, t) \/ Delisted(c, t) \/ Died(c, t)
  BY DEF MarketStep
<1>2. /\ steady \in [Loads -> SUBSET Ids]
      /\ \A j \in Loads :
             /\ load[j].pc \in {"idle", "network", "list"} => steady[j] = {}
             /\ steady[j] # {} => /\ load[j].token \in Collections
                                  /\ steady[j] \subseteq active[load[j].token]
  BY DEF SteadyKnown
<1>3. /\ load' = load
      /\ steady' = [k \in Loads |-> IF load[k].token = c THEN steady[k] \ {t}
                                    ELSE steady[k]]
  BY <1>1, MarketStepTypes DEF Listed, Delisted, Died, Change, pageVars
<1>4. active \in [Collections -> SUBSET Ids]
  BY DEF TypeInv, MarketTypes
<1>5. \A d \in Collections :
          active[d] \ (IF d = c THEN {t} ELSE {}) \subseteq active'[d]
  BY <1>1, <1>4 DEF Listed, Delisted, Died
<1>6. /\ steady' \in [Loads -> SUBSET Ids]
      /\ \A k \in Loads : steady'[k] \subseteq steady[k]
      /\ \A k \in Loads : load[k].token = c => t \notin steady'[k]
  BY <1>2, <1>3
<1>7. ASSUME NEW j \in Loads, steady'[j] # {}
      PROVE  /\ load'[j].token \in Collections
             /\ steady'[j] \subseteq active'[load'[j].token]
  <2>1. load[j].token \in Collections /\ steady[j] \subseteq active[load[j].token]
    BY <1>2, <1>6, <1>7
  <2> QED
    BY <1>3, <1>5, <1>6, <2>1
<1>8. \A j \in Loads :
          load'[j].pc \in {"idle", "network", "list"} => steady'[j] = {}
  BY <1>2, <1>3, <1>6
<1> QED
  BY <1>6, <1>7, <1>8 DEF SteadyKnown

\* A round is over: what was ahead still is, except for the round's token.
LEMMA NextRoundAhead ==
    ASSUME TypeInv, NEW k \in Loads, NextRound(k),
           load[k].pc \in {"status", "order", "uri"},
           NEW t, Ahead(k, t), t # RoundId(k)
    PROVE  Ahead(k, t)'
<1>1. load \in [Loads -> Calls] /\ load[k] \in Calls
  BY DEF TypeInv, PageTypes
<1>2. /\ load[k].i \in Nat /\ load[k].count \in Nat /\ load[k].ids \in Seq(Ids)
      /\ load[k].token \in Collections /\ load[k].count <= Len(load[k].ids)
  BY <1>1 DEF Calls
<1>3. PICK j \in load[k].i..load[k].count : load[k].ids[j] = t
  BY DEF Ahead
<1>4. j # load[k].i
  BY <1>3 DEF RoundId
<1>5. j \in (load[k].i + 1)..load[k].count /\ load[k].i + 1 <= load[k].count
  BY <1>2, <1>3, <1>4
<1>6. Round(k, load[k].i + 1, load[k].count, load[k].ids)
  BY DEF NextRound
<1>7. load[k].i + 1 \in Nat \ {0}
  BY <1>2
<1>8. /\ load'[k].pc = "status" /\ load'[k].i = load[k].i + 1
      /\ load'[k].count = load[k].count /\ load'[k].ids = load[k].ids
  BY <1>1, <1>2, <1>5, <1>6, <1>7, RoundKnown
<1> QED
  BY <1>3, <1>5, <1>8 DEF Ahead

\* What the load of the page owes after a step of its own.
LEMMA OwnStepTiles ==
    ASSUME PageInv, CountsRead, NEW k \in Loads, LoadStep(k),
           page' = k, load'[k].pc \in {"status", "order", "uri", "done"},
           NEW t \in steady'[k]
    PROVE  Tile(k, t)' \in tiles' \/ Ahead(k, t)'
<1>1. /\ TypeInv /\ load \in [Loads -> Calls] /\ load[k] \in Calls
      /\ SteadyKnown
  BY DEF PageInv, TypeInv, PageTypes
<1>2. CASE ListAnswer(k)
  <2> DEFINE ids == listing[load[k].token].ids
             n == Len(ids)
  <2>1. /\ load[k].token \in Collections
        /\ ids \in Seq(Ids)
        /\ 1 <= ParseCount(n) =>
               /\ load'[k].pc = "status" /\ load'[k].i = 1
               /\ load'[k].count = ParseCount(n) /\ load'[k].ids = ids
        /\ steady' = [steady EXCEPT ![k] = ToSet(ids) \cap active[load[k].token]]
    BY <1>1, <1>2, ListAnswerKnown
  <2>2. ParseCount(n) = n
    BY <2>1 DEF CountsRead
  <2> HIDE DEF ids
  <2>3. t \in ToSet(ids)
    BY <1>1, <2>1 DEF SteadyKnown
  <2>4. PICK j \in 1..n : ids[j] = t
    BY <2>3 DEF ToSet
  <2>5. n \in Nat /\ 1 <= n
    BY <2>1, <2>4
  <2> HIDE DEF n
  <2>6. /\ load'[k].pc = "status" /\ load'[k].i = 1 /\ load'[k].count = n
        /\ load'[k].ids = ids
    BY <2>1, <2>2, <2>5
  <2> QED
    BY <2>4, <2>6 DEF Ahead
<1>3. CASE ~ListAnswer(k)
  <2>1. /\ steady' = steady
        /\ \/ load' = load
           \/ load[k].pc \in {"idle", "network"}
           \/ /\ load'[k].token = load[k].token
              /\ load'[k].pc \notin {"idle", "network", "list"}
    BY <1>1, <1>3, LoadStepFrame
  <2>2. load[k].pc \notin {"idle", "network", "list"}
    BY <1>1, <2>1 DEF SteadyKnown
  <2>3. ~NetworkAnswer(k) /\ ~AccountsAnswer(k) /\ ~WrongNetwork(k)
    BY <2>2 DEF NetworkAnswer, AccountsAnswer, WrongNetwork
  <2>4. page = k /\ load'[k].token = load[k].token
    BY <1>3, <2>1, <2>2, <2>3
    DEF LoadStep, LoadAnswer, StatusAnswer, OrderAnswer, UriAnswer, LoadFails,
        RoyaltyAnswer, besideLoad
  <2>5. Tile(k, t)' = Tile(k, t)
    BY <2>4 DEF Tile
  <2>6. /\ load[k].token \in Collections /\ t \in active[load[k].token]
    BY <1>1, <2>1 DEF SteadyKnown
  <2>7. load[k].pc \in {"status", "order", "uri", "done"} =>
            Tile(k, t) \in tiles \/ Ahead(k, t)
    BY <2>1, <2>4 DEF PageInv, TilesComing
  <2>8. CASE StatusAnswer(k)
    <3>1. /\ tiles' = tiles /\ load[k].pc = "status"
          /\ IF RoundId(k) \in active[load[k].token]
             THEN Goto(k, "order") ELSE NextRound(k)
      BY <2>8 DEF StatusAnswer
    <3>2. CASE Goto(k, "order")
      <4>1. load'[k] = [load[k] EXCEPT !.pc = "order"]
        BY <1>1, <3>2 DEF Goto
      <4>2. /\ load'[k].pc = "order" /\ load'[k].i = load[k].i
            /\ load'[k].count = load[k].count /\ load'[k].ids = load[k].ids
        BY <1>1, <4>1 DEF Calls
      <4>3. Ahead(k, t) => Ahead(k, t)'
        BY <4>2 DEF Ahead
      <4> QED
        BY <2>5, <2>7, <3>1, <4>3
    <3>3. CASE NextRound(k) /\ t # RoundId(k)
      <4>1. Ahead(k, t) => Ahead(k, t)'
        BY <1>1, <3>1, <3>3, NextRoundAhead
      <4> QED
        BY <2>5, <2>7, <3>1, <4>1
    <3> QED
      BY <2>6, <3>1, <3>2, <3>3
  <2>9. CASE OrderAnswer(k)
    <3>1. load'[k] = [load[k] EXCEPT !.pc = "uri"] /\ tiles' = tiles
          /\ load[k].pc = "order"
      BY <1>1, <2>9 DEF OrderAnswer, Goto, besideLoad
    <3>2. /\ load'[k].pc = "uri" /\ load'[k].i = load[k].i
          /\ load'[k].count = load[k].count /\ load'[k].ids = load[k].ids
      BY <1>1, <3>1 DEF Calls
    <3>3. Ahead(k, t) => Ahead(k, t)'
      BY <3>2 DEF Ahead
    <3> QED
      BY <2>5, <2>7, <3>1, <3>3
  <2>10. CASE UriAnswer(k)
    <3>1. /\ load[k].pc = "uri"
          /\ \E priced \in BOOLEAN :
                 /\ tiles' = tiles \cup {[token |-> load[k].token,
                                          id |-> RoundId(k), priced |-> priced]}
                 /\ IF priced THEN NextRound(k) ELSE Return(k, "failed")
      BY <2>10 DEF UriAnswer
    <3>2. /\ tiles' = tiles \cup {[token |-> load[k].token, id |-> RoundId(k),
                                   priced |-> TRUE]}
          /\ NextRound(k)
      <4>1. ~Return(k, "failed")
        <5>1. Return(k, "failed") => load'[k].pc = "failed"
          BY <1>1 DEF Return, Idle
        <5> QED
          BY <5>1
      <4> QED
        BY <3>1, <4>1
    <3>3. CASE t = RoundId(k)
      BY <2>5, <3>1, <3>2, <3>3 DEF Tile
    <3>4. CASE t # RoundId(k)
      <4>1. Ahead(k, t) => Ahead(k, t)'
        BY <1>1, <3>1, <3>2, <3>4, NextRoundAhead
      <4> QED
        BY <2>5, <2>7, <3>1, <4>1
    <3> QED
      BY <3>3, <3>4
  <2>11. CASE LoadFails(k)
    <3>1. load'[k].pc = "failed"
      BY <1>1, <2>11 DEF LoadFails, Return, Idle
    <3> QED
      BY <3>1
  <2>12. CASE RoyaltyAnswer(k)
    <3>1. load' = load /\ tiles' = tiles
      BY <2>12 DEF RoyaltyAnswer
    <3>2. Ahead(k, t) => Ahead(k, t)'
      BY <3>1 DEF Ahead
    <3> QED
      BY <2>5, <2>7, <3>1, <3>2
  <2> QED
    BY <1>3, <2>3, <2>8, <2>9, <2>10, <2>11, <2>12 DEF LoadStep, LoadAnswer
<1> QED
  BY <1>2, <1>3

\* A step of any load keeps what the load of the page owes.
LEMMA TilesLoadStep ==
    ASSUME PageInv, CountsRead, NEW k \in Loads, LoadStep(k)
    PROVE  TilesComing'
<1> SUFFICES ASSUME NEW j \in Loads, page' = j,
                    load'[j].pc \in {"status", "order", "uri", "done"},
                    NEW t \in steady'[j]
             PROVE  Tile(j, t)' \in tiles' \/ Ahead(j, t)'
  BY DEF TilesComing, Tile, Ahead
<1>1. TypeInv /\ SteadyKnown
  BY DEF PageInv
<1>2. CASE j = k
  BY <1>2, OwnStepTiles
<1>3. CASE j # k
  <2>1. load'[j] = load[j] /\ steady'[j] = steady[j]
    <3>1. CASE ListAnswer(k)
      <4>1. /\ \A l \in Loads \ {k} : load'[l] = load[l]
            /\ steady' = [steady EXCEPT ![k] =
                   ToSet(listing[load[k].token].ids) \cap active[load[k].token]]
        BY <1>1, <3>1, ListAnswerKnown
      <4> QED
        BY <1>1, <1>3, <4>1 DEF SteadyKnown
    <3>2. CASE ~ListAnswer(k)
      BY <1>1, <1>3, <3>2, LoadStepFrame
    <3> QED
      BY <3>1, <3>2
  <2>2. page = j /\ tiles \subseteq tiles'
    <3>1. ~NetworkAnswer(k)
      BY <1>3 DEF NetworkAnswer
    <3> QED
      BY <3>1 DEF LoadStep, LoadAnswer, AccountsAnswer, WrongNetwork, ListAnswer,
         StatusAnswer, OrderAnswer, UriAnswer, LoadFails, RoyaltyAnswer,
         besideLoad
  <2>3. Tile(j, t) \in tiles \/ Ahead(j, t)
    BY <2>1, <2>2 DEF PageInv, TilesComing
  <2>4. Tile(j, t)' = Tile(j, t) /\ (Ahead(j, t) => Ahead(j, t)')
    BY <2>1 DEF Tile, Ahead
  <2> QED
    BY <2>2, <2>3, <2>4
<1> QED
  BY <1>2, <1>3

\* While the count of every list comes out right, a load that has finished
\* and whose page is still shown has shown, at a price, every order that has
\* stayed active since it read the list, however the market's list was
\* changed and whatever other loads did in between.
THEOREM PageShowsOrders == Spec /\ []CountsRead => []PageComplete
<1>1. Init => SteadyKnown /\ TilesComing
  <2> SUFFICES ASSUME Init PROVE SteadyKnown /\ TilesComing
    OBVIOUS
  <2>1. /\ \A k \in Loads : load[k].pc = "idle" /\ steady[k] = {}
        /\ steady \in [Loads -> SUBSET Ids]
    BY DEF Init, Idle
  <2> QED
    BY <2>1 DEF SteadyKnown, TilesComing
<1>2. PageInv /\ CountsRead /\ [Next]_vars => SteadyKnown' /\ TilesComing'
  <2> SUFFICES ASSUME PageInv, CountsRead, [Next]_vars
               PROVE  SteadyKnown' /\ TilesComing'
    OBVIOUS
  <2>1. TypeInv /\ SteadyKnown /\ TilesComing
    BY DEF PageInv
  <2>2. CASE \E k \in Loads : LoadStep(k)
    BY <2>1, <2>2, SteadyLoadStep, TilesLoadStep
  <2>3. CASE TypeCollection \/ SaleStep \/ UNCHANGED vars
    <3>1. UNCHANGED <<load, steady, active, page, tiles>>
      BY <2>3 DEF TypeCollection, SaleStep, ClickSell, ApprovalAnswer,
         SendApproval, MineApproval, ApprovalReceipt, CounterAnswer, SendSell,
         SaleFails, vars, pageVars, chainVars, besideLoad
    <3>2. SteadyKnown'
      BY <2>1, <3>1 DEF SteadyKnown
    <3>3. TilesComing'
      BY <2>1, <3>1 DEF TilesComing, Tile, Ahead
    <3> QED
      BY <3>2, <3>3
  <2>4. CASE MarketStep
    <3>1. SteadyKnown' /\ \A k \in Loads : steady'[k] \subseteq steady[k]
      BY <2>1, <2>4, SteadyMarketStep
    <3>2. UNCHANGED <<load, page, tiles>>
      BY <2>1, <2>4, MarketStepTypes DEF pageVars, besideLoad
    <3>3. TilesComing'
      BY <2>1, <3>1, <3>2 DEF TilesComing, Tile, Ahead
    <3> QED
      BY <3>1, <3>3
  <2> QED
    BY <2>2, <2>3, <2>4 DEF Next
<1>3. SteadyKnown /\ TilesComing => PageComplete
  BY DEF SteadyKnown, TilesComing, PageComplete, Tile, Ahead
<1>4. TypeInv /\ SteadyKnown /\ TilesComing => PageInv
  BY DEF PageInv
<1> QED
  BY <1>1, <1>2, <1>3, <1>4, TypeInvInvariant, PTL DEF Spec

--------------------------------------------------------------------------------
(* The approval and the sale.                                              *)

\* While the approval is on its way, the call of sell polls for its receipt
\* or has failed; past the receipt it is mined.
ApprovalWaited ==
    /\ approval \in {"none", "pending", "ok", "reverted"}
    /\ approval = "pending" => sale.pc \in {"approve receipt", "failed"}
    /\ approval = "none" =>
           sale.pc \in {"idle", "approved?", "approve", "failed"}

\* sell asks for no signature and sends no transaction while the approval it
\* depends on is not mined: it leaves the polling for the receipt only when
\* there is one, be it of a transaction that reverted.
THEOREM ApprovalBeforeSale == Spec => []ApprovalMinedFirst
<1> DEFINE Pcs == {"idle", "approved?", "approve", "approve receipt",
                   "counter", "sign", "sent", "failed"}
           Sales == [pc : Pcs, sent : Nat \cup {Unset},
                     signed : Nat \cup {Unset}]
           SaleInv == sale \in Sales /\ ApprovalWaited
<1>1. Init => SaleInv
  BY DEF Init, ApprovalWaited
<1>2. TypeInv /\ SaleInv /\ [Next]_vars => SaleInv'
  <2> SUFFICES ASSUME TypeInv, SaleInv, [Next]_vars PROVE SaleInv'
    OBVIOUS
  <2>2. ASSUME NEW pc \in Pcs, SaleGoto(pc)
        PROVE  sale' \in Sales /\ sale'.pc = pc
    BY <2>2 DEF SaleGoto
  <2>3. SaleStops => sale' \in Sales /\ sale'.pc = "failed"
    <3> DEFINE s == [pc |-> "failed", sent |-> Unset, signed |-> Unset]
    <3>1. Unset \in Nat \cup {Unset} /\ "failed" \in Pcs
      OBVIOUS
    <3>2. s \in Sales /\ s.pc = "failed"
      <4> HIDE DEF Pcs
      <4> QED
        BY <3>1
    <3>3. SaleStops => sale' = s
      BY DEF SaleStops
    <3> HIDE DEF s, Sales
    <3> QED
      BY <3>2, <3>3
  <2>4. CASE ClickSell
    <3>1. approval' = approval /\ approval # "pending"
      BY <2>4 DEF ClickSell, ApprovalWaited
    <3>2. CASE SaleStops
      BY <2>3, <3>1, <3>2 DEF ApprovalWaited
    <3>3. CASE ~SaleStops
      <4> DEFINE s == [pc |-> "approved?", sent |-> royalties, signed |-> Unset]
      <4>1. Unset \in Nat \cup {Unset} /\ "approved?" \in Pcs
        OBVIOUS
      <4>2. s \in Sales /\ s.pc = "approved?"
        <5>1. royalties \in Nat
          BY <2>4, <3>3 DEF ClickSell
        <5> HIDE DEF Pcs
        <5> QED
          BY <4>1, <5>1
      <4>3. sale' = s
        BY <2>4, <3>3 DEF ClickSell
      <4> HIDE DEF s, Sales
      <4> QED
        BY <3>1, <4>2, <4>3 DEF ApprovalWaited
    <3> QED
      BY <3>2, <3>3
  <2>5. CASE ApprovalAnswer
    BY <2>2, <2>5 DEF ApprovalAnswer, ApprovalWaited
  <2>6. CASE SendApproval
    BY <2>2, <2>6 DEF SendApproval, ApprovalWaited
  <2>7. CASE MineApproval
    BY <2>7 DEF MineApproval, ApprovalWaited
  <2>8. CASE ApprovalReceipt
    BY <2>2, <2>8 DEF ApprovalReceipt, ApprovalWaited
  <2>9. CASE CounterAnswer
    <3> DEFINE signed == IF royalties \in Nat THEN royalties ELSE 0
               s == [sale EXCEPT !.pc = "sign", !.signed = signed]
    <3>1. signed \in Nat /\ "sign" \in Pcs
      OBVIOUS
    <3>2. sale' = s /\ approval' = approval /\ sale.pc = "counter"
      BY <2>9 DEF CounterAnswer
    <3> HIDE DEF signed, Pcs
    <3>3. s \in Sales /\ s.pc = "sign"
      BY <3>1
    <3> QED
      BY <3>2, <3>3 DEF ApprovalWaited
  <2>10. CASE SendSell
    BY <2>2, <2>10 DEF SendSell, ApprovalWaited
  <2>11. CASE SaleFails
    BY <2>3, <2>11 DEF SaleFails, ApprovalWaited
  <2>12. ASSUME UNCHANGED saleVars PROVE SaleInv'
    BY <2>12 DEF saleVars, ApprovalWaited
  <2>13. CASE \E k \in Loads : LoadStep(k)
    <3>1. UNCHANGED saleVars
      BY <2>13 DEF LoadStep, LoadAnswer, AccountsAnswer, WrongNetwork,
         NetworkAnswer, ListAnswer, StatusAnswer, OrderAnswer, UriAnswer,
         LoadFails, RoyaltyAnswer
    <3> QED
      BY <2>12, <3>1
  <2>14. CASE TypeCollection \/ MarketStep \/ UNCHANGED vars
    <3>1. UNCHANGED saleVars
      BY <2>14, MarketStepTypes DEF TypeCollection, vars
    <3> QED
      BY <2>12, <3>1
  <2> QED
    BY <2>4, <2>5, <2>6, <2>7, <2>8, <2>9, <2>10, <2>11, <2>13, <2>14
    DEF Next, SaleStep
<1>3. SaleInv => ApprovalMinedFirst
  BY DEF ApprovalWaited, ApprovalMinedFirst
<1> QED
  BY <1>1, <1>2, <1>3, TypeInvInvariant, PTL DEF Spec
================================================================================

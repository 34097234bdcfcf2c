----------------------------- MODULE LibraryProofs -----------------------------
(***************************************************************************)
(* What every behaviour of the mocks keeps, for words, keys and histories  *)
(* of any size: their types, the containers' soundness, the order of a     *)
(* history's keys, the loop invariant of the lookups and their answers,    *)
(* the exactness of the casts. The containers implement a dictionary. And  *)
(* what every behaviour of the migration script keeps, for any files.      *)
(***************************************************************************)
EXTENDS Mocks, Migration, TemplateProofs

\* A history is never longer than the square root is known for.
HistoryShort == Len(history) <= MaxLength

MocksInv ==
    /\ TypeOK /\ ContainersSound
    /\ HistorySorted /\ HistoryShort
    /\ LookupOnTrack /\ LookupRight

\* A deployed container has the types its template is generated for.
LEMMA MockTypes ==
    ASSUME contract \in SetMocks \cup MapMocks \cup OtherMocks
    PROVE  /\ contract.mock = "set" => contract.type \in Types
           /\ contract.mock = "map" =>
                  contract.keyType \in Types /\ contract.valueType \in Types
<1>1. CASE contract \in SetMocks
  <2>1. PICK type \in Types : contract = [mock |-> "set", type |-> type]
    BY <1>1 DEF SetMocks
  <2> QED
    BY <2>1
<1>2. CASE contract \in MapMocks
  <2>1. PICK pair \in {<<"uint256", "address">>, <<"address", "uint256">>,
                       <<"bytes32", "bytes32">>, <<"uint256", "uint256">>,
                       <<"bytes32", "uint256">>} :
            contract = [mock |-> "map", keyType |-> pair[1], valueType |-> pair[2]]
    BY <1>2 DEF MapMocks
  <2>2. pair[1] \in Types /\ pair[2] \in Types
    BY DEF Types
  <2> QED
    BY <2>1, <2>2
<1>3. CASE contract \in OtherMocks
  BY <1>3 DEF OtherMocks
<1> QED
  BY <1>1, <1>2, <1>3

\* A value of a type goes into a word and comes out as it was.
LEMMA Conversions ==
    ASSUME NEW type \in Types
    PROVE  /\ ValuesOf(type) \subseteq Word /\ 0 \in ValuesOf(type)
           /\ \A v \in ValuesOf(type) : ToBytes32(type, v) = v
           /\ \A v \in ValuesOf(type) : FromBytes32(type, v) = v
<1>1. WordMod \in Nat \ {0} /\ AddressMod \in 1..WordMod
  BY WordsAssumption
<1>2. \A v \in 0..(AddressMod - 1) : v % AddressMod = v
  BY <1>1
<1> QED
  BY <1>1, <1>2 DEF ValuesOf, Word, ToBytes32, FromBytes32

--------------------------------------------------------------------------------

\* A contract starts with empty containers and an empty history.
LEMMA InitInv ==
    ASSUME Init
    PROVE  MocksInv
<1>1. 0 \in Word
  BY WordsAssumption DEF Word
<1>2. SetType(EmptySet) /\ SetSound(EmptySet) /\ Elements(EmptySet) = {}
  <2>1. EmptySet.values = << >> /\ EmptySet.indexes = [w \in Word |-> 0]
    BY DEF EmptySet
  <2> QED
    BY <2>1 DEF SetType, SetSound, Elements, ToSet
<1>3. /\ MapType(EmptyMap) /\ MapSound(EmptyMap)
      /\ EmptyMap.keys = EmptySet /\ \A w \in Word : EmptyMap.values[w] = 0
  BY <1>1, <1>2 DEF EmptyMap, MapType, MapSound
<1>4. TypeOK
  <2>1. contract.mock = "map" =>
            \A w \in Word : map.values[w] \in ValuesOf(contract.valueType)
    BY <1>3, MockTypes, Conversions DEF Init
  <2>2. HistoryType(history) /\ block \in 0..MaxBlock
    BY MocksAssumption DEF Init, HistoryType
  <2> QED
    BY <1>2, <1>3, <2>1, <2>2 DEF Init, TypeOK
<1>5. ContainersSound
  BY <1>2, <1>3 DEF Init, ContainersSound
<1>6. HistorySorted /\ HistoryShort /\ LookupOnTrack
  BY CheckpointsAssumption
     DEF Init, HistorySorted, KeysIncrease, HistoryShort, LookupOnTrack
<1>7. LookupRight
  BY DEF Init, LookupRight, Silence
<1> QED
  BY <1>4, <1>5, <1>6, <1>7 DEF MocksInv

\* A step that answers and changes nothing else.
LEMMA AnswersInv ==
    ASSUME MocksInv, NEW a, Answers(a), "found" \notin DOMAIN a
    PROVE  MocksInv'
<1>1. /\ UNCHANGED <<contract, set, map, history, block, call>>
      /\ answer' = a
  BY DEF Answers
<1>2. TypeOK' /\ ContainersSound' /\ HistorySorted' /\ HistoryShort'
  BY <1>1 DEF MocksInv, TypeOK, ContainersSound, HistorySorted, HistoryShort
<1>3. LookupOnTrack' /\ LookupRight'
  BY <1>1 DEF MocksInv, LookupOnTrack, LookupRight
<1> QED
  BY <1>2, <1>3 DEF MocksInv

--------------------------------------------------------------------------------

\* The set mock deploys its set in a changed, still sound form.
LEMMA SetUpdateInv ==
    ASSUME MocksInv, contract.mock = "set", NEW s, NEW result,
           SetUpdate(s, result), SetType(s), SetSound(s),
           Elements(s) \subseteq ValuesOf(contract.type)
    PROVE  MocksInv'
<1>1. /\ set' = s /\ UNCHANGED <<contract, map, history, block, call>>
      /\ answer' = [result |-> result]
  BY DEF SetUpdate
<1>2. TypeOK' /\ ContainersSound' /\ HistorySorted' /\ HistoryShort'
  BY <1>1 DEF MocksInv, TypeOK, ContainersSound, HistorySorted, HistoryShort
<1>3. LookupOnTrack' /\ LookupRight'
  BY <1>1 DEF MocksInv, LookupOnTrack, LookupRight
<1> QED
  BY <1>2, <1>3 DEF MocksInv

\* The calls of a set mock keep the invariant.
LEMMA SetMockInv ==
    ASSUME MocksInv, SetMockNext
    PROVE  MocksInv'
<1>1. /\ contract.mock = "set" /\ contract.type \in Types
      /\ SetType(set) /\ SetSound(set)
      /\ Elements(set) \subseteq ValuesOf(contract.type)
  BY MockTypes DEF MocksInv, TypeOK, ContainersSound, SetMockNext
<1>2. ASSUME NEW value \in ValuesOf(contract.type), SetMockAdd(value)
      PROVE  MocksInv'
  <2>1. ToBytes32(contract.type, value) = value /\ value \in Word
    BY <1>1, Conversions
  <2>2. SetUpdate(SetAdd(set, value), ~SetContains(set, value))
    BY <1>2, <2>1 DEF SetMockAdd
  <2>3. /\ SetType(SetAdd(set, value)) /\ SetSound(SetAdd(set, value))
        /\ Elements(SetAdd(set, value)) = Elements(set) \cup {value}
    BY <1>1, <2>1, SetAddCorrect
  <2>4. Elements(SetAdd(set, value)) \subseteq ValuesOf(contract.type)
    BY <1>1, <2>3
  <2> QED
    BY <1>1, <2>2, <2>3, <2>4, SetUpdateInv
<1>3. ASSUME NEW value \in ValuesOf(contract.type), SetMockRemove(value)
      PROVE  MocksInv'
  <2>1. ToBytes32(contract.type, value) = value /\ value \in Word
    BY <1>1, Conversions
  <2>2. SetUpdate(SetRemove(set, value), SetContains(set, value))
    BY <1>3, <2>1 DEF SetMockRemove
  <2>3. /\ SetType(SetRemove(set, value)) /\ SetSound(SetRemove(set, value))
        /\ Elements(SetRemove(set, value)) = Elements(set) \ {value}
    BY <1>1, <2>1, SetRemoveCorrect
  <2>4. Elements(SetRemove(set, value)) \subseteq ValuesOf(contract.type)
    BY <1>1, <2>3
  <2> QED
    BY <1>1, <2>2, <2>3, <2>4, SetUpdateInv
<1>4. ASSUME NEW value \in ValuesOf(contract.type), SetMockContains(value)
      PROVE  MocksInv'
  BY <1>4, AnswersInv DEF SetMockContains
<1>5. ASSUME SetMockLength PROVE MocksInv'
  BY <1>5, AnswersInv DEF SetMockLength
<1>6. ASSUME NEW index \in Word, SetMockAt(index) PROVE MocksInv'
  <2>1. CASE index < SetLength(set)
    BY <1>6, <2>1, AnswersInv DEF SetMockAt
  <2>2. CASE ~(index < SetLength(set))
    BY <1>6, <2>2, AnswersInv DEF SetMockAt
  <2> QED
    BY <2>1, <2>2
<1>7. ASSUME SetMockValues PROVE MocksInv'
  BY <1>7, AnswersInv DEF SetMockValues
<1> QED
  BY <1>2, <1>3, <1>4, <1>5, <1>6, <1>7 DEF SetMockNext

--------------------------------------------------------------------------------

\* The map mock has its map in a changed, still sound form.
LEMMA MapUpdateInv ==
    ASSUME MocksInv, contract.mock = "map", NEW m, NEW result,
           MapUpdate(m, result), MapType(m), MapSound(m),
           Elements(m.keys) \subseteq ValuesOf(contract.keyType),
           \A w \in Word : m.values[w] \in ValuesOf(contract.valueType)
    PROVE  MocksInv'
<1>1. /\ map' = m /\ UNCHANGED <<contract, set, history, block, call>>
      /\ answer' = [result |-> result]
  BY DEF MapUpdate
<1>2. TypeOK' /\ ContainersSound' /\ HistorySorted' /\ HistoryShort'
  BY <1>1 DEF MocksInv, TypeOK, ContainersSound, HistorySorted, HistoryShort
<1>3. LookupOnTrack' /\ LookupRight'
  BY <1>1 DEF MocksInv, LookupOnTrack, LookupRight
<1> QED
  BY <1>2, <1>3 DEF MocksInv

\* The calls of a map mock keep the invariant.
LEMMA MapMockInv ==
    ASSUME MocksInv, MapMockNext
    PROVE  MocksInv'
<1>1. /\ contract.mock = "map"
      /\ contract.keyType \in Types /\ contract.valueType \in Types
      /\ MapType(map) /\ MapSound(map)
      /\ Elements(map.keys) \subseteq ValuesOf(contract.keyType)
      /\ \A w \in Word : map.values[w] \in ValuesOf(contract.valueType)
  BY MockTypes DEF MocksInv, TypeOK, ContainersSound, MapMockNext
<1>2. \A key \in ValuesOf(contract.keyType) : KeyWord(key) = key /\ key \in Word
  BY <1>1, Conversions DEF KeyWord
<1>3. map.values \in [Word -> Word]
  BY <1>1 DEF MapType
<1>4. ASSUME NEW key \in ValuesOf(contract.keyType),
             NEW value \in ValuesOf(contract.valueType), MapMockSet(key, value)
      PROVE  MocksInv'
  <2> DEFINE m == MapSet(map, key, value)
  <2>1. ToBytes32(contract.valueType, value) = value /\ value \in Word
    BY <1>1, Conversions
  <2>2. MapUpdate(m, ~MapContains(map, key))
    BY <1>2, <1>4, <2>1 DEF MapMockSet
  <2>3. /\ MapType(m) /\ MapSound(m)
        /\ Elements(m.keys) = Elements(map.keys) \cup {key}
    BY <1>1, <1>2, <2>1, MapSetCorrect
  <2>4. m.values = [map.values EXCEPT ![key] = value]
    BY DEF MapSet
  <2>5. \A w \in Word : m.values[w] \in ValuesOf(contract.valueType)
    BY <1>1, <1>3, <2>4
  <2>6. Elements(m.keys) \subseteq ValuesOf(contract.keyType)
    BY <1>1, <2>3
  <2> HIDE DEF m
  <2> QED
    BY <1>1, <2>2, <2>3, <2>5, <2>6, MapUpdateInv
<1>5. ASSUME NEW key \in ValuesOf(contract.keyType), MapMockRemove(key)
      PROVE  MocksInv'
  <2> DEFINE m == MapRemove(map, key)
  <2>1. MapUpdate(m, MapContains(map, key))
    BY <1>2, <1>5 DEF MapMockRemove
  <2>2. /\ MapType(m) /\ MapSound(m)
        /\ Elements(m.keys) = Elements(map.keys) \ {key}
    BY <1>1, <1>2, MapRemoveCorrect
  <2>3. m.values = [map.values EXCEPT ![key] = 0] /\ 0 \in ValuesOf(contract.valueType)
    BY <1>1, Conversions DEF MapRemove
  <2>4. \A w \in Word : m.values[w] \in ValuesOf(contract.valueType)
    BY <1>1, <1>3, <2>3
  <2>5. Elements(m.keys) \subseteq ValuesOf(contract.keyType)
    BY <1>1, <2>2
  <2> HIDE DEF m
  <2> QED
    BY <1>1, <2>1, <2>2, <2>4, <2>5, MapUpdateInv
<1>6. ASSUME NEW key \in ValuesOf(contract.keyType), MapMockContains(key)
      PROVE  MocksInv'
  BY <1>6, AnswersInv DEF MapMockContains
<1>7. ASSUME NEW key \in ValuesOf(contract.keyType), MapMockTryGet(key)
      PROVE  MocksInv'
  BY <1>7, AnswersInv DEF MapMockTryGet
<1>8. ASSUME NEW key \in ValuesOf(contract.keyType), MapMockGet(key)
      PROVE  MocksInv'
  <2>1. CASE MapGettable(map, KeyWord(key))
    BY <1>8, <2>1, AnswersInv DEF MapMockGet
  <2>2. CASE ~MapGettable(map, KeyWord(key))
    BY <1>8, <2>2, AnswersInv DEF MapMockGet, Reverted
  <2> QED
    BY <2>1, <2>2
<1>9. ASSUME MapMockLength PROVE MocksInv'
  BY <1>9, AnswersInv DEF MapMockLength
<1>10. ASSUME NEW index \in Word, MapMockAt(index) PROVE MocksInv'
  <2>1. CASE index < MapLength(map)
    BY <1>10, <2>1, AnswersInv DEF MapMockAt
  <2>2. CASE ~(index < MapLength(map))
    BY <1>10, <2>2, AnswersInv DEF MapMockAt
  <2> QED
    BY <2>1, <2>2
<1> QED
  BY <1>4, <1>5, <1>6, <1>7, <1>8, <1>9, <1>10 DEF MapMockNext

--------------------------------------------------------------------------------

\* A call that reverts changes nothing but its answer.
LEMMA RevertInv ==
    ASSUME MocksInv, Answers(Reverted)
    PROVE  MocksInv'
<1>1. "found" \notin DOMAIN Reverted
  BY DEF Reverted
<1> QED
  BY <1>1, AnswersInv

\* A push, at any key: an invalid one reverts.
LEMMA PushInv ==
    ASSUME MocksInv, call = NoCall, NEW key \in Nat, NEW value \in Nat,
           Pushes(key, value)
    PROVE  MocksInv'
<1>1. CASE Insertable(history, key)
  <2>1. /\ Len(history) < MaxLength
        /\ history' = Insert(history, key, value)
        /\ answer' = [pushed |-> <<Latest(history), value>>]
        /\ UNCHANGED <<contract, set, map, block, call>>
    BY <1>1 DEF Pushes
  <2>2. HistoryType(history) /\ KeysIncrease(history)
    BY DEF MocksInv, TypeOK, HistorySorted
  <2>3. HistoryType(history') /\ KeysIncrease(history')
    BY <1>1, <2>1, <2>2, InsertSorted
  <2>4. Len(history') <= MaxLength
    <3>1. Len(history) \in Nat /\ history \in Seq(Checkpoint) /\ MaxLength \in Nat
      BY <2>2, HistoryPlaces, CheckpointsAssumption
    <3>2. Len(history') = Len(history) \/ Len(history') = Len(history) + 1
      BY <2>1, <3>1 DEF Insert
    <3> QED
      BY <2>1, <3>1, <3>2
  <2>5. TypeOK' /\ ContainersSound' /\ HistorySorted' /\ HistoryShort'
    BY <2>1, <2>3, <2>4
       DEF MocksInv, TypeOK, ContainersSound, HistorySorted, HistoryShort
  <2>6. LookupOnTrack' /\ LookupRight'
    BY <2>1 DEF LookupOnTrack, LookupRight
  <2> QED
    BY <2>5, <2>6 DEF MocksInv
<1>2. CASE ~Insertable(history, key)
  BY <1>2, RevertInv DEF Pushes
<1> QED
  BY <1>1, <1>2

\* The casts of a push and of a lookup give numbers.
LEMMA DownCastNat ==
    ASSUME NEW n \in Nat
    PROVE  ToUintDownCast(KeyBits, n) \in Nat /\ ToUintDownCast(ValueBits, n) \in Nat
BY CheckpointsAssumption DEF ToUintDownCast, Truncate

\* A push at the current block keeps the history sorted and short.
LEMMA HistoryPushInv ==
    ASSUME MocksInv, call = NoCall, NEW value \in Nat, HistoryPush(value)
    PROVE  MocksInv'
<1>1. block \in Nat
  BY MocksAssumption DEF MocksInv, TypeOK
<1>2. CASE FitsUint(KeyBits, block) /\ FitsUint(ValueBits, value)
  <2> DEFINE k == ToUintDownCast(KeyBits, block)
             v == ToUintDownCast(ValueBits, value)
  <2>1. k \in Nat /\ v \in Nat
    BY <1>1, DownCastNat
  <2>2. Pushes(k, v)
    BY <1>2 DEF HistoryPush
  <2> HIDE DEF k, v
  <2> QED
    BY <2>1, <2>2, PushInv
<1>3. CASE ~(FitsUint(KeyBits, block) /\ FitsUint(ValueBits, value))
  BY <1>3, RevertInv DEF HistoryPush
<1> QED
  BY <1>2, <1>3

\* A lookup that begins with a sound search.
LEMMA LooksInv ==
    ASSUME MocksInv, NEW s, Looks(s), SearchType(s), SearchSound(history, s)
    PROVE  MocksInv'
<1>1. /\ call' = s /\ answer' = Silence
      /\ UNCHANGED <<contract, set, map, history, block>>
  BY DEF Looks
<1>2. TypeOK' /\ ContainersSound' /\ HistorySorted' /\ HistoryShort'
  BY <1>1 DEF MocksInv, TypeOK, SearchType, ContainersSound, HistorySorted,
              HistoryShort
<1>3. LookupOnTrack' /\ LookupRight'
  BY <1>1 DEF LookupOnTrack, LookupRight, Silence
<1> QED
  BY <1>2, <1>3 DEF MocksInv

\* The view functions read the checkpoints and start no loop.
LEMMA ViewsInv ==
    ASSUME MocksInv, CheckpointViews
    PROVE  MocksInv'
<1>1. CASE Answers([latest |-> Latest(history)])
  BY <1>1, AnswersInv
<1>2. CASE Answers([latestCheckpoint |-> LatestCheckpoint(history)])
  BY <1>2, AnswersInv
<1>3. CASE Answers([length |-> Len(history)])
  BY <1>3, AnswersInv
<1> QED
  BY <1>1, <1>2, <1>3 DEF CheckpointViews

\* latest() is a number, of an empty history too.
LEMMA LatestNat ==
    ASSUME HistoryType(history)
    PROVE  Latest(history) \in Nat
<1>1. \A c \in Checkpoint : c.value \in Nat
  BY DEF Checkpoint
<1>2. history # << >> => Last(history) \in Checkpoint
  BY HistoryPlaces DEF Last
<1> QED
  BY <1>1, <1>2 DEF Latest

\* The calls of a History mock keep the invariant, and so does a new block.
LEMMA HistoryMockInv ==
    ASSUME MocksInv, HistoryMockNext
    PROVE  MocksInv'
<1>1. /\ call = NoCall /\ Amounts \subseteq Nat /\ MaxBlock \in Nat
      /\ HistoryType(history) /\ KeysIncrease(history)
      /\ Len(history) <= MaxLength
  BY MocksAssumption DEF MocksInv, TypeOK, HistorySorted, HistoryShort,
                         HistoryMockNext
<1>2. Latest(history) \in Nat
  BY <1>1, LatestNat
<1>3. ASSUME MineBlock PROVE MocksInv'
  <2>1. /\ block < MaxBlock /\ block' = block + 1 /\ answer' = Silence
        /\ UNCHANGED <<contract, set, map, history, call>>
    BY <1>3 DEF MineBlock
  <2>2. block' \in 0..MaxBlock
    BY <1>1, <2>1 DEF MocksInv, TypeOK
  <2>3. TypeOK' /\ ContainersSound' /\ HistorySorted' /\ HistoryShort'
    BY <2>1, <2>2 DEF MocksInv, TypeOK, ContainersSound, HistorySorted,
                      HistoryShort
  <2>4. LookupOnTrack' /\ LookupRight'
    BY <1>1, <2>1 DEF LookupOnTrack, LookupRight, Silence
  <2> QED
    BY <2>3, <2>4 DEF MocksInv
<1>4. ASSUME NEW value \in Amounts, HistoryPush(value) PROVE MocksInv'
  BY <1>1, <1>4, HistoryPushInv
<1>5. ASSUME NEW value \in Amounts, PushAdd(value) PROVE MocksInv'
  <2>1. Latest(history) + value \in Nat
    BY <1>1, <1>2
  <2> QED
    BY <1>1, <1>5, <2>1, HistoryPushInv DEF PushAdd
<1>6. ASSUME NEW value \in Amounts, PushSubtract(value) PROVE MocksInv'
  <2>1. CASE value <= Latest(history)
    <3>1. Latest(history) - value \in Nat
      BY <1>1, <1>2, <2>1
    <3> QED
      BY <1>1, <1>6, <2>1, <3>1, HistoryPushInv DEF PushSubtract
  <2>2. CASE ~(value <= Latest(history))
    BY <1>6, <2>2, RevertInv DEF PushSubtract
  <2> QED
    BY <2>1, <2>2
<1>7. ASSUME NEW number \in 0..MaxBlock, GetAtBlock(number) PROVE MocksInv'
  <2>1. CASE Readable(number)
    <3> DEFINE key == ToUintDownCast(KeyBits, number)
               s == Search("upper", key, 0, Len(history))
    <3>0. number \in Nat
      BY MocksAssumption
    <3>1. key \in Nat
      BY <3>0, DownCastNat
    <3>2. SearchType(s) /\ SearchSound(history, s)
      BY <1>1, <3>1, WholeSearchSound DEF Searches
    <3>3. Looks(s)
      BY <1>7, <2>1 DEF GetAtBlock
    <3> HIDE DEF s
    <3> QED
      BY <3>2, <3>3, LooksInv
  <2>2. CASE ~Readable(number)
    BY <1>7, <2>2, RevertInv DEF GetAtBlock
  <2> QED
    BY <2>1, <2>2
<1>8. ASSUME NEW number \in 0..MaxBlock, GetAtProbablyRecentBlock(number)
      PROVE  MocksInv'
  <2>1. CASE Readable(number)
    <3> DEFINE key == ToUintDownCast(KeyBits, number)
               s == RecentSearch(history, key)
    <3>0. number \in Nat
      BY MocksAssumption
    <3>1. key \in Nat
      BY <3>0, DownCastNat
    <3>2. SearchType(s) /\ SearchSound(history, s)
      BY <1>1, <3>1, RecentSearchSound
    <3>3. Looks(s)
      BY <1>8, <2>1 DEF GetAtProbablyRecentBlock
    <3> HIDE DEF s
    <3> QED
      BY <3>2, <3>3, LooksInv
  <2>2. CASE ~Readable(number)
    BY <1>8, <2>2, RevertInv DEF GetAtProbablyRecentBlock
  <2> QED
    BY <2>1, <2>2
<1>9. ASSUME CheckpointViews PROVE MocksInv'
  BY <1>9, ViewsInv
<1> QED
  BY <1>3, <1>4, <1>5, <1>6, <1>7, <1>8, <1>9 DEF HistoryMockNext

\* The calls of a Trace mock keep the invariant.
LEMMA TraceMockInv ==
    ASSUME MocksInv, TraceMockNext
    PROVE  MocksInv'
<1>1. /\ call = NoCall /\ Amounts \subseteq Nat /\ TraceKeys \subseteq Nat
      /\ HistoryType(history)
  BY MocksAssumption DEF MocksInv, TypeOK, TraceMockNext
<1>2. ASSUME NEW key \in TraceKeys, NEW value \in Amounts, TracePush(key, value)
      PROVE  MocksInv'
  BY <1>1, <1>2, PushInv DEF TracePush
<1>3. ASSUME NEW lookup \in Searches, NEW key \in 0..MaxUint(KeyBits),
             Looks(Search(lookup, key, 0, Len(history)))
      PROVE  MocksInv'
  <2> DEFINE s == Search(lookup, key, 0, Len(history))
  <2>1. key \in Nat
    OBVIOUS
  <2>2. SearchType(s) /\ SearchSound(history, s)
    BY <1>1, <2>1, WholeSearchSound
  <2>3. Looks(s)
    BY <1>3
  <2> HIDE DEF s
  <2> QED
    BY <2>2, <2>3, LooksInv
<1>4. ASSUME NEW key \in 0..MaxUint(KeyBits), LowerLookup(key) \/ UpperLookup(key)
      PROVE  MocksInv'
  BY <1>3, <1>4 DEF LowerLookup, UpperLookup, Searches
<1>5. ASSUME CheckpointViews PROVE MocksInv'
  BY <1>5, ViewsInv
<1> QED
  BY <1>2, <1>4, <1>5 DEF TraceMockNext

--------------------------------------------------------------------------------

\* The casts have no state of their own.
LEMMA CastMockInv ==
    ASSUME MocksInv, CastMockNext
    PROVE  MocksInv'
<1>1. ASSUME NEW fits, NEW signed, NEW bits, NEW value, NEW result,
             Casts(fits, signed, bits, value, result)
      PROVE  MocksInv'
  <2> DEFINE asked == [signed |-> signed, bits |-> bits, value |-> value]
  <2>1. Answers(IF fits THEN [cast |-> asked, result |-> result]
                        ELSE [refused |-> asked])
    BY <1>1 DEF Casts
  <2> HIDE DEF asked
  <2>2. CASE fits
    BY <2>1, <2>2, AnswersInv
  <2>3. CASE ~fits
    BY <2>1, <2>3, AnswersInv
  <2> QED
    BY <2>2, <2>3
<1> QED
  BY <1>1 DEF CastMockNext, CastUint, CastInt, CastSigned, CastUnsigned

\* The lookups' loop: a round keeps the search sound, and the value the loop
\* comes back with is the one promised.
LEMMA LookupRoundInv ==
    ASSUME MocksInv, LookupRound
    PROVE  MocksInv'
<1>1. /\ call # NoCall /\ call.low < call.high /\ call' = Halve(history, call)
      /\ UNCHANGED <<contract, set, map, history, block, answer>>
  BY DEF LookupRound
<1>2. /\ SearchType(call) /\ SearchSound(history, call)
      /\ HistoryType(history) /\ KeysIncrease(history)
  BY <1>1 DEF MocksInv, TypeOK, SearchType, LookupOnTrack, HistorySorted
<1>3. SearchType(call') /\ SearchSound(history, call')
  BY <1>1, <1>2, HalveSound
<1>4. TypeOK' /\ ContainersSound' /\ HistorySorted' /\ HistoryShort'
  BY <1>1, <1>3 DEF MocksInv, TypeOK, SearchType, ContainersSound,
                    HistorySorted, HistoryShort
<1>5. LookupOnTrack' /\ LookupRight'
  BY <1>1, <1>3 DEF MocksInv, LookupOnTrack, LookupRight
<1> QED
  BY <1>4, <1>5 DEF MocksInv

\* A lookup whose loop has ended returns what it promises.
LEMMA LookupReturnsInv ==
    ASSUME MocksInv, LookupReturns
    PROVE  MocksInv'
<1>1. /\ call # NoCall /\ call.low >= call.high /\ call' = NoCall
      /\ answer' = [found |-> ValueFound(history, call), search |-> call]
      /\ UNCHANGED <<contract, set, map, history, block>>
  BY DEF LookupReturns
<1>2. SearchType(call) /\ SearchSound(history, call) /\ HistoryType(history)
  BY <1>1 DEF MocksInv, TypeOK, SearchType, LookupOnTrack
<1>3. IsAnswer(history, call, ValueFound(history, call))
  BY <1>1, <1>2, SearchAnswers
<1>4. TypeOK' /\ ContainersSound' /\ HistorySorted' /\ HistoryShort'
  BY <1>1 DEF MocksInv, TypeOK, ContainersSound, HistorySorted, HistoryShort
<1>5. answer'.found = ValueFound(history, call) /\ answer'.search = call
  BY <1>1
<1>6. LookupOnTrack' /\ LookupRight'
  BY <1>1, <1>3, <1>5 DEF LookupOnTrack, LookupRight, IsAnswer, IsValueUpTo,
                          IsValueFrom
<1> QED
  BY <1>4, <1>6 DEF MocksInv

\* Every step keeps the invariant.
LEMMA NextInv ==
    ASSUME MocksInv, [Next]_vars
    PROVE  MocksInv'
<1>1. CASE UNCHANGED vars
  <2>1. UNCHANGED <<contract, set, map, history, block, call, answer>>
    BY <1>1 DEF vars
  <2>2. TypeOK' /\ ContainersSound' /\ HistorySorted' /\ HistoryShort'
    BY <2>1 DEF MocksInv, TypeOK, ContainersSound, HistorySorted, HistoryShort
  <2>3. LookupOnTrack' /\ LookupRight'
    BY <2>1 DEF MocksInv, LookupOnTrack, LookupRight
  <2> QED
    BY <2>2, <2>3 DEF MocksInv
<1> QED
  BY <1>1, SetMockInv, MapMockInv, HistoryMockInv, TraceMockInv, CastMockInv,
     LookupRoundInv, LookupReturnsInv DEF Next

\* The mocks' inductive invariant holds in every behaviour.
LEMMA Invariance == Spec => []MocksInv
<1>1. Init => MocksInv
  BY InitInv
<1>2. MocksInv /\ [Next]_vars => MocksInv'
  BY NextInv
<1> QED
  BY <1>1, <1>2, PTL DEF Spec

--------------------------------------------------------------------------------

\* Every variable of the mocks has its type, and the containers store clean
\* encodings of their type's values only.
THEOREM MocksTypeCorrect == Spec => []TypeOK
<1>1. MocksInv => TypeOK
  BY DEF MocksInv
<1> QED
  BY <1>1, Invariance, PTL

\* No order of add, set and remove calls takes the array and the indexes of a
\* set apart, or leaves a value behind in a map.
THEOREM ContainersStaySound == Spec => []ContainersSound
<1>1. MocksInv => ContainersSound
  BY DEF MocksInv
<1> QED
  BY <1>1, Invariance, PTL

\* The keys of a history increase, whatever is pushed.
THEOREM HistoryStaysSorted == Spec => []HistorySorted
<1>1. MocksInv => HistorySorted
  BY DEF MocksInv
<1> QED
  BY <1>1, Invariance, PTL

\* Every lookup's loop keeps the place it looks for between its bounds.
THEOREM LookupsStayOnTrack == Spec => []LookupOnTrack
<1>1. MocksInv => LookupOnTrack
  BY DEF MocksInv
<1> QED
  BY <1>1, Invariance, PTL

\* Every lookup, the probably recent one too, returns the value it promises.
THEOREM LookupsAreRight == Spec => []LookupRight
<1>1. MocksInv => LookupRight
  BY DEF MocksInv
<1> QED
  BY <1>1, Invariance, PTL
--------------------------------------------------------------------------------

\* A number below a modulus is its own remainder.
LEMMA SmallRemainder ==
    ASSUME NEW m \in Nat \ {0}, NEW n \in 0..(m - 1)
    PROVE  n % m = n
OBVIOUS

\* What a push writes, it writes at the number of the current block.
LEMMA PushWrites ==
    ASSUME MocksInv, NEW value \in Nat, HistoryPush(value)
    PROVE  \/ history' = history
           \/ /\ block \in Nat
              /\ \E v \in Nat : history' = Insert(history, block, v)
<1> DEFINE k == ToUintDownCast(KeyBits, block)
           v == ToUintDownCast(ValueBits, value)
<1>1. block \in Nat
  BY MocksAssumption DEF MocksInv, TypeOK
<1>2. CASE FitsUint(KeyBits, block) /\ FitsUint(ValueBits, value)
  <2>1. k = block
    <3>1. 2 ^ KeyBits \in Nat \ {0}
      BY CheckpointsAssumption
    <3>2. block \in 0..(2 ^ KeyBits - 1)
      BY <1>1, <1>2 DEF FitsUint, MaxUint
    <3> QED
      BY <3>1, <3>2, SmallRemainder DEF ToUintDownCast, Truncate
  <2>2. v \in Nat
    BY DownCastNat
  <2>3. Pushes(block, v)
    BY <1>2, <2>1 DEF HistoryPush
  <2> HIDE DEF k, v
  <2> QED
    BY <1>1, <2>2, <2>3 DEF Pushes, Answers
<1>3. CASE ~(FitsUint(KeyBits, block) /\ FitsUint(ValueBits, value))
  BY <1>3 DEF HistoryPush, Answers
<1> QED
  BY <1>2, <1>3

\* A step of the history mock leaves the history alone or writes the current
\* block's checkpoint.
LEMMA HistoryWrites ==
    ASSUME MocksInv, contract.mock = "history", Next
    PROVE  \/ history' = history
           \/ /\ block \in Nat
              /\ \E v \in Nat : history' = Insert(history, block, v)
<1>1. HistoryType(history) /\ Amounts \subseteq Nat
  BY MocksAssumption DEF MocksInv, TypeOK
<1>2. Latest(history) \in Nat
  BY <1>1, LatestNat
<1>3. ASSUME NEW value \in Amounts,
             HistoryPush(value) \/ PushAdd(value) \/ PushSubtract(value)
      PROVE  \/ history' = history
             \/ /\ block \in Nat
                /\ \E v \in Nat : history' = Insert(history, block, v)
  <2>1. value \in Nat /\ Latest(history) + value \in Nat
    BY <1>1, <1>2
  <2>2. CASE HistoryPush(value)
    BY <2>1, <2>2, PushWrites
  <2>3. CASE PushAdd(value)
    BY <2>1, <2>3, PushWrites DEF PushAdd
  <2>4. CASE PushSubtract(value) /\ value <= Latest(history)
    <3>1. Latest(history) - value \in Nat
      BY <1>2, <2>1, <2>4
    <3> QED
      BY <2>4, <3>1, PushWrites DEF PushSubtract
  <2>5. CASE PushSubtract(value) /\ ~(value <= Latest(history))
    BY <2>5 DEF PushSubtract, Answers
  <2> QED
    BY <1>3, <2>2, <2>3, <2>4, <2>5
<1>4. ASSUME NEW number \in 0..MaxBlock,
             GetAtBlock(number) \/ GetAtProbablyRecentBlock(number)
      PROVE  history' = history
  BY <1>4 DEF GetAtBlock, GetAtProbablyRecentBlock, Looks, Answers
<1>5. ASSUME MineBlock \/ CheckpointViews \/ LookupRound \/ LookupReturns
      PROVE  history' = history
  BY <1>5 DEF MineBlock, CheckpointViews, LookupRound, LookupReturns, Answers
<1>6. HistoryMockNext \/ LookupRound \/ LookupReturns
  BY DEF Next, SetMockNext, MapMockNext, TraceMockNext, CastMockNext
<1> QED
  BY <1>3, <1>4, <1>5, <1>6 DEF HistoryMockNext

\* The value getAtBlock finds for a block it answers for is settled: a push
\* writes at the current block's number, which is beyond every such block.
THEOREM PastStaysFixed == Spec => PastIsFixed
<1>1. ASSUME MocksInv, [Next]_vars, contract.mock = "history",
             NEW b \in 0..MaxBlock, NEW v \in 0..MaxUint(ValueBits), Readable(b)
      PROVE  IsValueUpTo(history', b, v) <=> IsValueUpTo(history, b, v)
  <2>1. CASE history' = history
    BY <2>1
  <2>2. CASE block \in Nat /\ \E w \in Nat : history' = Insert(history, block, w)
    <3>1. PICK w \in Nat : history' = Insert(history, block, w)
      BY <2>2
    <3>2. b \in Nat /\ b < block /\ HistoryType(history)
      BY <1>1, MocksAssumption DEF Readable, MocksInv, TypeOK
    <3> QED
      BY <2>2, <3>1, <3>2, InsertKeepsPast
  <2>3. CASE UNCHANGED vars
    BY <2>3 DEF vars
  <2> QED
    BY <1>1, <2>1, <2>2, <2>3, HistoryWrites
<1>2. MocksInv /\ [Next]_vars =>
          [contract.mock = "history" =>
               \A b \in 0..MaxBlock, v \in 0..MaxUint(ValueBits) :
                   Readable(b) =>
                       (IsValueUpTo(history, b, v)' <=>
                            IsValueUpTo(history, b, v))]_vars
  BY <1>1 DEF IsValueUpTo
<1> QED
  BY <1>2, Invariance, PTL DEF Spec, PastIsFixed

--------------------------------------------------------------------------------
(* The casts.                                                              *)

\* The remainder of a number within one modulus of zero.
LEMMA Remainders ==
    ASSUME NEW M \in Nat \ {0}, NEW v \in Int
    PROVE  /\ v % M \in 0..(M - 1)
           /\ v \in 0..(M - 1) => v % M = v
           /\ v \in (-M)..(-1) => v % M = v + M
<1>1. v % M \in 0..(M - 1)
  OBVIOUS
<1>2. ASSUME v \in 0..(M - 1) PROVE v % M = v
  BY <1>2
<1>3. ASSUME v \in (-M)..(-1) PROVE v % M = v + M
  BY <1>3
<1> QED
  BY <1>1, <1>2, <1>3

\* Of the types the casts go to: their bits, with the numbers they end at.
LEMMA Powers ==
    ASSUME NEW bits \in 1..WordBits
    PROVE  /\ 2 ^ (bits - 1) \in Nat \ {0}
           /\ 2 ^ bits = 2 * 2 ^ (bits - 1)
           /\ 2 ^ bits \in Nat \ {0}
<1>1. 2 ^ (bits - 1) \in Nat \ {0} /\ 2 ^ bits = 2 * 2 ^ (bits - 1)
  BY PowersAssumption
<1>2. \A p \in Nat \ {0} : 2 * p \in Nat \ {0}
  OBVIOUS
<1> QED
  BY <1>1, <1>2

\* intN(value) comes back as it went in exactly when intN can hold it.
LEMMA TruncateSignedExact ==
    ASSUME NEW bits \in 1..WordBits, NEW v \in Int
    PROVE  TruncateSigned(bits, v) = v
               <=> -(2 ^ (bits - 1)) <= v /\ v < 2 ^ (bits - 1)
<1> DEFINE p == 2 ^ (bits - 1)
           M == 2 ^ bits
           low == v % M
<1>1. p \in Nat \ {0} /\ M = 2 * p /\ M \in Nat \ {0}
  BY Powers
<1>2. TruncateSigned(bits, v) = IF low > p - 1 THEN low - M ELSE low
  BY DEF TruncateSigned, Truncate, MaxInt
<1> HIDE DEF p, M
<1>3. /\ low \in 0..(M - 1)
      /\ v \in 0..(M - 1) => low = v
      /\ v \in (-M)..(-1) => low = v + M
  BY <1>1, Remainders
<1> HIDE DEF low
<1>4. ASSUME -p <= v, v < p
      PROVE  (IF low > p - 1 THEN low - M ELSE low) = v
  <2>1. CASE v >= 0
    BY <1>1, <1>3, <1>4, <2>1
  <2>2. CASE v < 0
    BY <1>1, <1>3, <1>4, <2>2
  <2> QED
    BY <2>1, <2>2
<1>5. ASSUME (IF low > p - 1 THEN low - M ELSE low) = v
      PROVE  -p <= v /\ v < p
  BY <1>1, <1>3, <1>5
<1> QED
  BY <1>2, <1>4, <1>5 DEF p

\* What one cast answers is right about it.
LEMMA CastsExact ==
    ASSUME NEW fits \in BOOLEAN, NEW signed \in BOOLEAN, NEW bits \in Nat,
           NEW value \in Int, NEW result,
           Casts(fits, signed, bits, value, result),
           fits <=> Holds([signed |-> signed, bits |-> bits, value |-> value]),
           fits => result = value
    PROVE  CastExact'
<1> DEFINE asked == [signed |-> signed, bits |-> bits, value |-> value]
<1>1. answer' = IF fits THEN [cast |-> asked, result |-> result]
                ELSE [refused |-> asked]
  BY DEF Casts, Answers
<1>2. fits <=> Holds(asked)
  OBVIOUS
<1>3. asked.value = value
  OBVIOUS
<1> HIDE DEF asked
<1>4. CASE fits
  <2>1. /\ DOMAIN answer' = {"cast", "result"}
        /\ answer'.cast = asked /\ answer'.result = result
    BY <1>1, <1>4
  <2> QED
    BY <1>2, <1>3, <1>4, <2>1 DEF CastExact, Holds
<1>5. CASE ~fits
  <2>1. DOMAIN answer' = {"refused"} /\ answer'.refused = asked
    BY <1>1, <1>5
  <2> QED
    BY <1>2, <1>5, <2>1 DEF CastExact, Holds
<1> QED
  BY <1>4, <1>5

\* The cast mock's own calls.
LEMMA CastStepExact ==
    ASSUME CastMockNext PROVE CastExact'
<1>1. /\ WordBits \in 1..WordBits /\ LENGTHS \subseteq 1..WordBits
      /\ WordBits \in Nat /\ LENGTHS \subseteq Nat
  BY WordBitsAssumption DEF LENGTHS
<1>2. ASSUME NEW bits \in LENGTHS, NEW value \in 0..MaxUint(WordBits),
             CastUint(bits, value)
      PROVE  CastExact'
  <2> DEFINE M == 2 ^ bits
  <2>1. M \in Nat \ {0} /\ value \in Nat
    BY <1>1, Powers DEF MaxUint
  <2>2. /\ FitsUint(bits, value) <=> value <= M - 1
        /\ FitsUint(bits, value) \in BOOLEAN
    BY DEF FitsUint, MaxUint
  <2>3. Holds([signed |-> FALSE, bits |-> bits, value |-> value])
            <=> 0 <= value /\ value < M
    BY DEF Holds
  <2>4. ToUintDownCast(bits, value) = value % M
    BY DEF ToUintDownCast, Truncate
  <2> HIDE DEF M
  <2>5. value \in Int /\ (value \in 0..(M - 1) => value % M = value)
    <3>1. value \in Int
      BY <2>1
    <3>2. M \in Nat \ {0}
      BY <2>1
    <3> QED
      BY ONLY <3>1, <3>2, Remainders
  <2>6. value <= M - 1 <=> value \in 0..(M - 1)
    BY <2>1
  <2>7. value \in 0..(M - 1) <=> 0 <= value /\ value < M
    BY <2>1
  <2>8. /\ FitsUint(bits, value)
               <=> Holds([signed |-> FALSE, bits |-> bits, value |-> value])
        /\ FitsUint(bits, value) => ToUintDownCast(bits, value) = value
    BY <2>2, <2>3, <2>4, <2>5, <2>6, <2>7
  <2> QED
    BY <1>1, <1>2, <2>2, <2>5, <2>8, CastsExact DEF CastUint
<1>3. ASSUME NEW bits \in LENGTHS,
             NEW value \in MinInt(WordBits)..MaxInt(WordBits),
             CastInt(bits, value)
      PROVE  CastExact'
  <2>1. value \in Int /\ bits \in 1..WordBits
    BY <1>1
  <2>2. FitsInt(bits, value)
            <=> Holds([signed |-> TRUE, bits |-> bits, value |-> value])
    BY <2>1, TruncateSignedExact DEF FitsInt, Holds
  <2>3. FitsInt(bits, value) => ToIntDownCast(bits, value) = value
    BY DEF FitsInt, ToIntDownCast
  <2>4. FitsInt(bits, value) \in BOOLEAN
    BY DEF FitsInt
  <2> QED
    BY <1>1, <1>3, <2>1, <2>2, <2>3, <2>4, CastsExact DEF CastInt
<1>4. ASSUME NEW value \in MinInt(WordBits)..MaxInt(WordBits),
             CastUnsigned(value)
      PROVE  CastExact'
  <2> DEFINE M == 2 ^ WordBits
             p == 2 ^ (WordBits - 1)
  <2>1. p \in Nat \ {0} /\ M = 2 * p /\ M \in Nat \ {0}
    BY <1>1, Powers
  <2>2. value \in (-p)..(p - 1)
    BY DEF MinInt, MaxInt
  <2>3. Holds([signed |-> FALSE, bits |-> WordBits, value |-> value])
            <=> 0 <= value /\ value < M
    BY DEF Holds
  <2>4. /\ ToUint(value) = value % M
        /\ FitsUnsigned(value) <=> value >= 0
        /\ FitsUnsigned(value) \in BOOLEAN
    BY DEF ToUint, Truncate, FitsUnsigned
  <2> HIDE DEF M, p
  <2>5. value \in Int /\ (value >= 0 <=> 0 <= value /\ value < M)
    BY <2>1, <2>2
  <2>6. value \in 0..(M - 1) => value % M = value
    BY <2>1, <2>5, Remainders
  <2>7. value >= 0 => value \in 0..(M - 1)
    BY <2>1, <2>2
  <2> QED
    BY <1>1, <1>4, <2>3, <2>4, <2>5, <2>6, <2>7, CastsExact DEF CastUnsigned
<1>5. ASSUME NEW value \in 0..MaxUint(WordBits), CastSigned(value)
      PROVE  CastExact'
  <2> DEFINE p == 2 ^ (WordBits - 1)
  <2>1. p \in Nat \ {0} /\ value \in Nat
    BY <1>1, Powers DEF MaxUint
  <2>2. Holds([signed |-> TRUE, bits |-> WordBits, value |-> value])
            <=> -p <= value /\ value < p
    BY DEF Holds
  <2>3. /\ ToInt(value) = TruncateSigned(WordBits, value)
        /\ FitsSigned(value) <=> value <= p - 1
        /\ FitsSigned(value) \in BOOLEAN
    BY DEF ToInt, FitsSigned, MaxInt
  <2>4. TruncateSigned(WordBits, value) = value <=> -p <= value /\ value < p
    BY <1>1, <2>1, TruncateSignedExact
  <2> HIDE DEF p
  <2>5. value <= p - 1 <=> -p <= value /\ value < p
    BY <2>1
  <2>6. /\ FitsSigned(value)
               <=> Holds([signed |-> TRUE, bits |-> WordBits, value |-> value])
        /\ FitsSigned(value) => ToInt(value) = value
    BY <2>2, <2>3, <2>4, <2>5
  <2>7. value \in Int
    BY <2>1
  <2> QED
    BY <1>1, <1>5, <2>3, <2>6, <2>7, CastsExact DEF CastSigned
<1> QED
  BY <1>2, <1>3, <1>4, <1>5 DEF CastMockNext

\* No other mock answers a cast.
LEMMA OtherAnswers ==
    ASSUME CastExact, [Next]_vars, ~CastMockNext
    PROVE  CastExact'
<1> DEFINE NoCast == "cast" \notin DOMAIN answer' /\ "refused" \notin DOMAIN answer'
<1>1. CASE SetMockNext
  <2>1. NoCast
    BY <1>1 DEF SetMockNext, SetMockAdd, SetMockRemove, SetMockContains,
       SetMockLength, SetMockAt, SetMockValues, SetUpdate, Answers
  <2> QED
    BY <2>1 DEF CastExact
<1>2. CASE MapMockNext
  <2>1. NoCast
    BY <1>2 DEF MapMockNext, MapMockSet, MapMockRemove, MapMockContains,
       MapMockLength, MapMockAt, MapMockTryGet, MapMockGet, MapUpdate, Answers,
       Reverted
  <2> QED
    BY <2>1 DEF CastExact
<1>3. ASSUME NEW key, NEW value, Pushes(key, value) PROVE NoCast
  BY <1>3 DEF Pushes, Answers, Reverted
<1>4. ASSUME NEW value, HistoryPush(value) PROVE NoCast
  <2>1. CASE Answers(Reverted)
    BY <2>1 DEF Answers, Reverted
  <2> QED
    BY <1>3, <1>4, <2>1 DEF HistoryPush
<1>5. ASSUME NEW search, Looks(search) PROVE NoCast
  BY <1>5 DEF Looks, Silence
<1>6. ASSUME CheckpointViews PROVE NoCast
  BY <1>6 DEF CheckpointViews, Answers
<1>7. ASSUME Answers(Reverted) PROVE NoCast
  BY <1>7 DEF Answers, Reverted
<1> HIDE DEF NoCast
<1>8. CASE HistoryMockNext
  <2>1. CASE MineBlock
    BY <2>1 DEF MineBlock, Silence, CastExact
  <2>2. ASSUME NEW value \in Amounts,
               HistoryPush(value) \/ PushAdd(value) \/ PushSubtract(value)
        PROVE  NoCast
    BY <1>4, <1>7, <2>2 DEF PushAdd, PushSubtract
  <2>3. ASSUME NEW number \in 0..MaxBlock,
               GetAtBlock(number) \/ GetAtProbablyRecentBlock(number)
        PROVE  NoCast
    BY <1>5, <1>7, <2>3 DEF GetAtBlock, GetAtProbablyRecentBlock
  <2> QED
    BY <1>6, <1>8, <2>1, <2>2, <2>3 DEF HistoryMockNext, NoCast, CastExact
<1>9. CASE TraceMockNext
  <2>1. NoCast
    BY <1>3, <1>5, <1>6, <1>9
    DEF TraceMockNext, TracePush, LowerLookup, UpperLookup
  <2> QED
    BY <2>1 DEF NoCast, CastExact
<1>10. CASE LookupRound
  BY <1>10 DEF LookupRound, CastExact, Holds
<1>11. CASE LookupReturns
  BY <1>11 DEF LookupReturns, CastExact
<1>12. CASE UNCHANGED vars
  BY <1>12 DEF vars, CastExact, Holds
<1> QED
  BY <1>1, <1>2, <1>8, <1>9, <1>10, <1>11, <1>12 DEF Next

\* A cast returns its argument whenever the type can hold it, and refuses it
\* only when the type cannot, for casts of any width.
THEOREM CastsStayExact == Spec => []CastExact
<1>1. Init => CastExact
  BY DEF Init, Silence, CastExact
<1>2. CastExact /\ [Next]_vars => CastExact'
  BY CastStepExact, OtherAnswers
<1> QED
  BY <1>1, <1>2, PTL DEF Spec

--------------------------------------------------------------------------------
(* The generated containers implement the dictionary, for words of any     *)
(* width: what a set or map mock returns, in any sequence of calls, is     *)
(* what a dictionary returns that has been through the same calls.         *)

\* The instance's Cardinality is the library's.
LEMMA SameCardinality == \A S : D!Cardinality(S) = Cardinality(S)
BY DEF D!Cardinality, Cardinality

\* And so is its ToSet.
LEMMA SameToSet == \A q : D!ToSet(q) = ToSet(q)
BY DEF D!ToSet, ToSet

\* Only the checkpoint mocks have a lookup's loop running.
CallFree == contract.mock \in {"set", "map", "cast"} => call = NoCall

\* The refinement mapping without the conversions, which change nothing.
EntriesKnown ==
    /\ contract.mock = "set" => Entries = [k \in Elements(set) |-> 0]
    /\ contract.mock = "map" =>
           Entries = [k \in Elements(map.keys) |-> map.values[k]]
    /\ contract.mock \notin {"set", "map"} => Entries = [k \in {} |-> 0]

\* The conversions change nothing the mocks can hold.
LEMMA EntriesAreKnown == MocksInv => EntriesKnown
<1> SUFFICES ASSUME MocksInv PROVE EntriesKnown
  OBVIOUS
<1>1. ASSUME contract.mock = "set"
      PROVE  Entries = [k \in Elements(set) |-> 0]
  <2>1. /\ contract.type \in Types
        /\ Elements(set) \subseteq ValuesOf(contract.type)
    BY <1>1, MockTypes DEF MocksInv, TypeOK
  <2>2. \A w \in Elements(set) : FromBytes32(contract.type, w) = w
    BY <2>1, Conversions
  <2>3. Decoded(contract.type, set) = Elements(set)
    BY <2>2 DEF Decoded
  <2> QED
    BY <1>1, <2>3 DEF Entries
<1>2. ASSUME contract.mock = "map"
      PROVE  Entries = [k \in Elements(map.keys) |-> map.values[k]]
  <2>1. /\ contract.keyType \in Types /\ contract.valueType \in Types
        /\ Elements(map.keys) \subseteq ValuesOf(contract.keyType)
        /\ \A w \in Word : map.values[w] \in ValuesOf(contract.valueType)
    BY <1>2, MockTypes DEF MocksInv, TypeOK
  <2>2. \A w \in Elements(map.keys) :
            /\ w \in Word /\ FromBytes32(contract.keyType, w) = w
            /\ KeyWord(w) = w
    BY <2>1, Conversions DEF KeyWord
  <2>3. Decoded(contract.keyType, map.keys) = Elements(map.keys)
    BY <2>2 DEF Decoded
  <2>4. \A w \in Elements(map.keys) :
            ValueRead(map.values[KeyWord(w)]) = map.values[w]
    BY <2>1, <2>2, Conversions DEF ValueRead
  <2>5. Entries = [k \in Decoded(contract.keyType, map.keys) |->
                       ValueRead(map.values[KeyWord(k)])]
    BY <1>2 DEF Entries
  <2> QED
    BY <2>3, <2>4, <2>5
<1>3. ASSUME contract.mock \notin {"set", "map"}
      PROVE  Entries = [k \in {} |-> 0]
  BY <1>3 DEF Entries
<1> QED
  BY <1>1, <1>2, <1>3 DEF EntriesKnown

--------------------------------------------------------------------------------

\* What one step needs of the invariant, before and after it.
StepKnown == MocksInv /\ CallFree /\ EntriesKnown /\ EntriesKnown'

\* A step of the set mock is a step of the dictionary.
LEMMA SetStep ==
    ASSUME StepKnown, SetMockNext
    PROVE  D!DictionaryNext
<1> DEFINE type == contract.type
<1>1. /\ contract.mock = "set" /\ type \in Types
      /\ SetType(set) /\ SetSound(set)
      /\ Elements(set) \subseteq ValuesOf(type)
  BY MockTypes DEF StepKnown, MocksInv, TypeOK, ContainersSound, SetMockNext
<1>2. contract' = contract
  BY DEF SetMockNext, SetMockAdd, SetMockRemove, SetMockContains, SetMockLength,
         SetMockAt, SetMockValues, SetUpdate, Answers
<1>3. /\ ContainerAnswer' = answer'
      /\ Entries = [k \in Elements(set) |-> 0]
      /\ Entries' = [k \in Elements(set') |-> 0]
      /\ D!Present = Elements(set)
  BY <1>1, <1>2 DEF StepKnown, EntriesKnown, ContainerAnswer, D!Present
<1>4. 0 \in Word /\ \A v \in ValuesOf(type) :
          v \in Word /\ ToBytes32(type, v) = v /\ FromBytes32(type, v) = v
  BY <1>1, Conversions
<1>5. /\ Len(set.values) \in Nat
      /\ D!Cardinality(Elements(set)) = Len(set.values)
  BY <1>1, LengthIsCardinality, SameCardinality DEF SetType
<1>6. ASSUME NEW v \in ValuesOf(type), SetMockAdd(v) PROVE D!Put(v, 0)
  <2>1. SetUpdate(SetAdd(set, v), ~SetContains(set, v))
    BY <1>4, <1>6 DEF SetMockAdd
  <2>2. set' = SetAdd(set, v) /\ answer' = [result |-> ~SetContains(set, v)]
    BY <2>1 DEF SetUpdate
  <2>3. Elements(set') = Elements(set) \cup {v}
    BY <1>1, <1>4, <2>2, SetAddCorrect
  <2>4. SetContains(set, v) <=> v \in Elements(set)
    BY <1>1, <1>4, ContainsIsMembership
  <2>5. answer' = [result |-> v \notin Elements(set)]
    BY <2>2, <2>4 DEF SetContains
  <2>6. Entries' = [j \in Elements(set) \cup {v} |->
                        IF j = v THEN 0 ELSE Entries[j]]
    BY <1>3, <2>3
  <2> QED
    BY <1>3, <2>5, <2>6 DEF D!Put
<1>7. ASSUME NEW v \in ValuesOf(type), SetMockRemove(v) PROVE D!Drop(v)
  <2>1. SetUpdate(SetRemove(set, v), SetContains(set, v))
    BY <1>4, <1>7 DEF SetMockRemove
  <2>2. set' = SetRemove(set, v) /\ answer' = [result |-> SetContains(set, v)]
    BY <2>1 DEF SetUpdate
  <2>3. Elements(set') = Elements(set) \ {v}
    BY <1>1, <1>4, <2>2, SetRemoveCorrect
  <2>4. SetContains(set, v) <=> v \in Elements(set)
    BY <1>1, <1>4, ContainsIsMembership
  <2>5. answer' = [result |-> v \in Elements(set)]
    BY <2>2, <2>4 DEF SetContains
  <2>6. Entries' = [j \in Elements(set) \ {v} |-> Entries[j]]
    BY <1>3, <2>3
  <2> QED
    BY <1>3, <2>5, <2>6 DEF D!Drop
<1>8. ASSUME NEW v \in ValuesOf(type), SetMockContains(v) PROVE D!Has(v)
  <2>1. answer' = [contains |-> SetContains(set, v)] /\ set' = set
    BY <1>4, <1>8 DEF SetMockContains, Answers
  <2>2. SetContains(set, v) <=> v \in Elements(set)
    BY <1>1, <1>4, ContainsIsMembership
  <2>3. answer' = [contains |-> v \in Elements(set)]
    BY <2>1, <2>2 DEF SetContains
  <2> QED
    BY <1>3, <2>1, <2>3 DEF D!Has, D!Asks
<1>9. ASSUME SetMockLength PROVE D!Count
  <2>1. answer' = [length |-> Len(set.values)] /\ set' = set
    BY <1>9 DEF SetMockLength, Answers, SetLength
  <2> QED
    BY <1>3, <1>5, <2>1 DEF D!Count, D!Asks
<1>10. ASSUME NEW i \in Word, SetMockAt(i) PROVE D!KeyAt(i) \/ D!NothingAt(i)
  <2>1. set' = set /\ i \in Nat
    BY <1>10, WordsAssumption DEF SetMockAt, Answers, Word
  <2>2. CASE i < Len(set.values)
    <3> DEFINE k == set.values[i + 1]
    <3>1. k \in Elements(set)
      BY <1>1, <1>5, <2>1, <2>2 DEF Elements, ToSet, SetType
    <3>2. answer' = [keyAt |-> k, index |-> i]
      BY <1>1, <1>4, <1>10, <2>2, <3>1 DEF SetMockAt, Answers, SetLength, SetAt
    <3>3. D!Asks([keyAt |-> k, index |-> i])
      BY <1>3, <2>1, <3>2 DEF D!Asks
    <3> QED
      BY <1>3, <1>5, <2>2, <3>1, <3>3 DEF D!KeyAt
  <2>3. CASE ~(i < Len(set.values))
    <3>1. answer' = [outOfBounds |-> i]
      BY <1>10, <2>3 DEF SetMockAt, Answers, SetLength
    <3>2. i >= Len(set.values)
      BY <1>5, <2>1, <2>3
    <3> QED
      BY <1>3, <1>5, <2>1, <3>1, <3>2 DEF D!NothingAt, D!Asks
  <2> QED
    BY <2>2, <2>3
<1>11. ASSUME SetMockValues PROVE D!List
  <2>1. answer' = [values |-> set.values] /\ set' = set
    BY <1>11 DEF SetMockValues, Answers
  <2>2. /\ DOMAIN answer' = {"values"} /\ answer'.values = set.values
        /\ ToSet(answer'.values) = Elements(set)
    BY <2>1 DEF Elements
  <2> QED
    BY <1>3, <1>5, <2>1, <2>2, SameToSet DEF D!List
<1> QED
  BY <1>1, <1>4, <1>6, <1>7, <1>8, <1>9, <1>10, <1>11
     DEF SetMockNext, D!DictionaryNext

--------------------------------------------------------------------------------

\* What the map holds for a word is zero unless the word is a key.
LEMMA KeyHeld ==
    ASSUME NEW m, MapType(m), MapSound(m), NEW key \in Word
    PROVE  /\ MapContains(m, key) <=> key \in Elements(m.keys)
           /\ m.values[key] # 0 => key \in Elements(m.keys)
BY ContainsIsMembership DEF MapType, MapSound, MapContains

\* A step of the map mock is a step of the dictionary.
LEMMA MapStep ==
    ASSUME StepKnown, MapMockNext
    PROVE  D!DictionaryNext
<1> DEFINE keys == Elements(map.keys)
<1>1. /\ contract.mock = "map"
      /\ contract.keyType \in Types /\ contract.valueType \in Types
      /\ MapType(map) /\ MapSound(map)
      /\ keys \subseteq ValuesOf(contract.keyType)
      /\ \A w \in Word : map.values[w] \in ValuesOf(contract.valueType)
  BY MockTypes DEF StepKnown, MocksInv, TypeOK, ContainersSound, MapMockNext
<1>2. contract' = contract
  BY DEF MapMockNext, MapMockSet, MapMockRemove, MapMockContains, MapMockLength,
         MapMockAt, MapMockTryGet, MapMockGet, MapUpdate, Answers
<1>3. /\ ContainerAnswer' = answer'
      /\ Entries = [k \in keys |-> map.values[k]]
      /\ Entries' = [k \in Elements(map.keys)' |-> map.values'[k]]
      /\ D!Present = keys
  BY <1>1, <1>2 DEF StepKnown, EntriesKnown, ContainerAnswer, D!Present
<1>4. /\ \A k \in ValuesOf(contract.keyType) :
             /\ k \in Word /\ KeyWord(k) = k
             /\ FromBytes32(contract.keyType, k) = k
      /\ \A v \in ValuesOf(contract.valueType) :
             /\ v \in Word /\ ToBytes32(contract.valueType, v) = v
             /\ ValueRead(v) = v
  BY <1>1, Conversions DEF KeyWord, ValueRead
<1>5. /\ SetType(map.keys) /\ SetSound(map.keys) /\ Len(map.keys.values) \in Nat
      /\ D!Cardinality(keys) = Len(map.keys.values)
  <2>1. SetType(map.keys) /\ SetSound(map.keys)
    BY <1>1 DEF MapType, MapSound
  <2>2. Len(map.keys.values) \in Nat
    BY <2>1 DEF SetType
  <2> QED
    BY <2>1, <2>2, LengthIsCardinality, SameCardinality
<1>6. \A w \in Word : map.values[w] \in Word /\ ValueRead(map.values[w]) = map.values[w]
  BY <1>1, <1>4
<1>7. ASSUME NEW k \in ValuesOf(contract.keyType),
             NEW v \in ValuesOf(contract.valueType), MapMockSet(k, v)
      PROVE  D!Put(k, v)
  <2>1. MapUpdate(MapSet(map, k, v), ~MapContains(map, k))
    BY <1>4, <1>7 DEF MapMockSet
  <2>2. map' = MapSet(map, k, v) /\ answer' = [result |-> ~MapContains(map, k)]
    BY <2>1 DEF MapUpdate
  <2>3. Elements(map.keys)' = keys \cup {k}
    BY <1>1, <1>4, <2>2, MapSetCorrect
  <2>4. answer' = [result |-> k \notin keys]
    BY <1>1, <1>4, <2>2, KeyHeld DEF MapContains, SetContains
  <2>5. /\ map.values \in [Word -> Word]
        /\ map'.values = [map.values EXCEPT ![k] = v]
        /\ k \in Word /\ keys \subseteq Word
    BY <1>1, <1>4, <2>2 DEF MapSet, MapType
  <2>6. \A j \in keys \cup {k} :
            map.values'[j] = IF j = k THEN v ELSE map.values[j]
    BY <2>5
  <2>7. Entries' = [j \in keys \cup {k} |-> IF j = k THEN v ELSE Entries[j]]
    BY <1>3, <2>3, <2>6
  <2> QED
    BY <1>3, <2>4, <2>7 DEF D!Put
<1>8. ASSUME NEW k \in ValuesOf(contract.keyType), MapMockRemove(k)
      PROVE  D!Drop(k)
  <2>1. MapUpdate(MapRemove(map, k), MapContains(map, k))
    BY <1>4, <1>8 DEF MapMockRemove
  <2>2. map' = MapRemove(map, k) /\ answer' = [result |-> MapContains(map, k)]
    BY <2>1 DEF MapUpdate
  <2>3. Elements(map.keys)' = keys \ {k}
    BY <1>1, <1>4, <2>2, MapRemoveCorrect
  <2>4. answer' = [result |-> k \in keys]
    BY <1>1, <1>4, <2>2, KeyHeld DEF MapContains, SetContains
  <2>5. /\ map.values \in [Word -> Word]
        /\ map'.values = [map.values EXCEPT ![k] = 0]
        /\ k \in Word /\ keys \subseteq Word
    BY <1>1, <1>4, <2>2 DEF MapRemove, MapType
  <2>6. \A j \in keys \ {k} : map.values'[j] = map.values[j]
    BY <2>5
  <2>7. Entries' = [j \in keys \ {k} |-> Entries[j]]
    BY <1>3, <2>3, <2>6
  <2> QED
    BY <1>3, <2>4, <2>7 DEF D!Drop
<1>9. ASSUME NEW k \in ValuesOf(contract.keyType), MapMockContains(k)
      PROVE  D!Has(k)
  <2>1. answer' = [contains |-> MapContains(map, k)] /\ map' = map
    BY <1>4, <1>9 DEF MapMockContains, Answers
  <2>2. answer' = [contains |-> k \in keys]
    BY <1>1, <1>4, <2>1, KeyHeld DEF MapContains, SetContains
  <2> QED
    BY <1>3, <2>1, <2>2 DEF D!Has, D!Asks
<1>10. ASSUME MapMockLength PROVE D!Count
  <2>1. answer' = [length |-> Len(map.keys.values)] /\ map' = map
    BY <1>10 DEF MapMockLength, Answers, MapLength, SetLength
  <2> QED
    BY <1>3, <1>5, <2>1 DEF D!Count, D!Asks
<1>11. ASSUME NEW i \in Word, MapMockAt(i) PROVE D!EntryAt(i) \/ D!NothingAt(i)
  <2> DEFINE k == map.keys.values[i + 1]
  <2>1. map' = map /\ i \in Nat
    BY <1>11, WordsAssumption DEF MapMockAt, Answers, Word
  <2>2. CASE i < Len(map.keys.values)
    <3>1. k \in keys
      BY <1>5, <2>1, <2>2 DEF Elements, ToSet, SetType
    <3>2. MapAt(map, i) = <<k, map.values[k]>>
      BY DEF MapAt, SetAt
    <3>3. FromBytes32(contract.keyType, k) = k /\ ValueRead(map.values[k]) = map.values[k]
      BY <1>1, <1>4, <1>6, <3>1
    <3>4. answer' = [entryAt |-> <<k, map.values[k]>>, index |-> i]
      BY <1>11, <2>2, <3>2, <3>3 DEF MapMockAt, Answers, MapLength, SetLength
    <3>5. D!Asks([entryAt |-> <<k, Entries[k]>>, index |-> i])
      BY <1>3, <2>1, <3>1, <3>4 DEF D!Asks
    <3> QED
      BY <1>3, <1>5, <2>2, <3>1, <3>5 DEF D!EntryAt
  <2>3. CASE ~(i < Len(map.keys.values))
    <3>1. answer' = [outOfBounds |-> i]
      BY <1>11, <2>3 DEF MapMockAt, Answers, MapLength, SetLength
    <3>2. i >= Len(map.keys.values)
      BY <1>5, <2>1, <2>3
    <3> QED
      BY <1>3, <1>5, <2>1, <3>1, <3>2 DEF D!NothingAt, D!Asks
  <2> QED
    BY <2>2, <2>3
<1>12. ASSUME NEW k \in ValuesOf(contract.keyType), MapMockTryGet(k)
       PROVE  D!TryGet(k)
  <2>1. /\ map' = map
        /\ answer' = [tryGet |-> <<MapTryGet(map, k)[1],
                                   ValueRead(MapTryGet(map, k)[2])>>]
    BY <1>4, <1>12 DEF MapMockTryGet, Answers
  <2>2. CASE k \in keys
    <3>1. MapContains(map, k) = TRUE /\ Entries[k] = map.values[k]
      BY <1>1, <1>3, <1>4, <2>2, KeyHeld DEF MapContains, SetContains
    <3>2. MapTryGet(map, k) = <<TRUE, map.values[k]>>
      BY <3>1 DEF MapTryGet
    <3>3. MapTryGet(map, k)[1] = TRUE
          /\ ValueRead(MapTryGet(map, k)[2]) = map.values[k]
      BY <1>4, <1>6, <3>2
    <3>4. answer' = [tryGet |-> <<TRUE, Entries[k]>>]
      BY <2>1, <3>1, <3>3
    <3>5. D!Asks([tryGet |-> <<TRUE, Entries[k]>>])
      BY <1>3, <2>1, <3>4 DEF D!Asks
    <3> QED
      BY <1>3, <2>2, <3>5 DEF D!TryGet
  <2>3. CASE k \notin keys
    <3>1. MapContains(map, k) = FALSE /\ map.values[k] = 0
      BY <1>1, <1>4, <2>3, KeyHeld DEF MapContains, SetContains
    <3>2. MapTryGet(map, k) = <<FALSE, 0>> /\ ValueRead(0) = 0
      BY <1>4, <1>6, <3>1 DEF MapTryGet
    <3>3. MapTryGet(map, k)[1] = FALSE /\ ValueRead(MapTryGet(map, k)[2]) = 0
      BY <3>2
    <3>4. answer' = [tryGet |-> <<FALSE, 0>>]
      BY <2>1, <3>3
    <3>5. D!Asks([tryGet |-> <<FALSE, 0>>])
      BY <1>3, <2>1, <3>4 DEF D!Asks
    <3> QED
      BY <1>3, <2>3, <3>5 DEF D!TryGet
  <2> QED
    BY <2>2, <2>3
<1>13. ASSUME NEW k \in ValuesOf(contract.keyType), MapMockGet(k)
       PROVE  D!Get(k)
  <2>1. map' = map
    BY <1>13 DEF MapMockGet, Answers
  <2>2. MapGettable(map, k) <=> k \in keys
    BY <1>1, <1>4, KeyHeld DEF MapGettable
  <2>3. CASE k \in keys
    <3>1. answer' = [get |-> Entries[k]]
      BY <1>3, <1>4, <1>6, <1>13, <2>2, <2>3 DEF MapMockGet, MapGet, Answers
    <3> QED
      BY <1>3, <2>1, <2>3, <3>1 DEF D!Get, D!Asks
  <2>4. CASE k \notin keys
    <3>1. answer' = Reverted
      BY <1>4, <1>13, <2>2, <2>4 DEF MapMockGet, Answers
    <3> QED
      BY <1>3, <2>1, <2>4, <3>1 DEF D!Get, D!Asks
  <2> QED
    BY <2>3, <2>4
<1> QED
  BY <1>1, <1>4, <1>7, <1>8, <1>9, <1>10, <1>11, <1>12, <1>13
     DEF MapMockNext, D!DictionaryNext

--------------------------------------------------------------------------------

\* What happens to another mock, and within a lookup, is none of the
\* dictionary's business.
LEMMA OtherStep ==
    ASSUME StepKnown, contract' = contract, contract.mock \notin {"set", "map"}
    PROVE  UNCHANGED D!dictionaryVars
<1>1. Entries' = Entries
  BY DEF StepKnown, EntriesKnown
<1>2. ContainerAnswer' = ContainerAnswer
  BY DEF ContainerAnswer
<1> QED
  BY <1>1, <1>2 DEF D!dictionaryVars

\* Every step of a mock is a step of the dictionary, or leaves it as it is.
LEMMA RefinementStep ==
    ASSUME StepKnown, [Next]_vars
    PROVE  [D!DictionaryNext]_(D!dictionaryVars)
<1>1. CASE SetMockNext \/ MapMockNext
  BY <1>1, SetStep, MapStep
<1>2. CASE LookupRound \/ LookupReturns
  <2>1. contract' = contract /\ call # NoCall
    BY <1>2 DEF LookupRound, LookupReturns
  <2>2. contract.mock \notin {"set", "map"}
    BY <2>1 DEF StepKnown, CallFree
  <2> QED
    BY <2>1, <2>2, OtherStep
<1>3. CASE HistoryMockNext \/ TraceMockNext \/ CastMockNext
  <2>1. contract' = contract
    BY <1>3 DEF HistoryMockNext, TraceMockNext, CastMockNext, MineBlock,
       HistoryPush, PushAdd, PushSubtract, Pushes, GetAtBlock,
       GetAtProbablyRecentBlock, CheckpointViews, TracePush, LowerLookup,
       UpperLookup, Looks, CastUint, CastInt, CastUnsigned, CastSigned, Casts,
       Answers
  <2>2. contract.mock \notin {"set", "map"}
    BY <1>3 DEF HistoryMockNext, TraceMockNext, CastMockNext
  <2> QED
    BY <2>1, <2>2, OtherStep
<1>4. CASE UNCHANGED vars
  <2>1. UNCHANGED <<contract, set, map, answer>>
    BY <1>4 DEF vars
  <2>2. Entries' = Entries
    BY <2>1 DEF Entries, Decoded, KeyWord, ValueRead
  <2>3. ContainerAnswer' = ContainerAnswer
    BY <2>1 DEF ContainerAnswer
  <2> QED
    BY <2>2, <2>3 DEF D!dictionaryVars
<1> QED
  BY <1>1, <1>2, <1>3, <1>4 DEF Next

\* No step of a container mock starts a loop.
LEMMA CallFreeStep ==
    ASSUME CallFree, [Next]_vars
    PROVE  CallFree'
<1>1. CASE SetMockNext
  BY <1>1 DEF CallFree, SetMockNext, SetMockAdd, SetMockRemove, SetMockContains,
     SetMockLength, SetMockAt, SetMockValues, SetUpdate, Answers
<1>2. CASE MapMockNext
  BY <1>2 DEF CallFree, MapMockNext, MapMockSet, MapMockRemove, MapMockContains,
     MapMockLength, MapMockAt, MapMockTryGet, MapMockGet, MapUpdate, Answers
<1>3. CASE HistoryMockNext \/ TraceMockNext
  <2>1. contract' = contract
    BY <1>3 DEF HistoryMockNext, TraceMockNext, MineBlock, HistoryPush, PushAdd,
       PushSubtract, Pushes, GetAtBlock, GetAtProbablyRecentBlock,
       CheckpointViews, TracePush, LowerLookup, UpperLookup, Looks, Answers
  <2>2. contract.mock \notin {"set", "map", "cast"}
    BY <1>3 DEF HistoryMockNext, TraceMockNext
  <2> QED
    BY <2>1, <2>2 DEF CallFree
<1>4. CASE CastMockNext
  BY <1>4 DEF CallFree, CastMockNext, CastUint, CastInt, CastUnsigned,
     CastSigned, Casts, Answers
<1>5. CASE LookupRound \/ LookupReturns
  BY <1>5 DEF CallFree, LookupRound, LookupReturns
<1>6. CASE UNCHANGED vars
  BY <1>6 DEF CallFree, vars
<1> QED
  BY <1>1, <1>2, <1>3, <1>4, <1>5, <1>6 DEF Next

\* Whatever the set and map mocks return is what a dictionary returns: the
\* words, indexes and swaps the containers are made of never show.
THEOREM ContainersAreDictionaries == Spec => ImplementsDictionary
<1>1. Init => CallFree
  BY DEF Init, CallFree
<1>2. CallFree /\ [Next]_vars => CallFree'
  BY CallFreeStep
<1>3. Spec => [](MocksInv /\ CallFree)
  BY <1>1, <1>2, Invariance, PTL DEF Spec
<1>4. ASSUME Init PROVE D!DictionaryInit
  <2>1. EntriesKnown /\ Elements(set) = {} /\ Elements(map.keys) = {}
    BY <1>4, InitInv, EntriesAreKnown
       DEF Init, EmptyMap, EmptySet, Elements, ToSet
  <2>2. Entries = [k \in {} |-> 0]
    BY <2>1 DEF EntriesKnown
  <2>3. ContainerAnswer = Silence
    BY <1>4 DEF Init, ContainerAnswer
  <2> QED
    BY <2>2, <2>3 DEF D!DictionaryInit
<1>5. MocksInv /\ CallFree /\ EntriesKnown /\ EntriesKnown' /\ [Next]_vars
          => [D!DictionaryNext]_(D!dictionaryVars)
  BY RefinementStep DEF StepKnown
<1> QED
  BY <1>3, <1>4, <1>5, EntriesAreKnown, PTL
     DEF Spec, ImplementsDictionary, D!DictionarySpec

--------------------------------------------------------------------------------
(* The migration script: what it makes of a text, and what its runs leave. *)

\* The rows of the table of paths.
Rows == ToSet(pathUpdates)

\* The table: it has the rows Rows, in their order.
LEMMA TableRows ==
    /\ Len(pathUpdates) \in Nat
    /\ \A i \in 1..Len(pathUpdates) : pathUpdates[i] \in Rows
    /\ \A u \in Rows : \E i \in 1..Len(pathUpdates) : pathUpdates[i] = u
<1>1. Len(pathUpdates) \in Nat /\ DOMAIN pathUpdates = 1..Len(pathUpdates)
  BY PathUpdatesAssumption
<1>2. Rows = {pathUpdates[i] : i \in DOMAIN pathUpdates}
  BY DEF Rows, ToSet
<1> QED
  BY <1>1, <1>2

\* What the script relies on in its table: an old path has one new path, and
\* no new path is an old one.
LEMMA TableSound ==
    /\ \A u \in Rows : u.old \in ImportPaths /\ u.new \in ImportPaths
    /\ \A u, v \in Rows : u.old = v.old => u = v
    /\ \A u, v \in Rows : u.new # v.old
<1>1. ASSUME NEW u \in Rows PROVE u.old \in ImportPaths /\ u.new \in ImportPaths
  <2>1. PICK i \in 1..Len(pathUpdates) : pathUpdates[i] = u
    BY TableRows
  <2>2. pathUpdates[i] \in [old : ImportPaths, new : ImportPaths]
    <3> DEFINE R == [old : ImportPaths, new : ImportPaths]
    <3>1. pathUpdates \in Seq(R)
      BY PathUpdatesAssumption
    <3> HIDE DEF R
    <3>2. pathUpdates[i] \in R
      BY <3>1
    <3> QED
      BY <3>2 DEF R
  <2> QED
    BY <2>1, <2>2
<1>2. /\ \A u, v \in Rows : u.old = v.old => u = v
      /\ \A u, v \in Rows : u.new # v.old
  BY PathUpdatesAssumption DEF Rows
<1> QED
  BY <1>1, <1>2

--------------------------------------------------------------------------------

\* One place of a text that has been worked on, of which the end may be lost:
\* its import is the one that was there, or what the table makes of that one.
KeptImport(m, o) == m = o \/ (Outdated(o) /\ m = Updated(o))

Kept(s, o) ==
    /\ s \in Seq(Imports) /\ o \in Seq(Imports) /\ Len(s) <= Len(o)
    /\ \A i \in 1..Len(s) : KeptImport(s[i], o[i])

\* Import m is left in a text only if it was there more than once.
Done(s, o, m) ==
    (\E i \in 1..Len(s) : s[i] = m) => Cardinality(Places(o, m)) > 1

Import(path, b) == [path |-> path, upgradeable |-> b]

\* What the table makes of an old path's import: it is not an old one again.
LEMMA UpdatedKnown ==
    ASSUME NEW u \in Rows, NEW b \in BOOLEAN
    PROVE  /\ Outdated(Import(u.old, b))
           /\ Updated(Import(u.old, b)) = Import(u.new, b)
           /\ ~Outdated(Import(u.new, b))
           /\ Import(u.new, b) \in Imports
<1>1. u \in ToSet(pathUpdates) /\ \A v \in ToSet(pathUpdates) : v \in Rows
  BY DEF Rows
<1>2. Outdated(Import(u.old, b))
  BY <1>1 DEF Outdated, Import
<1>3. ~Outdated(Import(u.new, b))
  BY <1>1, TableSound DEF Outdated, Import
<1>4. Import(u.new, b) \in Imports
  BY TableSound DEF Imports, Import
<1>5. Updated(Import(u.old, b)) = Import(u.new, b)
  <2> DEFINE Fits(v) == v.old = Import(u.old, b).path
             v == CHOOSE v \in ToSet(pathUpdates) : Fits(v)
  <2>1. Updated(Import(u.old, b)) = [Import(u.old, b) EXCEPT !.path = v.new]
    BY DEF Updated
  <2>2. Fits(u)
    BY DEF Import
  <2>3. v \in ToSet(pathUpdates) /\ Fits(v)
    <3> HIDE DEF Fits
    <3> QED
      BY <1>1, <2>2
  <2>4. v.old = u.old
    BY <2>3 DEF Import
  <2> HIDE DEF v
  <2>5. v = u
    BY <1>1, <2>3, <2>4, TableSound
  <2> QED
    BY <2>1, <2>5 DEF Import
<1> QED
  BY <1>2, <1>3, <1>4, <1>5

\* Every outdated import is some row's old path in one of the packages.
LEMMA OutdatedKnown ==
    ASSUME NEW m \in Imports, Outdated(m)
    PROVE  \E u \in Rows, b \in BOOLEAN : m = Import(u.old, b)
<1>1. PICK u \in Rows : u.old = m.path
  BY DEF Outdated, Rows
<1>2. m = [path |-> m.path, upgradeable |-> m.upgradeable]
      /\ m.upgradeable \in BOOLEAN
  BY DEF Imports
<1> QED
  BY <1>1, <1>2 DEF Import

\* An outdated import in a text that has been worked on was there before.
LEMMA OutdatedWasThere ==
    ASSUME NEW m \in Imports, NEW o \in Imports, KeptImport(m, o), Outdated(m)
    PROVE  o = m
<1>1. SUFFICES ASSUME Outdated(o), m = Updated(o) PROVE FALSE
  BY DEF KeptImport
<1>2. PICK u \in Rows, b \in BOOLEAN : o = Import(u.old, b)
  BY <1>1, OutdatedKnown
<1> QED
  BY <1>1, <1>2, UpdatedKnown

--------------------------------------------------------------------------------

\* One call of replace.
LEMMA ReplaceFirstKnown ==
    ASSUME NEW s \in Seq(Imports), NEW from, NEW to \in Imports,
           NEW r, r = ReplaceFirst(s, from, to)
    PROVE  /\ r \in Seq(Imports) /\ Len(r) = Len(s)
           /\ \/ r = s /\ \A i \in 1..Len(s) : s[i] # from
              \/ \E k \in 1..Len(s) :
                     /\ s[k] = from /\ r[k] = to
                     /\ \A i \in 1..Len(s) \ {k} : r[i] = s[i]
<1> DEFINE found == {i \in 1..Len(s) : s[i] = from}
           k == CHOOSE i \in found : \A j \in found : i <= j
<1>1. r = IF found = {} THEN s ELSE [s EXCEPT ![k] = to]
  BY DEF ReplaceFirst
<1>2. CASE found = {}
  BY <1>1, <1>2
<1>3. CASE found # {}
  <2>1. found \in SUBSET Nat
    OBVIOUS
  <2>2. \E i \in found : \A j \in found : i <= j
    <3> HIDE DEF found
    <3>1. PICK i \in found : \A j \in found : ~ (j < i)
      BY <1>3, <2>1, SmallestOf
    <3> QED
      BY <2>1, <3>1
  <2>3. k \in found
    <3> HIDE DEF found
    <3> QED
      BY <2>2
  <2>4. k \in 1..Len(s) /\ s[k] = from
    BY <2>3
  <2>5. r = [s EXCEPT ![k] = to]
    BY <1>1, <1>3
  <2> HIDE DEF k, found
  <2>6. r \in Seq(Imports) /\ Len(r) = Len(s)
    BY <2>4, <2>5
  <2>7. r[k] = to /\ \A i \in 1..Len(s) \ {k} : r[i] = s[i]
    BY <2>4, <2>5
  <2> QED
    BY <2>4, <2>6, <2>7
<1> QED
  BY <1>2, <1>3

\* One call of replace with a row of the table: the text stays kept, what was
\* done stays done, and the row's import is done.
LEMMA ReplaceFirstKeeps ==
    ASSUME NEW s, NEW o, Kept(s, o), NEW u \in Rows, NEW b \in BOOLEAN,
           NEW r, r = ReplaceFirst(s, Import(u.old, b), Import(u.new, b))
    PROVE  /\ Kept(r, o) /\ Len(r) = Len(s)
           /\ Done(r, o, Import(u.old, b))
           /\ \A v \in Rows, c \in BOOLEAN :
                  Done(s, o, Import(v.old, c)) => Done(r, o, Import(v.old, c))
<1> DEFINE from == Import(u.old, b)
           to == Import(u.new, b)
<1>1. /\ Outdated(from) /\ Updated(from) = to /\ ~Outdated(to) /\ to \in Imports
  BY UpdatedKnown
<1>2. /\ s \in Seq(Imports) /\ o \in Seq(Imports) /\ Len(s) <= Len(o)
      /\ \A i \in 1..Len(s) : KeptImport(s[i], o[i])
  BY DEF Kept
<1>3. \A i \in 1..Len(s) : s[i] \in Imports /\ o[i] \in Imports /\ i \in 1..Len(o)
  BY <1>2
<1>4. r = ReplaceFirst(s, from, to)
  OBVIOUS
<1>5. \A v \in Rows, c \in BOOLEAN : to # Import(v.old, c)
  BY <1>1, UpdatedKnown
<1> HIDE DEF from, to
<1>6. CASE r = s /\ \A i \in 1..Len(s) : s[i] # from
  <2>1. Done(r, o, from)
    BY <1>6 DEF Done
  <2> QED
    BY <1>6, <2>1 DEF from
<1>7. CASE \E k \in 1..Len(s) :
               /\ s[k] = from /\ r[k] = to
               /\ \A i \in 1..Len(s) \ {k} : r[i] = s[i]
  <2>1. PICK k \in 1..Len(s) :
            /\ s[k] = from /\ r[k] = to
            /\ \A i \in 1..Len(s) \ {k} : r[i] = s[i]
    BY <1>7
  <2>2. r \in Seq(Imports) /\ Len(r) = Len(s)
    BY <1>1, <1>2, <1>4, ReplaceFirstKnown
  <2>3. o[k] = from
    BY <1>1, <1>2, <1>3, <2>1, OutdatedWasThere
  <2>4. Kept(r, o)
    <3>1. KeptImport(r[k], o[k])
      BY <1>1, <2>1, <2>3 DEF KeptImport
    <3> QED
      BY <1>2, <2>1, <2>2, <3>1 DEF Kept
  <2>5. Done(r, o, from)
    <3> SUFFICES ASSUME NEW i \in 1..Len(r), r[i] = from
                 PROVE  Cardinality(Places(o, from)) > 1
      BY DEF Done
    <3>1. from # to
      BY <1>1
    <3>2. i # k /\ i \in 1..Len(s) /\ s[i] = from
      BY <1>2, <2>1, <2>2, <3>1
    <3>3. o[i] = from
      BY <1>1, <1>2, <1>3, <3>2, OutdatedWasThere
    <3>4. {i, k} \subseteq Places(o, from)
      BY <1>3, <2>1, <2>3, <3>2, <3>3 DEF Places
    <3>5. IsFiniteSet(Places(o, from))
      <4>1. IsFiniteSet(1..Len(o)) /\ Places(o, from) \subseteq 1..Len(o)
        BY <1>2, FS_Interval DEF Places
      <4> QED
        BY <4>1, FS_Subset
    <3>6. Cardinality({i, k}) <= Cardinality(Places(o, from))
          /\ Cardinality(Places(o, from)) \in Nat
      BY <3>4, <3>5, FS_Subset, FS_CardinalityType
    <3>7. Cardinality({i, k}) = 2
      <4>1. IsFiniteSet({k}) /\ Cardinality({k}) = 1
        BY FS_Singleton
      <4>2. i \notin {k} /\ {k} \cup {i} = {i, k}
        BY <3>2
      <4>3. Cardinality({k} \cup {i}) = Cardinality({k}) + 1
        BY <4>1, <4>2, FS_AddElement
      <4>4. Cardinality({i, k}) = Cardinality({k}) + 1
        BY <4>2, <4>3, Zenon
      <4>5. 1 + 1 = 2
        OBVIOUS
      <4> QED
        BY <4>1, <4>4, <4>5, Zenon
    <3> QED
      BY <3>6, <3>7
  <2>6. ASSUME NEW v \in Rows, NEW c \in BOOLEAN, Done(s, o, Import(v.old, c))
        PROVE  Done(r, o, Import(v.old, c))
    <3>1. \A i \in 1..Len(r) : r[i] = Import(v.old, c) => s[i] = Import(v.old, c)
      BY <1>5, <2>1, <2>2
    <3> QED
      BY <2>2, <2>6, <3>1 DEF Done
  <2> QED
    BY <2>2, <2>4, <2>5, <2>6 DEF from
<1>8. \/ r = s /\ \A i \in 1..Len(s) : s[i] # from
      \/ \E k \in 1..Len(s) :
             /\ s[k] = from /\ r[k] = to
             /\ \A i \in 1..Len(s) \ {k} : r[i] = s[i]
  BY <1>1, <1>2, <1>4, ReplaceFirstKnown
<1> QED
  BY <1>6, <1>7, <1>8, Zenon

--------------------------------------------------------------------------------
(* The loop over the table.                                                *)

\* f holds the text after each of the first n rounds.
Rounds(source, n, f) ==
    f = [i \in 0..n |-> IF i = 0 THEN source
                        ELSE UpdatePath(pathUpdates[i])[f[i - 1]]]

\* The rounds can be made.
LEMMA RoundsExist ==
    ASSUME NEW source, NEW n \in Nat
    PROVE  \E f : Rounds(source, n, f)
<1> DEFINE S == {m \in Nat : ~ \E f : Rounds(source, m, f)}
<1>1. SUFFICES ASSUME S # {} PROVE FALSE
  OBVIOUS
<1>2. PICK m \in S : \A l \in S : ~ (l < m)
  <2>1. S \in SUBSET Nat
    OBVIOUS
  <2> HIDE DEF S
  <2> QED
    BY <1>1, <2>1, SmallestOf
<1>3. m \in Nat /\ ~ \E f : Rounds(source, m, f)
  OBVIOUS
<1>4. CASE m = 0
  <2>1. Rounds(source, 0, [i \in 0..0 |-> source])
    BY DEF Rounds
  <2> QED
    BY <1>3, <1>4, <2>1
<1>5. CASE m # 0
  <2>1. m - 1 \in Nat /\ m - 1 < m
    BY <1>3, <1>5
  <2>2. ~ (m - 1 \in S)
    BY <1>2, <2>1
  <2>3. PICK f : Rounds(source, m - 1, f)
    BY <2>1, <2>2
  <2> DEFINE last == UpdatePath(pathUpdates[m])[f[m - 1]]
             g == [i \in 0..m |-> IF i = m THEN last ELSE f[i]]
  <2>4. ASSUME NEW i \in 0..m
        PROVE  g[i] = IF i = 0 THEN source ELSE UpdatePath(pathUpdates[i])[g[i - 1]]
    <3>1. f = [j \in 0..(m - 1) |-> IF j = 0 THEN source
                                    ELSE UpdatePath(pathUpdates[j])[f[j - 1]]]
      BY <2>3 DEF Rounds
    <3>2. CASE i = m
      <4>1. g[i] = last /\ i - 1 \in 0..m /\ i - 1 # m /\ i # 0
        BY <3>2, <1>3, <1>5
      <4>2. g[i - 1] = f[m - 1]
        BY <3>2, <4>1
      <4> QED
        BY <3>2, <4>1, <4>2
    <3>3. CASE i # m
      <4>1. i \in 0..(m - 1) /\ i - 1 # m
        BY <3>3, <1>3, <1>5
      <4>2. f[i] = IF i = 0 THEN source ELSE UpdatePath(pathUpdates[i])[f[i - 1]]
        BY <3>1, <4>1
      <4>3. i # 0 => i - 1 \in 0..m
        BY <4>1, <1>3
      <4>4. g[i] = f[i] /\ (i # 0 => g[i - 1] = f[i - 1])
        BY <3>3, <4>1, <4>3
      <4> QED
        BY <4>2, <4>4
    <3> QED
      BY <3>2, <3>3
  <2>5. Rounds(source, m, g)
    <3>1. g = [i \in 0..m |-> g[i]]
      OBVIOUS
    <3> HIDE DEF g
    <3> QED
      BY <2>4, <3>1 DEF Rounds
  <2> QED
    BY <1>3, <2>5
<1> QED
  BY <1>4, <1>5

\* One round keeps the text, and does its row's import in both packages.
LEMMA UpdatePathKeeps ==
    ASSUME NEW s, NEW o, Kept(s, o), NEW u \in Rows
    PROVE  /\ Kept(UpdatePath(u)[s], o) /\ Len(UpdatePath(u)[s]) = Len(s)
           /\ \A b \in BOOLEAN : Done(UpdatePath(u)[s], o, Import(u.old, b))
           /\ \A v \in Rows, b \in BOOLEAN :
                  Done(s, o, Import(v.old, b)) =>
                      Done(UpdatePath(u)[s], o, Import(v.old, b))
<1> DEFINE no == FALSE
           yes == TRUE
           p == ReplaceFirst(s, Import(u.old, no), Import(u.new, no))
           q == ReplaceFirst(p, Import(u.old, yes), Import(u.new, yes))
<1>1. UpdatePath(u)[s] = q
  <2>1. s \in Seq(Imports) /\ u \in ToSet(pathUpdates)
    BY DEF Kept, Rows
  <2> QED
    BY <2>1 DEF UpdatePath, Plain, Upgradeable, Import
<1>2. no \in BOOLEAN /\ yes \in BOOLEAN /\ \A b \in BOOLEAN : b = no \/ b = yes
  OBVIOUS
<1> HIDE DEF no, yes
<1>3. /\ Kept(p, o) /\ Len(p) = Len(s) /\ Done(p, o, Import(u.old, no))
      /\ \A v \in Rows, c \in BOOLEAN :
             Done(s, o, Import(v.old, c)) => Done(p, o, Import(v.old, c))
  BY <1>2, ReplaceFirstKeeps
<1> HIDE DEF p
<1>4. /\ Kept(q, o) /\ Len(q) = Len(p) /\ Done(q, o, Import(u.old, yes))
      /\ \A v \in Rows, c \in BOOLEAN :
             Done(p, o, Import(v.old, c)) => Done(q, o, Import(v.old, c))
  BY <1>2, <1>3, ReplaceFirstKeeps
<1> HIDE DEF q
<1> QED
  BY <1>1, <1>2, <1>3, <1>4

\* Updating a text keeps each of its imports in its place, and leaves an old
\* path only where it was there more than once.
THEOREM UpdateImportPathsKeeps ==
    ASSUME NEW s, NEW o, Kept(s, o)
    PROVE  /\ Kept(updateImportPaths(s), o)
           /\ Len(updateImportPaths(s)) = Len(s)
           /\ \A m \in Imports : Outdated(m) => Done(updateImportPaths(s), o, m)
<1> DEFINE n == Len(pathUpdates)
           after == CHOOSE f : Rounds(s, n, f)
<1>1. n \in Nat
  BY TableRows
<1>2. Rounds(s, n, after)
  <2>1. \E f : Rounds(s, n, f)
    BY <1>1, RoundsExist
  <2> QED
    BY <2>1
<1>3. updateImportPaths(s) = after[n]
  BY DEF updateImportPaths, Rounds
<1> HIDE DEF after
<1>4. \A i \in 0..n : after[i] = IF i = 0 THEN s
                                 ELSE UpdatePath(pathUpdates[i])[after[i - 1]]
  BY <1>2 DEF Rounds
<1>5. \A i \in 1..n : pathUpdates[i] \in Rows
  BY TableRows
<1> DEFINE DoneTo(i) ==
               \A j \in 1..i, b \in BOOLEAN :
                   Done(after[i], o, Import(pathUpdates[j].old, b))
           Sound(i) == Kept(after[i], o) /\ Len(after[i]) = Len(s) /\ DoneTo(i)
           S == {i \in 0..n : ~ Sound(i)}
<1>6. S = {}
  <2>1. SUFFICES ASSUME S # {} PROVE FALSE
    OBVIOUS
  <2>2. PICK i \in S : \A j \in S : ~ (j < i)
    <3>1. S \in SUBSET Nat
      BY <1>1
    <3> HIDE DEF S
    <3> QED
      BY <2>1, <3>1, SmallestOf
  <2>3. i \in 0..n /\ ~ Sound(i)
    OBVIOUS
  <2> HIDE DEF n
  <2>4. CASE i = 0
    <3>1. after[0] = s
      BY <1>1, <1>4
    <3> QED
      BY <2>3, <2>4, <3>1
  <2>5. CASE i # 0
    <3>1. i - 1 \in 0..n /\ i - 1 < i /\ i \in 1..n
      BY <1>1, <2>3, <2>5
    <3>2. Sound(i - 1)
      BY <2>2, <3>1
    <3>3. after[i] = UpdatePath(pathUpdates[i])[after[i - 1]]
      BY <1>4, <2>3, <2>5
    <3>4. pathUpdates[i] \in Rows
      BY <1>5, <3>1
    <3>5. /\ Kept(after[i], o) /\ Len(after[i]) = Len(s)
          /\ \A b \in BOOLEAN : Done(after[i], o, Import(pathUpdates[i].old, b))
          /\ \A v \in Rows, b \in BOOLEAN :
                 Done(after[i - 1], o, Import(v.old, b)) =>
                     Done(after[i], o, Import(v.old, b))
      BY <3>2, <3>3, <3>4, UpdatePathKeeps
    <3>6. ASSUME NEW j \in 1..i, NEW b \in BOOLEAN
          PROVE  Done(after[i], o, Import(pathUpdates[j].old, b))
      <4>1. CASE j = i
        BY <3>5, <4>1
      <4>2. CASE j # i
        <5>1. j \in 1..(i - 1) /\ j \in 1..n
          BY <1>1, <2>3, <4>2
        <5>2. Done(after[i - 1], o, Import(pathUpdates[j].old, b))
          BY <3>2, <5>1
        <5>3. pathUpdates[j] \in Rows
          BY <1>5, <5>1
        <5> QED
          BY <3>5, <5>2, <5>3
      <4> QED
        BY <4>1, <4>2
    <3> QED
      BY <2>3, <3>5, <3>6
  <2> QED
    BY <2>4, <2>5
<1>7. Sound(n)
  <2>1. n \in 0..n
    BY <1>1
  <2> HIDE DEF n
  <2> QED
    BY <1>6, <2>1
<1>8. ASSUME NEW m \in Imports, Outdated(m) PROVE Done(after[n], o, m)
  <2>1. PICK u \in Rows, b \in BOOLEAN : m = Import(u.old, b)
    BY <1>8, OutdatedKnown
  <2>2. PICK i \in 1..n : pathUpdates[i] = u
    BY TableRows
  <2> QED
    BY <1>7, <2>1, <2>2
<1> QED
  BY <1>3, <1>7, <1>8

--------------------------------------------------------------------------------
(* The runs of the script.                                                 *)

\* A text that holds no outdated import but such as it held several times.
Clean(s, o) == \A m \in Imports : Outdated(m) => Done(s, o, m)

\* The file f may have lost the end of its text to its write.
MayBeShort(f) == BeingWritten(f) \/ f \in cut

\* Where the script writes, it writes what the update made of the file.
Waiting(f) ==
    /\ Kept(text, original[f]) /\ Clean(text, original[f])
    /\ f \in cut \/ Len(text) = Len(original[f])

\* The files passed in this run are clean, even one that the script was given
\* twice and writes again; only a write that is under way or was cut short
\* makes a file shorter.
MigrationInv ==
    /\ disk \in [Solidity -> Seq(Imports)]
    /\ \A f \in Solidity : Kept(disk[f], original[f])
    /\ \A f \in Solidity : MayBeShort(f) \/ Len(disk[f]) = Len(original[f])
    /\ files \in Seq(Solidity) /\ next \in 1..(Len(files) + 1)
    /\ phase = "listing" => next = 1
    /\ phase = "ended" => next > Len(files)
    /\ phase = "writing" => text # Unread
    /\ text # Unread => /\ phase \in {"updating", "writing"}
                        /\ next <= Len(files) /\ Waiting(files[next])
    /\ \A j \in 1..(next - 1) : Clean(disk[files[j]], original[files[j]])

\* Nothing of a text: a file that was just opened.
LEMMA EmptyText ==
    ASSUME NEW o \in Seq(Imports)
    PROVE  Kept(<< >>, o) /\ Clean(<< >>, o)
<1>1. << >> \in Seq(Imports) /\ Len(<< >>) = 0 /\ Len(o) \in Nat
  OBVIOUS
<1>2. 0 <= Len(o) /\ \A i : i \notin 1..0
  BY <1>1
<1>3. Kept(<< >>, o)
  BY <1>1, <1>2 DEF Kept
<1>4. Clean(<< >>, o)
  BY <1>1, <1>2 DEF Clean, Done
<1> QED
  BY <1>3, <1>4

\* The beginning of a text that is kept and clean is kept and clean.
LEMMA Beginning ==
    ASSUME NEW s, NEW o, Kept(s, o), NEW n \in 1..Len(s)
    PROVE  /\ Kept(SubSeq(s, 1, n), o)
           /\ Clean(s, o) => Clean(SubSeq(s, 1, n), o)
<1> DEFINE r == SubSeq(s, 1, n)
<1>1. /\ s \in Seq(Imports) /\ o \in Seq(Imports) /\ Len(s) <= Len(o)
      /\ \A i \in 1..Len(s) : KeptImport(s[i], o[i])
      /\ Len(s) \in Nat /\ Len(o) \in Nat
  BY DEF Kept
<1>2. r \in Seq(Imports) /\ Len(r) = n /\ \A i \in 1..n : r[i] = s[i]
  BY <1>1
<1> HIDE DEF r
<1>3. n <= Len(o) /\ \A i \in 1..n : i \in 1..Len(s)
  BY <1>1
<1>4. Kept(r, o)
  BY <1>1, <1>2, <1>3 DEF Kept
<1>5. ASSUME Clean(s, o) PROVE Clean(r, o)
  BY <1>2, <1>3, <1>5 DEF Clean, Done
<1> QED
  BY <1>4, <1>5 DEF r

\* A piece of the write: its file holds text afterwards, and every other file
\* what it held.
LEMMA WritePiece ==
    ASSUME MigrationInv, next <= Len(files), NEW piece,
           Kept(piece, original[files[next]]), Clean(piece, original[files[next]]),
           disk' = [disk EXCEPT ![files[next]] = piece],
           UNCHANGED <<original, files, next>>
    PROVE  /\ disk' \in [Solidity -> Seq(Imports)] /\ disk'[files[next]] = piece
           /\ \A f \in Solidity \ {files[next]} : disk'[f] = disk[f]
           /\ \A f \in Solidity : Kept(disk'[f], original'[f])
           /\ \A j \in 1..(next' - 1) :
                  Clean(disk'[files'[j]], original'[files'[j]])
<1> DEFINE top == files[next]
<1>1. /\ disk \in [Solidity -> Seq(Imports)]
      /\ \A f \in Solidity : Kept(disk[f], original[f])
      /\ files \in Seq(Solidity) /\ next \in 1..(Len(files) + 1)
      /\ \A j \in 1..(next - 1) : Clean(disk[files[j]], original[files[j]])
  BY DEF MigrationInv
<1>2. top \in Solidity
  BY <1>1
<1> HIDE DEF top
<1>3. piece \in Seq(Imports)
  BY DEF Kept
<1>4. /\ disk' \in [Solidity -> Seq(Imports)] /\ disk'[top] = piece
      /\ \A f \in Solidity \ {top} : disk'[f] = disk[f]
  BY <1>1, <1>2, <1>3 DEF top
<1>5. ASSUME NEW f \in Solidity PROVE Kept(disk'[f], original'[f])
  BY <1>1, <1>4 DEF top
<1>6. ASSUME NEW j \in 1..(next' - 1)
      PROVE  Clean(disk'[files'[j]], original'[files'[j]])
  <2>1. j \in 1..(next - 1) /\ j \in 1..Len(files)
    BY <1>1
  <2>2. files[j] \in Solidity /\ Clean(disk[files[j]], original[files[j]])
    BY <1>1, <2>1
  <2> QED
    BY <1>4, <2>2 DEF top
<1> QED
  BY <1>4, <1>5, <1>6 DEF top

\* The three steps of the write.
LEMMA WriteSteps ==
    ASSUME MigrationInv, OpenFile \/ WriteChunk \/ WriteFile
    PROVE  MigrationInv'
<1> DEFINE top == files[next]
<1>1. /\ disk \in [Solidity -> Seq(Imports)]
      /\ \A f \in Solidity : Kept(disk[f], original[f])
      /\ \A f \in Solidity : MayBeShort(f) \/ Len(disk[f]) = Len(original[f])
      /\ files \in Seq(Solidity) /\ next \in 1..(Len(files) + 1)
      /\ phase = "writing" => text # Unread
      /\ text # Unread => /\ phase \in {"updating", "writing"}
                          /\ next <= Len(files) /\ Waiting(top)
      /\ \A j \in 1..(next - 1) : Clean(disk[files[j]], original[files[j]])
  BY DEF MigrationInv
<1>2. text # Unread /\ next <= Len(files) /\ Waiting(top)
  BY <1>1 DEF OpenFile, WriteChunk, WriteFile
<1>3. top \in Solidity /\ Len(files) \in Nat /\ next \in Nat
  BY <1>1, <1>2
<1>4. original[top] \in Seq(Imports)
  BY <1>1, <1>3 DEF Kept
<1>5. Kept(text, original[top]) /\ Clean(text, original[top])
      /\ (top \in cut \/ Len(text) = Len(original[top]))
  BY <1>2 DEF Waiting
<1>6. CASE OpenFile \/ WriteChunk
  <2> DEFINE piece == disk'[top]
  <2>1. /\ UNCHANGED <<original, files, next, text, cut>> /\ phase' = "writing"
        /\ \E s : /\ disk' = [disk EXCEPT ![top] = s]
                  /\ Kept(s, original[top]) /\ Clean(s, original[top])
    <3>1. CASE OpenFile
      BY <1>4, <3>1, EmptyText DEF OpenFile
    <3>2. CASE WriteChunk
      <4>1. PICK n \in Len(disk[top]) + 1 .. Len(text) :
                disk' = [disk EXCEPT ![top] = SubSeq(text, 1, n)]
        BY <3>2 DEF WriteChunk
      <4>2. n \in 1..Len(text)
        <5>1. Len(disk[top]) \in Nat
          BY <1>1, <1>3
        <5>2. Len(text) \in Nat
          BY <1>5 DEF Kept
        <5> QED
          BY <4>1, <5>1, <5>2
      <4>3. /\ Kept(SubSeq(text, 1, n), original[top])
            /\ Clean(SubSeq(text, 1, n), original[top])
        BY <1>5, <4>2, Beginning
      <4> QED
        BY <3>2, <4>1, <4>3 DEF WriteChunk
    <3> QED
      BY <1>6, <3>1, <3>2
  <2>2. PICK s : /\ disk' = [disk EXCEPT ![top] = s]
                 /\ Kept(s, original[top]) /\ Clean(s, original[top])
    BY <2>1
  <2>3. /\ disk' \in [Solidity -> Seq(Imports)]
        /\ \A f \in Solidity \ {top} : disk'[f] = disk[f]
        /\ \A f \in Solidity : Kept(disk'[f], original'[f])
        /\ \A j \in 1..(next' - 1) :
               Clean(disk'[files'[j]], original'[files'[j]])
    BY <1>2, <2>1, <2>2, WritePiece
  <2>4. ASSUME NEW f \in Solidity
        PROVE  MayBeShort(f)' \/ Len(disk'[f]) = Len(original'[f])
    <3>1. CASE f = top
      BY <2>1, <3>1 DEF MayBeShort, BeingWritten
    <3>2. CASE f # top
      <4>1. MayBeShort(f) => f \in cut
        BY <3>2 DEF MayBeShort, BeingWritten
      <4>2. f \in cut \/ Len(disk[f]) = Len(original[f])
        BY <1>1, <4>1
      <4> QED
        BY <2>1, <2>3, <3>2, <4>2 DEF MayBeShort
    <3> QED
      BY <3>1, <3>2
  <2>5. Waiting(files[next])'
    BY <1>2, <2>1 DEF Waiting
  <2> QED
    BY <1>1, <1>2, <2>1, <2>3, <2>4, <2>5 DEF MigrationInv
<1>7. CASE WriteFile
  <2>1. /\ phase = "writing" /\ disk[top] = text /\ next' = next + 1
        /\ text' = Unread /\ phase' = "updating"
        /\ UNCHANGED <<disk, original, files, cut>>
    BY <1>7 DEF WriteFile
  <2>2. next' \in 1..(Len(files') + 1)
    BY <1>2, <1>3, <2>1
  <2>3. ASSUME NEW j \in 1..(next' - 1)
        PROVE  Clean(disk'[files'[j]], original'[files'[j]])
    <3>1. j = next \/ j \in 1..(next - 1)
      BY <1>3, <2>1
    <3> QED
      BY <1>1, <1>5, <2>1, <3>1
  <2>4. ASSUME NEW f \in Solidity
        PROVE  MayBeShort(f)' \/ Len(disk'[f]) = Len(original'[f])
    <3>1. MayBeShort(f) => f = top \/ f \in cut
      BY DEF MayBeShort, BeingWritten
    <3>2. f \in cut \/ Len(disk[f]) = Len(original[f])
      BY <1>1, <1>5, <2>1, <3>1
    <3> QED
      BY <2>1, <3>2 DEF MayBeShort
  <2> QED
    BY <1>1, <2>1, <2>2, <2>3, <2>4 DEF MigrationInv
<1> QED
  BY <1>6, <1>7

\* Where nothing is written, no file gets shorter.
LEMMA NothingWritten ==
    ASSUME MigrationInv, UNCHANGED <<disk, original, cut>>, phase # "writing"
    PROVE  \A f \in Solidity :
               MayBeShort(f)' \/ Len(disk'[f]) = Len(original'[f])
BY DEF MigrationInv, MayBeShort, BeingWritten

\* Every behaviour of the script keeps this.
LEMMA MigrationInvariance == MigrationSpec => []MigrationInv
<1>1. MigrationInit => MigrationInv
  <2> SUFFICES ASSUME MigrationInit PROVE MigrationInv
    OBVIOUS
  <2>1. /\ disk \in [Solidity -> Contents] /\ original = disk /\ files = << >>
        /\ next = 1 /\ text = Unread /\ phase = "listing"
    BY DEF MigrationInit
  <2>5. \A f \in Solidity : Len(disk[f]) = Len(original[f])
    BY <2>1
  <2>2. disk \in [Solidity -> Seq(Imports)]
    BY <2>1, ContentsAssumption
  <2>3. ASSUME NEW f \in Solidity PROVE Kept(disk[f], original[f])
    BY <2>1, <2>2 DEF Kept, KeptImport
  <2>4. files \in Seq(Solidity) /\ next \in 1..(Len(files) + 1)
        /\ \A j \in 1..(next - 1) : Clean(disk[files[j]], original[files[j]])
    BY <2>1
  <2> QED
    BY <2>1, <2>2, <2>3, <2>4, <2>5 DEF MigrationInv
<1>2. MigrationInv /\ [MigrationNext]_migrationVars => MigrationInv'
  <2> SUFFICES ASSUME MigrationInv, [MigrationNext]_migrationVars
               PROVE  MigrationInv'
    OBVIOUS
  <2>1. /\ disk \in [Solidity -> Seq(Imports)]
        /\ \A f \in Solidity : Kept(disk[f], original[f])
        /\ \A f \in Solidity : MayBeShort(f) \/ Len(disk[f]) = Len(original[f])
        /\ files \in Seq(Solidity) /\ next \in 1..(Len(files) + 1)
        /\ phase = "listing" => next = 1
        /\ phase = "ended" => next > Len(files)
        /\ phase = "writing" => text # Unread
        /\ text # Unread => /\ phase \in {"updating", "writing"}
                            /\ next <= Len(files) /\ Waiting(files[next])
        /\ \A j \in 1..(next - 1) : Clean(disk[files[j]], original[files[j]])
    BY DEF MigrationInv
  <2>3. ASSUME NEW f \in Solidity
        PROVE  /\ Kept(updateImportPaths(disk[f]), original[f])
               /\ Clean(updateImportPaths(disk[f]), original[f])
               /\ Len(updateImportPaths(disk[f])) = Len(disk[f])
    BY <2>1, UpdateImportPathsKeeps DEF Clean
  <2>4. next <= Len(files) => files[next] \in Solidity
    BY <2>1
  <2>5. CASE ListNext
    <3>1. /\ phase = "listing"
          /\ UNCHANGED <<disk, original, next, text, phase, cut>>
          /\ \/ files' = files
             \/ files' = Append(files, Head(queue)) /\ Head(queue) \in Solidity
      BY <2>5 DEF ListNext
    <3>2. files' \in Seq(Solidity) /\ Len(files') \in Nat
      <4>1. files \in Seq(Solidity)
        BY <2>1
      <4> QED
        BY <3>1, <4>1
    <3>3. next = 1 /\ text = Unread
      BY <2>1, <3>1
    <3>4. \A f \in Solidity :
              MayBeShort(f)' \/ Len(disk'[f]) = Len(original'[f])
      BY <3>1, NothingWritten
    <3> QED
      BY <2>1, <3>1, <3>2, <3>3, <3>4 DEF MigrationInv
  <2>6. CASE ListingEnds
    <3>1. /\ phase = "listing" /\ phase' = "updating"
          /\ UNCHANGED <<disk, original, files, next, text, cut>>
      BY <2>6 DEF ListingEnds
    <3>2. \A j \in 1..(next' - 1) :
              Clean(disk'[files'[j]], original'[files'[j]])
      BY <2>1, <3>1
    <3>3. text = Unread
      BY <2>1, <3>1
    <3>4. \A f \in Solidity :
              MayBeShort(f)' \/ Len(disk'[f]) = Len(original'[f])
      BY <3>1, NothingWritten
    <3> QED
      BY <2>1, <3>1, <3>2, <3>3, <3>4 DEF MigrationInv
  <2>7. CASE ReadFile
    <3> DEFINE content == disk[files[next]]
    <3>1. /\ phase = "updating" /\ next <= Len(files) /\ text = Unread
          /\ UNCHANGED <<disk, original, files, phase, cut>>
          /\ IF updateImportPaths(content) # content
             THEN text' = updateImportPaths(content) /\ next' = next
             ELSE next' = next + 1 /\ text' = text
      BY <2>7 DEF ReadFile
    <3>2. Len(files) \in Nat /\ next \in Nat
      BY <2>1
    <3>5. \A f \in Solidity :
              MayBeShort(f)' \/ Len(disk'[f]) = Len(original'[f])
      BY <3>1, NothingWritten
    <3>3. CASE updateImportPaths(content) # content
      <4>1. text' = updateImportPaths(content) /\ next' = next
        BY <3>1, <3>3
      <4>3. Waiting(files[next])'
        <5>1. files[next] \in cut \/ Len(content) = Len(original[files[next]])
          BY <2>1, <2>4, <3>1 DEF MayBeShort, BeingWritten
        <5> QED
          BY <2>3, <2>4, <3>1, <4>1, <5>1 DEF Waiting
      <4>2. \A j \in 1..(next' - 1) :
              Clean(disk'[files'[j]], original'[files'[j]])
        BY <2>1, <3>1, <4>1
      <4> QED
        BY <2>1, <3>1, <3>5, <4>1, <4>2, <4>3 DEF MigrationInv
    <3>4. CASE updateImportPaths(content) = content
      <4>1. next' = next + 1 /\ text' = text
        BY <3>1, <3>4
      <4>2. Clean(disk[files[next]], original[files[next]])
        BY <2>3, <2>4, <3>1, <3>4
      <4>3. \A j \in 1..(next' - 1) : j \in 1..(next - 1) \/ j = next
        BY <3>2, <4>1
      <4>4. \A j \in 1..(next' - 1) :
              Clean(disk'[files'[j]], original'[files'[j]])
        BY <2>1, <3>1, <4>2, <4>3
      <4>5. next' \in 1..(Len(files') + 1)
        BY <3>1, <3>2, <4>1
      <4> HIDE DEF content
      <4> QED
        BY <2>1, <3>1, <3>5, <4>1, <4>4, <4>5 DEF MigrationInv
    <3> QED
      BY <3>3, <3>4
  <2>8. CASE OpenFile \/ WriteChunk \/ WriteFile
    BY <2>8, WriteSteps
  <2>9. CASE RunEnds
    <3>1. /\ phase = "updating" /\ next > Len(files) /\ phase' = "ended"
          /\ UNCHANGED <<disk, original, files, next, text, cut>>
      BY <2>9 DEF RunEnds
    <3>2. \A j \in 1..(next' - 1) :
              Clean(disk'[files'[j]], original'[files'[j]])
      BY <2>1, <3>1
    <3>3. text = Unread
      BY <2>1, <3>1
    <3>4. \A f \in Solidity :
              MayBeShort(f)' \/ Len(disk'[f]) = Len(original'[f])
      BY <3>1, NothingWritten
    <3> QED
      BY <2>1, <3>1, <3>2, <3>3, <3>4 DEF MigrationInv
  <2>10. CASE RunAgain
    <3>1. /\ files' = << >> /\ next' = 1 /\ text' = Unread /\ phase' = "listing"
          /\ UNCHANGED <<disk, original>>
          /\ cut' = IF phase = "writing" /\ disk[files[next]] # text
                    THEN cut \cup {files[next]} ELSE cut
      BY <2>10 DEF RunAgain, Starts
    <3>2. files' \in Seq(Solidity) /\ next' \in 1..(Len(files') + 1)
          /\ \A j \in 1..(next' - 1) :
              Clean(disk'[files'[j]], original'[files'[j]])
      BY <3>1
    <3>3. ASSUME NEW f \in Solidity
          PROVE  MayBeShort(f)' \/ Len(disk'[f]) = Len(original'[f])
      <4>1. f \in cut => f \in cut'
        BY <3>1
      <4>2. CASE BeingWritten(f)
        <5>1. phase = "writing" /\ f = files[next] /\ Waiting(f)
          BY <2>1, <4>2 DEF BeingWritten
        <5>2. CASE disk[f] = text
          BY <3>1, <4>1, <5>1, <5>2 DEF Waiting, MayBeShort
        <5>3. CASE disk[f] # text
          BY <3>1, <5>1, <5>3 DEF MayBeShort
        <5> QED
          BY <5>2, <5>3
      <4>3. CASE ~ BeingWritten(f)
        BY <2>1, <3>1, <4>1, <4>3 DEF MayBeShort
      <4> QED
        BY <4>2, <4>3
    <3> QED
      BY <2>1, <3>1, <3>2, <3>3 DEF MigrationInv
  <2>11. CASE UNCHANGED migrationVars
    <3>1. UNCHANGED <<disk, original, files, next, text, phase, cut>>
      BY <2>11 DEF migrationVars
    <3>3. \A f \in Solidity :
              MayBeShort(f)' \/ Len(disk'[f]) = Len(original'[f])
      BY <2>1, <3>1 DEF MayBeShort, BeingWritten
    <3>4. text # Unread => Waiting(files[next])'
      BY <2>1, <3>1 DEF Waiting
    <3>2. \A j \in 1..(next' - 1) :
              Clean(disk'[files'[j]], original'[files'[j]])
      BY <2>1, <3>1
    <3> QED
      BY <2>1, <3>1, <3>2, <3>3, <3>4 DEF MigrationInv
  <2> QED
    BY <2>5, <2>6, <2>7, <2>8, <2>9, <2>10, <2>11 DEF MigrationNext
<1> QED
  BY <1>1, <1>2, PTL DEF MigrationSpec

\* However often the script is cut short, between two files or in the middle
\* of a write, and run again, a file's imports stay in their places as they
\* were or as the table makes of them, and only a file whose own write was cut
\* short loses any, its last: whatever the files hold, however many and in
\* whatever directories, and whatever table of the assumed shape there is.
THEOREM MigrationKeepsImports == MigrationSpec => []ImportsKept
<1>1. MigrationInv => ImportsKept
  <2> SUFFICES ASSUME MigrationInv, NEW f \in Solidity
               PROVE  /\ Len(disk[f]) <= Len(original[f])
                      /\ Len(disk[f]) < Len(original[f]) =>
                             BeingWritten(f) \/ f \in cut
                      /\ \A i \in 1..Len(disk[f]) :
                             \/ disk[f][i] = original[f][i]
                             \/ /\ Outdated(original[f][i])
                                /\ disk[f][i] = Updated(original[f][i])
    BY DEF ImportsKept
  <2>1. /\ Kept(disk[f], original[f])
        /\ MayBeShort(f) \/ Len(disk[f]) = Len(original[f])
    BY DEF MigrationInv
  <2>2. Len(disk[f]) \in Nat /\ Len(original[f]) \in Nat
    BY <2>1 DEF Kept
  <2>3. Len(disk[f]) < Len(original[f]) => MayBeShort(f)
    BY <2>1, <2>2
  <2> QED
    BY <2>1, <2>3 DEF Kept, KeptImport, MayBeShort
<1> QED
  BY <1>1, MigrationInvariance, PTL

\* A run that ends, whatever runs were cut short before it, has left an old
\* path in a file it passed only where the file had that path several times.
THEOREM CompleteRunMigrates == MigrationSpec => []RunMigrates
<1>1. MigrationInv => RunMigrates
  <2> SUFFICES ASSUME MigrationInv, phase = "ended", NEW f \in ToSet(files),
                      NEW i \in 1..Len(disk[f]), Outdated(disk[f][i])
               PROVE  Cardinality(Places(original[f], disk[f][i])) > 1
    BY DEF RunMigrates
  <2>1. files \in Seq(Solidity) /\ Len(files) \in Nat /\ next \in Nat
        /\ next > Len(files)
    BY DEF MigrationInv
  <2>2. PICK j \in 1..Len(files) : files[j] = f
    BY DEF ToSet
  <2>3. Clean(disk[f], original[f]) /\ f \in Solidity
    BY <2>1, <2>2 DEF MigrationInv
  <2>4. disk[f][i] \in Imports
    BY <2>3 DEF MigrationInv
  <2> QED
    BY <2>3, <2>4 DEF Clean, Done
<1> QED
  BY <1>1, MigrationInvariance, PTL
================================================================================

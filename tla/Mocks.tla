--------------------------------- MODULE Mocks ---------------------------------
(***************************************************************************)
(* The mock contracts generated beside the library templates: each wraps   *)
(* one container or the casts, and anybody may call any of its functions   *)
(* in any order. Contracts share no state, so a behaviour deploys one of   *)
(* them and calls only that one; answer is what the last call returned,    *)
(* emitted, or that it reverted.                                           *)
(*                                                                         *)
(* A call is one step, but for the checkpoint lookups, whose loop takes a  *)
(* step for each round: call is the running search. Nothing else happens   *)
(* meanwhile, as the EVM runs one call at a time.                          *)
(***************************************************************************)
EXTENDS EnumerableMap, Checkpoints

CONSTANTS
    FirstBlock, \* the block the mock is deployed in
    MaxBlock,   \* bound on the block number
    Amounts,    \* what is pushed onto a history
    TraceKeys,  \* the keys a trace is given
    NoCall

ASSUME MocksAssumption ==
    /\ MaxBlock \in Nat /\ FirstBlock \in 0..MaxBlock
    /\ TraceKeys \subseteq Nat
    /\ Amounts \subseteq Nat
    /\ NoCall \notin [lookup : Searches, key : Nat, low : Nat, high : Nat]

VARIABLES
    contract, \* the mock that is deployed
    set,      \* the set mock's _set
    map,      \* the map mock's _map
    history,  \* the checkpoint mocks' _totalCheckpoints
    block,    \* block.number
    call,     \* the lookup whose loop is running, or NoCall
    answer

vars == <<contract, set, map, history, block, call, answer>>

SetMocks == {[mock |-> "set", type |-> type] : type \in Types}

MapMocks ==
    {[mock |-> "map", keyType |-> pair[1], valueType |-> pair[2]] : pair \in
        {<<"uint256", "address">>, <<"address", "uint256">>,
         <<"bytes32", "bytes32">>, <<"uint256", "uint256">>,
         <<"bytes32", "uint256">>}}

OtherMocks == {[mock |-> m] : m \in {"history", "trace", "cast"}}

Silence == [silence |-> TRUE]
Reverted == [reverted |-> TRUE]

Init ==
    /\ contract \in SetMocks \cup MapMocks \cup OtherMocks
    /\ set = EmptySet
    /\ map = EmptyMap
    /\ history = << >>
    /\ block = FirstBlock
    /\ call = NoCall
    /\ answer = Silence

\* A view function, or a call that reverts: only the answer is new.
Answers(a) ==
    /\ answer' = a
    /\ UNCHANGED <<contract, set, map, history, block, call>>

--------------------------------------------------------------------------------
(* EnumerableSetMock                                                       *)

SetUpdate(s, result) ==
    /\ set' = s
    /\ answer' = [result |-> result]
    /\ UNCHANGED <<contract, map, history, block, call>>

SetMockAdd(value) ==
    LET word == ToBytes32(contract.type, value)
    IN  SetUpdate(SetAdd(set, word), ~SetContains(set, word))

SetMockRemove(value) ==
    LET word == ToBytes32(contract.type, value)
    IN  SetUpdate(SetRemove(set, word), SetContains(set, word))

SetMockContains(value) ==
    Answers([contains |-> SetContains(set, ToBytes32(contract.type, value))])

SetMockLength == Answers([length |-> SetLength(set)])

SetMockAt(index) ==
    Answers(IF index < SetLength(set)
            THEN [keyAt |-> FromBytes32(contract.type, SetAt(set, index)),
                  index |-> index]
            ELSE [outOfBounds |-> index])

\* The words themselves, with no conversion.
SetMockValues == Answers([values |-> set.values])

SetMockNext ==
    /\ contract.mock = "set"
    /\ \/ \E value \in ValuesOf(contract.type) :
              SetMockAdd(value) \/ SetMockRemove(value) \/ SetMockContains(value)
       \/ SetMockLength
       \/ \E index \in Word : SetMockAt(index)
       \/ SetMockValues

--------------------------------------------------------------------------------
(* EnumerableMapMock                                                       *)

MapUpdate(m, result) ==
    /\ map' = m
    /\ answer' = [result |-> result]
    /\ UNCHANGED <<contract, set, history, block, call>>

KeyWord(key) == ToBytes32(contract.keyType, key)
ValueRead(word) == FromBytes32(contract.valueType, word)

MapMockSet(key, value) ==
    MapUpdate(MapSet(map, KeyWord(key), ToBytes32(contract.valueType, value)),
              ~MapContains(map, KeyWord(key)))

MapMockRemove(key) ==
    MapUpdate(MapRemove(map, KeyWord(key)), MapContains(map, KeyWord(key)))

MapMockContains(key) == Answers([contains |-> MapContains(map, KeyWord(key))])

MapMockLength == Answers([length |-> MapLength(map)])

MapMockAt(index) ==
    LET entry == MapAt(map, index)
    IN  Answers(IF index < MapLength(map)
                THEN [entryAt |-> <<FromBytes32(contract.keyType, entry[1]),
                                    ValueRead(entry[2])>>, index |-> index]
                ELSE [outOfBounds |-> index])

MapMockTryGet(key) ==
    LET found == MapTryGet(map, KeyWord(key))
    IN  Answers([tryGet |-> <<found[1], ValueRead(found[2])>>])

\* get and getWithMessage differ in the text of the error alone.
MapMockGet(key) ==
    Answers(IF MapGettable(map, KeyWord(key))
            THEN [get |-> ValueRead(MapGet(map, KeyWord(key)))]
            ELSE Reverted)

MapMockNext ==
    /\ contract.mock = "map"
    /\ \/ \E key \in ValuesOf(contract.keyType) :
              \/ \E value \in ValuesOf(contract.valueType) :
                     MapMockSet(key, value)
              \/ MapMockRemove(key) \/ MapMockContains(key)
              \/ MapMockTryGet(key) \/ MapMockGet(key)
       \/ MapMockLength
       \/ \E index \in Word : MapMockAt(index)

--------------------------------------------------------------------------------
(* CheckpointsMock, and Votes.sol's use of the push with an operation      *)

\* A checkpoint is stored; MaxLength bounds the model's histories.
Pushes(key, value) ==
    IF Insertable(history, key)
    THEN /\ Len(history) < MaxLength
         /\ history' = Insert(history, key, value)
         /\ answer' = [pushed |-> <<Latest(history), value>>]
         /\ UNCHANGED <<contract, set, map, block, call>>
    ELSE Answers(Reverted)

HistoryPush(value) ==
    IF FitsUint(KeyBits, block) /\ FitsUint(ValueBits, value)
    THEN Pushes(ToUintDownCast(KeyBits, block), ToUintDownCast(ValueBits, value))
    ELSE Answers(Reverted)

PushAdd(delta) == HistoryPush(Latest(history) + delta)

\* The checked subtraction reverts below zero.
PushSubtract(delta) ==
    IF delta <= Latest(history)
    THEN HistoryPush(Latest(history) - delta)
    ELSE Answers(Reverted)

\* The lookup begins; its loop runs in steps of its own.
Looks(search) ==
    /\ call' = search
    /\ answer' = Silence
    /\ UNCHANGED <<contract, set, map, history, block>>

\* A slip: the current block is read as well.
ReadableNow(number) == number <= block /\ FitsUint(KeyBits, number)

\* Only a block that is mined, and whose number fits a key, has a value.
Readable(number) == number < block /\ FitsUint(KeyBits, number)

GetAtBlock(number) ==
    IF Readable(number)
    THEN Looks(Search("upper", ToUintDownCast(KeyBits, number), 0, Len(history)))
    ELSE Answers(Reverted)

GetAtProbablyRecentBlock(number) ==
    IF Readable(number)
    THEN Looks(RecentSearch(history, ToUintDownCast(KeyBits, number)))
    ELSE Answers(Reverted)

TracePush(key, value) == Pushes(key, value)

LowerLookup(key) == Looks(Search("lower", key, 0, Len(history)))
UpperLookup(key) == Looks(Search("upper", key, 0, Len(history)))

LookupRound ==
    /\ call # NoCall
    /\ call.low < call.high
    /\ call' = Halve(history, call)
    /\ UNCHANGED <<contract, set, map, history, block, answer>>

LookupReturns ==
    /\ call # NoCall
    /\ call.low >= call.high
    /\ call' = NoCall
    /\ answer' = [found |-> ValueFound(history, call), search |-> call]
    /\ UNCHANGED <<contract, set, map, history, block>>

CheckpointViews ==
    \/ Answers([latest |-> Latest(history)])
    \/ Answers([latestCheckpoint |-> LatestCheckpoint(history)])
    \/ Answers([length |-> Len(history)])

MineBlock ==
    /\ block < MaxBlock
    /\ block' = block + 1
    /\ answer' = Silence
    /\ UNCHANGED <<contract, set, map, history, call>>

HistoryMockNext ==
    /\ contract.mock = "history" /\ call = NoCall
    /\ \/ MineBlock
       \/ \E value \in Amounts :
              HistoryPush(value) \/ PushAdd(value) \/ PushSubtract(value)
       \/ \E number \in 0..MaxBlock :
              GetAtBlock(number) \/ GetAtProbablyRecentBlock(number)
       \/ CheckpointViews

TraceMockNext ==
    /\ contract.mock = "trace" /\ call = NoCall
    /\ \/ \E key \in TraceKeys, value \in Amounts :
              FitsUint(ValueBits, value) /\ TracePush(key, value)
       \/ \E key \in 0..MaxUint(KeyBits) : LowerLookup(key) \/ UpperLookup(key)
       \/ CheckpointViews

--------------------------------------------------------------------------------
(* SafeCastMock                                                            *)

\* The type a cast goes to, its argument, and what comes out if it fits.
Casts(fits, signed, bits, value, result) ==
    LET asked == [signed |-> signed, bits |-> bits, value |-> value]
    IN  Answers(IF fits THEN [cast |-> asked, result |-> result]
                        ELSE [refused |-> asked])

CastUint(bits, value) ==
    Casts(FitsUint(bits, value), FALSE, bits, value, ToUintDownCast(bits, value))
CastInt(bits, value) ==
    Casts(FitsInt(bits, value), TRUE, bits, value, ToIntDownCast(bits, value))
CastUnsigned(value) ==
    Casts(FitsUnsigned(value), FALSE, WordBits, value, ToUint(value))
CastSigned(value) ==
    Casts(FitsSigned(value), TRUE, WordBits, value, ToInt(value))

CastMockNext ==
    /\ contract.mock = "cast"
    /\ \/ \E value \in 0..MaxUint(WordBits) :
              CastSigned(value) \/ \E bits \in LENGTHS : CastUint(bits, value)
       \/ \E value \in MinInt(WordBits)..MaxInt(WordBits) :
              CastUnsigned(value) \/ \E bits \in LENGTHS : CastInt(bits, value)

--------------------------------------------------------------------------------

Next ==
    \/ SetMockNext
    \/ MapMockNext
    \/ HistoryMockNext
    \/ TraceMockNext
    \/ CastMockNext
    \/ LookupRound
    \/ LookupReturns

Spec == Init /\ [][Next]_vars

\* The EVM runs a call it has begun to its end.
Fairness == WF_vars(LookupRound) /\ WF_vars(LookupReturns)
--------------------------------------------------------------------------------

\* Every variable has its type; a stored word is one its type's values are
\* converted to, so that values() may hand the array out as it is.
TypeOK ==
    /\ contract \in SetMocks \cup MapMocks \cup OtherMocks
    /\ SetType(set)
    /\ contract.mock = "set" => Elements(set) \subseteq ValuesOf(contract.type)
    /\ MapType(map)
    /\ contract.mock = "map" =>
           /\ Elements(map.keys) \subseteq ValuesOf(contract.keyType)
           /\ \A w \in Word : map.values[w] \in ValuesOf(contract.valueType)
    /\ HistoryType(history)
    /\ block \in 0..MaxBlock
    /\ call # NoCall =>
           call \in [lookup : Searches, key : Nat, low : Nat, high : Nat]

\* Swap-and-pop keeps array and indexes inverse to each other through every
\* order of add and remove, and a map holds no value for a word that is not
\* a key, on which get and tryGet rely.
ContainersSound == SetSound(set) /\ MapSound(map)

\* The keys of a history increase from one checkpoint to the next, without
\* which no binary search of it means anything.
HistorySorted == KeysIncrease(history)

\* In every round of a lookup's loop the checkpoint it looks for lies where
\* the loop still looks, within the array.
LookupOnTrack == call # NoCall => SearchSound(history, call)

\* What a lookup returns is the value of the checkpoint it promises: the last
\* at or before the key (getAtBlock, getAtProbablyRecentBlock, upperLookup)
\* or the first at or after it (lowerLookup), zero when there is none.
LookupRight ==
    "found" \in DOMAIN answer => IsAnswer(history, answer.search, answer.found)

\* A cast returns its argument, which the type can hold, or refuses one that
\* the type cannot hold.
Holds(type) ==
    IF type.signed
    THEN -(2 ^ (type.bits - 1)) <= type.value /\ type.value < 2 ^ (type.bits - 1)
    ELSE 0 <= type.value /\ type.value < 2 ^ type.bits

CastExact ==
    /\ "cast" \in DOMAIN answer =>
           Holds(answer.cast) /\ answer.result = answer.cast.value
    /\ "refused" \in DOMAIN answer => ~Holds(answer.refused)

\* What there is to answer for a block that getAtBlock answers for never
\* changes again: it refuses every block a push can still write behind.
PastIsFixed ==
    [][contract.mock = "history" =>
           \A b \in 0..MaxBlock, v \in 0..MaxUint(ValueBits) :
               Readable(b) =>
                   (IsValueUpTo(history, b, v)' <=> IsValueUpTo(history, b, v))]_vars

\* Every lookup comes back: each round of the loop leaves less to look at.
LookupEnds == (call # NoCall) ~> (call = NoCall)

--------------------------------------------------------------------------------

\* The dictionary the deployed container stands for: a set keeps no values.
Decoded(type, s) == {FromBytes32(type, w) : w \in Elements(s)}

Entries ==
    CASE contract.mock = "set" -> [k \in Decoded(contract.type, set) |-> 0]
      [] contract.mock = "map" ->
             [k \in Decoded(contract.keyType, map.keys) |->
                 ValueRead(map.values[KeyWord(k)])]
      [] OTHER -> [k \in {} |-> 0]

ContainerAnswer == IF contract.mock \in {"set", "map"} THEN answer ELSE Silence

D == INSTANCE Dictionary
         WITH Keys <- Word, Values <- Word, Indexes <- Word,
              entries <- Entries, answer <- ContainerAnswer

\* Whatever the mocks of the two containers return is what a dictionary
\* returns that has been through the same calls.
ImplementsDictionary == D!DictionarySpec
================================================================================

----------------------------- MODULE EnumerableMap -----------------------------
(***************************************************************************)
(* The Bytes32ToBytes32Map of the EnumerableMap template: a set of keys    *)
(* and a mapping of words to words that is zero where nothing is stored.   *)
(* A map m is a record of the two, m.keys and m.values. A stored value may *)
(* be zero as well: then only the set of keys tells.                       *)
(***************************************************************************)
EXTENDS EnumerableSet

EmptyMap == [keys |-> EmptySet, values |-> [w \in Word |-> 0]]

MapContains(m, key) == SetContains(m.keys, key)

MapLength(m) == SetLength(m.keys)

MapSet(m, key, value) ==
    [keys |-> SetAdd(m.keys, key), values |-> [m.values EXCEPT ![key] = value]]

\* A slip: the value of a removed key stays in the mapping.
MapRemoveKeepsValue(m, key) == [m EXCEPT !.keys = SetRemove(m.keys, key)]

MapRemove(m, key) ==
    [keys |-> SetRemove(m.keys, key), values |-> [m.values EXCEPT ![key] = 0]]

MapAt(m, index) ==
    LET key == SetAt(m.keys, index) IN <<key, m.values[key]>>

\* A value that is not zero is taken as proof that the key is there.
MapTryGet(m, key) ==
    IF m.values[key] = 0
    THEN <<MapContains(m, key), 0>>
    ELSE <<TRUE, m.values[key]>>

\* What get requires, in both its forms.
MapGettable(m, key) == m.values[key] # 0 \/ MapContains(m, key)

MapGet(m, key) == m.values[key]

--------------------------------------------------------------------------------

MapType(m) == SetType(m.keys) /\ m.values \in [Word -> Word]

\* The keys are a sound set, and nothing is stored for any other word.
MapSound(m) ==
    /\ SetSound(m.keys)
    /\ \A w \in Word : m.values[w] # 0 => MapContains(m, w)
================================================================================

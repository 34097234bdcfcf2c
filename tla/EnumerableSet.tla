----------------------------- MODULE EnumerableSet -----------------------------
(***************************************************************************)
(* The Set of the EnumerableSet template: an array of words and, for each  *)
(* word, its place in the array plus one, 0 when it is not there. A set s  *)
(* is a record of the two storage fields, s.values and s.indexes. TLA+     *)
(* sequences count from one, so a stored index is a place as it stands,    *)
(* and the callers' zero-based index i is place i + 1.                     *)
(***************************************************************************)
EXTENDS Bytes32, SequencesExt

EmptySet == [values |-> << >>, indexes |-> [w \in Word |-> 0]]

SetContains(s, value) == s.indexes[value] # 0

SetLength(s) == Len(s.values)

SetAt(s, index) == s.values[index + 1]

SetAdd(s, value) ==
    IF SetContains(s, value)
    THEN s
    ELSE [values  |-> Append(s.values, value),
          indexes |-> [s.indexes EXCEPT ![value] = Len(s.values) + 1]]

\* A slip: the moved word keeps the index of the place it left.
SetRemoveKeepsIndex(s, value) ==
    IF SetContains(s, value)
    THEN [values  |-> Front([s.values EXCEPT ![s.indexes[value]] =
                                 Last(s.values)]),
          indexes |-> [s.indexes EXCEPT ![value] = 0]]
    ELSE s

\* The last word moves to the place of the removed one, unless it is the
\* removed one; then the array shrinks and the removed word's index goes.
SetRemove(s, value) ==
    LET valueIndex == s.indexes[value]
        lastValue  == Last(s.values)
        moved == IF Len(s.values) = valueIndex
                 THEN s
                 ELSE [values  |-> [s.values EXCEPT ![valueIndex] = lastValue],
                       indexes |-> [s.indexes EXCEPT ![lastValue] = valueIndex]]
    IN  IF valueIndex = 0
        THEN s
        ELSE [values  |-> Front(moved.values),
              indexes |-> [moved.indexes EXCEPT ![value] = 0]]

--------------------------------------------------------------------------------

Elements(s) == ToSet(s.values)

SetType(s) ==
    /\ s.values \in Seq(Word)
    /\ s.indexes \in [Word -> Nat]

\* Array and indexes are inverse to each other.
SetSound(s) ==
    /\ \A k \in 1..Len(s.values) : s.indexes[s.values[k]] = k
    /\ \A w \in Word : s.indexes[w] # 0 =>
           /\ s.indexes[w] \in 1..Len(s.values)
           /\ s.values[s.indexes[w]] = w
================================================================================

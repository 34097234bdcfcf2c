---------------------------- MODULE TemplateProofs -----------------------------
(***************************************************************************)
(* What the generated libraries do in one call, for words, keys and        *)
(* histories of any size. _add and _remove of the EnumerableSet template   *)
(* keep the array and the indexes inverse to each other, and change        *)
(* membership by exactly their value; set and remove of the EnumerableMap  *)
(* template keep a map sound. The histories of the Checkpoints template    *)
(* stay sorted, and its binary searches find what they promise in any      *)
(* sorted history: the loop's invariant holds where a search starts,       *)
(* survives a round, and tells the answer at the end. The square root that *)
(* one of them starts from is in its range.                                *)
(***************************************************************************)
EXTENDS EnumerableMap, Checkpoints, OzMath, FunctionTheorems,
        FiniteSetTheorems, SequenceTheorems, NaturalsInduction,
        WellFoundedInduction, TLAPS

\* An array after pop().
LEMMA Popped ==
    ASSUME NEW S, NEW q \in Seq(S), Len(q) >= 1
    PROVE  /\ Front(q) \in Seq(S) /\ Len(Front(q)) = Len(q) - 1
           /\ \A k \in 1..(Len(q) - 1) : Front(q)[k] = q[k]
<1> DEFINE m == Len(q) - 1
<1>1. Front(q) = SubSeq(q, 1, m)
  BY DEF Front
<1>2. m \in Nat /\ m <= Len(q)
  OBVIOUS
<1>3. \A k \in 1..m : q[k] \in S
  BY <1>2
<1>4. /\ SubSeq(q, 1, m) \in Seq(S) /\ Len(SubSeq(q, 1, m)) = m
      /\ \A k \in 1..m : SubSeq(q, 1, m)[k] = q[k]
  <2>1. 1 \in Int /\ m \in Int /\ \A k \in 1..m : q[k] \in S
    BY <1>2, <1>3
  <2> HIDE DEF m
  <2>2. /\ SubSeq(q, 1, m) \in Seq(S)
        /\ Len(SubSeq(q, 1, m)) = IF 1 <= m THEN m - 1 + 1 ELSE 0
        /\ \A k \in 1..(m - 1 + 1) : SubSeq(q, 1, m)[k] = q[1 + k - 1]
    BY <2>1, SubSeqProperties
  <2>3. \A k \in 1..m : k \in 1..(m - 1 + 1) /\ 1 + k - 1 = k
    BY <1>2
  <2> QED
    BY <1>2, <2>2, <2>3
<1> QED
  BY <1>1, <1>4

\* The elements of a set, place by place.
LEMMA ElementsByPlace ==
    ASSUME NEW s, s.values \in Seq(Word)
    PROVE  /\ Elements(s) = {s.values[k] : k \in 1..Len(s.values)}
           /\ Elements(s) \subseteq Word
<1>1. DOMAIN s.values = 1..Len(s.values)
  OBVIOUS
<1>2. Elements(s) = {s.values[k] : k \in 1..Len(s.values)}
  BY <1>1 DEF Elements, ToSet
<1> QED
  BY <1>2

\* What _contains reads from the indexes is membership in the array.
LEMMA ContainsIsMembership ==
    ASSUME NEW s, SetType(s), SetSound(s), NEW w \in Word
    PROVE  SetContains(s, w) <=> w \in Elements(s)
<1>1. /\ \A k \in 1..Len(s.values) : s.indexes[s.values[k]] = k
      /\ s.indexes[w] # 0 =>
             s.indexes[w] \in 1..Len(s.values) /\ s.values[s.indexes[w]] = w
  BY DEF SetSound
<1>2. Elements(s) = {s.values[k] : k \in 1..Len(s.values)}
  BY ElementsByPlace DEF SetType
<1>3. \A k \in 1..Len(s.values) : k # 0
  OBVIOUS
<1> QED
  BY <1>1, <1>2, <1>3 DEF SetContains

\* The array names every member once.
LEMMA LengthIsCardinality ==
    ASSUME NEW s, SetType(s), SetSound(s)
    PROVE  IsFiniteSet(Elements(s)) /\ Cardinality(Elements(s)) = Len(s.values)
<1> DEFINE n == Len(s.values)
           E == Elements(s)
           f == [k \in 1..n |-> s.values[k]]
<1>1. n \in Nat /\ E = {s.values[k] : k \in 1..n}
  BY ElementsByPlace DEF SetType
<1>2. \A k \in 1..n : s.indexes[s.values[k]] = k
  BY DEF SetSound
<1>3. f \in [1..n -> E] /\ \A e \in E : \E k \in 1..n : f[k] = e
  BY <1>1
<1>4. \A j, k \in 1..n : f[j] = f[k] => j = k
  BY <1>2
<1>5. f \in Bijection(1..n, E)
  BY <1>3, <1>4 DEF Bijection, Injection, Surjection, IsInjective
<1>6. ExistsBijection(1..n, E)
  BY <1>5 DEF ExistsBijection
<1>7. IsFiniteSet(1..n) /\ Cardinality(1..n) = n
  <2>1. 1 \in Int /\ n \in Int
    BY <1>1
  <2>2. /\ IsFiniteSet(1..n)
        /\ Cardinality(1..n) = IF 1 > n THEN 0 ELSE n - 1 + 1
    BY <2>1, FS_Interval
  <2> QED
    BY <1>1, <2>2
<1> HIDE DEF n, E, f
<1>8. IsFiniteSet(E) /\ Cardinality(E) = n
  BY <1>6, <1>7, FS_Bijection
<1> QED
  BY <1>8 DEF n, E

--------------------------------------------------------------------------------

\* _add puts in its value, no other, whether or not it was there before.
THEOREM SetAddCorrect ==
    ASSUME NEW s, SetType(s), SetSound(s), NEW value \in Word
    PROVE  /\ SetType(SetAdd(s, value)) /\ SetSound(SetAdd(s, value))
           /\ Elements(SetAdd(s, value)) = Elements(s) \cup {value}
<1>1. CASE SetContains(s, value)
  <2>1. SetAdd(s, value) = s
    BY <1>1 DEF SetAdd
  <2> QED
    BY <1>1, <2>1, ContainsIsMembership
<1>2. CASE ~SetContains(s, value)
  <2> DEFINE n == Len(s.values)
             r == SetAdd(s, value)
  <2>1. /\ s.values \in Seq(Word) /\ n \in Nat
        /\ s.indexes \in [Word -> Nat] /\ s.indexes[value] = 0
    BY <1>2 DEF SetType, SetContains
  <2>2. r = [values  |-> Append(s.values, value),
             indexes |-> [s.indexes EXCEPT ![value] = n + 1]]
    BY <1>2 DEF SetAdd
  <2>3. /\ r.values \in Seq(Word) /\ Len(r.values) = n + 1
        /\ r.values[n + 1] = value
        /\ \A k \in 1..n : r.values[k] = s.values[k]
    BY <2>1, <2>2
  <2>4. /\ r.indexes \in [Word -> Nat]
        /\ r.indexes[value] = n + 1
        /\ \A w \in Word \ {value} : r.indexes[w] = s.indexes[w]
    BY <2>1, <2>2
  <2>5. /\ \A k \in 1..n : s.values[k] \in Word /\ s.indexes[s.values[k]] = k
        /\ \A w \in Word : s.indexes[w] # 0 =>
               s.indexes[w] \in 1..n /\ s.values[s.indexes[w]] = w
    BY <2>1 DEF SetSound
  <2> HIDE DEF r, n
  <2>6. ASSUME NEW k \in 1..Len(r.values)
        PROVE  r.indexes[r.values[k]] = k
    <3>1. CASE k = n + 1
      BY <3>1, <2>3, <2>4
    <3>2. CASE k \in 1..n
      <4>1. s.values[k] \in Word /\ s.indexes[s.values[k]] = k /\ k # 0
        BY <3>2, <2>1, <2>5
      <4>2. s.values[k] \in Word \ {value}
        BY <4>1, <2>1
      <4> QED
        BY <3>2, <4>1, <4>2, <2>3, <2>4
    <3> QED
      BY <3>1, <3>2, <2>1, <2>3
  <2>7. ASSUME NEW w \in Word, r.indexes[w] # 0
        PROVE  r.indexes[w] \in 1..Len(r.values) /\ r.values[r.indexes[w]] = w
    <3>1. CASE w = value
      BY <3>1, <2>1, <2>3, <2>4
    <3>2. CASE w # value
      <4>1. r.indexes[w] = s.indexes[w]
        BY <3>2, <2>4
      <4>2. s.indexes[w] \in 1..n /\ s.values[s.indexes[w]] = w
        BY <4>1, <2>5, <2>7
      <4> QED
        BY <4>1, <4>2, <2>1, <2>3
    <3> QED
      BY <3>1, <3>2
  <2>8. SetType(r) /\ SetSound(r)
    BY <2>3, <2>4, <2>6, <2>7 DEF SetType, SetSound
  <2>9. Elements(r) = Elements(s) \cup {value}
    <3>1. Elements(r) = {r.values[k] : k \in 1..(n + 1)}
      BY <2>3, ElementsByPlace
    <3>2. Elements(s) = {s.values[k] : k \in 1..n}
      BY <2>1, ElementsByPlace DEF n
    <3>3. 1..(n + 1) = (1..n) \cup {n + 1}
      BY <2>1
    <3> QED
      BY <3>1, <3>2, <3>3, <2>3
  <2> QED
    BY <2>8, <2>9 DEF r
<1> QED
  BY <1>1, <1>2

\* r is s with value removed from place at of n, where last stood at the end.
Removed(s, value, r, n, at, last) ==
    /\ n \in Nat /\ n >= 1 /\ at \in 1..n /\ last \in Word
    /\ s.values[at] = value
    /\ r.values \in Seq(Word) /\ Len(r.values) = n - 1
    /\ \A k \in 1..(n - 1) : /\ k = at => r.values[k] = last
                             /\ k # at => r.values[k] = s.values[k]
    /\ r.indexes \in [Word -> Nat]
    /\ r.indexes[value] = 0
    /\ last # value => r.indexes[last] = at
    /\ \A w \in Word \ {value, last} : r.indexes[w] = s.indexes[w]

\* What _remove leaves, place by place, of a set that contains its value.
LEMMA RemoveShape ==
    ASSUME NEW s, SetType(s), SetSound(s), NEW value \in Word,
           SetContains(s, value)
    PROVE  Removed(s, value, SetRemove(s, value), Len(s.values),
                   s.indexes[value], s.values[Len(s.values)])
<1> DEFINE n == Len(s.values)
           at == s.indexes[value]
           last == s.values[n]
           r == SetRemove(s, value)
<1>0. r = SetRemove(s, value) /\ n = Len(s.values)
      /\ at = s.indexes[value] /\ last = s.values[n]
  OBVIOUS
<1> SUFFICES Removed(s, value, r, n, at, last)
  OBVIOUS
<1> HIDE DEF n, at, last, r
<1>1. s.values \in Seq(Word) /\ n \in Nat /\ s.indexes \in [Word -> Nat]
  BY <1>0 DEF SetType
<1>2. at \in 1..n /\ s.values[at] = value
  BY <1>0 DEF SetSound, SetContains
<1>3. n >= 1 /\ last \in Word /\ at \in Nat
  BY <1>0, <1>1, <1>2
<1>4. s.indexes[last] = n
  BY <1>0, <1>1, <1>3 DEF SetSound
<1>5. Last(s.values) = last /\ at # 0
  BY <1>0, <1>1, <1>2 DEF Last
<1>6. CASE n = at
  <2>1. last = value
    BY <1>0, <1>2, <1>6
  <2>2. r = [values |-> Front(s.values), indexes |-> [s.indexes EXCEPT ![value] = 0]]
    BY <1>0, <1>5, <1>6 DEF SetRemove
  <2>3. /\ Front(s.values) \in Seq(Word) /\ Len(Front(s.values)) = n - 1
        /\ \A k \in 1..(n - 1) : Front(s.values)[k] = s.values[k]
    BY <1>0, <1>1, <1>3, Popped
  <2>4. \A k \in 1..(n - 1) : k # at
    BY <1>1, <1>6
  <2>5. /\ r.values = Front(s.values)
        /\ r.indexes \in [Word -> Nat] /\ r.indexes[value] = 0
        /\ \A w \in Word \ {value} : r.indexes[w] = s.indexes[w]
    BY <1>1, <2>2
  <2> QED
    BY <1>1, <1>2, <1>3, <2>1, <2>3, <2>4, <2>5 DEF Removed
<1>7. CASE n # at
  <2> DEFINE moved == [s.values EXCEPT ![at] = last]
             f == s.indexes
             g == [f EXCEPT ![last] = at]
             h == [g EXCEPT ![value] = 0]
  <2>1. last # value
    BY <1>0, <1>4, <1>7
  <2>2. r = [values |-> Front(moved), indexes |-> h]
    BY <1>0, <1>5, <1>7 DEF SetRemove
  <2>3. moved \in Seq(Word) /\ Len(moved) = n
    BY <1>0, <1>1, <1>2, <1>3
  <2>4. \A k \in 1..n : moved[k] = IF k = at THEN last ELSE s.values[k]
    BY <1>0, <1>1, <1>2
  <2>6. /\ h \in [Word -> Nat] /\ h[value] = 0 /\ h[last] = at
        /\ \A w \in Word \ {value, last} : h[w] = f[w]
    <3>1. f \in [Word -> Nat]
      BY <1>1
    <3> HIDE DEF f
    <3>2. /\ g \in [Word -> Nat] /\ g[last] = at
          /\ \A w \in Word \ {last} : g[w] = f[w]
      BY <1>3, <3>1
    <3> HIDE DEF g
    <3> QED
      BY <1>3, <2>1, <3>2
  <2>7. /\ Front(moved) \in Seq(Word) /\ Len(Front(moved)) = n - 1
        /\ \A k \in 1..(n - 1) : Front(moved)[k] = moved[k]
    BY <1>1, <1>3, <2>3, Popped
  <2>8. /\ r.values = Front(moved) /\ r.indexes = h
        /\ \A k \in 1..(n - 1) : k \in 1..n
    BY <1>1, <2>2
  <2>9. \A k \in 1..(n - 1) : moved[k] = IF k = at THEN last ELSE s.values[k]
    BY <2>4, <2>8
  <2>10. r.indexes[last] = at
    BY <2>6, <2>8
  <2> HIDE DEF moved, h
  <2>11. /\ r.values \in Seq(Word) /\ Len(r.values) = n - 1
         /\ \A k \in 1..(n - 1) : r.values[k] = moved[k]
    BY <2>7, <2>8
  <2>12. /\ r.indexes \in [Word -> Nat] /\ r.indexes[value] = 0
         /\ \A w \in Word \ {value, last} : r.indexes[w] = s.indexes[w]
    BY <2>6, <2>8
  <2>13. \A k \in 1..(n - 1) : /\ k = at => r.values[k] = last
                               /\ k # at => r.values[k] = s.values[k]
    BY <2>9, <2>11
  <2> QED
    BY ONLY <1>1, <1>2, <1>3, <2>10, <2>11, <2>12, <2>13 DEF Removed
<1> QED
  BY <1>6, <1>7

\* _remove takes out its value, no other, if it is there, and the word that
\* moves to its place keeps a right index.
THEOREM SetRemoveCorrect ==
    ASSUME NEW s, SetType(s), SetSound(s), NEW value \in Word
    PROVE  /\ SetType(SetRemove(s, value)) /\ SetSound(SetRemove(s, value))
           /\ Elements(SetRemove(s, value)) = Elements(s) \ {value}
<1>1. CASE ~SetContains(s, value)
  <2>1. SetRemove(s, value) = s
    BY <1>1 DEF SetRemove, SetContains
  <2> QED
    BY <1>1, <2>1, ContainsIsMembership
<1>2. CASE SetContains(s, value)
  <2> DEFINE n == Len(s.values)
             at == s.indexes[value]
             last == s.values[n]
             r == SetRemove(s, value)
  <2>1. /\ n \in Nat /\ n >= 1 /\ at \in 1..n /\ last \in Word
        /\ s.values[at] = value
        /\ r.values \in Seq(Word) /\ Len(r.values) = n - 1
        /\ \A k \in 1..(n - 1) : /\ k = at => r.values[k] = last
                                 /\ k # at => r.values[k] = s.values[k]
        /\ r.indexes \in [Word -> Nat]
        /\ r.indexes[value] = 0
        /\ last # value => r.indexes[last] = at
        /\ \A w \in Word \ {value, last} : r.indexes[w] = s.indexes[w]
    <3>1. Removed(s, value, r, n, at, last)
      BY <1>2, RemoveShape
    <3> HIDE DEF r, n, at, last
    <3> QED
      BY ONLY <3>1 DEF Removed
  <2>2. /\ \A k \in 1..n : s.values[k] \in Word /\ s.indexes[s.values[k]] = k
        /\ \A w \in Word : s.indexes[w] # 0 =>
               s.indexes[w] \in 1..n /\ s.values[s.indexes[w]] = w
    BY DEF SetSound, SetType
  <2> HIDE DEF r, n, at, last
  <2>3. s.indexes[last] = n /\ s.indexes[value] = at /\ s.values[n] = last
    BY <2>1, <2>2 DEF at, last
  <2>4. ASSUME NEW k \in 1..Len(r.values)
        PROVE  r.indexes[r.values[k]] = k
    <3>1. k \in 1..(n - 1)
      BY <2>1
    <3>2. CASE k = at
      BY <2>1, <2>3, <3>1, <3>2
    <3>3. CASE k # at
      <4>1. s.values[k] \in Word /\ s.indexes[s.values[k]] = k
        BY <2>1, <2>2, <3>1
      <4>2. s.values[k] # value /\ s.values[k] # last
        BY <2>1, <2>3, <3>1, <3>3, <4>1
      <4> QED
        BY <2>1, <3>1, <3>3, <4>1, <4>2
    <3> QED
      BY <3>2, <3>3
  <2>5. ASSUME NEW w \in Word, r.indexes[w] # 0
        PROVE  r.indexes[w] \in 1..Len(r.values) /\ r.values[r.indexes[w]] = w
    <3>1. w # value
      BY <2>1, <2>5
    <3>2. CASE w = last
      <4>1. at # n
        BY <2>1, <2>3, <3>1, <3>2
      <4> QED
        BY <2>1, <3>1, <3>2, <4>1
    <3>3. CASE w # last
      <4>1. r.indexes[w] = s.indexes[w]
        BY <2>1, <3>1, <3>3
      <4>2. s.indexes[w] \in 1..n /\ s.values[s.indexes[w]] = w
        BY <2>2, <2>5, <4>1
      <4>3. s.indexes[w] # n /\ s.indexes[w] # at
        BY <2>1, <2>3, <3>1, <3>3, <4>2
      <4> QED
        BY SMTT(30), <2>1, <4>1, <4>2, <4>3
    <3> QED
      BY <3>2, <3>3
  <2>6. SetType(r) /\ SetSound(r)
    BY <2>1, <2>4, <2>5 DEF SetType, SetSound
  <2>7. \A w \in Word : SetContains(r, w) <=> SetContains(s, w) /\ w # value
    BY <2>1, <2>3 DEF SetContains
  <2>8. Elements(r) \subseteq Word /\ Elements(s) \subseteq Word
    BY <2>6, ElementsByPlace DEF SetType
  <2>9. Elements(r) = Elements(s) \ {value}
    BY <2>6, <2>7, <2>8, ContainsIsMembership
  <2> QED
    BY <2>6, <2>9 DEF r
<1> QED
  BY <1>1, <1>2

--------------------------------------------------------------------------------

\* set keeps a map sound and makes its key one of the keys.
LEMMA MapSetCorrect ==
    ASSUME NEW m, MapType(m), MapSound(m), NEW key \in Word, NEW value \in Word
    PROVE  /\ MapType(MapSet(m, key, value)) /\ MapSound(MapSet(m, key, value))
           /\ Elements(MapSet(m, key, value).keys) = Elements(m.keys) \cup {key}
<1> DEFINE r == MapSet(m, key, value)
<1>1. /\ r.keys = SetAdd(m.keys, key)
      /\ r.values = [m.values EXCEPT ![key] = value]
  BY DEF MapSet
<1>2. /\ SetType(m.keys) /\ SetSound(m.keys)
      /\ m.values \in [Word -> Word]
      /\ \A w \in Word : m.values[w] # 0 => SetContains(m.keys, w)
  BY DEF MapType, MapSound, MapContains
<1>3. /\ SetType(r.keys) /\ SetSound(r.keys)
      /\ Elements(r.keys) = Elements(m.keys) \cup {key}
  BY <1>1, <1>2, SetAddCorrect
<1>4. \A w \in Word : w = key \/ SetContains(m.keys, w) => SetContains(r.keys, w)
  BY <1>2, <1>3, ContainsIsMembership
<1>5. /\ r.values \in [Word -> Word]
      /\ \A w \in Word : w # key => r.values[w] = m.values[w]
  BY <1>1, <1>2
<1> QED
  BY <1>2, <1>3, <1>4, <1>5 DEF MapType, MapSound, MapContains

\* remove keeps a map sound: the value goes with the key.
LEMMA MapRemoveCorrect ==
    ASSUME NEW m, MapType(m), MapSound(m), NEW key \in Word
    PROVE  /\ MapType(MapRemove(m, key)) /\ MapSound(MapRemove(m, key))
           /\ Elements(MapRemove(m, key).keys) = Elements(m.keys) \ {key}
<1> DEFINE r == MapRemove(m, key)
<1>1. /\ r.keys = SetRemove(m.keys, key)
      /\ r.values = [m.values EXCEPT ![key] = 0]
  BY DEF MapRemove
<1>2. /\ SetType(m.keys) /\ SetSound(m.keys)
      /\ m.values \in [Word -> Word]
      /\ \A w \in Word : m.values[w] # 0 => SetContains(m.keys, w)
  BY DEF MapType, MapSound, MapContains
<1>3. /\ SetType(r.keys) /\ SetSound(r.keys)
      /\ Elements(r.keys) = Elements(m.keys) \ {key}
  BY <1>1, <1>2, SetRemoveCorrect
<1>4. \A w \in Word \ {key} : SetContains(m.keys, w) => SetContains(r.keys, w)
  BY <1>2, <1>3, ContainsIsMembership
<1>5. 0 \in Word
  BY WordsAssumption DEF Word
<1>6. /\ r.values \in [Word -> Word] /\ r.values[key] = 0
      /\ \A w \in Word \ {key} : r.values[w] = m.values[w]
  BY <1>1, <1>2, <1>5
<1> QED
  BY <1>2, <1>3, <1>4, <1>6 DEF MapType, MapSound, MapContains

--------------------------------------------------------------------------------
(* Checkpoints                                                             *)

\* The places of a history, and what stands there.
LEMMA HistoryPlaces ==
    ASSUME NEW h, HistoryType(h)
    PROVE  /\ h \in Seq(Checkpoint) /\ Len(h) \in Nat
           /\ \A i \in 1..Len(h) : h[i] \in Checkpoint /\ h[i].key \in Nat
<1>1. h \in Seq(Checkpoint) /\ Len(h) \in Nat
  BY DEF HistoryType
<1>2. \A i \in 1..Len(h) : h[i] \in Checkpoint
  BY <1>1
<1>3. \A c \in Checkpoint : c.key \in Nat
  BY DEF Checkpoint
<1> QED
  BY <1>1, <1>2, <1>3

\* _insert at a key that is not below the last one keeps the keys increasing.
THEOREM InsertSorted ==
    ASSUME NEW h, HistoryType(h), KeysIncrease(h),
           NEW key \in Nat, NEW value \in Nat, Insertable(h, key)
    PROVE  /\ HistoryType(Insert(h, key, value))
           /\ KeysIncrease(Insert(h, key, value))
<1> DEFINE n == Len(h)
           c == [key |-> key, value |-> value]
<1>1. h \in Seq(Checkpoint) /\ n \in Nat /\ c \in Checkpoint
  BY HistoryPlaces DEF Checkpoint
<1>2. \A i \in 1..n : h[i] \in Checkpoint /\ h[i].key \in Nat
  BY HistoryPlaces
<1>3. \A i, j \in 1..n : i < j => h[i].key < h[j].key
  BY DEF KeysIncrease
<1>4. h # << >> => n >= 1 /\ Last(h) = h[n] /\ h[n].key <= key
  BY <1>1 DEF Insertable, Last
<1>5. h = << >> => n = 0
  OBVIOUS
<1>6. CASE h # << >> /\ Last(h).key = key
  <2> DEFINE r == [h EXCEPT ![n] = c]
  <2>1. Insert(h, key, value) = r
    BY <1>6 DEF Insert
  <2>2. r \in Seq(Checkpoint) /\ Len(r) = n
    <3>1. n \in 1..n
      BY <1>1, <1>4, <1>6
    <3> HIDE DEF c
    <3> QED
      BY <1>1, <3>1
  <2>3. \A i \in 1..n : r[i].key = h[i].key
    BY <1>1, <1>2, <1>4, <1>6
  <2> HIDE DEF r
  <2> QED
    BY <1>3, <2>1, <2>2, <2>3 DEF HistoryType, KeysIncrease
<1>7. CASE ~(h # << >> /\ Last(h).key = key)
  <2> DEFINE r == Append(h, c)
  <2>1. Insert(h, key, value) = r
    BY <1>7 DEF Insert
  <2>2. /\ r \in Seq(Checkpoint) /\ Len(r) = n + 1 /\ r[n + 1] = c
        /\ \A i \in 1..n : r[i] = h[i]
    BY <1>1
  <2>3. \A i \in 1..n : h[i].key < key
    <3> SUFFICES ASSUME NEW i \in 1..n PROVE h[i].key < key
      OBVIOUS
    <3>1. n >= 1 /\ h[n].key < key
      BY <1>1, <1>2, <1>4, <1>5, <1>7
    <3>2. i = n \/ h[i].key < h[n].key
      BY <1>1, <1>3, <3>1
    <3> QED
      BY <1>1, <1>2, <3>1, <3>2
  <2> HIDE DEF r
  <2>4. ASSUME NEW i \in 1..(n + 1), NEW j \in 1..(n + 1), i < j
        PROVE  r[i].key < r[j].key
    <3>1. i \in 1..n
      BY <1>1, <2>4
    <3>2. CASE j = n + 1
      BY <2>2, <2>3, <3>1, <3>2
    <3>3. CASE j # n + 1
      <4>1. j \in 1..n
        BY <1>1, <3>3
      <4> QED
        BY <1>3, <2>2, <2>4, <3>1, <4>1
    <3> QED
      BY <3>2, <3>3
  <2> QED
    BY <2>1, <2>2, <2>4 DEF HistoryType, KeysIncrease
<1> QED
  BY <1>6, <1>7

\* _insert leaves what stands for every key below its own.
LEMMA InsertKeepsPast ==
    ASSUME NEW h, HistoryType(h), NEW key \in Nat, NEW value \in Nat,
           NEW b \in Nat, b < key, NEW v
    PROVE  IsValueUpTo(Insert(h, key, value), b, v) <=> IsValueUpTo(h, b, v)
<1> DEFINE n == Len(h)
           c == [key |-> key, value |-> value]
<1>1. h \in Seq(Checkpoint) /\ n \in Nat
      /\ \A i \in 1..n : h[i].key \in Nat
  BY HistoryPlaces
<1>2. c.key = key
  OBVIOUS
<1>3. CASE h # << >> /\ Last(h).key = key
  <2> DEFINE r == [h EXCEPT ![n] = c]
  <2>1. Insert(h, key, value) = r
    BY <1>3 DEF Insert
  <2>2. n >= 1 /\ h[n].key = key
    BY <1>1, <1>3 DEF Last
  <2>3. /\ Len(r) = n /\ r[n].key > b /\ h[n].key > b
        /\ \A i \in 1..(n - 1) : r[i] = h[i]
    BY <1>1, <1>2, <2>2
  <2> HIDE DEF r
  <2>4. /\ \A i \in 1..n : r[i].key > b <=> h[i].key > b
        /\ \A i \in 1..n : r[i].key <= b => r[i] = h[i]
        /\ \A i \in 1..n : h[i].key <= b => r[i] = h[i]
    <3> SUFFICES ASSUME NEW i \in 1..n
                 PROVE  /\ r[i].key > b <=> h[i].key > b
                        /\ r[i].key <= b => r[i] = h[i]
                        /\ h[i].key <= b => r[i] = h[i]
      OBVIOUS
    <3>1. CASE i = n
      <4>1. r[n].key = key /\ h[n].key = key
        BY <1>1, <2>2 DEF r
      <4> QED
        BY <3>1, <4>1
    <3>2. CASE i # n
      <4>1. i \in 1..(n - 1)
        BY <1>1, <3>2
      <4> QED
        BY <2>3, <4>1
    <3> QED
      BY <3>1, <3>2
  <2>5. (\A i \in 1..Len(r) : r[i].key > b) <=> (\A i \in 1..n : h[i].key > b)
    BY <2>3, <2>4
  <2>6. \A i \in 1..n : /\ r[i].key <= b <=> h[i].key <= b
                        /\ h[i].key <= b => r[i].value = h[i].value
    <3> SUFFICES ASSUME NEW i \in 1..n
                 PROVE  /\ r[i].key <= b <=> h[i].key <= b
                        /\ h[i].key <= b => r[i].value = h[i].value
      OBVIOUS
    <3>1. r[i].key <= b => r[i].key = h[i].key
      BY <2>4
    <3> QED
      BY <2>4, <3>1
  <2>7. ASSUME NEW i \in 1..n
        PROVE  (\A j \in (i + 1)..n : r[j].key > b)
                   <=> (\A j \in (i + 1)..n : h[j].key > b)
    BY SMTT(30), <1>1, <2>4
  <2> DEFINE InR(i) == /\ r[i].key <= b /\ r[i].value = v
                       /\ \A j \in (i + 1)..n : r[j].key > b
             InH(i) == /\ h[i].key <= b /\ h[i].value = v
                       /\ \A j \in (i + 1)..n : h[j].key > b
  <2>8. ASSUME NEW i \in 1..n
        PROVE  InR(i) <=> InH(i)
    BY <2>6, <2>7
  <2>9. /\ IsValueUpTo(r, b, v)
               <=> \/ v = 0 /\ \A i \in 1..n : r[i].key > b
                   \/ \E i \in 1..n : InR(i)
        /\ IsValueUpTo(h, b, v)
               <=> \/ v = 0 /\ \A i \in 1..n : h[i].key > b
                   \/ \E i \in 1..n : InH(i)
    BY <2>3 DEF IsValueUpTo
  <2> HIDE DEF InR, InH
  <2> QED
    BY <2>1, <2>3, <2>5, <2>8, <2>9
<1>4. CASE ~(h # << >> /\ Last(h).key = key)
  <2> DEFINE r == Append(h, c)
  <2>1. Insert(h, key, value) = r
    BY <1>4 DEF Insert
  <2>2. /\ Len(r) = n + 1 /\ r[n + 1].key = key
        /\ \A i \in 1..n : r[i] = h[i]
    BY <1>1
  <2>3. r[n + 1].key > b /\ ~(r[n + 1].key <= b)
    BY <2>2
  <2> HIDE DEF r
  <2>4. (\A i \in 1..(n + 1) : r[i].key > b) <=> (\A i \in 1..n : h[i].key > b)
    BY SMTT(30), <1>1, <2>2, <2>3
  <2>5. ASSUME NEW i \in 1..n
        PROVE  (\A j \in (i + 1)..(n + 1) : r[j].key > b)
                   <=> (\A j \in (i + 1)..n : h[j].key > b)
    BY SMTT(30), <1>1, <2>2, <2>3
  <2>6. \A i \in 1..(n + 1) : r[i].key <= b => i \in 1..n
    BY <1>1, <2>3
  <2>7. 1..n \subseteq 1..(n + 1)
    BY <1>1
  <2> DEFINE InR(i) == /\ r[i].key <= b /\ r[i].value = v
                       /\ \A j \in (i + 1)..(n + 1) : r[j].key > b
             InH(i) == /\ h[i].key <= b /\ h[i].value = v
                       /\ \A j \in (i + 1)..n : h[j].key > b
  <2>8. \A i \in 1..n : InR(i) <=> InH(i)
    BY <2>2, <2>5
  <2>9. \A i \in 1..(n + 1) : InR(i) => i \in 1..n
    BY <2>6
  <2>10. /\ IsValueUpTo(r, b, v)
                <=> \/ v = 0 /\ \A i \in 1..(n + 1) : r[i].key > b
                    \/ \E i \in 1..(n + 1) : InR(i)
         /\ IsValueUpTo(h, b, v)
                <=> \/ v = 0 /\ \A i \in 1..n : h[i].key > b
                    \/ \E i \in 1..n : InH(i)
    BY <2>2 DEF IsValueUpTo
  <2> HIDE DEF InR, InH
  <2>11. (\E i \in 1..(n + 1) : InR(i)) <=> (\E i \in 1..n : InH(i))
    BY <2>7, <2>8, <2>9
  <2> QED
    BY <2>1, <2>4, <2>10, <2>11
<1> QED
  BY <1>3, <1>4

--------------------------------------------------------------------------------

SearchType(s) == s \in [lookup : Searches, key : Nat, low : Nat, high : Nat]

\* The lookups start by looking everywhere.
LEMMA WholeSearchSound ==
    ASSUME NEW h, HistoryType(h), NEW lookup \in Searches, NEW key \in Nat
    PROVE  /\ SearchType(Search(lookup, key, 0, Len(h)))
           /\ SearchSound(h, Search(lookup, key, 0, Len(h)))
<1>1. Len(h) \in Nat
  BY DEF HistoryType
<1> QED
  BY <1>1 DEF SearchType, SearchSound, Search

\* getAtProbablyRecentBlock's own first cut loses nothing either.
LEMMA RecentSearchSound ==
    ASSUME NEW h, HistoryType(h), KeysIncrease(h), Len(h) <= MaxLength,
           NEW key \in Nat
    PROVE  SearchType(RecentSearch(h, key)) /\ SearchSound(h, RecentSearch(h, key))
<1> DEFINE n == Len(h)
           mid == n - MathSqrt(n)
<1>1. n \in Nat /\ \A i \in 1..n : h[i].key \in Nat
  BY HistoryPlaces
<1>2. CASE n <= 5
  <2>1. RecentSearch(h, key) = Search("upper", key, 0, n)
    BY <1>2 DEF RecentSearch
  <2> QED
    BY <2>1, WholeSearchSound DEF Searches
<1>3. CASE ~(n <= 5)
  <2>1. n \in 1..MaxLength
    BY <1>1, <1>3, CheckpointsAssumption
  <2>2. mid \in 0..(n - 1)
    <3>1. MathSqrt(n) \in 1..n
      BY <2>1, SqrtAssumption
    <3> QED
      BY <1>1, <3>1
  <2>3. mid + 1 \in 1..n
    BY <1>1, <2>2
  <2> HIDE DEF mid
  <2>4. \A i \in 1..mid : h[i].key < h[mid + 1].key
    BY <1>1, <2>2, <2>3 DEF KeysIncrease
  <2>5. \A i \in (mid + 2)..n : h[mid + 1].key < h[i].key
    BY <1>1, <2>2, <2>3 DEF KeysIncrease
  <2>6. CASE key < h[mid + 1].key
    <3> DEFINE s == Search("upper", key, 0, mid)
    <3>1. RecentSearch(h, key) = s
      BY <1>3, <2>6 DEF RecentSearch, mid
    <3>2. s.low = 0 /\ s.high = mid /\ s.key = key /\ s.lookup = "upper"
      BY DEF Search
    <3>3. SearchType(s)
      BY <1>1, <2>2 DEF SearchType, Search, Searches
    <3> HIDE DEF s
    <3>4. ASSUME NEW i \in (mid + 1)..n PROVE h[i].key > key
      <4>1. i = mid + 1 \/ i \in (mid + 2)..n
        BY <1>1, <2>2
      <4>2. i \in 1..n
        BY <1>1, <2>2
      <4> QED
        BY <1>1, <2>3, <2>5, <2>6, <4>1, <4>2
    <3> QED
      BY <1>1, <2>2, <3>1, <3>2, <3>3, <3>4 DEF SearchSound, Beyond
  <2>7. CASE ~(key < h[mid + 1].key)
    <3> DEFINE s == Search("upper", key, mid + 1, n)
    <3>1. RecentSearch(h, key) = s
      BY <1>3, <2>7 DEF RecentSearch, mid
    <3>2. s.low = mid + 1 /\ s.high = n /\ s.key = key /\ s.lookup = "upper"
      BY DEF Search
    <3>3. SearchType(s)
      BY <1>1, <2>2 DEF SearchType, Search, Searches
    <3> HIDE DEF s
    <3>4. ASSUME NEW i \in 1..(mid + 1) PROVE ~(h[i].key > key)
      <4>1. i = mid + 1 \/ i \in 1..mid
        BY <1>1, <2>2
      <4>2. i \in 1..n
        BY <1>1, <2>2
      <4> QED
        BY <1>1, <2>3, <2>4, <2>7, <4>1, <4>2
    <3> QED
      BY <1>1, <2>2, <2>3, <3>1, <3>2, <3>3, <3>4 DEF SearchSound, Beyond
  <2> QED
    BY <2>6, <2>7
<1> QED
  BY <1>2, <1>3

\* A round of the loop keeps the place looked for between its bounds, and
\* brings them closer.
THEOREM HalveSound ==
    ASSUME NEW h, HistoryType(h), KeysIncrease(h),
           NEW s, SearchType(s), SearchSound(h, s), s.low < s.high
    PROVE  /\ SearchType(Halve(h, s)) /\ SearchSound(h, Halve(h, s))
           /\ Halve(h, s).high - Halve(h, s).low < s.high - s.low
<1> DEFINE n == Len(h)
           mid == (s.low + s.high) \div 2
<1>1. n \in Nat /\ \A i \in 1..n : h[i].key \in Nat
  BY HistoryPlaces
<1>2. /\ s \in [lookup : Searches, key : Nat, low : Nat, high : Nat]
      /\ s.low \in Nat /\ s.high \in Nat /\ s.key \in Nat
      /\ s.low \in 0..s.high /\ s.high \in 0..n
      /\ \A i \in 1..s.low : ~Beyond(h[i], s)
      /\ \A i \in (s.high + 1)..n : Beyond(h[i], s)
  BY DEF SearchType, SearchSound
<1>3. mid \in Nat /\ s.low <= mid /\ mid < s.high
  BY <1>2
<1> HIDE DEF mid
<1>4. mid + 1 \in 1..n
  BY <1>1, <1>2, <1>3
<1>5. CASE Beyond(h[mid + 1], s)
  <2> DEFINE r == [s EXCEPT !.high = mid]
  <2>1. Halve(h, s) = r
    BY <1>5 DEF Halve, mid
  <2>2. /\ r \in [lookup : Searches, key : Nat, low : Nat, high : Nat]
        /\ r.low = s.low /\ r.high = mid
        /\ r.lookup = s.lookup /\ r.key = s.key
    BY <1>2, <1>3
  <2> HIDE DEF r
  <2>3. \A ckpt : Beyond(ckpt, r) <=> Beyond(ckpt, s)
    BY <2>2 DEF Beyond
  <2>4. ASSUME NEW i \in (mid + 1)..n PROVE Beyond(h[i], s)
    <3>1. i \in 1..n /\ mid + 1 \in 1..n
      BY <1>1, <1>3, <1>4
    <3>2. i = mid + 1 \/ h[mid + 1].key < h[i].key
      BY <1>1, <1>3, <3>1 DEF KeysIncrease
    <3> QED
      BY <1>1, <1>2, <1>5, <3>1, <3>2 DEF Beyond
  <2>5. SearchSound(h, r)
    BY <1>2, <1>3, <2>2, <2>3, <2>4 DEF SearchSound
  <2>6. r.high - r.low < s.high - s.low
    BY <1>2, <1>3, <2>2
  <2> QED
    BY <2>1, <2>2, <2>5, <2>6 DEF SearchType
<1>6. CASE ~Beyond(h[mid + 1], s)
  <2> DEFINE r == [s EXCEPT !.low = mid + 1]
  <2>1. Halve(h, s) = r
    BY <1>6 DEF Halve, mid
  <2>2. /\ r \in [lookup : Searches, key : Nat, low : Nat, high : Nat]
        /\ r.low = mid + 1 /\ r.high = s.high
        /\ r.lookup = s.lookup /\ r.key = s.key
    BY <1>2, <1>3
  <2> HIDE DEF r
  <2>3. \A ckpt : Beyond(ckpt, r) <=> Beyond(ckpt, s)
    BY <2>2 DEF Beyond
  <2>4. ASSUME NEW i \in 1..(mid + 1) PROVE ~Beyond(h[i], s)
    <3>1. i \in 1..n /\ mid + 1 \in 1..n
      BY <1>1, <1>2, <1>3, <1>4
    <3>2. i = mid + 1 \/ h[i].key < h[mid + 1].key
      BY SMTT(30), <1>1, <1>3, <3>1 DEF KeysIncrease
    <3> QED
      BY <1>1, <1>2, <1>6, <3>1, <3>2 DEF Beyond
  <2>5. SearchSound(h, r)
    BY <1>2, <1>3, <2>2, <2>3, <2>4 DEF SearchSound
  <2>6. r.high - r.low < s.high - s.low
    BY <1>2, <1>3, <2>2
  <2> QED
    BY <2>1, <2>2, <2>5, <2>6 DEF SearchType
<1> QED
  BY <1>5, <1>6

\* Where the loop ends, the value it stands at is the one promised.
THEOREM SearchAnswers ==
    ASSUME NEW h, HistoryType(h), NEW s, SearchType(s), SearchSound(h, s),
           s.low >= s.high
    PROVE  IsAnswer(h, s, ValueFound(h, s))
<1> DEFINE n == Len(h)
           p == s.high
<1>1. n \in Nat /\ \A i \in 1..n : h[i].key \in Nat
  BY HistoryPlaces
<1>2. /\ s.lookup \in {"upper", "lower"} /\ s.key \in Nat
      /\ p \in 0..n /\ s.low = p
      /\ \A i \in 1..p : ~Beyond(h[i], s)
      /\ \A i \in (p + 1)..n : Beyond(h[i], s)
  BY DEF SearchType, SearchSound, Searches
<1>3. CASE s.lookup = "upper"
  <2>1. /\ \A i \in 1..p : h[i].key <= s.key
        /\ \A i \in (p + 1)..n : h[i].key > s.key
    BY <1>1, <1>2, <1>3 DEF Beyond
  <2>2. CASE p = 0
    BY <1>3, <2>1, <2>2 DEF IsAnswer, IsValueUpTo, ValueFound
  <2>3. CASE p # 0
    <3>1. p \in 1..n /\ p \in 1..p
      BY <1>1, <1>2, <2>3
    <3>2. ValueFound(h, s) = h[p].value
      BY <1>3, <2>3 DEF ValueFound
    <3> QED
      BY <1>3, <2>1, <3>1, <3>2 DEF IsAnswer, IsValueUpTo
  <2> QED
    BY <2>2, <2>3
<1>4. CASE s.lookup = "lower"
  <2>1. /\ \A i \in 1..p : h[i].key < s.key
        /\ \A i \in (p + 1)..n : h[i].key >= s.key
    BY <1>1, <1>2, <1>4 DEF Beyond
  <2>2. CASE p = n
    BY <1>4, <2>1, <2>2 DEF IsAnswer, IsValueFrom, ValueFound
  <2>3. CASE p # n
    <3>1. p + 1 \in 1..n /\ p + 1 \in (p + 1)..n /\ (p + 1) - 1 = p
      BY <1>1, <1>2, <2>3
    <3>2. ValueFound(h, s) = h[p + 1].value
      BY <1>4, <2>3 DEF ValueFound
    <3> QED
      BY <1>4, <2>1, <3>1, <3>2 DEF IsAnswer, IsValueFrom
  <2> QED
    BY <2>2, <2>3
<1> QED
  BY <1>2, <1>3, <1>4

--------------------------------------------------------------------------------
(* The square root that the probably recent lookup narrows its search by.  *)

\* A set of numbers with a member has a smallest one.
LEMMA SmallestOf ==
    ASSUME NEW S \in SUBSET Nat, S # {}
    PROVE  \E x \in S : \A y \in S : ~ (y < x)
<1> DEFINE R == OpToRel(<, Nat)
<1>1. IsWellFoundedOn(R, Nat)
  BY NatLessThanWellFounded
<1>2. \A x, y \in Nat : x < y => <<x, y>> \in R
  BY DEF OpToRel
<1> HIDE DEF R
<1>3. PICK x \in S : \A y \in S : ~ (<<y, x>> \in R)
  BY <1>1, WFMin
<1>4. \A y \in S : ~ (y < x)
  BY <1>2, <1>3, Zenon
<1> QED
  BY <1>4

\* How powers of two are made; the provers know nothing of ^.
Doubling == 2 ^ 0 = 1 /\ \A k \in Nat : 2 ^ (k + 1) = 2 * 2 ^ k

\* A power of two is above its exponent.
LEMMA PowersAbove ==
    ASSUME Doubling
    PROVE  \A k \in Nat : 2 ^ k \in Nat /\ k < 2 ^ k
<1> DEFINE S == {k \in Nat : ~ (2 ^ k \in Nat /\ k < 2 ^ k)}
<1>1. SUFFICES ASSUME S # {} PROVE FALSE
  OBVIOUS
<1>2. PICK k \in S : \A j \in S : ~ (j < k)
  <2>1. S \in SUBSET Nat
    OBVIOUS
  <2> HIDE DEF S
  <2> QED
    BY <1>1, <2>1, SmallestOf
<1>3. k \in Nat /\ ~ (2 ^ k \in Nat /\ k < 2 ^ k)
  OBVIOUS
<1>4. k # 0
  <2>1. 2 ^ 0 = 1 /\ 1 \in Nat /\ 0 < 1
    BY DEF Doubling
  <2>2. 2 ^ 0 \in Nat /\ 0 < 2 ^ 0
    BY <2>1, Zenon
  <2> QED
    BY <1>3, <2>2, Zenon
<1>5. k - 1 \in Nat /\ k - 1 < k /\ (k - 1) + 1 = k
  BY <1>3, <1>4
<1>6. 2 ^ (k - 1) \in Nat /\ k - 1 < 2 ^ (k - 1)
  BY <1>2, <1>5
<1>7. 2 ^ k = 2 * 2 ^ (k - 1)
  BY <1>5 DEF Doubling
<1> DEFINE half == 2 ^ (k - 1)
<1>8. 2 * half \in Nat /\ k < 2 * half
  <2>1. half \in Nat /\ k - 1 < half
    BY <1>6
  <2> HIDE DEF half
  <2> QED
    BY <1>3, <1>4, <2>1
<1> QED
  BY <1>3, <1>7, <1>8

\* A larger exponent does not make a smaller power.
LEMMA PowersGrow ==
    ASSUME Doubling, NEW j \in Nat
    PROVE  \A k \in Nat : j <= k => 2 ^ j <= 2 ^ k
<1> DEFINE S == {k \in Nat : ~ (j <= k => 2 ^ j <= 2 ^ k)}
<1>1. SUFFICES ASSUME S # {} PROVE FALSE
  OBVIOUS
<1>2. PICK k \in S : \A i \in S : ~ (i < k)
  <2>1. S \in SUBSET Nat
    OBVIOUS
  <2> HIDE DEF S
  <2> QED
    BY <1>1, <2>1, SmallestOf
<1>3. k \in Nat /\ j <= k /\ ~ (2 ^ j <= 2 ^ k)
  OBVIOUS
<1>4. 2 ^ j \in Nat /\ 2 ^ k \in Nat
  BY <1>3, PowersAbove
<1>5. j # k
  BY <1>3, <1>4
<1>6. k - 1 \in Nat /\ k - 1 < k /\ (k - 1) + 1 = k /\ j <= k - 1
  BY <1>3, <1>5
<1>7. 2 ^ j <= 2 ^ (k - 1) /\ 2 ^ (k - 1) \in Nat
  BY <1>2, <1>6, PowersAbove
<1>8. 2 ^ k = 2 * 2 ^ (k - 1)
  BY <1>6 DEF Doubling
<1> DEFINE half == 2 ^ (k - 1)
           low == 2 ^ j
<1>9. low <= 2 * half
  <2>1. half \in Nat /\ low \in Nat /\ low <= half
    BY <1>4, <1>7
  <2> HIDE DEF half, low
  <2> QED
    BY <2>1
<1> QED
  BY <1>3, <1>8, <1>9

\* The first guess lies between one and the number.
LEMMA GuessInRange ==
    ASSUME Doubling, NEW a \in Nat \ {0}
    PROVE  2 ^ (Log2(a) \div 2) \in 1..a
<1> DEFINE S == {k \in Nat : a < 2 ^ (k + 1)}
<1>1. PICK k \in S : \A j \in S : ~ (j < k)
  <2>1. S \in SUBSET Nat
    OBVIOUS
  <2>2. a \in S
    <3>1. a + 1 \in Nat /\ a < a + 1
      OBVIOUS
    <3>2. 2 ^ (a + 1) \in Nat /\ a + 1 < 2 ^ (a + 1)
      BY <3>1, PowersAbove
    <3> DEFINE p == 2 ^ (a + 1)
    <3>3. a < p
      <4>1. p \in Nat /\ a + 1 < p
        BY <3>2
      <4> HIDE DEF p
      <4> QED
        BY <4>1
    <3> QED
      BY <3>3
  <2> HIDE DEF S
  <2> QED
    BY <2>1, <2>2, SmallestOf
<1>2. k \in Nat /\ a < 2 ^ (k + 1)
  OBVIOUS
<1>3. 2 ^ k \in Nat /\ k < 2 ^ k
  BY <1>2, PowersAbove
<1>4. 2 ^ k <= a
  <2>1. CASE k = 0
    BY <2>1 DEF Doubling
  <2>2. CASE k # 0
    <3>1. k - 1 \in Nat /\ k - 1 < k /\ (k - 1) + 1 = k
      BY <1>2, <2>2
    <3>2. ~ (a < 2 ^ k)
      BY <1>1, <3>1
    <3> QED
      BY <1>3, <3>2
  <2> QED
    BY <2>1, <2>2
<1>5. k \in 0..a
  BY <1>2, <1>3, <1>4
<1> DEFINE l == Log2(a)
<1>6. l \in 0..a /\ 2 ^ l <= a
  BY <1>2, <1>4, <1>5 DEF Log2
<1> HIDE DEF l
<1> DEFINE h == l \div 2
<1>7. l \in Nat /\ h \in Nat /\ h <= l
  BY <1>6
<1> HIDE DEF h
<1>8. 2 ^ h \in Nat /\ h < 2 ^ h /\ 2 ^ h <= 2 ^ l /\ 2 ^ l \in Nat
  BY <1>7, PowersAbove, PowersGrow
<1>9. 2 ^ h \in 1..a
  BY <1>6, <1>7, <1>8
<1> QED
  BY <1>9 DEF h, l

\* A round of Newton's method does not leave the range.
LEMMA NewtonInRange ==
    ASSUME NEW a \in Nat \ {0}, NEW r \in 1..a
    PROVE  Newton(a, r) \in 1..a
<1>1. a \div r \in 0..a /\ (r = 1 => a \div r = a)
  OBVIOUS
<1> DEFINE q == a \div r
<1>2. r + q >= 2 /\ r + q <= 2 * a
  OBVIOUS
<1> QED
  BY <1>2 DEF Newton

NewtonRounds(a, guess, n, r) ==
    r = [i \in 0..n |-> IF i = 0 THEN guess ELSE Newton(a, r[i - 1])]

\* The rounds can be made.
LEMMA NewtonRoundsExist ==
    ASSUME NEW a, NEW guess, NEW n \in Nat
    PROVE  \E r : NewtonRounds(a, guess, n, r)
<1> DEFINE S == {m \in Nat : ~ \E r : NewtonRounds(a, guess, m, r)}
<1>1. SUFFICES ASSUME S # {} PROVE FALSE
  OBVIOUS
<1>2. PICK m \in S : \A l \in S : ~ (l < m)
  <2>1. S \in SUBSET Nat
    OBVIOUS
  <2> HIDE DEF S
  <2> QED
    BY <1>1, <2>1, SmallestOf
<1>3. m \in Nat /\ ~ \E r : NewtonRounds(a, guess, m, r)
  OBVIOUS
<1>4. CASE m = 0
  <2>1. NewtonRounds(a, guess, 0, [i \in 0..0 |-> guess])
    BY DEF NewtonRounds
  <2> QED
    BY <1>3, <1>4, <2>1
<1>5. CASE m # 0
  <2>1. m - 1 \in Nat /\ m - 1 < m
    BY <1>3, <1>5
  <2>2. ~ (m - 1 \in S)
    BY <1>2, <2>1
  <2>3. PICK r : NewtonRounds(a, guess, m - 1, r)
    BY <2>1, <2>2
  <2> DEFINE last == Newton(a, r[m - 1])
             g == [i \in 0..m |-> IF i = m THEN last ELSE r[i]]
  <2>4. ASSUME NEW i \in 0..m
        PROVE  g[i] = IF i = 0 THEN guess ELSE Newton(a, g[i - 1])
    <3>1. r = [j \in 0..(m - 1) |-> IF j = 0 THEN guess ELSE Newton(a, r[j - 1])]
      BY <2>3 DEF NewtonRounds
    <3>2. CASE i = m
      <4>1. g[i] = last /\ i - 1 \in 0..m /\ i - 1 # m /\ i # 0
        BY <3>2, <1>3, <1>5
      <4>2. g[i - 1] = r[m - 1]
        BY <3>2, <4>1
      <4> QED
        BY <3>2, <4>1, <4>2
    <3>3. CASE i # m
      <4>1. i \in 0..(m - 1) /\ i - 1 # m
        BY <3>3, <1>3, <1>5
      <4>2. r[i] = IF i = 0 THEN guess ELSE Newton(a, r[i - 1])
        BY <3>1, <4>1
      <4>3. i # 0 => i - 1 \in 0..m
        BY <4>1, <1>3
      <4>4. g[i] = r[i] /\ (i # 0 => g[i - 1] = r[i - 1])
        BY <3>3, <4>1, <4>3
      <4> QED
        BY <4>2, <4>4
    <3> QED
      BY <3>2, <3>3
  <2>5. NewtonRounds(a, guess, m, g)
    <3>1. g = [i \in 0..m |-> g[i]]
      OBVIOUS
    <3> HIDE DEF g
    <3> QED
      BY <2>4, <3>1 DEF NewtonRounds
  <2> QED
    BY <1>3, <2>5
<1> QED
  BY <1>4, <1>5

\* Math.sqrt lies between one and its argument, which is what the probably
\* recent lookup needs of it (SqrtAssumption), for numbers of any size.
THEOREM SqrtInRange == Doubling => \A a \in Nat \ {0} : Sqrt(a) \in 1..a
<1> SUFFICES ASSUME Doubling, NEW a \in Nat \ {0} PROVE Sqrt(a) \in 1..a
  OBVIOUS
<1> DEFINE guess == 2 ^ (Log2(a) \div 2)
           r == CHOOSE f : NewtonRounds(a, guess, 7, f)
<1>1. guess \in 1..a
  BY GuessInRange
<1>2. NewtonRounds(a, guess, 7, r)
  <2>1. \E f : NewtonRounds(a, guess, 7, f)
    BY NewtonRoundsExist
  <2> QED
    BY <2>1
<1>3. Sqrt(a) = IF r[7] < a \div r[7] THEN r[7] ELSE a \div r[7]
  BY DEF Sqrt, NewtonRounds
<1> HIDE DEF guess, r
<1>4. \A i \in 0..7 : r[i] = IF i = 0 THEN guess ELSE Newton(a, r[i - 1])
  BY <1>2 DEF NewtonRounds
<1>5. r[0] \in 1..a
  BY <1>1, <1>4
<1>6. ASSUME NEW i \in 1..7, r[i - 1] \in 1..a PROVE r[i] \in 1..a
  <2>1. r[i] = Newton(a, r[i - 1])
    BY <1>4
  <2> QED
    BY <1>6, <2>1, NewtonInRange
<1>7. r[7] \in 1..a
  <2>1. r[1] \in 1..a
    BY <1>5, <1>6
  <2>2. r[2] \in 1..a
    BY <2>1, <1>6
  <2>3. r[3] \in 1..a
    BY <2>2, <1>6
  <2>4. r[4] \in 1..a
    BY <2>3, <1>6
  <2>5. r[5] \in 1..a
    BY <2>4, <1>6
  <2>6. r[6] \in 1..a
    BY <2>5, <1>6
  <2> QED
    BY <2>6, <1>6
<1> DEFINE s == r[7]
<1>8. a \div s \in 1..a
  <2>1. s \in 1..a
    BY <1>7
  <2> HIDE DEF s
  <2> QED
    BY <2>1
<1> QED
  BY <1>3, <1>7, <1>8
================================================================================

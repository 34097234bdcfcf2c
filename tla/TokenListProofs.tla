---------------------------- MODULE TokenListProofs ----------------------------
(***************************************************************************)
(* addTokenId and removeTokenId keep the array and the index mapping       *)
(* inverse to each other, and change membership by exactly their token.    *)
(***************************************************************************)
EXTENDS TokenList, TLAPS

\* Writing the last id into the freed place and dropping the last place:
\* what the array of removeTokenId holds, place by place.
LEMMA RemoveTokenIdArray ==
    ASSUME NEW Ids, NEW s, NEW t \in Ids,
           ListType(Ids, s), ListSound(Ids, s), HasIndex(s, t)
    PROVE  /\ Len(s.ids) >= 1
           /\ s.index[t] \in 1..Len(s.ids)
           /\ s.ids[Len(s.ids)] \in Ids
           /\ RemoveTokenId(s, t).ids \in Seq(Ids)
           /\ Len(RemoveTokenId(s, t).ids) = Len(s.ids) - 1
           /\ \A k \in 1..(Len(s.ids) - 1) :
                  /\ k = s.index[t] =>
                         RemoveTokenId(s, t).ids[k] = s.ids[Len(s.ids)]
                  /\ k # s.index[t] => RemoveTokenId(s, t).ids[k] = s.ids[k]
<1> DEFINE n == Len(s.ids)
           at == s.index[t]
           last == s.ids[n]
           moved == [s.ids EXCEPT ![at] = last]
<1>1. s.ids \in Seq(Ids) /\ n \in Nat
  BY DEF ListType
<1>2. at \in 1..n
  BY DEF ListSound, HasIndex
<1>3. last \in Ids
  BY <1>1, <1>2
<1>4. moved \in Seq(Ids) /\ Len(moved) = n
  BY <1>1, <1>2, <1>3
<1>5. \A k \in 1..n : moved[k] = IF k = at THEN last ELSE s.ids[k]
  BY <1>1, <1>2
<1>6. RemoveTokenId(s, t).ids = SubSeq(moved, 1, n - 1)
  BY <1>4 DEF RemoveTokenId, Front, Last
<1>7. n >= 1
  BY <1>1, <1>2
<1> QED
  BY <1>1, <1>2, <1>3, <1>4, <1>5, <1>6, <1>7

\* removeTokenId keeps the list sound and takes out its token, no other.
THEOREM RemoveTokenIdCorrect ==
    ASSUME NEW Ids, NEW s, NEW t \in Ids,
           ListType(Ids, s), ListSound(Ids, s), HasIndex(s, t)
    PROVE  /\ ListType(Ids, RemoveTokenId(s, t))
           /\ ListSound(Ids, RemoveTokenId(s, t))
           /\ \A u \in Ids : HasIndex(RemoveTokenId(s, t), u)
                                 <=> HasIndex(s, u) /\ u # t
<1> DEFINE n == Len(s.ids)
           at == s.index[t]
           last == s.ids[n]
           r == RemoveTokenId(s, t)
<1>1. /\ n >= 1 /\ at \in 1..n /\ last \in Ids
      /\ r.ids \in Seq(Ids) /\ Len(r.ids) = n - 1
      /\ \A k \in 1..(n - 1) : /\ k = at => r.ids[k] = last
                               /\ k # at => r.ids[k] = s.ids[k]
  BY RemoveTokenIdArray
<1>2. /\ s.ids \in Seq(Ids) /\ n \in Nat
      /\ s.index \in [Ids -> Nat]
  BY DEF ListType
<1>3. r.index = [s.index EXCEPT ![last] = at, ![t] = 0]
  BY DEF RemoveTokenId, Last
<1>4. /\ r.index \in [Ids -> Nat]
      /\ r.index[t] = 0
      /\ last # t => r.index[last] = at
      /\ \A u \in Ids \ {t, last} : r.index[u] = s.index[u]
  <2>1. at \in Nat
    BY <1>1, <1>2
  <2> DEFINE f == s.index
             g == [f EXCEPT ![last] = at, ![t] = 0]
  <2>2. f \in [Ids -> Nat] /\ last \in Ids /\ r.index = g
    BY <1>1, <1>2, <1>3
  <2> HIDE DEF f, at, last, r
  <2>3. /\ g \in [Ids -> Nat] /\ g[t] = 0
        /\ last # t => g[last] = at
        /\ \A u \in Ids \ {t, last} : g[u] = f[u]
    BY <2>1, <2>2
  <2> QED
    BY <2>2, <2>3 DEF f
<1>5. /\ s.ids[at] = t
      /\ s.index[last] = n
      /\ \A k \in 1..n : s.ids[k] \in Ids /\ s.index[s.ids[k]] = k
      /\ \A u \in Ids : s.index[u] # 0 =>
             s.index[u] \in 1..n /\ s.ids[s.index[u]] = u
  <2>1. /\ \A k \in 1..n : s.index[s.ids[k]] = k
        /\ \A u \in Ids : s.index[u] # 0 =>
               s.index[u] \in 1..n /\ s.ids[s.index[u]] = u
    BY DEF ListSound
  <2>2. s.index[t] # 0 /\ n \in 1..n
    BY <1>1, <1>2 DEF HasIndex
  <2>3. \A k \in 1..n : s.ids[k] \in Ids
    BY <1>2
  <2> QED
    BY <2>1, <2>2, <2>3
<1>6. last = t <=> at = n
  BY <1>1, <1>5
<1>7. \A u \in Ids : HasIndex(r, u) <=> HasIndex(s, u) /\ u # t
  BY <1>1, <1>4, <1>5 DEF HasIndex
<1>8. ASSUME NEW k \in 1..Len(r.ids)
      PROVE  r.index[r.ids[k]] = k
  <2>1. k \in 1..(n - 1)
    BY <1>1
  <2>2. CASE k = at
    <3>1. r.ids[k] = last
      BY <2>1, <2>2, <1>1
    <3>2. last # t
      BY <2>1, <2>2, <1>2, <1>6
    <3> QED
      BY <2>2, <3>1, <3>2, <1>4
  <2>3. CASE k # at
    <3>1. r.ids[k] = s.ids[k]
      BY <2>1, <2>3, <1>1
    <3>2. s.ids[k] \in Ids /\ s.index[s.ids[k]] = k
      BY <2>1, <1>2, <1>5
    <3>3. s.ids[k] # t /\ s.ids[k] # last
      BY <2>1, <2>3, <3>2, <1>1, <1>5
    <3> QED
      BY <3>1, <3>2, <3>3, <1>4
  <2> QED
    BY <2>2, <2>3
<1>9. ASSUME NEW u \in Ids, r.index[u] # 0
      PROVE  r.index[u] \in 1..Len(r.ids) /\ r.ids[r.index[u]] = u
  <2>1. u # t
    BY <1>4, <1>9
  <2>2. CASE u = last
    <3>1. at # n /\ r.index[u] = at
      BY <2>1, <2>2, <1>4, <1>6
    <3>2. at \in 1..(n - 1)
      BY <3>1, <1>1, <1>2
    <3> QED
      BY <2>2, <3>1, <3>2, <1>1
  <2>3. CASE u # last
    <3>1. r.index[u] = s.index[u]
      BY <2>1, <2>3, <1>4
    <3>2. s.index[u] \in 1..n /\ s.ids[s.index[u]] = u
      BY <3>1, <1>9, <1>5
    <3>3. s.index[u] # n /\ s.index[u] # at
      BY <2>1, <2>3, <3>2, <1>5
    <3>4. s.index[u] \in 1..(n - 1)
      BY <3>2, <3>3, <1>2
    <3> QED
      BY <3>1, <3>2, <3>3, <3>4, <1>1
  <2> QED
    BY <2>2, <2>3
<1>10. ListType(Ids, r)
  BY <1>1, <1>4 DEF ListType
<1>11. ListSound(Ids, r)
  BY <1>8, <1>9 DEF ListSound
<1> QED
  BY <1>7, <1>10, <1>11

--------------------------------------------------------------------------------

\* Appending an id that is not there.
LEMMA AppendTokenId ==
    ASSUME NEW Ids, NEW s, NEW t \in Ids,
           ListType(Ids, s), ListSound(Ids, s), ~HasIndex(s, t),
           NEW r, r = [ids   |-> Append(s.ids, t),
                       index |-> [s.index EXCEPT ![t] = Len(s.ids) + 1]]
    PROVE  /\ ListType(Ids, r)
           /\ ListSound(Ids, r)
           /\ \A u \in Ids : HasIndex(r, u) <=> HasIndex(s, u) \/ u = t
<1> DEFINE n == Len(s.ids)
<1>1. /\ s.ids \in Seq(Ids) /\ n \in Nat
      /\ s.index \in [Ids -> Nat] /\ s.index[t] = 0
  BY DEF ListType, HasIndex
<1>2. /\ r.ids \in Seq(Ids) /\ Len(r.ids) = n + 1
      /\ r.ids[n + 1] = t
      /\ \A k \in 1..n : r.ids[k] = s.ids[k]
  BY <1>1
<1>3. /\ r.index \in [Ids -> Nat]
      /\ r.index[t] = n + 1
      /\ \A u \in Ids \ {t} : r.index[u] = s.index[u]
  BY <1>1
<1>4. /\ \A k \in 1..n : s.ids[k] \in Ids /\ s.index[s.ids[k]] = k
      /\ \A u \in Ids : s.index[u] # 0 =>
             s.index[u] \in 1..n /\ s.ids[s.index[u]] = u
  BY <1>1 DEF ListSound
<1>5. ASSUME NEW k \in 1..Len(r.ids)
      PROVE  r.index[r.ids[k]] = k
  <2>1. CASE k = n + 1
    BY <2>1, <1>2, <1>3
  <2>2. CASE k \in 1..n
    <3>1. s.ids[k] # t
      BY <2>2, <1>1, <1>4
    <3> QED
      BY <2>2, <3>1, <1>2, <1>3, <1>4
  <2> QED
    BY <2>1, <2>2, <1>1, <1>2
<1>6. ASSUME NEW u \in Ids, r.index[u] # 0
      PROVE  r.index[u] \in 1..Len(r.ids) /\ r.ids[r.index[u]] = u
  <2>1. CASE u = t
    BY <2>1, <1>1, <1>2, <1>3
  <2>2. CASE u # t
    BY <2>2, <1>1, <1>2, <1>3, <1>4, <1>6
  <2> QED
    BY <2>1, <2>2
<1>7. ListType(Ids, r)
  BY <1>2, <1>3 DEF ListType
<1>8. ListSound(Ids, r)
  BY <1>5, <1>6 DEF ListSound
<1>9. \A u \in Ids : HasIndex(r, u) <=> HasIndex(s, u) \/ u = t
  BY <1>1, <1>3 DEF HasIndex
<1> QED
  BY <1>7, <1>8, <1>9

\* addTokenId keeps the list sound and puts in its token, no other, whether
\* or not the token was there before.
THEOREM AddTokenIdCorrect ==
    ASSUME NEW Ids, NEW s, NEW t \in Ids,
           ListType(Ids, s), ListSound(Ids, s)
    PROVE  /\ ListType(Ids, AddTokenId(s, t))
           /\ ListSound(Ids, AddTokenId(s, t))
           /\ \A u \in Ids : HasIndex(AddTokenId(s, t), u)
                                 <=> HasIndex(s, u) \/ u = t
<1> DEFINE base == IF HasIndex(s, t) THEN RemoveTokenId(s, t) ELSE s
<1>1. /\ ListType(Ids, base) /\ ListSound(Ids, base) /\ ~HasIndex(base, t)
      /\ \A u \in Ids \ {t} : HasIndex(base, u) <=> HasIndex(s, u)
  <2>1. CASE HasIndex(s, t)
    BY <2>1, RemoveTokenIdCorrect
  <2>2. CASE ~HasIndex(s, t)
    BY <2>2
  <2> QED
    BY <2>1, <2>2
<1>2. AddTokenId(s, t) = [ids   |-> Append(base.ids, t),
                          index |-> [base.index EXCEPT ![t] = Len(base.ids) + 1]]
  BY DEF AddTokenId
<1> HIDE DEF base
<1> QED
  BY <1>1, <1>2, AppendTokenId
================================================================================

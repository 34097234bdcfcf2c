------------------------------- MODULE TokenList -------------------------------
(***************************************************************************)
(* The swap-and-pop list of token ids that have an order in one           *)
(* collection (MarketMap.sol, addTokenId and removeTokenId).               *)
(*                                                                         *)
(* A list s is a record of the two Solidity mappings at one collection:    *)
(*   s.ids    tokenIdsWithOrders[token], the array getOrders returns;      *)
(*   s.index  tokenIdToIndex[token], the one-based position of an id in    *)
(*            that array, 0 when the id is not there.                      *)
(* Sequences are one-based too, so the code's `index + 1` is a position.   *)
(***************************************************************************)
EXTENDS Naturals, SequencesExt

EmptyList(Ids) == [ids |-> << >>, index |-> [t \in Ids |-> 0]]

\* The ids a reader of getOrders sees.
Members(s) == ToSet(s.ids)

\* removeTokenId computes tokenIdToIndex - 1, which panics on an absent id.
HasIndex(s, t) == s.index[t] # 0

--------------------------------------------------------------------------------
(* What slips of the hand would make of the operations below: the index of *)
(* the removed id is cleared before the moved id's index is written; a     *)
(* second listing of a token is appended unseen.                           *)

RemoveTokenIdClearsFirst(s, t) ==
    LET last == Last(s.ids)
    IN  [ids   |-> Front([s.ids EXCEPT ![s.index[t]] = last]),
         index |-> [s.index EXCEPT ![t] = 0, ![last] = s.index[t]]]

AddTokenIdAgain(s, t) ==
    [ids   |-> Append(s.ids, t),
     index |-> [s.index EXCEPT ![t] = Len(s.ids) + 1]]

--------------------------------------------------------------------------------

\* The last id moves into the freed place, the array shrinks by one, and the
\* removed id's index is cleared last: when it was the last id itself, the
\* second update wins over the first.
RemoveTokenId(s, t) ==
    LET at   == s.index[t]
        last == Last(s.ids)
    IN  [ids   |-> Front([s.ids EXCEPT ![at] = last]),
         index |-> [s.index EXCEPT ![last] = at, ![t] = 0]]

\* A listed id is taken out first, so that it ends up at the back, once.
AddTokenId(s, t) ==
    LET base == IF HasIndex(s, t) THEN RemoveTokenId(s, t) ELSE s
    IN  [ids   |-> Append(base.ids, t),
         index |-> [base.index EXCEPT ![t] = Len(base.ids) + 1]]

--------------------------------------------------------------------------------

ListType(Ids, s) ==
    /\ s.ids \in Seq(Ids)
    /\ s.index \in [Ids -> Nat]

\* Array and index are inverse to each other: every place of the array is
\* the place its id's index names, and a non-zero index names such a place.
ListSound(Ids, s) ==
    /\ \A k \in 1..Len(s.ids) : s.index[s.ids[k]] = k
    /\ \A t \in Ids : s.index[t] # 0 =>
           /\ s.index[t] \in 1..Len(s.ids)
           /\ s.ids[s.index[t]] = t
================================================================================

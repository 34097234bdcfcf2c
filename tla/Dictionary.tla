------------------------------- MODULE Dictionary ------------------------------
(***************************************************************************)
(* What the generated containers promise their callers, with no word about *)
(* how they store it. A dictionary gives each of some keys one value; a    *)
(* set is what is left of it when nobody looks at the values. answer is    *)
(* what the last call came back with.                                      *)
(***************************************************************************)
EXTENDS Naturals, SequencesExt

CONSTANTS
    Keys, Values, \* what may be put in
    Indexes,      \* where a caller may look
    Silence, Reverted

VARIABLES
    entries, \* a function from the keys that are in to their values
    answer

dictionaryVars == <<entries, answer>>

DictionaryInit == entries = [k \in {} |-> 0] /\ answer = Silence

Present == DOMAIN entries

Put(k, v) ==
    /\ entries' = [j \in Present \cup {k} |-> IF j = k THEN v ELSE entries[j]]
    /\ answer' = [result |-> k \notin Present]

Drop(k) ==
    /\ entries' = [j \in Present \ {k} |-> entries[j]]
    /\ answer' = [result |-> k \in Present]

\* A question leaves the entries alone.
Asks(a) == answer' = a /\ UNCHANGED entries

Has(k) == Asks([contains |-> k \in Present])

Count == Asks([length |-> Cardinality(Present)])

TryGet(k) ==
    Asks([tryGet |-> IF k \in Present THEN <<TRUE, entries[k]>> ELSE <<FALSE, 0>>])

Get(k) == Asks(IF k \in Present THEN [get |-> entries[k]] ELSE Reverted)

\* Some entry is at each index below the count, and none beyond.
EntryAt(i) ==
    /\ i < Cardinality(Present)
    /\ \E k \in Present : Asks([entryAt |-> <<k, entries[k]>>, index |-> i])

KeyAt(i) ==
    /\ i < Cardinality(Present)
    /\ \E k \in Present : Asks([keyAt |-> k, index |-> i])

NothingAt(i) == i >= Cardinality(Present) /\ Asks([outOfBounds |-> i])

\* The keys in some order, each of them once.
List ==
    /\ DOMAIN answer' = {"values"}
    /\ ToSet(answer'.values) = Present
    /\ Len(answer'.values) = Cardinality(Present)
    /\ UNCHANGED entries

DictionaryNext ==
    \/ \E k \in Keys :
           \/ \E v \in Values : Put(k, v)
           \/ Drop(k) \/ Has(k) \/ TryGet(k) \/ Get(k)
    \/ \E i \in Indexes : EntryAt(i) \/ KeyAt(i) \/ NothingAt(i)
    \/ Count \/ List

DictionarySpec == DictionaryInit /\ [][DictionaryNext]_dictionaryVars
================================================================================

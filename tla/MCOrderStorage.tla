----------------------------- MODULE MCOrderStorage ----------------------------
(***************************************************************************)
(* Instances of OrderStorage for TLC: every combination of a boundary      *)
(* price, time, salt and list of recipients.                               *)
(***************************************************************************)
EXTENDS OrderStorage

CONSTANTS alice, artist, curator, c1, t1

\* Zero, the least unit, a fraction of it, the last amount below the cap, the
\* cap, an amount of 2^64 units.
Prices == {0, 10, 15, 40, 49, 50, 90}
EndTimes == {0, 2, 3, 4}
Salts == {0, 2, 3}
RecipientLists ==
    {<< >>, <<[recipient |-> artist, amount |-> 10]>>,
     <<[recipient |-> artist, amount |-> 70],
       [recipient |-> curator, amount |-> 10]>>,
     <<[recipient |-> artist, amount |-> 10],
       [recipient |-> curator, amount |-> 20],
       [recipient |-> artist, amount |-> 10]>>}
OddLists ==
    {<<[recipient |-> artist, amount |-> 80]>>,
     <<[recipient |-> artist, amount |-> 15]>>,
     <<[recipient |-> artist, amount |-> 0],
       [recipient |-> curator, amount |-> 10]>>}

Input(price, start, end, salt, rs) ==
    [offerer |-> alice, token |-> c1, tokenId |-> t1, amount |-> price,
     recipients |-> rs, startTime |-> start, endTime |-> end, salt |-> salt,
     shape |-> "market"]

AllInputs ==
    {Input(p, s, e, n, rs) : p \in Prices, s \in {0, 3, 4}, e \in EndTimes,
                             n \in Salts, rs \in RecipientLists \cup OddLists}

\* Orders with sensible times and one royalty of any amount.
RoyaltyInputs ==
    {Input(p, 0, 2, 0, <<[recipient |-> artist, amount |-> a]>>) :
        p \in Prices, a \in {10, 15, 70, 80}}
================================================================================

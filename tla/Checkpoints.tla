------------------------------ MODULE Checkpoints ------------------------------
(***************************************************************************)
(* The checkpoint histories of the Checkpoints template: an array of       *)
(* checkpoints [key, value] that is only ever written at its end, and the  *)
(* binary searches in it. The legacy History takes its keys from the block *)
(* number, a Trace is given them.                                          *)
(*                                                                         *)
(* A search is a record of the loop's variables: the key looked for, low,  *)
(* high and which of the two lookups runs ("upper" or "lower"). Positions  *)
(* are the code's, from zero; position p is h[p + 1].                      *)
(***************************************************************************)
EXTENDS SafeCast, SequencesExt

CONSTANTS
    KeyBits, ValueBits, \* 32 and 224 in a History
    MathSqrt(_),        \* Math.sqrt
    MaxLength           \* what MathSqrt is looked at for

ASSUME CheckpointsAssumption ==
    /\ KeyBits \in Nat /\ 2 ^ KeyBits \in Nat \ {0}
    /\ ValueBits \in Nat /\ 2 ^ ValueBits \in Nat \ {0}
    /\ MaxLength \in Nat

ASSUME SqrtAssumption == \A n \in 1..MaxLength : MathSqrt(n) \in 1..n

Checkpoint == [key : Nat, value : Nat]

Latest(h) == IF h = << >> THEN 0 ELSE Last(h).value

LatestCheckpoint(h) ==
    IF h = << >> THEN <<FALSE, 0, 0>> ELSE <<TRUE, Last(h).key, Last(h).value>>

\* "Checkpoint: invalid key"
Insertable(h, key) == h # << >> => Last(h).key <= key

\* A slip: a second push at one key makes a second checkpoint.
InsertAgain(h, key, value) == Append(h, [key |-> key, value |-> value])

Insert(h, key, value) ==
    IF h # << >> /\ Last(h).key = key
    THEN [h EXCEPT ![Len(h)] = [key |-> key, value |-> value]]
    ELSE Append(h, [key |-> key, value |-> value])

--------------------------------------------------------------------------------

Searches == {"upper", "lower"}

Search(lookup, key, low, high) ==
    [lookup |-> lookup, key |-> key, low |-> low, high |-> high]

\* A slip: the recent search leaves out the checkpoint at mid itself.
RecentSearchTooHigh(h, key) ==
    LET len == Len(h)
        mid == len - MathSqrt(len)
    IN  IF len <= 5 THEN Search("upper", key, 0, len)
        ELSE IF key < h[mid + 1].key THEN Search("upper", key, 0, mid - 1)
        ELSE Search("upper", key, mid + 1, len)

\* getAtProbablyRecentBlock halves once by hand, near the end of the array.
RecentSearch(h, key) ==
    LET len == Len(h)
        mid == len - MathSqrt(len)
    IN  IF len <= 5 THEN Search("upper", key, 0, len)
        ELSE IF key < h[mid + 1].key THEN Search("upper", key, 0, mid)
        ELSE Search("upper", key, mid + 1, len)

\* A slip: the lower lookup passes a checkpoint at the key itself.
BeyondKey(ckpt, s) == ckpt.key > s.key

\* Is the checkpoint one that the lookup must not go beyond?
Beyond(ckpt, s) ==
    \/ s.lookup = "upper" /\ ckpt.key > s.key
    \/ s.lookup = "lower" /\ ckpt.key >= s.key

\* Slips: a round moves one bound past the checkpoint it looked at that has
\* to stay, or leaves one it is done with.
HalveTooLow(h, s) ==
    LET mid == (s.low + s.high) \div 2
    IN  IF Beyond(h[mid + 1], s)
        THEN [s EXCEPT !.high = mid - 1]
        ELSE [s EXCEPT !.low = mid + 1]

HalveStays(h, s) ==
    LET mid == (s.low + s.high) \div 2
    IN  IF Beyond(h[mid + 1], s)
        THEN [s EXCEPT !.high = mid]
        ELSE [s EXCEPT !.low = mid]

\* One round of the loop; Math.average rounds towards zero.
Halve(h, s) ==
    LET mid == (s.low + s.high) \div 2
    IN  IF Beyond(h[mid + 1], s)
        THEN [s EXCEPT !.high = mid]
        ELSE [s EXCEPT !.low = mid + 1]

\* What a lookup makes of the position its loop ends at.
ValueFound(h, s) ==
    IF s.lookup = "upper"
    THEN IF s.high = 0 THEN 0 ELSE h[s.high].value
    ELSE IF s.high = Len(h) THEN 0 ELSE h[s.high + 1].value

--------------------------------------------------------------------------------

HistoryType(h) == h \in Seq(Checkpoint)

KeysIncrease(h) ==
    \A i, j \in 1..Len(h) : i < j => h[i].key < h[j].key

\* v is the value of the last checkpoint at or before key, 0 without one.
IsValueUpTo(h, key, v) ==
    \/ v = 0 /\ \A i \in 1..Len(h) : h[i].key > key
    \/ \E i \in 1..Len(h) :
           /\ h[i].key <= key /\ h[i].value = v
           /\ \A j \in (i + 1)..Len(h) : h[j].key > key

\* v is the value of the first checkpoint at or after key, 0 without one.
IsValueFrom(h, key, v) ==
    \/ v = 0 /\ \A i \in 1..Len(h) : h[i].key < key
    \/ \E i \in 1..Len(h) :
           /\ h[i].key >= key /\ h[i].value = v
           /\ \A j \in 1..(i - 1) : h[j].key < key

IsAnswer(h, s, v) ==
    IF s.lookup = "upper" THEN IsValueUpTo(h, s.key, v)
                          ELSE IsValueFrom(h, s.key, v)

\* What the loop knows: everything below low is before the place looked for
\* and everything from high on is not.
SearchSound(h, s) ==
    /\ s.low \in 0..s.high /\ s.high \in 0..Len(h)
    /\ \A i \in 1..s.low : ~Beyond(h[i], s)
    /\ \A i \in (s.high + 1)..Len(h) : Beyond(h[i], s)
================================================================================

------------------------------ MODULE ListingBook ------------------------------
(***************************************************************************)
(* What the market's database promises, with no word about how it is       *)
(* stored: per collection a book of at most one entry for each token, and  *)
(* a page (what getOrders returns) on which every token with an entry      *)
(* stands exactly once and no other token does. A step makes or replaces   *)
(* one entry, whose token then stands last on the page, or strikes one     *)
(* out, and touches nothing else.                                          *)
(***************************************************************************)
EXTENDS Naturals, SequencesExt

CONSTANTS
    Collections, Ids,
    Entries, \* Entries[c][t]: what may be entered for a token
    None     \* no entry

VARIABLES
    book, \* book[c][t], an entry or None
    page  \* page[c], a sequence of ids

bookVars == <<book, page>>

BookInit ==
    /\ book = [c \in Collections |-> [t \in Ids |-> None]]
    /\ page = [c \in Collections |-> << >>]

Entered(b) == {t \in Ids : b[t] # None}

\* p names every member of S, once.
Enumerates(p, S) == ToSet(p) = S /\ Len(p) = Cardinality(S)

\* The book of c becomes b, and its page some enumeration of it.
Rewrite(c, b) ==
    /\ book' = [book EXCEPT ![c] = b]
    /\ page' = [page EXCEPT ![c] = page'[c]]
    /\ Enumerates(page'[c], Entered(b))

Enter(c, t) ==
    /\ \E e \in Entries[c][t] : Rewrite(c, [book[c] EXCEPT ![t] = e])
    /\ Last(page'[c]) = t

Strike(c, t) ==
    /\ book[c][t] # None
    /\ Rewrite(c, [book[c] EXCEPT ![t] = None])

BookNext == \E c \in Collections, t \in Ids : Enter(c, t) \/ Strike(c, t)

BookSpec == BookInit /\ [][BookNext]_bookVars
================================================================================

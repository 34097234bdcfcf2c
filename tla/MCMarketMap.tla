------------------------------ MODULE MCMarketMap ------------------------------
(***************************************************************************)
(* Instances of MarketMap for TLC. Amounts are stored in units of 10 and   *)
(* two bits, so 40 wei is the first amount that does not fit; times and    *)
(* salts have two bits as well.                                            *)
(***************************************************************************)
EXTENDS MarketMap

CONSTANTS alice, bob, artist, curator, c1, t1, t2, t3

Listing(u, t, price, rs) ==
    [offerer |-> u, token |-> c1, tokenId |-> t, amount |-> price,
     recipients |-> rs, startTime |-> 0, endTime |-> 1, salt |-> 1,
     shape |-> "market"]

Royalty(wei) == [recipient |-> artist, amount |-> wei]
Cut(wei) == [recipient |-> curator, amount |-> wei]

\* The collection has a royalty, as the frontend adds it to every order.
AliceOrders == {Listing(alice, t1, 20, <<Royalty(10)>>)}

\* One seller, three tokens.
PlainOrders == {Listing(alice, t, 20, << >>) : t \in {t1, t2, t3}}

\* One token listed with no further recipient, with two, and with as many as
\* make the uint8 count wrap when SlotMax is 3. The last two amounts, one that
\* does not fit its storage field and one that is no multiple of the unit, are
\* not what validateOrderParameters looks at.
MixedOrders ==
    {Listing(alice, t1, 20, rs) :
        rs \in {<< >>, <<Royalty(10), Cut(20)>>,
                <<Royalty(10), Cut(10), Royalty(10)>>,
                <<Royalty(50), Cut(25)>>}}

\* The same seller lists a token with two recipients and then with one.
FewerOrders ==
    {Listing(alice, t1, 20, rs) :
        rs \in {<<Royalty(10)>>, <<Royalty(10), Cut(20)>>}}

NoApprovals == {}
ConduitApproval == {<<alice, "conduit">>}
OldApprovals == {<<alice, "conduit">>, <<alice, "seaport">>}
================================================================================

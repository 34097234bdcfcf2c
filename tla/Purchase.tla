-------------------------------- MODULE Purchase --------------------------------
(***************************************************************************)
(* The page's buy button against the market: a tile is priced from two     *)
(* reads of the chain and a royalty rate, its button sends that price, and *)
(* the transaction is mined when the chain may have moved on.              *)
(* Nothing is locked meanwhile: the tile, the transaction and the other    *)
(* users of the market go on side by side.                                 *)
(*                                                                         *)
(* One tile and one transaction at a time, of one account: how tiles come  *)
(* about for a whole collection is the matter of Frontend. The cancel      *)
(* button reads nothing and sends a transaction, which is MarketMap's      *)
(* CancelOrder at the time it is mined.                                    *)
(***************************************************************************)
EXTENDS MarketMap

CONSTANTS
    Wallet,  \* the account connected to the page
    Parts,   \* 100000: the price royaltyInfo is asked about
    Rates    \* what it may have answered when a tile is priced: the royalties,
             \* in parts of that

ASSUME PurchaseAssumption ==
    Wallet \in Users /\ Parts \in Nat \ {0} /\ Rates \subseteq Nat

VARIABLES
    tile, \* token, id, the stored amount and the rate it is priced with, and
          \* the listing whose amount that was
    tx    \* the transaction of buy that is not mined yet

pageVars == <<tile, tx>>
allVars == <<vars, pageVars>>

NoTile == [pc |-> "none"]
NoTx == [pc |-> "none"]

PurchaseInit == Init /\ tile = NoTile /\ tx = NoTx

--------------------------------------------------------------------------------
(* Payment.                                                                *)

Total(o) == o.amount + SumOfAmounts(o.recipients)

PriceWithoutRoyalty(amount, rate) == amount * Unit

\* The stored amount and the royalties on it.
Price(amount, rate) == (amount * Unit * (Parts + rate)) \div Parts

\* A fraction of a wei cannot be written in hexadecimal: BigInt throws.
HasPrice(amount, rate) == (amount * Unit * (Parts + rate)) % Parts = 0

PaysAtLeast(value, o) == value >= Total(o)

\* Seaport gives what it did not need back to its caller, the market, which
\* cannot take it: the call reverts.
Pays(value, o) == value = Total(o)

\* A call of buy that does not revert.
Buys(c, t, value) ==
    /\ Buyable(c, t) /\ HasIndex(List(c), t)
    /\ Pays(value, Composed(c, t))

--------------------------------------------------------------------------------
(* connect, for one token.                                                 *)

\* getOrderStatus says true. (When it says false there is no tile.)
StatusRead(c, t) ==
    /\ tile.pc = "none"
    /\ OrderStatus(c, t)
    /\ tile' = [pc |-> "details", token |-> c, id |-> t]
    /\ UNCHANGED <<vars, tx>>

\* The order as it is stored by now, perhaps none at all. Without a price the
\* tile stays without its button.
DetailsRead ==
    /\ tile.pc = "details"
    /\ LET order == orders[tile.token][tile.id]
       IN  \E rate \in Rates :
               tile' = [pc |-> IF HasPrice(order.amount, rate) THEN "shown"
                               ELSE "unpriced",
                        token |-> tile.token, id |-> tile.id,
                        amount |-> order.amount, rate |-> rate,
                        listing |-> order.signature]
    /\ UNCHANGED <<vars, tx>>

\* The page is emptied for another load.
Reload ==
    /\ tile.pc # "none"
    /\ tile' = NoTile
    /\ UNCHANGED <<vars, tx>>

--------------------------------------------------------------------------------
(* buy                                                                     *)

ClickBuy ==
    /\ tile.pc = "shown" /\ tx = NoTx
    /\ tx' = [pc |-> "sent", token |-> tile.token, id |-> tile.id,
              value |-> Price(tile.amount, tile.rate)]
    /\ UNCHANGED <<vars, tile>>

BuyMined ==
    /\ tx.pc = "sent"
    /\ Buys(tx.token, tx.id, tx.value)
    /\ Buy(tx.token, tx.id, Wallet)
    /\ tx' = NoTx
    /\ UNCHANGED tile

\* The receipt of a reverted transaction changes a line of text at most.
BuyReverted ==
    /\ tx.pc = "sent"
    /\ ~Buys(tx.token, tx.id, tx.value)
    /\ tx' = NoTx
    /\ UNCHANGED <<vars, tile>>

--------------------------------------------------------------------------------

PageStep == \/ \E c \in Collections, t \in Ids : StatusRead(c, t)
            \/ DetailsRead \/ Reload \/ ClickBuy \/ BuyMined \/ BuyReverted

PurchaseNext == PageStep \/ (Next /\ UNCHANGED pageVars)

PurchaseSpec == PurchaseInit /\ [][PurchaseNext]_allVars

--------------------------------------------------------------------------------
(* Properties.                                                             *)

\* The royalties of an order are rate parts of its price.
AtRate(o, rate) == Parts * (Total(o) - o.amount) = rate * o.amount

\* A tile has a button that works: while the listing whose amount it shows is
\* stored and can be bought, the page can make a price of it at the listing's
\* own royalty rate, and that price is exactly what Seaport asks for.
TileBuys ==
    tile.pc \in {"shown", "unpriced"} /\ tile.listing # NoSignature =>
        LET c == tile.token
            t == tile.id
        IN  orders[c][t].signature = tile.listing
            /\ Buyable(c, t) /\ AtRate(tile.listing.order, tile.rate)
            => /\ tile.pc = "shown"
               /\ Buys(c, t, Price(tile.amount, tile.rate))

\* Whatever became of the listing between the tile and the block, a purchase
\* that goes through costs what the seller of the present listing signed.
PaidAsListed ==
    [][BuyMined =>
           tx.value = Total(orders[tx.token][tx.id].signature.order)]_allVars
================================================================================

------------------------------- MODULE Frontend --------------------------------
(***************************************************************************)
(* The page of frontend.html in one browser tab: connect, which shows a    *)
(* collection's orders tile by tile, checkRoyalties, which it starts and   *)
(* does not wait for, and sell with sign, which lead a seller through      *)
(* approval, signature and transaction.                                    *)
(*                                                                         *)
(* JavaScript runs to the next await without interruption, so a step here  *)
(* is an answer of the wallet and all the code up to the next request.     *)
(* Buttons stay enabled: a collection can be loaded while another is, and  *)
(* during a sale. The market and the other accounts change meanwhile.      *)
(***************************************************************************)
EXTENDS TokenList

CONSTANTS
    Collections, Ids,
    OldList,    \* a collection's list, as TokenList, when the page is opened
    defaultCollection, \* the address the page suggests
    Loads,      \* calls of connect, in the order of their clicks: 1..n
    Royalty,    \* Royalty[c], the percentage the collection asks for
    Unset,      \* the initial value of royalties
    NaN,        \* what parseInt makes of an answer without royalties in it
    HexBase,    \* 16: the base the count of orders is written in
    DecBase,    \* 10: the base the page reads it in
    MaxChanges  \* bound: changes of the market while the page is open

ASSUME FrontendAssumption ==
    /\ OldList \in [ids : Seq(Ids), index : [Ids -> Nat]]
    /\ ListSound(Ids, OldList)
    /\ Loads \subseteq Nat /\ MaxChanges \in Nat
    /\ HexBase \in Nat /\ DecBase \in 2..HexBase
    /\ defaultCollection \in Collections
    /\ Royalty \in [Collections -> Nat]
    /\ Unset \notin Nat /\ NaN \notin Nat /\ NaN # Unset

VARIABLES
    field,     \* the collection typed into tokenAddress
    royalties, \* the global both connect and sell read
    load,      \* load[k]: where call k of connect is, and its locals
    check,     \* check[k]: the collection whose royalties are asked, or Unset
    tiles,     \* the children of forSale, whose order no property is about
    page,      \* the load that emptied forSale last, 0 before the first
    sellShown, \* is the sell section displayed
    sale,      \* where the call of sell is, and its locals
    approval,  \* Seaport's approval on chain and the transaction for it:
               \* "none", "pending", "ok" or "reverted"
    listing,   \* listing[c]: the market's list, as TokenList
    active,    \* active[c]: the tokens whose getOrderStatus is true
    steady,    \* steady[k]: tokens active ever since load k got its list
    changes    \* how many there were

besideLoad == <<field, royalties, check, tiles, page, sellShown>>
pageVars == <<load, besideLoad>>
saleVars == <<sale, approval>>
chainVars == <<listing, active, steady, changes>>
vars == <<pageVars, saleVars, chainVars>>

Idle == [pc |-> "idle", token |-> Unset, ids |-> << >>, count |-> 0, i |-> 1]

Init ==
    /\ field = defaultCollection /\ royalties = Unset
    /\ load = [k \in Loads |-> Idle]
    /\ check = [k \in Loads |-> Unset]
    /\ tiles = {} /\ page = 0 /\ sellShown = FALSE
    /\ sale = [pc |-> "idle", sent |-> Unset, signed |-> Unset]
    /\ approval \in {"none", "ok"}
    /\ listing = [c \in Collections |-> OldList]
    /\ active = [c \in Collections |-> Members(OldList)]
    /\ steady = [k \in Loads |-> {}]
    /\ changes = 0

--------------------------------------------------------------------------------
(* The conversion of the count. The answer's hexadecimal digits are read   *)
(* as decimal ones, up to the first that is none.                          *)

\* The word before it, the offset 0x20 of the array.
ParseOffset(n) == 2 * DecBase

\* One digit more, after what was read of those before it.
ReadDigit(before, digit) ==
    IF before.open /\ digit < DecBase
    THEN [value |-> before.value * DecBase + digit, open |-> TRUE]
    ELSE [value |-> before.value, open |-> FALSE]

ParseCount(n) ==
    LET read[m \in 0..n] ==
            IF m = 0 THEN [value |-> 0, open |-> TRUE]
            ELSE ReadDigit(read[m \div HexBase], m % HexBase)
    IN  read[n].value

--------------------------------------------------------------------------------
(* connect                                                                 *)

Goto(k, pc) == load' = [load EXCEPT ![k].pc = pc]

\* The locals go with the call; PageComplete still asks for its collection.
Return(k, pc) ==
    load' = [load EXCEPT ![k] = [Idle EXCEPT !.pc = pc, !.token = load[k].token]]

\* The loop's next round, or the end of the call.
Round(k, i, count, ids) ==
    \/ /\ i <= count
       /\ load' = [load EXCEPT ![k] = [@ EXCEPT !.pc = "status", !.i = i,
                                                !.count = count, !.ids = ids]]
       /\ UNCHANGED sellShown
    \/ /\ i > count
       /\ Return(k, "done")
       /\ sellShown' = TRUE

NextRoundSkips(k) ==
    Round(k, load[k].i + 2, load[k].count, load[k].ids)

NextRound(k) == Round(k, load[k].i + 1, load[k].count, load[k].ids)

\* The first answer, granted or refused, after which the call goes on; the
\* switch of networks that it requests is not waited for.
AccountsAnswer(k) ==
    /\ load[k].pc = "idle"
    /\ \A j \in Loads : j < k => load[j].pc # "idle"
    /\ Goto(k, "network")
    /\ UNCHANGED <<besideLoad, saleVars, chainVars>>

\* Another network than Goerli, or none that answers.
WrongNetwork(k) ==
    /\ load[k].pc = "network"
    /\ Return(k, "failed")
    /\ UNCHANGED <<besideLoad, saleVars, chainVars>>

\* Only now the field is read, the page emptied and the royalties asked for.
NetworkAnswer(k) ==
    /\ load[k].pc = "network"
    /\ load' = [load EXCEPT ![k].pc = "list", ![k].token = field]
    /\ check' = [check EXCEPT ![k] = field]
    /\ tiles' = {} /\ page' = k
    /\ UNCHANGED <<field, royalties, sellShown, saleVars, chainVars>>

ListAnswer(k) ==
    LET ids == listing[load[k].token].ids
    IN  /\ load[k].pc = "list"
        /\ Round(k, 1, ParseCount(Len(ids)), ids)
        /\ steady' = [steady EXCEPT ![k] =
                         ToSet(ids) \cap active[load[k].token]]
        /\ UNCHANGED <<field, royalties, check, tiles, page, saleVars,
                       listing, active, changes>>

RoundId(k) == load[k].ids[load[k].i]

StatusAnswerStays(k) ==
    /\ load[k].pc = "status"
    /\ IF RoundId(k) \in active[load[k].token]
       THEN Goto(k, "order") ELSE Goto(k, "status")
    /\ UNCHANGED <<besideLoad, saleVars, chainVars>>

StatusAnswer(k) ==
    /\ load[k].pc = "status"
    /\ IF RoundId(k) \in active[load[k].token]
       THEN Goto(k, "order") /\ UNCHANGED sellShown
       ELSE NextRound(k)
    /\ UNCHANGED <<field, royalties, check, tiles, page, saleVars, chainVars>>

OrderAnswer(k) ==
    /\ load[k].pc = "order"
    /\ Goto(k, "uri")
    /\ UNCHANGED <<besideLoad, saleVars, chainVars>>

\* The tile goes to forSale, whichever load emptied it. Its price
\* needs the royalties of this moment; when they are no number, or leave a
\* fraction of a wei, there is nothing to convert, and the call ends before
\* the buy button is made.
UriAnswer(k) ==
    /\ load[k].pc = "uri"
    /\ \E priced \in BOOLEAN :
           /\ priced => royalties \in Nat
           /\ tiles' = tiles \cup {[token |-> load[k].token, id |-> RoundId(k),
                                     priced |-> priced]}
           /\ IF priced THEN NextRound(k)
                        ELSE Return(k, "failed") /\ UNCHANGED sellShown
    /\ UNCHANGED <<field, royalties, check, page, saleVars, chainVars>>

\* Any rejected request and any tokenURI that does not decode ends the call.
LoadFails(k) ==
    /\ load[k].pc \in {"list", "status", "order", "uri"}
    /\ Return(k, "failed")
    /\ UNCHANGED <<besideLoad, saleVars, chainVars>>

\* checkRoyalties: royaltyInfo's answer, 0 when the call is rejected, or no
\* number, which nothing catches, when it returns no data.
RoyaltyAnswer(k) ==
    /\ check[k] # Unset
    /\ royalties' \in {Royalty[check[k]], 0, NaN}
    /\ check' = [check EXCEPT ![k] = Unset]
    /\ UNCHANGED <<field, load, tiles, page, sellShown, saleVars, chainVars>>

\* Another address in the field. Bound: the last one was read by a load, and
\* another load will read this one.
TypeCollection ==
    /\ \E k \in Loads : load[k].token = field
    /\ \E k \in Loads : load[k].pc \in {"idle", "network"}
    /\ \E c \in Collections \ {field} : field' = c
    /\ UNCHANGED <<royalties, load, check, tiles, page, sellShown, saleVars, chainVars>>

--------------------------------------------------------------------------------
(* sell and sign                                                           *)

SaleGoto(pc) == sale' = [sale EXCEPT !.pc = pc]

SaleStops == sale' = [pc |-> "failed", sent |-> Unset, signed |-> Unset]

\* The considerations of the transaction are made at once. When royalties is
\* no number, or leaves a fraction of a wei, there is nothing to convert, and
\* the call ends.
ClickSell ==
    /\ sellShown /\ sale.pc = "idle"
    /\ \/ /\ royalties \in Nat
          /\ sale' = [pc |-> "approved?", sent |-> royalties, signed |-> Unset]
       \/ SaleStops
    /\ UNCHANGED <<pageVars, approval, chainVars>>

ApprovalAnswer ==
    /\ sale.pc = "approved?"
    /\ SaleGoto(IF approval = "ok" THEN "counter" ELSE "approve")
    /\ UNCHANGED <<pageVars, approval, chainVars>>

SendApprovalNoWait ==
    /\ sale.pc = "approve"
    /\ SaleGoto("counter")
    /\ approval' = "pending"
    /\ UNCHANGED <<pageVars, chainVars>>

SendApproval ==
    /\ sale.pc = "approve"
    /\ SaleGoto("approve receipt")
    /\ approval' = "pending"
    /\ UNCHANGED <<pageVars, chainVars>>

MineApproval ==
    /\ approval = "pending"
    /\ approval' \in {"ok", "reverted"}
    /\ UNCHANGED <<pageVars, sale, chainVars>>

\* getTxReceipt polls until there is a receipt. Its status is shown, and
\* nothing depends on it.
ApprovalReceipt ==
    /\ sale.pc = "approve receipt"
    /\ approval # "pending"
    /\ SaleGoto("counter")
    /\ UNCHANGED <<pageVars, approval, chainVars>>

\* sign makes the considerations to sign after its last read of the chain:
\* none for royalties that are no number.
CounterAnswer ==
    /\ sale.pc = "counter"
    /\ sale' = [sale EXCEPT !.pc = "sign",
                            !.signed = IF royalties \in Nat THEN royalties ELSE 0]
    /\ UNCHANGED <<pageVars, approval, chainVars>>

\* The signature, or both of them with OpenSea's, and the transaction.
SendSell ==
    /\ sale.pc = "sign"
    /\ SaleGoto("sent")
    /\ UNCHANGED <<pageVars, approval, chainVars>>

SaleFails ==
    /\ sale.pc \in {"approved?", "approve", "approve receipt", "counter", "sign"}
    /\ SaleStops
    /\ UNCHANGED <<pageVars, approval, chainVars>>

--------------------------------------------------------------------------------
(* The market changes.                                                     *)

Change(c, t) ==
    /\ changes < MaxChanges
    /\ changes' = changes + 1
    /\ steady' = [k \in Loads |-> IF load[k].token = c THEN steady[k] \ {t}
                                  ELSE steady[k]]
    /\ UNCHANGED <<pageVars, saleVars>>

Listed(c, t) ==
    /\ Change(c, t)
    /\ ~HasIndex(listing[c], t)
    /\ listing' = [listing EXCEPT ![c] = AddTokenId(@, t)]
    /\ active' = [active EXCEPT ![c] = @ \cup {t}]

Delisted(c, t) ==
    /\ Change(c, t)
    /\ HasIndex(listing[c], t)
    /\ listing' = [listing EXCEPT ![c] = RemoveTokenId(@, t)]
    /\ active' = [active EXCEPT ![c] = @ \ {t}]

\* The order of a listed token dies in Seaport.
Died(c, t) ==
    /\ Change(c, t)
    /\ t \in active[c]
    /\ active' = [active EXCEPT ![c] = @ \ {t}]
    /\ UNCHANGED listing

--------------------------------------------------------------------------------

LoadAnswer(k) ==
    \/ WrongNetwork(k) \/ NetworkAnswer(k) \/ ListAnswer(k)
    \/ StatusAnswer(k) \/ OrderAnswer(k) \/ UriAnswer(k)

LoadStep(k) ==
    AccountsAnswer(k) \/ LoadAnswer(k) \/ LoadFails(k) \/ RoyaltyAnswer(k)

SaleStep == \/ ClickSell \/ ApprovalAnswer \/ SendApproval \/ MineApproval
            \/ ApprovalReceipt \/ CounterAnswer \/ SendSell \/ SaleFails

MarketStep == \E c \in Collections, t \in Ids :
                  Listed(c, t) \/ Delisted(c, t) \/ Died(c, t)

Next == (\E k \in Loads : LoadStep(k)) \/ TypeCollection \/ SaleStep \/ MarketStep

\* A node answers every read that is not rejected. Nothing is assumed of the
\* user.
Spec == Init /\ [][Next]_vars /\ \A k \in Loads : WF_vars(LoadAnswer(k))

--------------------------------------------------------------------------------
(* Properties.                                                             *)

LoadPcs == {"idle", "network", "list", "status", "order", "uri",
            "done", "failed"}

\* The variables stay in their types, and the loop never reads past the list
\* that getOrders answered.
TypeOK ==
    /\ field \in Collections
    /\ royalties \in Nat \cup {Unset, NaN}
    /\ \A k \in Loads :
           /\ load[k].pc \in LoadPcs
           /\ load[k].token \in Collections \cup {Unset}
           /\ check[k] \in Collections \cup {Unset}
           /\ load[k].pc \in {"status", "order", "uri"} =>
                  load[k].i \in 1..Len(load[k].ids)
    /\ tiles \subseteq [token : Collections, id : Ids, priced : BOOLEAN]

\* Loading a collection shows its orders: when the load that emptied the page
\* last has finished, every order that stayed active since it read the list
\* has a tile with a price to buy it at, however the list changed meanwhile.
PageComplete ==
    \A k \in Loads :
        page = k /\ load[k].pc = "done" =>
            \A t \in steady[k] :
                [token |-> load[k].token, id |-> t, priced |-> TRUE] \in tiles

\* A sale asks for no signature and sends no transaction before the approval
\* it depends on has been mined, successful or not.
ApprovalMinedFirst ==
    sale.pc \in {"counter", "sign", "sent"} => approval \in {"ok", "reverted"}

\* "sell() transaction now only gets triggered once the approve() transaction
\* is successfully processed", as the change log of the page says.
SaleNeedsApproval ==
    sale.pc = "sent" => approval = "ok"

\* The signed considerations are the ones the transaction carries.
SignedAsSent ==
    sale.pc = "sent" => sale.signed = sale.sent

\* A load past its wallet prompt comes to an end.
LoadEnds ==
    \A k \in Loads :
        load[k].pc = "network" ~> load[k].pc \in {"done", "failed"}
================================================================================

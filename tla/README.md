# Onchain Marketplace: models, checks and proofs

Onchain Marketplace is an alpha NFT market for Ethereum. Its backend,
`src/foundry/src/MarketMap.sol`, is a database of orders: it stores what varies
between the orders sellers sign, squeezed into narrow fields, and composes the
whole order again whenever one is bought, cancelled or asked about. Seaport does
every trade. Its frontend, `src/frontend.html`, is one page without libraries that
reads the database through the user's wallet; `OnchainMarketplace.sol` serves a
minified copy of it from the chain.

The repository also vendors OpenZeppelin's library, with the scripts that generate
parts of it.

The project models the database with Seaport and the collections around it, the
asynchronous part of the page, the two together for a purchase, and of the vendored
library what has a state or an algorithm worth checking: the containers, checkpoint
histories and casts its templates generate, and the script that migrates import paths.
It is written in TLA+, checked with TLC and, all but liveness, proved with TLAPS for every
value of the constants.

## Inventory

| Part | State | Operations | Talks to |
|---|---|---|---|
| Listing index (`MarketMap.sol` 43-47, 88-92, 403-423) | `tokenIdsWithOrders`, `tokenIdToIndex` | `addTokenId`, `removeTokenId`, `getOrders` | called by sell, buy, cancelOrder; read by the page |
| Order codec (`MarketMap.sol` 162-174, 195-398) | `orders`, `additionalRecipients` | validate, store, compose, clear, compose for OpenSea | reads `ownerOf`, `getApproved` |
| Market transactions (`MarketMap.sol` 52-158) | all four mappings | `sell`, `buy`, `cancelOrder`, `getOrderStatus` | Seaport, the collections |
| Seaport (external; `MarketInterface.sol` 117-124) | validated, cancelled, filled, counters | validate, fulfil, cancel, increment counter | called by the market and by everybody else |
| ERC721 collections (external; `MarketInterface.sol` 126-129) | owners, approvals | approve, transfer | called by owners and Seaport |
| Page, loading (`frontend.html` 35-129, 370-395, 444-455) | tiles, the global `royalties`, the loops' locals | `connect`, `checkRoyalties`, `decodeTokenURI` | one wallet request per await |
| Page, selling (`frontend.html` 132-305, 355-368, 477-562) | locals of `sell` and `sign`, the global `royalties` | `sell`, `sign`, `getCounter`, `getTxReceipt` | wallet, Seaport, collection, market |
| Page, buying (`frontend.html` 81-124, 308-328) | a tile's price | `connect`'s tile, `buy` | wallet, market |
| Page, cancel, pop-ups (331-353, 397-436) | none | one transaction | wallet |
| On-chain page (`OnchainMarketplace.sol`) | the page's text | string conversions, `html`, `htmlBase64` | none |
| Containers (`scripts/generate/templates` of the vendored library: `EnumerableSet.js`, `EnumerableMap.js`, their mocks) | `_values`, `_indexes`, `_keys` | add, set, remove, contains, length, at, values, tryGet, get | nobody in this repository but the mocks |
| Histories (`Checkpoints.js`, `CheckpointsMock.js`) | an array of checkpoints | push, latest, the lookups | `Votes.sol` of the library |
| Casts (`SafeCast.js`, `SafeCastMock.js`) | none | down-casts, changes of sign | histories |
| `migrate-imports.js` | the files on disk | list, read, write | the file system |
| Other build scripts, test (`MarketTest.sol`), the rest of the vendored libraries | | | |

What makes each part correct:

* **Listing index**: array and index stay inverse to each other, and hold exactly
  the tokens with an order, through re-listings and removals of the last element.
* **Codec**: composing inverts storing for every order that is let in; fields never
  wrap unnoticed; leftovers of an earlier order never leak into a later one (they
  do, see the findings); the contract and the page derive the same OpenSea order.
* **Market**: a listing leaves the database only together with its order in
  Seaport; no order that could be bought is hidden by its status; cancelling ends
  the sale; no listing gets stuck.
* **Page**: every listed order gets its tile, whatever else happens meanwhile; a
  sale is sent only after the approval it needs is mined (and was successful, which the
  page does not see to); what is signed is what is sent; a purchase costs what the seller
  of the listing signed, however old the tile is.
* **Library**: the containers are dictionaries, whatever the order of calls; a lookup
  comes back, with the value of the checkpoint it promises, and answers nothing that can
  still change; a cast gives the number or refuses it; a migrated import is right, and
  none is lost but at the end of a file whose own write was cut short.

What is hard: Seaport and the collections change under the market without telling
it (a transfer, a trade, a cancellation, a counter); a stored order's offerer is
whoever owns the token now; the storage has history (slots, list positions); the
page interleaves at every await, with its buttons enabled. There are no threads, no
messages and no crashes: a transaction happens entirely or not at all. (The migration
script is the exception: it can be killed between two files or in the middle of a write.)
`PROJECT.json` lists each hazard at its line.

## Modules

| Module | Models | Notes |
|---|---|---|
| `TokenList` | the swap-and-pop list | a record `[ids, index]` of the two mappings at one collection; sequences are one-based as the code's stored index is |
| `OrderCodec` | validation, packing, composition, clearing, the OpenSea order | operators only; widths, caps and the fee are constants |
| `Erc721`, `Seaport` | the external contracts | from the interfaces and how the market and the page use them |
| `MarketMap` | the contract's transactions, composed with the modules above | one action per external function; `Elsewhere` is everything that does not call the market |
| `ListingBook` | abstract: a book of one entry per token and a page that enumerates it | `MarketMap` implements it (`ImplementsBook`) |
| `OrderStorage` | one token's storage over arbitrary orders | the codec's boundary cases without Seaport's state; `most` is a history variable |
| `Frontend` | `connect`, `checkRoyalties`, `sell`, `sign` in one tab | one action per answer of the wallet |
| `Purchase` | a tile, its button and the transaction, composed with `MarketMap` | extends `MarketMap`: every step of the market and of others may come between any two of the page's |
| `Bytes32`, `EnumerableSet`, `EnumerableMap`, `SafeCast`, `Checkpoints`, `OzMath` | the templates' functions | operators on a record or a sequence; the lookups' loops as records of their variables |
| `Mocks` | the contracts generated beside the templates: any call, in any order | one action per function; a lookup's loop takes a step per round |
| `Dictionary` | abstract: a function from keys to values | the set and map mocks implement it (`ImplementsDictionary`) |
| `Migration` | `migrate-imports.js`, with interruptions and further runs | one action per file listed, read or opened for writing, and per piece written |
| `PathTable` | the script's table of paths, all 56 of them | data only |
| `MCMarketMap`, `MCListings`, `MCOrderStorage`, `MCParts`, `MCFrontend`, `MCPurchase` | instances for TLC | `MCListings` lets a behaviour list orders of one kind; `MCParts` lets it run one of the parts that share nothing: `OrderStorage`, `Mocks`, `Migration` |
| `TokenListProofs`, `OrderCodecProofs`, `OrderStorageProofs`, `MarketMapProofs`, `RoundTripProofs`, `FrontendProofs`, `TemplateProofs`, `LibraryProofs` | theorems | one module per component; `RoundTripProofs` is about `MarketMap` and `Purchase`, `TemplateProofs` about the templates' operators, `LibraryProofs` about `Mocks` and `Migration` |

### How state and actions correspond to the code

* `orders`, `additionalRecipients`, `tokenIdsWithOrders`, `tokenIdToIndex` are the four
  mappings. A deleted order is `NoOrder`.
* An order is a record of what varies; what every market order shares (one ERC721
  offered, native considerations, this market as zone, no conduit, FULL_OPEN) is its
  field `shape`. `consideration[0]` is `amount`, the further ones are `recipients`.
* A signature is modelled by the digest it signs, an order with a counter. So a stored
  order remembers which order its seller signed, and properties can compare the two.
  Signatures that are not the 65 bytes the code takes apart are left out.
* Casts are `%`: `PackAmount(wei) == (wei \div Unit) % AmountMod`.
* A call that reverts is a step that is not enabled. `sell`, `buy` and `cancelOrder` are
  each one atomic step. Payees that are contracts are called in the middle of `buy`;
  what they might call in turn is not modelled.
* `WithOpensea` says whether a sell may bring a signature for OpenSea, any that is valid for
  the order the contract composes. Seaport trades no order with an item of amount 0
  (`NothingEmpty`).
* Payment is exact (the market cannot receive Seaport's refund). Amounts paid are in
  `Purchase` only; there a transaction reverts unless it sends the order's total.
* A burned token has the owner `NoOwner`, for whom `ownerOf` reverts and with it everything
  that composes the token's order (`CanCompose`). Whether a collection's tokens burn is a
  constant.
* `Purchase`: `tile` is what `connect` has read for one token, `tx` a transaction between
  click and block. The status, the details and the mining are separate steps. The tile also
  remembers which listing its amount came from; only properties read that. A royalty is in
  parts of `Parts`, and a price that is a fraction of a wei (`HasPrice`) leaves the tile
  without a button, as `BigInt` throws.
* `Seaport`: an order is traded when it is neither cancelled nor filled, in its time
  window, its offerer owns the token at the counter of the digest, the token may be moved
  by the order's spender, and the order was validated or comes with its signature. Trading
  marks it validated, cancelling unmarks it. Both may be done by anybody entitled to,
  outside the market; `DirectFulfil` takes validated orders, `DirectCancel` validated ones
  that are not filled.
* `Frontend`: code between two awaits runs alone, so a step is an answer and all the code
  up to the next request. Each call of `connect` has its own locals (`load[k]`), and the
  calls share `royalties`, the tiles and the field. Tiles are a set: no property is about
  their order. `steady[k]` is a history variable, the tokens active ever since load `k`
  read the list. `royalties` is a number, unset, or `NaN`, which an answer without data makes
  of it; without a number there is no price and no sale. `ParseCount` reads a count of any
  length: the digits of one base in another, up to the first that is none. The approve
  transaction may revert, which the page does not notice.
* `Mocks`: a behaviour deploys one mock and calls it. `set`, `map` and `history` are the
  three storage variables, `answer` what the last call returned or emitted, `call` the
  variables of a lookup's loop. A stored word is a number below `WordMod`, an address below
  `AddressMod`; `ToBytes32` and `FromBytes32` cut as the code's casts do. `Math.average`
  is the floor of the mean, as its bit formula computes it.
* `Migration`: a file is the sequence of its imports, an import a path and its package.
  `writeFile` empties the file when it opens it (`OpenFile`) and writes its text in pieces of
  any length (`WriteChunk`); `cut` is a history variable, the files in whose write a run
  ended. The table is a constant of the module, `PathTable`'s in the run; what the proofs use
  of it is that old paths differ from each other and from all new ones.

## Runs

| Run | Instance | Properties |
|---|---|---|
| `purchase` | 2 users, 1 token; Alice's order at two prices and Bob's; a royalty of as much as the price; approvals, transfers, direct trades and cancellations; one tick to expiry; one tile, priced without a royalty, with the listing's or with one that leaves a fraction of a wei, and one transaction | `ListedIffStored`, `RoundTrip`, `BuyableIsShown`, `TileBuys`, `DelistedMeansSpent`, `PaidAsListed` |
| `counter` | 2 users, 1 token, one order, counters up to 1, standing approvals for Seaport and the conduit (so the OpenSea twin is traded) | `BuyableIsShown`, `DelistedMeansSpent`, `CancelTakesEffect` |
| `listings` | 1 user; 3 tokens with one order each, or one token, 4 orders with 0, 2 or 3 further recipients where a count of 4 wraps to 0, amounts that do not fit or are no multiples; tokens may be burned | `TypeOK`, `IndexSound`, `ListedIffStored`, `ImplementsBook`, `RecipientsKept`, `ComposeNeverOverflows`, `BuyableIsShown` |
| `page` | 2 overlapping loads, 2 collections with different royalties, 2 of 3 tokens listed, 1 change of the market, 1 sale, whose approval may revert; royalty reads may fail or return nothing | `TypeOK`, `PageComplete`, `ApprovalMinedFirst`, `LoadEnds` |
| `parts` | one token's storage, every combination of 7 prices, 3 start times, 4 end times, 3 salts, 7 recipient lists at the boundaries; or the 3 set, 5 map and 3 other mocks over words 0 to 2, addresses 0 and 1; blocks 2 to 9 with 3-bit keys; traces with keys 0, 2, 3, 5, 7; values of 1 bit; casts of a 4-bit word; or 2 Solidity files, one of them found twice, of 6 contents each, and the whole table of 56 paths | `StorableComposes`, `OpenseaAsSigned`, `TypeOK`, `ContainersSound`, `HistorySorted`, `LookupOnTrack`, `LookupRight`, `CastExact`, `ImportsKept`, `RunMigrates`, `PastIsFixed`, `LookupEnds`, `ImplementsDictionary` |

These are checked to the end without error. Why the bounds are enough: the list needs
three elements for a removal from the front, the middle and the back; the storage of a
token depends on no other token's; two users make every pair of offerer and owner, equal
or not; one counter step makes a digest stale; a slot range of 2 or 3 (`SlotMax`) has a
first, a last and, with 3, a middle slot, and counts that wrap. Numbers are scaled (unit
10 for 1e3, two or three bits for 64, 32 and 16) with the same relations between caps and
ranges as in the contract (`CodecAssumption`, which the contract's numbers satisfy).
In `purchase` the royalty equals the price, so that a listing at one price with the royalty
costs what a listing at the double price costs without: the coincidence that a stale tile
needs to pay for another listing.

For the library: three words fill a container's first, middle and last place; address
clean-up shows because there are words that are no addresses; six checkpoints are one more
than `getAtProbablyRecentBlock` searches whole; blocks 8 and 9 do not fit a key of three
bits; every width of a word of four bits is cast. The contents of the files hold both
packages' paths, one path twice, two old paths with one new one, and a new path beside its
old one; a write of up to four imports can be cut before the first, between any two and
before the last.

In `listings` the orders of a behaviour are of one of the two kinds, and tokens for which the
kind has no order stay as they are (`OfKind`): the storage of one token and the places of
several in the list do not meet. OpenSea signatures come in `counter` and `opensea`; they leave
no trace in the market's storage, which is what `listings` is about.

`MaxCounter`, `MaxNow` and `MaxChanges` bound the only counters. `TypeCollection` in
`Frontend` is bounded too: an address is typed when the last one was read and a load is
left to read it. There is one sale per behaviour.

Deadlock is checked in all runs but those of the page, which may come to rest (the loads are
over, the user does nothing), and `listings`: there burned tokens leave nothing to do.

**Fairness.** Two properties need it. `LookupEnds`: weak fairness of `LookupRound` and
`LookupReturns`, since the EVM runs a call it has begun to its end; no call has to begin.
`LoadEnds`: weak fairness of `LoadAnswer(k)`, that is, the node
answers each read of a load that is not rejected. Rejections (`LoadFails`) have none, so
`LoadEnds` does not lean on them. The user's own steps (clicks, wallet
prompts, typing) and the miner's have none. The backend has no liveness property: no
transaction is obliged to happen.

### Findings

Seven runs end in a violation. Each checks one property that states what a document or a
comment says.

| Run | Property | What happens |
|---|---|---|
| `fewer` | `CancelTakesEffect` | `buy` leaves a token's further recipients in storage, and `cancelOrder`'s loop deletes slot 2 at most. List with two further recipients, sell (or list over it without cancelling), list with one: the composed order has two, `cancelOrder` cancels that hash, deletes the listing, and the seller's order stays valid in Seaport. Likewise the listing cannot be bought through the market. |
| `opensea` | `CancelEndsSale` | Listing on OpenSea validates a second order, which `cancelOrder` does not cancel. |
| `sold` | `ShownIsUnsold` | `getOrderStatus` looks at Seaport's `isValidated` only, which a trade leaves true. A listed token is sold outside the market and comes back to its seller: the status says that the order is still valid, and the page makes a tile for it that nobody can buy. |
| `lossy` | `ValidatedIsKept` | `validateOrderParameters` does not look at `startTime`, at the amounts of further considerations or at the order's shape. |
| `count` | `PageComplete` | The page reads the hexadecimal count of listings as a decimal number: 0xa becomes 0, 0x10 becomes 10. Bases 3 and 2 stand for 16 and 10. |
| `reverted` | `SaleNeedsApproval` | `sign` waits for the receipt of the approve transaction and goes on whatever it says. |
| `race` | `SignedAsSent` | `checkRoyalties` is not awaited; when it answers during a sale, the signed considerations are not the ones sent. |

`page` checks `PageComplete` with equal bases, which is what `count` shows to be missing:
the rest of the loop is right.

## Theorems

Every invariant, action property and refinement that the passing runs check is a theorem
too, for every value of the constants; some of them under a hypothesis, `UniformOrders` or
`CountsRead`, which the runs that check them satisfy. `PROJECT.json` lists which theorem
states which property.

**Assumptions** are those in the modules, and TLC evaluates each of them in some run:

* the sets of users, collections and ids are not empty; orders are of `OrderType`; the zero
  signature signs no order; widths and caps are related as `CodecAssumption` says;
* a page is opened on a sound list (`FrontendAssumption`), which `IndexSoundness` proves of
  the market's, and counts are written in a base no smaller than the one they are read in,
  which is at least 2;
* `SqrtAssumption`: the square root lies between one and its argument, which `SqrtInRange`
  proves of `OzMath`'s. `PowersAssumption`: each power of two is a positive number and the
  double of the one before. That is how exponents are defined; the provers do not know
  them, so it is stated, here and as the hypothesis `Doubling` of `SqrtInRange`;
* `ContentsAssumption`: files are sequences of imports, whose paths are the paths of the
  files and of the table. It fixes what an import is and restricts no file.
  `PathUpdatesAssumption`: the table's old paths are distinct and none is a new one, which TLC
  evaluates of the whole table.

**The list and the codec.**

* `TokenListProofs`: `RemoveTokenIdCorrect` and `AddTokenIdCorrect`, that both operations keep
  `ListSound` and change membership of their token only. By cases: the removed id is the last
  one or not.
* `OrderCodecProofs`: `ComposeInvertsStore`, that composing gives a storable order back. That
  the composing loop stops at an empty slot, and at none before it, rests on `SmallestOf`, a
  set of numbers having a smallest one. So does every induction of the project: the library's
  induction theorems are out of the provers' reach, and a smallest counterexample is not.
  With it the function that adds up an order's amounts exists (`SumsExist`), and their sum is
  a number (`SumOfAmountsType`).
* `OrderStorageProofs`: invariant `StorageInv`: no slot behind the longest order stored so far
  is filled, nor the last one, and the stored terms and first slots are those of the listed
  order. `StorableOrdersCompose` follows; it is the codec's theorem
  for an order with as many recipients as any before it, so that nothing is left behind its own.
  `OpenseaOrdersAsSigned` takes the page's whole price for no and for one recipient, the cases
  in which page and contract mean the same.

**The market.**

* `MarketMapProofs`: `Spec => []IInv` with
  `IInv == TypeOK /\ IndexSound /\ ListedIffStored /\ LastSlotEmpty`. `IndexSound` is needed
  for `ListedIffStored`, since membership only changes as it should in a sound list, and
  for the type of the list, since a removal writes at the index. `ComposeNeverOverflows`
  is not inductive alone, since an order may fill whichever slot happened to be the empty one;
  `LastSlotEmpty` is, because the count of considerations is taken modulo `SlotMax + 1` and
  slots below it are written. `TypeCorrect`, `IndexSoundness`, `ListedTokensHaveOrders` and
  `ComposeAlwaysReturns` follow. `BuyableTokensAreShown` adds `StoredIsSeen`: a stored order is
  empty or its signature's digest is validated, cancelled or traded, which no step undoes
  (`SeenGrows`); an authorised digest that is not spent is then validated, and an empty order
  has an empty time window.
* In the same module `MarketIsListingBook`, that the market implements `ListingBook`. A sound
  list enumerates the tokens that have an index (`SoundListEnumerates`), which under `IInv` are
  those with an entry; `sell` is `Enter`, `buy` and `cancelOrder` are `Strike`, and every other
  step stutters.
* `RoundTripProofs`: `RoundTripTheorem`, `DelistedTheorem` and `CancelsTakeEffect`, all under
  `UniformOrders`: the orders are storable and those for one token have equally many
  recipients. Without it they are false (`fewer`, `lossy`), and `purchase` is an instance
  of it. Their invariant `RInv` adds to `IInv` that the slot after the recipients of any
  order for a token is empty (`SlotsFit`), and that a listed token's storage holds the
  packed order its signature signs (`StoredAsListed`). A listing composed for its own seller
  at its own counter then has the digest that was signed (`OwnListingDigest`), which is what
  `buy` spends and `cancelOrder` cancels.
  `RecipientsKeptTheorem` needs no `UniformOrders`: its invariant `KeptFirst` says only that the
  slots a storable listing filled are as it filled them.

**The page.**

* `RoundTripProofs` again: `PagesUseTheMarket`, that `PurchaseSpec` implements the market's
  `Spec`, so that all of the above holds beside a page. `PurchasesCostAsListed` and `TilesBuy`
  are under `UniformOrders`. Their invariant `PInv` is `RInv` with what a page knows: a tile's
  amount is the packed amount of the listing it remembers (`TileKnown`), though the listing
  may be gone. A purchase pays the sum of the composed order, which is the sum of the signed
  one since only the offerer can differ (`ComposedTotal`); a tile at the order's royalty rate
  asks for this sum (`PriceAtRate`), and it is no fraction of a wei because storable amounts
  divide by the unit and the sum is a number (`ExactDivision`).
* `FrontendProofs`: `FrontendTypes` keeps the loops within their lists. `PageShowsOrders` has
  two more conjuncts: tokens that are steadily active are so in the market now
  (`SteadyKnown`), so that no read of theirs says otherwise, and each of them has its tile or
  is still ahead of the loop (`TilesComing`), for the load that emptied the page last. Another
  load's steps add tiles and remove none, unless it empties the page, and then it is the one
  that owes tiles, its loop not begun.
  The theorem's hypothesis `[]CountsRead` says that the count of a list is read as it is
  written. It cannot be dropped: that is what `count` shows. `ShortListsCounted` says when it
  holds, as long as no list has ten orders (`DecBase`), in whatever base counts are written.
  What a count is read as is at most the count (`ParseCountBound`), again by a smallest
  counterexample, and that keeps the loop within its list.
  `ApprovalBeforeSale` needs that an approval is pending only while the sale polls for its
  receipt, or after it failed (`ApprovalWaited`).

**The library.**

* `TemplateProofs`, the containers: `SetAddCorrect` and `SetRemoveCorrect` keep `SetSound`,
  array and indexes inverse to each other, and change the elements by the given word only. A
  removal is taken apart by `RemoveShape` into what it does to each place; the last word
  being the removed one is a case of its own.
* `TemplateProofs`, the histories: `InsertSorted` and `InsertKeepsPast` for pushes;
  `WholeSearchSound`, `RecentSearchSound`, `HalveSound` and `SearchAnswers` for the lookups.
  Their loop invariant is `SearchSound`: everything below `low` is before the place looked for
  and everything from `high` on is not. That the recent search starts sound needs of the
  square root only that it is in range, which is `SqrtInRange`: the first guess is, and no
  round of Newton's method leaves the range.
* `LibraryProofs`, the mocks: `Spec => []MocksInv`, with
  `MocksInv == TypeOK /\ ContainersSound /\ HistorySorted /\ HistoryShort /\ LookupOnTrack
  /\ LookupRight`. The types of the stored words matter for soundness because a value is
  stored under its word and read back through a cast (`Conversions`); the order of the keys
  matters for the loop. `PastStaysFixed` follows with `InsertKeepsPast`, as a push writes at
  the number of the current block and only earlier blocks are readable. `CastsStayExact`: a
  signed down-cast that compares equal was in range and one that is in range compares equal
  (`TruncateSignedExact`), at every width.
* `ContainersAreDictionaries`, that the set and map mocks implement `Dictionary`. Under
  `MocksInv` the refinement mapping loses its conversions (`EntriesKnown`), and each action is
  a step of the dictionary: `LengthIsCardinality` counts, `ContainsIsMembership` answers, and
  `MapSound` makes a value that is not zero a proof that its key is there. `CallFree` says that
  no lookup runs in a container's mock.
* `LibraryProofs`, the migration: `MigrationKeepsImports` and `CompleteRunMigrates`, for any
  files, contents and table. A text is `Kept` when each of its imports is the original one of
  its place or what the table makes of that, in the same package, and it has no more of them
  than the original; so a text cut short is kept too (`Beginning`), and an
  empty one (`EmptyText`). An old path is done with when it is gone or was there more than once (`Done`).
  `UpdateImportPathsKeeps` carries both through the loop over the table: a round keeps what is
  kept, finishes its own path and undoes no other (`ReplaceFirstKeeps`), because no new path of
  the table is an old one. The invariant `MigrationInv` says that every file on disk is kept,
  has all its imports unless its own write is under way or was cut short, and is done with if
  it is before `next`. A run that is cut short anywhere leaves that true, and the next run
  begins with it.

**Only model-checked**: `LoadEnds` and `LookupEnds`, which are liveness under fairness. The
properties of the seven runs that end in a violation are false as they stand; of these,
`CancelTakesEffect` is proved under `UniformOrders`, `PageComplete` under `CountsRead`, and
for storable orders `StorableComposes` is what is true of `ValidatedIsKept`. What is
true of `ShownIsUnsold` and of `SaleNeedsApproval` are other claims, `BuyableIsShown` and
`ApprovalMinedFirst`, both proved. That the square
root is the right one, and not only in range, no property needs and nothing proves. The
provers do not know that a string literal is a string; `Migration` therefore names the
set of paths an import may have instead of taking `STRING`.

## Not modelled

* Calls from payees back into the market during a `buy`: Seaport, which every state-changing
  function of the market calls, does not let itself be entered again, so they revert.
* Criteria orders, partial fills, contract wallets.
* Floating point in the page: prices, fees and ids above 2^53.
* Wording, layout, tile contents; the pop-ups; `cancel` of the page, which only sends the
  transaction that `MarketMap` models.
* `OnchainMarketplace.sol`: formatting of constructor arguments.

* Of the vendored library, everything the marketplace does not use and no template generates;
  its release, documentation and report scripts, and its build configuration. They transform
  text once and keep no state.
* The text of the generated files: the templates are modelled by the contracts they generate.

The map counts lines of two kinds of code. Of the marketplace itself it covers about 350 of the
423 lines of `MarketMap.sol` and 360 of the 666 of `frontend.html`; of the JavaScript, all of which
is vendored, about a third: the templates' functions and the migration script with its table.

## Plan

Done, in this order: `TokenList`, `OrderCodec`, `Erc721`, `Seaport`, `MarketMap`,
`ListingBook`, `OrderStorage`, the runs, the proofs, `Frontend`; then burned tokens, `Purchase`,
the library with its proofs, `Migration`; then `OrderStorage`'s, `Purchase`'s and `Frontend`'s
theorems, the casts' and the migration's.

To do, extending the models: a second sale in the same tab; whole loads of the page
composed with `MarketMap`, instead of with the list and the set of active tokens.

To do, proving more: that the changes `Frontend` lets happen to a list are those the market
makes, so that `IndexSoundness` takes the place of the assumption about `OldList`.

# Verification of the bitmap marketplace

TLA+ models of the server in `src/src` (Rust, axum, Postgres, a Bitcoin node and
an `ord` server), TLC runs that check them on small instances, and TLAPS proofs
for all instances. Paths below are relative to `src/` of the repository.

## 1. Inventory of the system

The server is one process. Every HTTP request is an asynchronous handler that
awaits database statements one by one and makes blocking JSON-RPC calls to the
node. No handler takes a row lock or a `SELECT ... FOR UPDATE`; only the final
writes of a purchase are in one database transaction. A `TimeoutLayer` of 30 s
(`main.rs:205,215`) or a client that closes its connection drops a handler at
whatever await it has reached. The background tasks are written but their
`spawn` calls are commented out (`main.rs:65-103`); they are modelled as they
would run.

| Component | State it keeps | Operations | Module |
|---|---|---|---|
| Trading (`routes/listings.rs`, `orders.rs`, `offers.rs`) | tables `listings`, `offers`, `sales`, `inscriptions.owner_address`, `activity_feed`; signed PSBTs in clients' hands | create, submit-locking, cancel, confirm, import; buy, confirm order; create, accept, cancel, expire offers | `Trading`, `SaleBook`, `TradingProofs` |
| Bitcoin RPC (`services/bitcoin_rpc.rs`) | none (the node's mempool and chain) | sendrawtransaction, submitpackage, gettxout, getrawtransaction, getblockcount | environment of `Trading`, `ChainSync`, `SalePsbt` |
| Transactions (`services/psbt.rs`, `marketplace_keypair.rs`) | none; what it builds is stored on listings and signed by wallets | build, sign, finalize and extract the locking and the sale transaction, protected or not | `SalePsbt`, `SalePsbtProofs` |
| Mempool watcher (`services/mempool_watcher.rs`) | last height; one snapshot of the pending sales | confirm a sale, move the owner, log it | `ChainSync`, `ActivityLog`, `ChainSyncProofs` |
| Indexer (`services/indexer.rs`, `services/ord.rs`) | last height; the inscription in hand | upsert inscriptions, log mints and transfers | `ChainSync`, `ActivityLog`, `ChainSyncProofs` |
| Accounts (`routes/auth.rs`, `db/profiles.rs`, `services/jwt.rs`) | challenge cache; tables `profiles`, `profile_wallets`; JWTs in users' hands | challenge, connect, link, remove wallet, logout | `Accounts`, `AccountsProofs` |
| WebSocket feed (`ws/mod.rs`) | a broadcast channel of 1024 events; a task and a filter per socket | announce, subscribe, filter, lag, deliver | `WsFeed`, `FeedPromise`, `WsFeedProofs` |
| Portfolio (`routes/portfolio.rs`) | none; answers and their ETags are in browsers | cards, revalidation, bitfield, bitmaps and children of an address | `Gallery`, `GalleryProofs` |
| Collections (`routes/collections.rs`) | `inscriptions.collection_id` | bulk assignment, listings of collections | the assignment in `ChainSync` |
| Bitmaps, explore (`routes/bitmaps.rs`, `explore.rs`, `db/bitmaps.rs`) | table `bitmaps`, filled by an importer | pages of blocks with a trait, pages of children, single reads | the pages in `Gallery` |
| Inscriptions, activity, Magic Eden client | none of their own | queries of one statement, a proxy | not modelled |

**How they interact.** The routes, the watcher and the indexer share the tables
and nothing else: `inscriptions.owner_address` is written by all three. Trading
sends to the node what `psbt.rs` builds from the rows of a listing; the watcher
reads the node's answer later. The feed and the activity table hear of a sale
after its commit, by calls whose errors are ignored. Accounts shares the table of
wallets with the portfolio, which reads it, the `ord` index and the table of
bitmaps one after another.

**What is hard.** Two purchases of one listing in flight at the same time; a
handler that works on a row another one has rewritten; the window between a
broadcast, which cannot be undone, and the commit that records it; lost replies
and half-accepted packages; tasks that remember a height before they have done its
work; signatures made in advance for a transaction that does not exist yet;
amounts in unsigned arithmetic that wraps; tokens issued from a profile read
before a logout; sockets that fall behind a bounded channel; and answers put
together from several reads, and kept by a browser as long as a number does not
change. `PROJECT.json` lists each of these hazards at its line with the
properties that watch it.

**What makes each part correct.**

* Trading: the books never run ahead of the chain (a sale row, a sold listing, an
  accepted offer stand for an accepted transaction), the owner on record agrees
  with the sales, a locking transaction stays at home until it is used, and,
  without faults, the sales broadcast are the sales recorded whenever no request is
  between the two.
* Transactions: amounts balance whatever the arithmetic does, a buyer pays exactly
  the quote, a correctly signed purchase goes through, and what the books say of a
  sale is what its transaction does.
* Watcher and indexer: a sale is confirmed before it is reported, a sale or a mint is
  reported at most once across restarts, no task overlooks by itself what the chain has
  done, and the owner on record converges to the chain.
* Accounts: one session per challenge, no address taken over by another profile,
  revocation for good, a last wallet lost only to removals that raced.
* Feed: a subscriber is told what it wants, in order, once, and misses only what the
  channel has overwritten.
* Portfolio and pages: a card has one owner, the grid a bit for every owned block, a
  304 hides nothing that only arrived, and the reader of pages misses no row.

## 2. Modules

### `Trading` (with `MCTrading`, `SaleBook`, `TradingProofs`)

A request is a record `req[r]` with a program counter and what the handler has
read; one awaited statement or RPC call is one action. `SubmitLocking` /
`StoreLockingTx`, `CancelListing` / `ClearLockingTx` / `MarkCancelled` and so on
are the two or three halves of a handler, so that any other step may come between
the read and the write. `CommitOrder` and `CommitOffer` are the database
transactions of `confirm_order` and `accept_offer`: one step each, because they
read nothing and every row they write stays locked until `COMMIT`. Between
`verify_inputs_unspent` and `submit_package` there is no await, so `Abandon`
does not apply there, though other requests, on other threads, do.

A transaction is the listing it was built from, its buyer and whether it is
protected. The node keeps one unconfirmed and one confirmed spender per
inscription (`mempool`, `chain`): that is the resource purchases compete for. It
may refuse anything, replace what it holds (every input signals replacement),
evict, or take the parent of a package and refuse the child. `Abandon`,
`LoseReply` and `Crash` are the faults. `ExpireStaleOffers` is one round of the
task of that name, one UPDATE of all lapsed offers, at any time between two steps
of the handlers.

`SaleBook` is the abstract specification: a set of taken transactions, an
append-only book, an owner per item. `ImplementsSaleBook` maps `accepted`, `sales`
and `owner` to it, so that requests, listings, offers and faults are all stuttering
or one of its two actions.

### `ChainSync` (with `MCChainSync`, `ActivityLog`, `ChainSyncProofs`)

The watcher and the indexer with every call of a round as a step, over a chain that
mines, drops and overtakes sales. A sale is its buyer. The order handlers appear as
`SendSale`, the broadcast, and `RecordSale`, the commit, which does to the tables what
`CommitOrder` does in `Trading`; `sent` holds the sales between the two, so that a block
may take a sale before its row exists. A restart drops those commits.
`behind` holds the tasks whose remembered height is below the node's: comparing two
heights is all the code does with them, so no counter needs a bound.
`AssignCollection` is the administrator's bulk UPDATE; the indexer's upsert writes
back the collection it read with the row, and `indexer.raced` is a history of
whether the two crossed.

`ActivityLog` is the abstract specification: sales recorded, confirmed and reported in
this order, inscriptions known and then reported as minted, each once and none taken
back. `ImplementsActivityLog` maps the tables to it; snapshots, blocks, transfers,
failures and restarts stutter. `NothingIsOverlooked` says what the liveness of the tasks
rests on: `SaleInSight` and `RowInSight` list where a row that is behind the chain can
be (ahead of a task that has to wake up, in its snapshot, in its hand), and a step that
takes it out of all of them is a failing call, a commit that comes after its block, or a
write of the owner by somebody else.

### `SalePsbt` (with `MCSalePsbt`, `SalePsbtProofs`)

`services/psbt.rs` with its real sizes, thresholds and rounding: input sizes
are quarters of a virtual byte, amounts are words modulo `Word`, a fee rate that
does not fit saturates as Rust's `as u64` does. A transaction is what its txid covers,
so the scriptSig of a wrapped segwit input (empty until it is finalized, then the
redeem script) is part of it and witnesses are not. A
signature is its signer and what it covers (`SINGLE|ANYONECANPAY`: one input and one
output; `ALL`: everything but scriptSigs). The node's policy (dust, minimum fee rate
of a package, spent outputs, scripts) and rust-bitcoin's limit on absurd fees are
external definitions that decide whether a signed purchase is taken. Wallets are
honest: a seller signs the template it was handed, and an unprotected listing's
PSBT asks for the listing's price.

### `Accounts` (with `MCAccounts`, `AccountsProofs`)

Challenges, profiles, wallets, token versions and tokens; connect is the cache
removal, the look-up, the two inserts of a new profile and the token, each a step;
removing a wallet is authentication, count and delete; a logout is authentication
and the increment. Expiry, eviction, dropped handlers and restarts are the faults.
A valid signature is assumed to be in the hands of whoever sends the request.

Two things the code does not keep are stated as what remains of them. A last
wallet goes when two removals both counted two (`LastWalletGoesInARace`). A profile
that no wallet, token or request leads to is never entered again by anybody
(`DesertedForGood`), while its primary address, which is unique, stays spent.

### `WsFeed` (with `MCWsFeed`, `FeedPromise`, `WsFeedProofs`)

Handlers commit a row (`CommitRow`) and announce it afterwards (`Announce`), each in
its own time, or are dropped in between. `sent` is the history of tokio's
channel (external): with no receiver an event goes nowhere, a receiver more than
`Capacity` events behind is told so once and continues with the oldest one kept.
The task of a socket waits for a `WsSubscribe` (`greeting`), receives, filters with
`event_matches`, and sends. No event carries a collection, so a filter on a
collection alone takes nothing, and what was sent before the subscription is not
seen; the first message alone is read as one. A task learns that its client is gone
from a send that fails and from nothing else, so with a filter that takes nothing it
stays for good. `FeedPromise` is what a
subscriber may rely on, without handlers, filters' fields or positions of receivers.

### `Gallery` (with `MCGallery`, `GalleryProofs`)

The world (wallets, outputs held at addresses, blocks imported, children inscribed)
moves between any two reads of a request. A request for cards reads the wallets,
counts the outputs of each address for the ETag, answers 304 or goes on to fetch
ids address by address, then rows; the first address to report an id owns its card.
A request for the bitfield fetches ids, then heights, then the extent. The browser keeps
one answer and its ETag. What the counts conceal is kept beside them as history: which
outputs were counted, and how many the address had spent.
`walk` is a visitor who turns the pages of explore (rows counted, then listed,
in two statements) or of a bitmap's children until `has_more` is false.

Two things a reader of the code may expect are not properties because they do not
hold. The comment at `portfolio.rs:35-37` says that the ETag changes when the held
outputs do; it counts them, so one in and one out is a 304. And the filtered
page of a profile tags the shown wallet only, so it does not notice other wallets
linked or removed; `ValidatedWalletsAreListed` is claimed of the other views.

## 3. Runs

| Run | Instance | Shows |
|---|---|---|
| `trading_orders` | 1 listing, 2 buyers, 2 concurrent requests, all faults | the books follow the chain for orders; the locking transaction is there when needed and at home before |
| `trading_offers` | 1 listing, 2 rival offers, 2 requests, expiry, all faults | accepted offers have their sale and leave no rival pending |
| `trading_relist` | 2 listings of one inscription, 1 offer, 1 request | the case in which an offer is recorded on another listing than its own; the activity feed; refinement of `SaleBook` |
| `trading_reliable` | 1 listing, 1 buyer, 2 requests, no faults, fair handlers | the books balance between requests, every request ends and a broadcast sale is recorded |
| `chain_sync` | 2 sales of 1 inscription, 1 collection, all failures and restarts, fair tasks | the abstract log; nothing is overlooked; mined sales are confirmed; owners converge; what undoes an assignment |
| `sale_psbt` | 1 listing, both parities and orders of keys, 9 inscription coins, 4 gas coins, 7 purses, 2 prices, 5 fee rates, 2 buyers | balances, quotes, completion, and when the planned lock is the one spent |
| `accounts` | 2 addresses, 2 profiles, 3 challenges, 3 requests, 3 logouts | sessions, wallets, deserted profiles |
| `ws_feed` | 1 socket, a channel of 2 events, 4 rows, 2 filters besides none | the promise of the feed, and that a wanted row arrives |
| `gallery` | 2 addresses, 2 inscriptions, 4 blocks, 4 children, pages of 2 | ETags, owners, the grid and the pages |

`chain_sync` has 0.7 million distinct states, `sale_psbt` 0.2 million and `gallery`
1.3 million; the Trading runs have up to about a million each.

Three runs end in a counterexample. Each checks one statement of the repository that the
code does not keep; `PROJECT.json` quotes it under "findings".

| Run | What happens |
|---|---|
| `double_sale` | two buyers confirm one listing; neither handler looks at the status again or locks the row; both broadcasts are taken (the second replaces the first) and both sales are recorded |
| `unmined_sale` | the watcher finds the transaction in the mempool and records it as confirmed at the current height |
| `sale_delivery` | the inscription is in the first input and the seller's payment is the first output: first in, first out, the inscription goes back to the seller |

**Why the bounds are enough.** Everything in Trading contends for one inscription, so one
inscription is the interesting case; two requests give every pairwise race
(the theorems below are for any number of them). `MaxSales = 2` lets a second sale
be recorded after, or replace, the first. In ChainSync two sales of one inscription
are what is needed to apply them in the wrong order, and for one to be mined while the
other is between broadcast and commit. In SalePsbt the amounts sit on both
sides of each threshold of the code (343 and 330 for locking, the gas
requirements 178/179 and 202, what an order requires at 1 and 7.3 sat/vB), and the
rates include one below the relay minimum, one at which the fee fits the word
and the sum it goes into does not, and one that overflows the word for some of the
input kinds only; a coin of 12,000,000 satoshi is worth more than rust-bitcoin
takes for a fee. `Word` is 2^26, because TLC's integers have 32 bits and only the wrap
matters. In Accounts `MaxVersion = 4` allows two logouts to overlap and another to
follow, and three requests let two removals race a connect. In WsFeed sockets share
nothing but the number of receivers, so one client and its restarts are enough; four
rows overrun a channel of two twice. In Gallery two inscriptions can
change places, `MaxGone = 1` lets each address spend and be seen before and after,
and pages of two over three rare blocks and four children give full, partial and
empty pages. Three bounds are in its actions: cards are asked for when the
import is done (they do not depend on the height; the grid does), once an answer is
kept only that view is asked for, and a visitor either turns pages or
looks at portfolios, which share nothing that the pages change.

Symmetry is used for interchangeable identities only and never with liveness; a view
drops the activity feed from the two Trading runs none of whose properties mention
it, and no action reads it. `CHECK_DEADLOCK FALSE` is used for SalePsbt, where a
listing whose orders are all sold or refused has nothing left to do; for WsFeed, where
all rows may be announced and the client waiting; and for Gallery, where a walk ends.

**Fairness.** `HandlersRun` is weak fairness of each request's own steps: the runtime polls a
handler until it returns, and a call that hangs is ended by the timeout. A recorded
sale is promised only without faults (`ReliableSpec`), since a lost
reply or a restart after the broadcast really does lose it. `TasksRun` is weak
fairness of both tasks and of new blocks, and it lets failures and restarts happen any
finite number of times: nothing retries within a height, so a task that fails at
every block forever would never catch up. In WsFeed, `Fairness` is weak fairness of
each socket's task and of each handler that has committed; it includes that a
client which is there reads its socket, for a send to one that does not never returns.
Clients, the chain's choices and faults are never assumed to happen.

## 4. Proofs

The six proof modules start from the named assumptions of the modules only:
`ConstantsAssumption` (Trading: finitely many listings, `On` a function into inscriptions,
`None` not an id; ChainSync: likewise for `Of`; WsFeed: a capacity of at least one,
filters of the right shape), `NoneAssumption` (Accounts:
`None` and the two cache markers are not ids, at least one version),
`AmountsAssumption` (SalePsbt: a word of more than 25,000, no price and no coin of half
a word or more, the three kinds of coins) and `GalleryAssumption` (finitely many
outputs, a page of at least one row, `None` distinct from what it stands beside).
In every module `Inductive`, or in WsFeed the invariant `Inv`, is the strengthening
from which the other theorems follow; it is proved for every instance and was checked by
TLC on a small one first.

**TradingProofs.** `TypeCorrect`; then `Inductive`. The safety properties are not
inductive: that a recorded sale is backed depends on the request that recorded it.
`IndInv` adds what each request carries (`RequestFields`, `OfferHasTx`), that a
request about to record has had its transaction accepted (`RecordAfterAccept`),
and that a locking transaction not yet stored is known to no request that could send it
(`NotLockedYet`). The theorems `SalesAreBacked`, `SoldIsRecorded`, `AcceptedIsBooked`,
`OwnerAgreesWithSales`, `ProtectedHoldsLock` and `LockStaysHome` follow;
`RivalsAreClosed` is an action property; `Refinement` shows that every behaviour
implements `SaleBook`: a broadcast is `Take`, a commit is `Record` because
`RecordAfterAccept` holds before it, and everything else stutters. All of it holds
for any number of listings, offers, buyers and concurrent requests.

`RequestsGoForward` is the safety half of `EveryRequestEnds`: by `Remaining`, a bound on
the calls a request has left, every step that moves a request brings it closer to its end,
so that four steps end it. `BooksAreBalanced` is that of `AcceptedIsRecorded`, and like
it is about `ReliableSpec`: with faults a broadcast may stay unrecorded. Its
invariant, `AllInHand`, follows a transaction rather than a request: an accepted sale
has its row or a request about to write it (`SentSteps`), rows are of
accepted sales (`SalesBacked`), and the step that ends a request about to record is
its commit (`WorkKeepsSale`, `RecordedSteps`).

**ChainSyncProofs.** The invariant splits into the watcher's part (what is left of a
snapshot is pending, so the sale in hand has not been reported) and the indexer's
(an inscription found new has neither row nor mint), each undisturbed by
the other task's steps, and `SentHasNoRow`: a sale under way has no row, so its
commit inserts one and does not reopen a confirmed sale. `ReportsSaleOnce`,
`ReportsConfirmed` and `ReportsMintOnce` follow, and so does `LogRefined`: under the
invariant `ConfirmSale`, `LogSale`, `RecordSale`, an upsert of a new inscription
and the log of a mint are the five actions of `ActivityLog`, and every other step leaves
the log alone. `CollectionKept` needs `CollectionInHand`: what the indexer will
write back is what the row holds unless an assignment crossed it.

`NothingOverlooked` is proved task by task (`StepSaleInSight`, `StepRowInSight`) from
`Grounded`: no inscription has a row before it is minted, so skipping one without an
address overlooks nothing, and what the indexer has seen of an address is the holder
unless a block has come, which wakes it again. An earlier form of the model, in which a sale
was broadcast and recorded in one step, satisfied a stronger statement that the code does
not: a block between the two puts the sale out of the watcher's sight until the next
block, and the theorem names this case. `RoundsGoForward` is the other half of what
`MinedIsConfirmed` and `OwnerConverges` rest on: every step that moves a task in its round
leaves it fewer items, or the same and less to do with the one in hand (`Distance`), so
that a round of finitely many items ends.

**AccountsProofs.** The invariant says that a challenge in use or used has left the cache,
and that what a request has read of a version is not ahead of the row. Two lemmas carry
the proof: steps that take no challenge are `Quiet`, and every step satisfies
`VersionsGrow`. `ChallengeOpensOneSession`, `NoTokenIsAhead`, `RevocationIsFinal`
(a revoked token is strictly behind, and rows never go back), `AddressIsKept`. A
removal carries the wallets it counted, at least two; `RemovalsLeaveOne` follows,
because the one it deletes is not all of them. `DesertedStays`: no step of a
request that does not name the profile reaches its row.

**SalePsbtProofs.** There is one buyer's PSBT per order and one listing, so
the invariant `Built` says how each was built: `ListingBuilt` (a protected listing holds a
signature for the output as planned, and its locking transaction was accepted),
`OrdersBuilt` (every order's transaction is what `buy` builds from the listing as it is
now, because a listing with orders no longer changes) and `SalesBuilt` (a row of sales is
an order's and the node has it). That there is one row at most is the lemma
`SecondConflicts`: two sales of one listing spend the same coin. The amounts are
arithmetic below the word: `LockingIsFunded`, `QuoteIsKept`, `BooksAgree`.
`PlannedIsSpent` compares the id before and after finalizing.

`PurchasesComplete` follows an order through every rule of the scripts, the node's
policy and rust-bitcoin's limit on fees. `OrderParts` and `SaleSize` say what is signed and
how large it is, `FeePaysSize` that a rate of 1 sat/vB or more pays for it, `AllSigns` and
`SingleSigns` that the two kinds of signature cover what the finalized transaction
spends, and `WitnessOrdered` that the two signatures of a protected listing stand on the
witness in the order its script takes them, whichever key sorts first. `RefusedForCause`
puts them together: a refusal has one of the causes of `Excused`. `StillExcused` and
`StepCompletes` keep the cause true afterwards. One cause came out of the proof and not
out of a run: with a fee rate and no fee address the marketplace's fee has no
output and is left to the miners (`UnpaidMarketFee`), which counts against the limit on
fees.

**WsFeedProofs.** Per client: where its positions lie, that what it was told is ordered,
and that every position skipped is unwanted, told, in hand or overwritten. A position once
overwritten stays so, as the channel only grows. `Refinement` maps a send to `Tell`,
a subscription to `Join`, an announcement to `Publish`; a restart or the end of a task
is `Leave`.

**GalleryProofs.** `Staged` says what a request has read by each stage, `Owned` that ids
are those of the addresses asked, each of one, `Gridded` that blocks found are in the
table. The heart is `Sound`: as long as an address has spent nothing since its outputs were
counted, it still holds them, its ids are among them and nobody else reports one.
`Recounted` carries this from a saved answer to the counts of the next request; with
equal cardinalities the two sets are equal, which is `NothingNewHidden`. `WalkInv`
says that the pages so far cover a prefix of the rows, and what was counted is still
there when it is listed; a page that is not full reaches the end of the rows
(`PageCard`).

**Model-checked only.** Liveness (`EveryRequestEnds`, `AcceptedIsRecorded`,
`MinedIsConfirmed`, `OwnerConverges`, `WantedRowArrives`), which needs fairness and
`ENABLED` and is out of the proof system's reach; what each of them rests on is proved
(`RequestsAdvance`, `BooksBalance`, `NothingIsOverlooked`, `RoundsAdvance`,
`OnlyOverwrittenMissed`). `RequestsAdvance` and `RoundsAdvance` are in no run of the project:
they are proved for every instance instead.
Every safety invariant and action property of the passing runs is proved. The three
violations are behaviours that TLC shows.

## 5. Not modelled

* The tables' columns that decide nothing (labels, payment addresses, timestamps,
  source names) and all parsing, encoding and logging.
* Database deadlocks as such: a commit may fail at any time, which is what one looks like.
* Reads of one statement (lists of collections, inscriptions, activity, counts of
  traits), the Magic Eden client (its listings are inputs of `ImportCheck`), startup.
* In Gallery: the cap of 50,000 ids, which an address of a bitmap holder does not
  reach; the wrap of `page * limit` for absurd pages; the choice of a trait, a limit and a
  page of cards, which select among the same cards before and after and are part of the
  view; the reads of an unknown profile, which end in `Fail`. Blocks are imported
  in the order of their heights.
* What clients do with PSBTs beyond signing them; block reorganisations.

## 6. Plan

Done, in this order: `Trading` with `SaleBook` and their proofs; `ChainSync` and its
proofs; `SalePsbt`; `Accounts` and its proofs; `expire_stale_offers`; `WsFeed` with
`FeedPromise` and the refinement; `Gallery`; collections; proofs about `SalePsbt` and
`Gallery`; `PurchasesComplete`; the balance of the books and the progress of requests;
`ActivityLog`, its refinement, `NothingOverlooked` and the progress of rounds. What would come next:

1. The composition of `Trading` and `ChainSync`: `SendSale` and `RecordSale` shown to be
   what a request of `Trading` does to the node and the tables, and of `Trading` and
   `WsFeed`, `CommitRow` likewise.
2. Wallet labels and payment addresses, if a property is found that is about them.

------------------------------- MODULE Trading -------------------------------
(***************************************************************************)
(* Listings, offers and orders of the marketplace: the HTTP handlers of    *)
(* routes/listings.rs, routes/offers.rs and routes/orders.rs over the      *)
(* Postgres tables they share and the Bitcoin node they broadcast to.      *)
(*                                                                         *)
(* A handler is a sequence of awaited database statements and RPC calls,   *)
(* and no handler locks a row it has read.  Each request r therefore has a *)
(* program counter req[r].pc naming what it does next, and the fields it   *)
(* took from the rows it read; between two of its steps any other request, *)
(* the node and the owner of the inscription may move.  One awaited        *)
(* statement (or one database transaction, see CommitOrder) is one step.   *)
(***************************************************************************)
EXTENDS Naturals, Sequences, FiniteSets

CONSTANTS
  Listings,      \* row ids of the table listings
  Offers,        \* row ids of the table offers; an offer stands for its buyer
  Inscriptions,  \* inscription ids, each sitting on one unspent output
  Buyers,        \* buyers that use POST /orders/buy
  Requests,      \* requests the server works on at the same time
  On,            \* the inscription a listing or an offer is about
  MaxSales,      \* bound: purchases that may be recorded or under way
  None,          \* SQL NULL, and a field a request does not use
  Seller,        \* the address that owns every inscription at the start
  Unknown,       \* the buyer_address "unknown"
  Unspent,       \* the node knows no spender of an output
  Moved          \* a transaction of the owner that is no sale of ours

ASSUME ConstantsAssumption ==
  /\ IsFiniteSet(Listings)
  /\ On \in [Listings \cup Offers -> Inscriptions]
  /\ None \notin Listings \cup Offers
  /\ MaxSales \in Nat

VARIABLES
  listing,   \* table listings
  offer,     \* table offers
  sales,     \* table sales, in the order of the commits
  owner,     \* inscriptions.owner_address
  feed,      \* the Sale rows of table activity_feed (nothing reads the others)
  built,     \* signed sale transactions that clients hold
  mempool,   \* node: unconfirmed spender of each inscription's output
  chain,     \* node: confirmed spender of each inscription's output
  accepted,  \* history: transactions of ours the node has ever accepted
  req        \* the requests in progress

dbVars   == <<listing, offer, sales, owner, feed>>
nodeVars == <<mempool, chain, accepted>>
vars     == <<dbVars, built, nodeVars, req>>

-----------------------------------------------------------------------------
\* Rows and transactions.

ListingRow == [status: {"absent", "active", "sold", "cancelled"},
               protection: {"none", "locking_pending", "active"},
               psbt: {"none", "seller", "buyer"},  \* whose PSBT the row holds
               lockingTx: BOOLEAN,                 \* locking_raw_tx IS NOT NULL
               script: BOOLEAN,                    \* multisig_script IS NOT NULL
               imported: BOOLEAN,                  \* source_marketplace
               created: Nat]                       \* order of the INSERTs

NoListing == [status |-> "absent", protection |-> "none", psbt |-> "none",
              lockingTx |-> FALSE, script |-> FALSE, imported |-> FALSE,
              created |-> 0]

\* A sale transaction spends the inscription's output itself, or, when
\* protected, the 2-of-2 output of the locking transaction of its listing.
SaleTxs   == [listing: Listings, buyer: Buyers \cup Offers, protected: BOOLEAN]
LockTx(l) == [lock |-> l]
LockTxs   == {LockTx(l) : l \in Listings}
Names     == Buyers \cup Offers \cup {Seller, Unknown}

OfferRow == [status: {"absent", "pending", "accepted", "cancelled", "expired"},
             tx: SaleTxs \cup {None}, lapsed: BOOLEAN]
SaleRow  == [listing: Listings, tx: SaleTxs, buyer: Names, locked: BOOLEAN]
FeedRow  == [listing: Listings, tx: SaleTxs]

PCs == {"idle", "locking", "unlock", "delist", "storePsbt", "import",
        "verify", "submit", "send", "record", "match", "expire", "withdraw"}
Purchasing == {"verify", "submit", "send", "record", "match"}

Request == [pc: PCs, listing: Listings \cup {None}, offer: Offers \cup {None},
            tx: SaleTxs \cup {None}, buyer: Names \cup {None}]
Idle == [pc |-> "idle", listing |-> None, offer |-> None, tx |-> None,
         buyer |-> None]

TypeOK ==
  /\ listing \in [Listings -> ListingRow]
  /\ offer \in [Offers -> OfferRow]
  /\ sales \in Seq(SaleRow)
  /\ owner \in [Inscriptions -> Names]
  /\ feed \subseteq FeedRow
  /\ built \subseteq SaleTxs
  /\ mempool \in [Inscriptions -> SaleTxs \cup LockTxs \cup {Unspent, Moved}]
  /\ chain \in [Inscriptions -> SaleTxs \cup LockTxs \cup {Unspent, Moved}]
  /\ accepted \subseteq SaleTxs \cup LockTxs
  /\ req \in [Requests -> Request]

Init ==
  /\ listing = [l \in Listings |-> NoListing]
  /\ offer = [o \in Offers |->
                [status |-> "absent", tx |-> None, lapsed |-> FALSE]]
  /\ sales = <<>>
  /\ owner = [i \in Inscriptions |-> Seller]
  /\ feed = {}
  /\ built = {}
  /\ mempool = [i \in Inscriptions |-> Unspent]
  /\ chain = [i \in Inscriptions |-> Unspent]
  /\ accepted = {}
  /\ req = [r \in Requests |-> Idle]

-----------------------------------------------------------------------------
\* Helpers of the actions.

Exists(l) == listing[l].status # "absent"

\* A row id no row has and no request is about to insert.
Fresh(l) == ~Exists(l) /\ \A r \in Requests : req[r].listing # l

\* INSERT of a listing: rows are ordered by created_at.
InsertListing(l, row) ==
  listing' = [listing EXCEPT ![l] =
    [row EXCEPT !.created = 1 + Cardinality({k \in Listings : Exists(k)})]]

\* create_activity is called with its error ignored: the row may be missing.
LogSale(l, tx) ==
  \E logged \in SUBSET {[listing |-> l, tx |-> tx]} : feed' = feed \cup logged

Start(r, state) == req[r].pc = "idle" /\ req' = [req EXCEPT ![r] = state]
Continue(r, pc) == req' = [req EXCEPT ![r].pc = pc]
Finish(r)       == req' = [req EXCEPT ![r] = Idle]

\* get_active_listing_by_inscription: the latest active listing, if any.
ActiveOn(i)     == {l \in Listings : On[l] = i /\ listing[l].status = "active"}
LatestActive(i) == {l \in ActiveOn(i) :
                      \A k \in ActiveOn(i) : listing[k].created <= listing[l].created}

\* Bound: a purchase starts only while its sale row still fits MaxSales.
Room == Len(sales) + Cardinality({r \in Requests : req[r].pc \in Purchasing})
          < MaxSales

-----------------------------------------------------------------------------
\* routes/listings.rs

\* POST /listings.  With a seller_pubkey the locking PSBT is built and the
\* listing waits for the signed locking transaction.
CreateListing(l) ==
  /\ Fresh(l)
  /\ \E protected \in BOOLEAN, psbt \in {"none", "seller"} :
       InsertListing(l, [NoListing EXCEPT
         !.status = "active", !.psbt = psbt, !.script = protected,
         !.protection = IF protected THEN "locking_pending" ELSE "none"])
  /\ UNCHANGED <<offer, sales, owner, feed, built, nodeVars, req>>

\* POST /listings/:id/submit-locking: check the row read, then store.
SubmitLocking(r, l) ==
  /\ Exists(l) /\ listing[l].protection = "locking_pending"
  /\ Start(r, [Idle EXCEPT !.pc = "locking", !.listing = l])
  /\ UNCHANGED <<dbVars, built, nodeVars>>

StoreLockingTx(r) ==
  /\ req[r].pc = "locking"
  /\ listing' = [listing EXCEPT ![req[r].listing].lockingTx = TRUE,
                                ![req[r].listing].protection = "active"]
  /\ Finish(r)
  /\ UNCHANGED <<offer, sales, owner, feed, built, nodeVars>>

\* DELETE /listings/:id: whatever its status, the row is cancelled; a locking
\* transaction seen in the row read is cleared first, by a statement of its own.
CancelListing(r, l) ==
  /\ Exists(l)
  /\ Start(r, [Idle EXCEPT !.listing = l,
                 !.pc = IF listing[l].lockingTx THEN "unlock" ELSE "delist"])
  /\ UNCHANGED <<dbVars, built, nodeVars>>

\* Mutant: the protection status is not reset.
ClearLockingTx_KeepsStatus(r) ==
  /\ req[r].pc = "unlock"
  /\ listing' = [listing EXCEPT ![req[r].listing].lockingTx = FALSE,
                                ![req[r].listing].script = FALSE]
  /\ Continue(r, "delist")
  /\ UNCHANGED <<offer, sales, owner, feed, built, nodeVars>>

\* Mutant: the listing goes back to waiting for a locking transaction.
ClearLockingTx_BackToPending(r) ==
  /\ req[r].pc = "unlock"
  /\ listing' = [listing EXCEPT ![req[r].listing].lockingTx = FALSE,
                                ![req[r].listing].script = FALSE,
                                ![req[r].listing].protection = "locking_pending"]
  /\ Continue(r, "delist")
  /\ UNCHANGED <<offer, sales, owner, feed, built, nodeVars>>

ClearLockingTx(r) ==
  /\ req[r].pc = "unlock"
  /\ listing' = [listing EXCEPT ![req[r].listing].lockingTx = FALSE,
                                ![req[r].listing].script = FALSE,
                                ![req[r].listing].protection = "none"]
  /\ Continue(r, "delist")
  /\ UNCHANGED <<offer, sales, owner, feed, built, nodeVars>>

MarkCancelled(r) ==
  /\ req[r].pc = "delist"
  /\ listing' = [listing EXCEPT ![req[r].listing].status = "cancelled"]
  /\ Finish(r)
  /\ UNCHANGED <<offer, sales, owner, feed, built, nodeVars>>

\* POST /listings/:id/confirm: overwrites the PSBT of the row with the
\* buyer-signed one.
ConfirmListing(r, l) ==
  /\ Exists(l)
  /\ Start(r, [Idle EXCEPT !.pc = "storePsbt", !.listing = l])
  /\ UNCHANGED <<dbVars, built, nodeVars>>

StoreBuyerPsbt(r) ==
  /\ req[r].pc = "storePsbt"
  /\ listing' = [listing EXCEPT ![req[r].listing].psbt = "buyer"]
  /\ Finish(r)
  /\ UNCHANGED <<offer, sales, owner, feed, built, nodeVars>>

\* POST /listings/import, for one listing of the seller on Magic Eden: skipped
\* when the inscription has an active listing, inserted by a later statement.
ImportCheck(r, l) ==
  /\ Fresh(l) /\ ActiveOn(On[l]) = {}
  /\ Start(r, [Idle EXCEPT !.pc = "import", !.listing = l])
  /\ UNCHANGED <<dbVars, built, nodeVars>>

ImportInsert(r) ==
  /\ req[r].pc = "import"
  /\ \E psbt \in {"none", "seller"} :
       InsertListing(req[r].listing,
         [NoListing EXCEPT !.status = "active", !.psbt = psbt, !.imported = TRUE])
  /\ Finish(r)
  /\ UNCHANGED <<offer, sales, owner, feed, built, nodeVars>>

-----------------------------------------------------------------------------
\* routes/orders.rs

\* The sale PSBT that can be built for listing l, if any, protected or not.
Sellable(l, protected) ==
  IF listing[l].protection = "active"
  THEN protected /\ listing[l].lockingTx /\ listing[l].script
  ELSE ~protected /\ listing[l].protection = "none" /\ listing[l].psbt = "seller"

\* POST /orders/buy: writes nothing; the buyer walks away with a PSBT to sign.
\* The status of the listing is not looked at.
Buy(l, b, protected) ==
  /\ Exists(l) /\ Sellable(l, protected)
  /\ built' = built \cup {[listing |-> l, buyer |-> b, protected |-> protected]}
  /\ UNCHANGED <<dbVars, nodeVars, req>>

\* Which flow finalizes tx against the row read: the co-signed package when the
\* row is protected, otherwise sendrawtransaction; a PSBT of the other kind
\* fails to finalize.
FlowFor(l, tx) ==
  IF listing[l].protection = "active"
  THEN IF listing[l].lockingTx /\ tx.protected THEN {"verify"} ELSE {}
  ELSE IF tx.protected THEN {} ELSE {"send"}

\* POST /orders/confirm with a signed PSBT; buyer_address is optional.
ConfirmOrder(r, tx) ==
  /\ Room
  /\ tx.buyer \in Buyers
  /\ \E flow \in FlowFor(tx.listing, tx), name \in {tx.buyer, Unknown} :
       Start(r, [Idle EXCEPT !.pc = flow, !.listing = tx.listing,
                             !.tx = tx, !.buyer = name])
  /\ UNCHANGED <<dbVars, built, nodeVars>>

\* Mutant: the request waits for a spent output instead of failing.
VerifyLockingInputs_Waits(r) ==
  LET i == On[req[r].listing] IN
  /\ req[r].pc = "verify"
  /\ mempool[i] = Unspent /\ chain[i] = Unspent
  /\ Continue(r, "submit")
  /\ UNCHANGED <<dbVars, built, nodeVars>>

\* verify_inputs_unspent: gettxout, mempool included, on the output the locking
\* transaction spends.
VerifyLockingInputs(r) ==
  LET i == On[req[r].listing] IN
  /\ req[r].pc = "verify"
  /\ IF mempool[i] = Unspent /\ chain[i] = Unspent
     THEN Continue(r, "submit") ELSE Finish(r)
  /\ UNCHANGED <<dbVars, built, nodeVars>>

\* The node takes tx (replacing what its mempool holds, or finding it there).
NodeTakes(i, tx, txs) ==
  /\ chain[i] = Unspent
  /\ mempool' = [mempool EXCEPT ![i] = tx]
  /\ accepted' = accepted \cup txs
  /\ UNCHANGED chain

\* Mutant: a refusal of the node is ignored.
BroadcastTransaction_IgnoresError(r) ==
  /\ req[r].pc = "send"
  /\ \/ NodeTakes(On[req[r].listing], req[r].tx, {req[r].tx})
     \/ UNCHANGED nodeVars
  /\ Continue(r, "record")
  /\ UNCHANGED <<dbVars, built>>

\* Mutant: the sale is logged when it is broadcast, before its row is committed.
BroadcastTransaction_LogsSale(r) ==
  /\ req[r].pc = "send"
  /\ \/ /\ NodeTakes(On[req[r].listing], req[r].tx, {req[r].tx})
        /\ Continue(r, "record") /\ LogSale(req[r].listing, req[r].tx)
     \/ Finish(r) /\ UNCHANGED <<nodeVars, feed>>
  /\ UNCHANGED <<listing, offer, sales, owner, built>>

\* sendrawtransaction of the finalized sale: taken, or refused.
BroadcastTransaction(r) ==
  /\ req[r].pc = "send"
  /\ \/ NodeTakes(On[req[r].listing], req[r].tx, {req[r].tx}) /\ Continue(r, "record")
     \/ Finish(r) /\ UNCHANGED nodeVars
  /\ UNCHANGED <<dbVars, built>>

\* submitpackage of the stored locking transaction and the sale: both taken;
\* refused; or the parent taken on its own and the package refused.
SubmitPackage(r) ==
  LET l == req[r].listing  tx == req[r].tx  i == On[l] IN
  /\ req[r].pc = "submit"
  /\ \/ /\ tx.listing = l
        /\ NodeTakes(i, tx, {LockTx(l), tx}) /\ Continue(r, "record")
     \/ Finish(r) /\ UNCHANGED nodeVars
     \/ /\ mempool[i] \notin [listing: {l}, buyer: Buyers \cup Offers, protected: {TRUE}]
        /\ NodeTakes(i, LockTx(l), {LockTx(l)}) /\ Finish(r)
  /\ UNCHANGED <<dbVars, built>>

\* Mutant: the owner is taken from the PSBT, the sale row from the request.
Settle_OwnerFromPsbt(r, name) ==
  LET l == req[r].listing  locked == req[r].tx.protected IN
  /\ listing' = [listing EXCEPT ![l].status = "sold"]
  /\ sales' = Append(sales, [listing |-> l, tx |-> req[r].tx,
                             buyer |-> name, locked |-> locked])
  /\ owner' = [owner EXCEPT ![On[l]] = req[r].tx.buyer]

\* The part the two commits share: listing sold, sale row, new owner.
Settle(r, name) ==
  LET l == req[r].listing  locked == req[r].tx.protected IN
  /\ listing' = [listing EXCEPT ![l].status = "sold"]
  /\ sales' = Append(sales, [listing |-> l, tx |-> req[r].tx,
                             buyer |-> name, locked |-> locked])
  /\ owner' = [owner EXCEPT ![On[l]] = name]

\* Mutant: only a listing that is still active is recorded as sold.
CommitOrder_OnlyActive(r) ==
  /\ req[r].pc = "record" /\ req[r].offer = None
  /\ IF listing[req[r].listing].status = "active"
     THEN Settle(r, req[r].buyer)
     ELSE UNCHANGED <<listing, sales, owner>>
  /\ Finish(r)
  /\ UNCHANGED <<offer, feed, built, nodeVars>>

\* Mutant: the commit of an order also serves requests of accept_offer.
CommitOrder_AnyRequest(r) ==
  /\ req[r].pc = "record"
  /\ Settle(r, req[r].buyer)
  /\ Finish(r)
  /\ UNCHANGED <<offer, feed, built, nodeVars>>

\* The database transaction of confirm_order.  It is one step: every row it
\* writes stays locked until COMMIT and it reads nothing.  Only the legacy flow
\* logs an activity.
CommitOrder(r) ==
  /\ req[r].pc = "record" /\ req[r].offer = None
  /\ Settle(r, req[r].buyer)
  /\ IF req[r].tx.protected THEN UNCHANGED feed
     ELSE LogSale(req[r].listing, req[r].tx)
  /\ Finish(r)
  /\ UNCHANGED <<offer, built, nodeVars>>

-----------------------------------------------------------------------------
\* routes/offers.rs

\* POST /offers: the buyer brings a signed PSBT for the sale of a listing.
CreateOffer(o) ==
  /\ offer[o].status = "absent"
  /\ \E l \in Listings, protected \in BOOLEAN :
       /\ Exists(l) /\ On[l] = On[o] /\ Sellable(l, protected)
       /\ offer' = [offer EXCEPT ![o] =
            [status |-> "pending", lapsed |-> FALSE,
             tx |-> [listing |-> l, buyer |-> o, protected |-> protected]]]
  /\ UNCHANGED <<listing, sales, owner, feed, built, nodeVars, req>>

\* The clock passes the offer's expires_at.
Lapse(o) ==
  /\ offer[o].status # "absent" /\ ~offer[o].lapsed
  /\ offer' = [offer EXCEPT ![o].lapsed = TRUE]
  /\ UNCHANGED <<listing, sales, owner, feed, built, nodeVars, req>>

\* expire_stale_offers, once a minute: one UPDATE of every pending offer whose
\* expires_at has passed.  An acceptance that has read its offer goes on.
Stale == {o \in Offers : offer[o].status = "pending" /\ offer[o].lapsed}

ExpireStaleOffers ==
  /\ Stale # {}
  /\ offer' = [o \in Offers |-> IF o \in Stale
                               THEN [offer[o] EXCEPT !.status = "expired"]
                               ELSE offer[o]]
  /\ UNCHANGED <<listing, sales, owner, feed, built, nodeVars, req>>

\* POST /offers/:id/accept: validate_offer_for_acceptance on the row read.
AcceptOffer(r, o) ==
  /\ Room
  /\ offer[o].status = "pending"
  /\ Start(r, [Idle EXCEPT !.pc = IF offer[o].lapsed THEN "expire" ELSE "match",
                           !.offer = o, !.tx = offer[o].tx])
  /\ UNCHANGED <<dbVars, built, nodeVars>>

SetOfferStatus(r, pc, status) ==
  /\ req[r].pc = pc
  /\ offer' = [offer EXCEPT ![req[r].offer].status = status]
  /\ Finish(r)
  /\ UNCHANGED <<listing, sales, owner, feed, built, nodeVars>>

MarkExpired(r) == SetOfferStatus(r, "expire", "expired")

\* The latest active listing of the offer's inscription with the flow its
\* protection calls for: not always the listing the offer's PSBT was built for.
Matches(r) ==
  {m \in LatestActive(On[req[r].offer]) \X {"verify", "send"} :
     m[2] \in FlowFor(m[1], req[r].tx)}

\* Mutant: the offer is accepted before its sale is broadcast.
MatchListing_Accepts(r) ==
  /\ req[r].pc = "match"
  /\ \E m \in Matches(r) : req' = [req EXCEPT ![r].listing = m[1], ![r].pc = m[2]]
  /\ offer' = [offer EXCEPT ![req[r].offer].status = "accepted"]
  /\ UNCHANGED <<listing, sales, owner, feed, built, nodeVars>>

\* get_active_listing_by_inscription, 404 when there is none.
MatchListing(r) ==
  /\ req[r].pc = "match"
  /\ IF Matches(r) = {} THEN Finish(r)
     ELSE \E m \in Matches(r) :
            req' = [req EXCEPT ![r].listing = m[1], ![r].pc = m[2]]
  /\ UNCHANGED <<dbVars, built, nodeVars>>

\* Mutant: the rival offers are left as they are.
CommitOffer_KeepsRivals(r) ==
  LET o == req[r].offer IN
  /\ req[r].pc = "record" /\ o # None
  /\ Settle(r, o)
  /\ offer' = [offer EXCEPT ![o].status = "accepted"]
  /\ LogSale(req[r].listing, req[r].tx)
  /\ Finish(r)
  /\ UNCHANGED <<built, nodeVars>>

\* The database transaction of accept_offer, with the rival offers cancelled.
CommitOffer(r) ==
  LET o == req[r].offer IN
  /\ req[r].pc = "record" /\ o # None
  /\ Settle(r, o)
  /\ offer' = [p \in Offers |->
       IF p = o THEN [offer[p] EXCEPT !.status = "accepted"]
       ELSE IF On[p] = On[o] /\ offer[p].status = "pending"
            THEN [offer[p] EXCEPT !.status = "cancelled"]
            ELSE offer[p]]
  /\ LogSale(req[r].listing, req[r].tx)
  /\ Finish(r)
  /\ UNCHANGED <<built, nodeVars>>

\* DELETE /offers/:id: the status read must be pending; the write is blind.
CancelOffer(r, o) ==
  /\ offer[o].status = "pending"
  /\ Start(r, [Idle EXCEPT !.pc = "withdraw", !.offer = o])
  /\ UNCHANGED <<dbVars, built, nodeVars>>

MarkWithdrawn(r) == SetOfferStatus(r, "withdraw", "cancelled")

-----------------------------------------------------------------------------
\* The Bitcoin network (external).

Confirm(i) ==
  /\ mempool[i] # Unspent
  /\ chain' = [chain EXCEPT ![i] = mempool[i]]
  /\ mempool' = [mempool EXCEPT ![i] = Unspent]
  /\ UNCHANGED <<dbVars, built, accepted, req>>

\* The owner spends the output elsewhere, replacing what is in the mempool.
OwnerMoves(i) ==
  /\ chain[i] = Unspent /\ mempool[i] # Moved
  /\ mempool' = [mempool EXCEPT ![i] = Moved]
  /\ UNCHANGED <<dbVars, built, chain, accepted, req>>

\* An unconfirmed transaction expires from the mempool.
Evict(i) ==
  /\ mempool[i] # Unspent
  /\ mempool' = [mempool EXCEPT ![i] = Unspent]
  /\ UNCHANGED <<dbVars, built, chain, accepted, req>>

-----------------------------------------------------------------------------
\* Faults.

\* The TimeoutLayer or a closed connection drops the handler at an await, or a
\* statement fails: what was written stays written, an open database
\* transaction rolls back.  There is no await between "verify" and "submit".
Abandon(r) ==
  /\ req[r].pc \notin {"idle", "submit"}
  /\ Finish(r)
  /\ UNCHANGED <<dbVars, built, nodeVars>>

\* The node took the transaction but the RPC reply is lost: an error for us.
LoseReply(r) ==
  LET l == req[r].listing  tx == req[r].tx IN
  /\ \/ req[r].pc = "send" /\ NodeTakes(On[l], tx, {tx})
     \/ req[r].pc = "submit" /\ tx.listing = l /\ NodeTakes(On[l], tx, {LockTx(l), tx})
  /\ Finish(r)
  /\ UNCHANGED <<dbVars, built>>

\* The server restarts.
Crash ==
  /\ \E r \in Requests : req[r] # Idle
  /\ req' = [r \in Requests |-> Idle]
  /\ UNCHANGED <<dbVars, built, nodeVars>>

-----------------------------------------------------------------------------
\* The steps request r takes by itself once it has started.
Proceed(r) ==
  \/ StoreLockingTx(r) \/ ClearLockingTx(r) \/ MarkCancelled(r)
  \/ StoreBuyerPsbt(r) \/ ImportInsert(r)
  \/ VerifyLockingInputs(r) \/ BroadcastTransaction(r) \/ SubmitPackage(r)
  \/ CommitOrder(r) \/ MatchListing(r) \/ CommitOffer(r)
  \/ MarkExpired(r) \/ MarkWithdrawn(r)

\* What clients and, for the offers, the clock and the periodic task begin.
Client ==
  \/ \E l \in Listings : CreateListing(l)
  \/ \E l \in Listings, b \in Buyers, protected \in BOOLEAN : Buy(l, b, protected)
  \/ \E o \in Offers : CreateOffer(o) \/ Lapse(o)
  \/ ExpireStaleOffers
  \/ \E r \in Requests :
       \/ \E l \in Listings : \/ SubmitLocking(r, l) \/ CancelListing(r, l)
                              \/ ConfirmListing(r, l) \/ ImportCheck(r, l)
       \/ \E tx \in built : ConfirmOrder(r, tx)
       \/ \E o \in Offers : AcceptOffer(r, o) \/ CancelOffer(r, o)

Network == \E i \in Inscriptions : Confirm(i) \/ OwnerMoves(i) \/ Evict(i)

Fault == Crash \/ \E r \in Requests : Abandon(r) \/ LoseReply(r)

Work == Client \/ Network \/ \E r \in Requests : Proceed(r)
Next == Work \/ Fault

Spec == Init /\ [][Next]_vars

\* The runtime polls every handler until it returns, and every statement and
\* RPC call returns (or the TimeoutLayer ends it).
HandlersRun == \A r \in Requests : WF_vars(Proceed(r))

\* Without faults: no timeout, disconnection, lost reply or restart.
ReliableSpec == Init /\ [][Work]_vars /\ HandlersRun

-----------------------------------------------------------------------------
\* Safety.

\* Every sale row stands for a transaction the node has accepted, and a row of a
\* protected sale for an accepted locking transaction of its listing as well:
\* confirm_order and accept_offer broadcast first and record afterwards, whatever
\* is dropped, refused or restarted in between.
SalesBacked ==
  \A n \in DOMAIN sales :
    /\ sales[n].tx \in accepted
    /\ sales[n].locked => LockTx(sales[n].listing) \in accepted

\* A listing is never sold without a sale row naming it: both are written by the
\* same database transaction, and no other write makes a listing sold.
SoldHasSale ==
  \A l \in Listings : listing[l].status = "sold" =>
    \E n \in DOMAIN sales : sales[n].listing = l

\* An offer is never accepted without a sale row of its own transaction in the
\* name of its buyer, whatever rival accepts, cancels and expiries do.
AcceptedHasSale ==
  \A o \in Offers : offer[o].status = "accepted" =>
    \E n \in DOMAIN sales : sales[n].buyer = o /\ sales[n].tx = offer[o].tx

\* inscriptions.owner_address is the buyer of the last sale recorded for the
\* inscription, and the first owner while there is none: the commits of several
\* purchases never leave the two tables disagreeing.
OwnerIsLastBuyer ==
  \A i \in Inscriptions :
    LET rows == {n \in DOMAIN sales : On[sales[n].listing] = i} IN
    /\ rows = {} => owner[i] = Seller
    /\ \A n \in rows : (\A m \in rows : m <= n) => owner[i] = sales[n].buyer

\* "listing is active but missing locking_raw_tx" (the first internal error of
\* the protected flow of buy and confirm_order) cannot happen, however
\* submit-locking and cancel interleave.
ActiveHoldsLockingTx ==
  \A l \in Listings : listing[l].protection = "active" => listing[l].lockingTx

\* "Stored but NOT broadcast until purchase confirmation": while the listing
\* waits for submit-locking its locking transaction has never reached the node.
PendingNeverBroadcast ==
  \A l \in Listings :
    listing[l].protection = "locking_pending" => LockTx(l) \notin accepted

\* "Record activity at confirmation time (not at PSBT build time)": the feed
\* reports no sale that is not in the table sales.
FeedReportsSales ==
  \A e \in feed :
    \E n \in DOMAIN sales : sales[n].listing = e.listing /\ sales[n].tx = e.tx

\* When an offer becomes accepted no other offer on the inscription is left
\* pending (accept_offer cancels the rivals in the same transaction).
AcceptClosesRivals ==
  [][\A o, p \in Offers :
       /\ offer[o].status # "accepted" /\ offer'[o].status = "accepted"
       /\ p # o /\ On[p] = On[o]
       => offer'[p].status # "pending"]_vars

\* A sale the node has accepted is on the books, or the request that sent it is
\* about to put it there.
Recorded(tx) == \E n \in DOMAIN sales : sales[n].tx = tx

InHand(tx) ==
  tx \in accepted =>
    Recorded(tx) \/ \E r \in Requests : req[r].pc = "record" /\ req[r].tx = tx

\* Without faults the node and the books agree whenever no request is between
\* the broadcast and the commit: the sales accepted are the sales recorded.  A
\* cancel, another sale of the listing, an expiry or a replacement in the mempool
\* that happens meanwhile keeps no record out and adds none.
BooksBalance ==
  (\A r \in Requests : req[r].pc # "record") =>
    accepted \cap SaleTxs = {sales[n].tx : n \in DOMAIN sales}

-----------------------------------------------------------------------------
\* The inductive invariant behind the properties above.

\* A request carries what its next step uses.
Carries(q) ==
  /\ q.pc \notin {"idle", "match", "expire", "withdraw"} => q.listing \in Listings
  /\ q.pc \in {"match", "expire", "withdraw"} => q.offer \in Offers
  /\ q.offer # None => offer[q.offer].status # "absent"
  /\ q.pc \in Purchasing =>
       /\ q.tx \in SaleTxs
       /\ IF q.offer = None THEN q.buyer \in Names ELSE q.tx = offer[q.offer].tx
  /\ q.pc = "send" => ~q.tx.protected

RequestFields == \A r \in Requests : Carries(req[r])

\* An offer that exists has a transaction.
OfferHasTx ==
  \A o \in Offers : offer[o].status # "absent" => offer[o].tx \in SaleTxs

\* A request about to record a sale has had it accepted.
RecordAfterAccept ==
  \A r \in Requests : req[r].pc = "record" =>
    /\ req[r].tx \in accepted
    /\ req[r].tx.protected => LockTx(req[r].listing) \in accepted

\* Until submit-locking stores it, no locking transaction of the listing is
\* known to the node or to a request about to send one.
NotLockedYet ==
  \A l \in Listings :
    /\ ~Exists(l) => /\ listing[l].protection # "active"
                     /\ \A r \in Requests : req[r].pc = "locking" => req[r].listing # l
    /\ ~Exists(l) \/ listing[l].protection = "locking_pending" =>
         /\ LockTx(l) \notin accepted
         /\ \A r \in Requests : req[r].pc \in {"verify", "submit"} => req[r].listing # l

\* What every step of every handler keeps, with the properties it supports.
IndInv == /\ RequestFields /\ OfferHasTx /\ RecordAfterAccept /\ NotLockedYet
          /\ SalesBacked /\ SoldHasSale /\ AcceptedHasSale /\ OwnerIsLastBuyer
          /\ ActiveHoldsLockingTx

-----------------------------------------------------------------------------
\* The handlers implement the abstract book of sales.
Book == INSTANCE SaleBook WITH
          Items <- Inscriptions, Txs <- SaleTxs, Parties <- Names,
          FirstOwner <- Seller,
          taken <- accepted \cap SaleTxs,
          book <- [n \in 1 .. Len(sales) |->
                     [item |-> On[sales[n].listing], tx |-> sales[n].tx,
                      buyer |-> sales[n].buyer]]

\* Every step of every handler, fault or network event is a step of the abstract
\* book of sales or leaves it alone.
ImplementsSaleBook == Book!Spec

-----------------------------------------------------------------------------
\* Liveness.

\* Every request ends, whatever the node answers and the other requests do.
EveryRequestEnds ==
  \A r \in Requests : (req[r].pc # "idle") ~> (req[r].pc = "idle")

\* How many statements and calls a request is away from its end, at most.
Remaining == [match |-> 4, verify |-> 3, submit |-> 2, send |-> 2, record |-> 1,
              unlock |-> 2, delist |-> 1, locking |-> 1, storePsbt |-> 1,
              import |-> 1, expire |-> 1, withdraw |-> 1, idle |-> 0]

\* What makes them end: no handler retries or loops, so that a step that moves a
\* request in progress, a fault included, brings it closer to its end.
RequestsAdvance ==
  [][\A r \in Requests :
       \/ req[r].pc = "idle" \/ req'[r] = req[r]
       \/ Remaining[req'[r].pc] < Remaining[req[r].pc]]_vars

\* Without a fault, a sale the node has accepted is eventually in the table
\* sales: nothing that happens to the listing or the offer meanwhile (a cancel,
\* another sale, an expiry) keeps its record out.
AcceptedIsRecorded ==
  \A tx \in SaleTxs :
    (tx \in accepted) ~> (\E n \in DOMAIN sales : sales[n].tx = tx)

-----------------------------------------------------------------------------
\* What the repository says and the code does not do (see the findings).

\* "Handle double-spend race condition with DB-level locking on listing"
\* (.beads/issues.jsonl, bitmap-marketplace-g5m): a listing is sold once.
OneSalePerListing ==
  \A m, n \in DOMAIN sales : m # n => sales[m].listing # sales[n].listing

=============================================================================

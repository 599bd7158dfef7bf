---------------------------- MODULE TradingProofs ----------------------------
(***************************************************************************)
(* Proofs about Trading, for every set of listings, offers, buyers,        *)
(* inscriptions and requests.                                              *)
(***************************************************************************)
EXTENDS Trading, FiniteSetTheorems, SequenceTheorems, TLAPS

USE ConstantsAssumption

\* What types the requests and the rows they point at; inductive by itself.
Typed == TypeOK /\ RequestFields /\ OfferHasTx

-----------------------------------------------------------------------------
\* Lemmas on the helpers of the actions.

\* The INSERT of a listing keeps the table typed.
LEMMA InsertListingType ==
  ASSUME TypeOK, NEW l \in Listings, NEW row \in ListingRow, InsertListing(l, row)
  PROVE  listing' \in [Listings -> ListingRow]
<1> DEFINE E == {k \in Listings : Exists(k)}
<1>1. IsFiniteSet(E) BY FS_Subset
<1>2. 1 + Cardinality(E) \in Nat BY <1>1, FS_CardinalityType
<1>3. [row EXCEPT !.created = 1 + Cardinality(E)] \in ListingRow
  <2> HIDE DEF E
  <2> QED BY <1>2 DEF ListingRow
<1> QED BY <1>3 DEF InsertListing, TypeOK

\* The UPDATEs of a listing keep its row typed.
LEMMA ListingRowEdits ==
  ASSUME NEW row \in ListingRow
  PROVE  /\ [row EXCEPT !.status = "sold"] \in ListingRow
         /\ [row EXCEPT !.status = "cancelled"] \in ListingRow
         /\ [row EXCEPT !.psbt = "buyer"] \in ListingRow
         /\ [row EXCEPT !.lockingTx = TRUE, !.protection = "active"] \in ListingRow
         /\ [row EXCEPT !.lockingTx = FALSE, !.script = FALSE,
                        !.protection = "none"] \in ListingRow
BY DEF ListingRow

\* A request that starts or goes on leaves the others as they were.
LEMMA OneRequest ==
  ASSUME TypeOK, NEW r \in Requests, NEW q \in Request,
         req' = [req EXCEPT ![r] = q]
  PROVE  /\ req' \in [Requests -> Request]
         /\ req'[r] = q
         /\ \A s \in Requests \ {r} : req'[s] = req[s]
BY DEF TypeOK

LEMMA IdleIsRequest == Idle \in Request
BY DEF Idle, Request, PCs

LEMMA NoListingIsRow == NoListing \in ListingRow
BY DEF NoListing, ListingRow

LEMMA InitTyped == Init => Typed
<1> SUFFICES ASSUME Init PROVE Typed
  OBVIOUS
<1>1. TypeOK
  <2>1. req \in [Requests -> Request] BY IdleIsRequest DEF Init
  <2>2. listing \in [Listings -> ListingRow] BY NoListingIsRow DEF Init
  <2>3. offer \in [Offers -> OfferRow] BY DEF Init, OfferRow
  <2>4. sales \in Seq(SaleRow) BY DEF Init
  <2> QED BY <2>1, <2>2, <2>3, <2>4 DEF Init, TypeOK, Names
<1>2. RequestFields BY DEF Init, RequestFields, Carries, Idle, Purchasing
<1>3. OfferHasTx BY DEF Init, OfferHasTx
<1> QED BY <1>1, <1>2, <1>3 DEF Typed

-----------------------------------------------------------------------------
\* Typed is preserved, one lemma per kind of step.

\* A step that only moves one request.
LEMMA RequestStepTyped ==
  ASSUME Typed, NEW r \in Requests, NEW q \in Request, Carries(q),
         req' = [req EXCEPT ![r] = q],
         UNCHANGED <<dbVars, built>>,
         mempool' \in [Inscriptions -> SaleTxs \cup LockTxs \cup {Unspent, Moved}],
         chain' \in [Inscriptions -> SaleTxs \cup LockTxs \cup {Unspent, Moved}],
         accepted' \subseteq SaleTxs \cup LockTxs
  PROVE  Typed'
<1>1. /\ req' \in [Requests -> Request]
      /\ req'[r] = q
      /\ \A s \in Requests \ {r} : req'[s] = req[s]
  BY OneRequest DEF Typed
<1>2. TypeOK' BY <1>1 DEF Typed, TypeOK, dbVars
<1>3. RequestFields'
  <2>1. \A s \in Requests : Carries(req'[s]) BY <1>1 DEF Typed, RequestFields
  <2> QED BY <2>1 DEF RequestFields, Carries, dbVars
<1>4. OfferHasTx' BY DEF Typed, OfferHasTx, dbVars
<1> QED BY <1>2, <1>3, <1>4 DEF Typed

\* A step that ends one request after changing the listings.
LEMMA ListingStepTyped ==
  ASSUME Typed, listing' \in [Listings -> ListingRow],
         UNCHANGED <<offer, sales, owner, feed, built, nodeVars>>,
         NEW r \in Requests, Finish(r)
  PROVE  Typed'
<1>1. /\ req' \in [Requests -> Request]
      /\ req'[r] = Idle
      /\ \A s \in Requests \ {r} : req'[s] = req[s]
  BY OneRequest, IdleIsRequest DEF Typed, Finish
<1>2. TypeOK' BY <1>1 DEF Typed, TypeOK, nodeVars
<1>3. RequestFields'
  <2>1. Carries(Idle) BY DEF Carries, Idle, Purchasing
  <2>2. \A s \in Requests : Carries(req'[s]) BY <1>1, <2>1 DEF Typed, RequestFields
  <2> QED BY <2>2 DEF RequestFields, Carries
<1>4. OfferHasTx' BY DEF Typed, OfferHasTx
<1> QED BY <1>2, <1>3, <1>4 DEF Typed

LEMMA IdleCarries == Carries(Idle)
BY DEF Carries, Idle, Purchasing

\* The node's variables stay typed when it takes a sale, a package or a locking
\* transaction alone.
LEMMA NodeTakesType ==
  ASSUME TypeOK, NEW i, NEW l \in Listings, NEW tx \in SaleTxs,
         \/ NodeTakes(i, tx, {tx})
         \/ NodeTakes(i, tx, {LockTx(l), tx})
         \/ NodeTakes(i, LockTx(l), {LockTx(l)})
  PROVE  /\ mempool' \in [Inscriptions -> SaleTxs \cup LockTxs \cup {Unspent, Moved}]
         /\ chain' \in [Inscriptions -> SaleTxs \cup LockTxs \cup {Unspent, Moved}]
         /\ accepted' \subseteq SaleTxs \cup LockTxs
<1>1. LockTx(l) \in LockTxs BY DEF LockTxs
<1>2. PICK x \in {tx, LockTx(l)} : mempool' = [mempool EXCEPT ![i] = x]
  BY DEF NodeTakes
<1>3. PICK new \in {{tx}, {LockTx(l), tx}, {LockTx(l)}} : accepted' = accepted \cup new
  BY DEF NodeTakes
<1>4. chain' = chain BY DEF NodeTakes
<1> HIDE DEF LockTx
<1>5. mempool' \in [Inscriptions -> SaleTxs \cup LockTxs \cup {Unspent, Moved}]
  BY <1>1, <1>2 DEF TypeOK
<1>6. accepted' \subseteq SaleTxs \cup LockTxs BY <1>1, <1>3 DEF TypeOK
<1> QED BY <1>4, <1>5, <1>6 DEF TypeOK

\* Settle keeps listings, sales and owners typed.
LEMMA SettleType ==
  ASSUME TypeOK, NEW r \in Requests, NEW name \in Names,
         req[r].listing \in Listings, req[r].tx \in SaleTxs, Settle(r, name)
  PROVE  /\ listing' \in [Listings -> ListingRow]
         /\ sales' \in Seq(SaleRow)
         /\ owner' \in [Inscriptions -> Names]
<1>1. [listing |-> req[r].listing, tx |-> req[r].tx, buyer |-> name,
       locked |-> req[r].tx.protected] \in SaleRow
  BY DEF SaleRow, SaleTxs
<1>2. sales' \in Seq(SaleRow) BY <1>1, AppendProperties DEF Settle, TypeOK
<1>3. listing' \in [Listings -> ListingRow]
  <2>1. listing[req[r].listing] \in ListingRow BY DEF TypeOK
  <2> QED BY <2>1, ListingRowEdits DEF Settle, TypeOK
<1>4. owner' \in [Inscriptions -> Names] BY DEF Settle, TypeOK
<1> QED BY <1>2, <1>3, <1>4

-----------------------------------------------------------------------------
\* Typed is preserved by every action.

LEMMA CreateListingTyped ==
  ASSUME Typed, NEW l \in Listings, CreateListing(l)
  PROVE  Typed'
<1>1. PICK protected \in BOOLEAN, psbt \in {"none", "seller"} :
        InsertListing(l, [NoListing EXCEPT
          !.status = "active", !.psbt = psbt, !.script = protected,
          !.protection = IF protected THEN "locking_pending" ELSE "none"])
  BY DEF CreateListing
<1>2. [NoListing EXCEPT
          !.status = "active", !.psbt = psbt, !.script = protected,
          !.protection = IF protected THEN "locking_pending" ELSE "none"] \in ListingRow
  BY DEF NoListing, ListingRow
<1>3. listing' \in [Listings -> ListingRow]
  BY <1>1, <1>2, InsertListingType DEF Typed
<1>4. UNCHANGED <<offer, sales, owner, feed, built, nodeVars, req>>
  BY DEF CreateListing
<1> QED BY <1>3, <1>4 DEF Typed, TypeOK, RequestFields, Carries, OfferHasTx, nodeVars

\* The steps of the listing handlers that end a request.
LEMMA ListingWritesTyped ==
  ASSUME Typed, NEW r \in Requests,
         StoreLockingTx(r) \/ MarkCancelled(r) \/ StoreBuyerPsbt(r) \/ ImportInsert(r)
  PROVE  Typed'
<1>1. Carries(req[r]) BY DEF Typed, RequestFields
<1>2. CASE StoreLockingTx(r)
  <2>1. listing[req[r].listing] \in ListingRow
    BY <1>1, <1>2 DEF StoreLockingTx, Carries, Typed, TypeOK
  <2>2. listing' \in [Listings -> ListingRow]
    BY <1>2, <2>1, ListingRowEdits DEF StoreLockingTx, Typed, TypeOK
  <2> QED BY <1>2, <2>2, ListingStepTyped DEF StoreLockingTx
<1>3. CASE MarkCancelled(r)
  <2>1. listing[req[r].listing] \in ListingRow
    BY <1>1, <1>3 DEF MarkCancelled, Carries, Typed, TypeOK
  <2>2. listing' \in [Listings -> ListingRow]
    BY <1>3, <2>1, ListingRowEdits DEF MarkCancelled, Typed, TypeOK
  <2> QED BY <1>3, <2>2, ListingStepTyped DEF MarkCancelled
<1>4. CASE StoreBuyerPsbt(r)
  <2>1. listing[req[r].listing] \in ListingRow
    BY <1>1, <1>4 DEF StoreBuyerPsbt, Carries, Typed, TypeOK
  <2>2. listing' \in [Listings -> ListingRow]
    BY <1>4, <2>1, ListingRowEdits DEF StoreBuyerPsbt, Typed, TypeOK
  <2> QED BY <1>4, <2>2, ListingStepTyped DEF StoreBuyerPsbt
<1>5. CASE ImportInsert(r)
  <2>1. PICK psbt \in {"none", "seller"} :
          InsertListing(req[r].listing, [NoListing EXCEPT
            !.status = "active", !.psbt = psbt, !.imported = TRUE])
    BY <1>5 DEF ImportInsert
  <2>2. [NoListing EXCEPT !.status = "active", !.psbt = psbt,
                          !.imported = TRUE] \in ListingRow
    BY DEF NoListing, ListingRow
  <2>3. req[r].listing \in Listings BY <1>1, <1>5 DEF ImportInsert, Carries
  <2>4. listing' \in [Listings -> ListingRow]
    BY <2>1, <2>2, <2>3, InsertListingType DEF Typed
  <2> QED BY <1>5, <2>4, ListingStepTyped DEF ImportInsert
<1> QED BY <1>2, <1>3, <1>4, <1>5

LEMMA ClearLockingTxTyped ==
  ASSUME Typed, NEW r \in Requests, ClearLockingTx(r)
  PROVE  Typed'
<1>1. Carries(req[r]) /\ req[r] \in Request BY DEF Typed, RequestFields, TypeOK
<1>2. listing[req[r].listing] \in ListingRow
  BY <1>1 DEF ClearLockingTx, Carries, Typed, TypeOK
<1>3. listing' \in [Listings -> ListingRow]
  BY <1>2, ListingRowEdits DEF ClearLockingTx, Typed, TypeOK
<1> DEFINE q == [req[r] EXCEPT !.pc = "delist"]
<1>4. q \in Request /\ q.pc = "delist" /\ q.listing = req[r].listing
  BY <1>1 DEF Request, PCs
<1>5. Carries(q) BY <1>1, <1>4 DEF ClearLockingTx, Carries, Purchasing
<1>6. /\ req' \in [Requests -> Request]
      /\ req'[r] = q
      /\ \A s \in Requests \ {r} : req'[s] = req[s]
  <2>1. req' = [req EXCEPT ![r] = q] BY DEF ClearLockingTx, Continue
  <2> HIDE DEF q
  <2> QED BY <1>4, <2>1, OneRequest DEF Typed
<1>7. RequestFields'
  <2> HIDE DEF q
  <2>1. \A s \in Requests : Carries(req'[s]) BY <1>5, <1>6 DEF Typed, RequestFields
  <2> QED BY <2>1 DEF RequestFields, Carries, ClearLockingTx
<1>8. TypeOK' BY <1>3, <1>6 DEF Typed, TypeOK, ClearLockingTx, nodeVars
<1>9. OfferHasTx' BY DEF Typed, OfferHasTx, ClearLockingTx
<1> QED BY <1>7, <1>8, <1>9 DEF Typed

\* The first step of a handler: it has read a row and changed nothing.
LEMMA StartsTyped ==
  ASSUME Typed, NEW r \in Requests, NEW l \in Listings,
         \/ SubmitLocking(r, l) \/ CancelListing(r, l)
         \/ ConfirmListing(r, l) \/ ImportCheck(r, l)
  PROVE  Typed'
<1> DEFINE q(pc) == [Idle EXCEPT !.pc = pc, !.listing = l]
           OK(pc) == q(pc) \in Request /\ Carries(q(pc))
<1>1. OK("locking") /\ OK("unlock") /\ OK("delist") /\ OK("storePsbt") /\ OK("import")
  BY DEF Idle, Request, PCs, Carries, Purchasing
<1>2. UNCHANGED <<dbVars, built, nodeVars>>
  BY DEF SubmitLocking, CancelListing, ConfirmListing, ImportCheck
<1>3. PICK pc \in {"locking", "unlock", "delist", "storePsbt", "import"} :
        req' = [req EXCEPT ![r] = q(pc)]
  BY DEF SubmitLocking, CancelListing, ConfirmListing, ImportCheck, Start, Idle
<1>4. OK(pc) BY <1>1
<1> HIDE DEF q
<1> QED BY <1>2, <1>3, <1>4, RequestStepTyped DEF nodeVars, Typed, TypeOK

LEMMA BuyTyped ==
  ASSUME Typed, NEW l \in Listings, NEW b \in Buyers, NEW protected \in BOOLEAN,
         Buy(l, b, protected)
  PROVE  Typed'
<1>1. [listing |-> l, buyer |-> b, protected |-> protected] \in SaleTxs BY DEF SaleTxs
<1>2. built' \subseteq SaleTxs BY <1>1 DEF Buy, Typed, TypeOK
<1> QED BY <1>2 DEF Buy, Typed, TypeOK, RequestFields, Carries, OfferHasTx, dbVars, nodeVars

LEMMA ConfirmOrderTyped ==
  ASSUME Typed, NEW r \in Requests, NEW tx \in built, ConfirmOrder(r, tx)
  PROVE  Typed'
<1>1. tx \in SaleTxs BY DEF Typed, TypeOK
<1>2. PICK flow \in FlowFor(tx.listing, tx), name \in {tx.buyer, Unknown} :
        req' = [req EXCEPT ![r] = [Idle EXCEPT !.pc = flow, !.listing = tx.listing,
                                               !.tx = tx, !.buyer = name]]
  BY DEF ConfirmOrder, Start
<1>3. flow \in {"verify", "send"} /\ (flow = "send" => ~tx.protected)
  BY DEF FlowFor
<1>4. name \in Names BY DEF ConfirmOrder, Names
<1>5. tx.listing \in Listings BY <1>1 DEF SaleTxs
<1> DEFINE q == [Idle EXCEPT !.pc = flow, !.listing = tx.listing,
                             !.tx = tx, !.buyer = name]
<1>6. q \in Request /\ Carries(q)
  BY <1>1, <1>3, <1>4, <1>5 DEF Idle, Request, PCs, Carries, Purchasing
<1>7. UNCHANGED <<dbVars, built, nodeVars>> BY DEF ConfirmOrder
<1> HIDE DEF q
<1> QED BY <1>2, <1>6, <1>7, RequestStepTyped DEF q, nodeVars, Typed, TypeOK

LEMMA AcceptOrCancelOfferTyped ==
  ASSUME Typed, NEW r \in Requests, NEW o \in Offers,
         AcceptOffer(r, o) \/ CancelOffer(r, o)
  PROVE  Typed'
<1>1. offer[o].status = "pending" /\ offer[o].tx \in SaleTxs
  BY DEF AcceptOffer, CancelOffer, Typed, OfferHasTx
<1>2. UNCHANGED <<dbVars, built, nodeVars>> BY DEF AcceptOffer, CancelOffer
<1>3. CASE AcceptOffer(r, o)
  <2> DEFINE q == [Idle EXCEPT !.pc = IF offer[o].lapsed THEN "expire" ELSE "match",
                               !.offer = o, !.tx = offer[o].tx]
  <2>1. q \in Request /\ Carries(q)
    BY <1>1 DEF Idle, Request, PCs, Carries, Purchasing
  <2>2. req' = [req EXCEPT ![r] = q] BY <1>3 DEF AcceptOffer, Start
  <2> HIDE DEF q
  <2> QED BY <1>2, <2>1, <2>2, RequestStepTyped DEF nodeVars, Typed, TypeOK
<1>4. CASE CancelOffer(r, o)
  <2> DEFINE q == [Idle EXCEPT !.pc = "withdraw", !.offer = o]
  <2>1. q \in Request /\ Carries(q)
    BY <1>1 DEF Idle, Request, PCs, Carries, Purchasing
  <2>2. req' = [req EXCEPT ![r] = q] BY <1>4 DEF CancelOffer, Start
  <2> HIDE DEF q
  <2> QED BY <1>2, <2>1, <2>2, RequestStepTyped DEF nodeVars, Typed, TypeOK
<1> QED BY <1>3, <1>4

\* Steps that move one request on or end it, with or without the node.
LEMMA NodeStepsTyped ==
  ASSUME Typed, NEW r \in Requests,
         \/ VerifyLockingInputs(r) \/ BroadcastTransaction(r) \/ SubmitPackage(r)
         \/ MatchListing(r) \/ Abandon(r) \/ LoseReply(r)
  PROVE  Typed'
<1>1. req[r] \in Request /\ Carries(req[r]) BY DEF Typed, TypeOK, RequestFields
<1>2. UNCHANGED <<dbVars, built>>
  BY DEF VerifyLockingInputs, BroadcastTransaction, SubmitPackage, MatchListing,
         Abandon, LoseReply
<1>3. /\ mempool' \in [Inscriptions -> SaleTxs \cup LockTxs \cup {Unspent, Moved}]
      /\ chain' \in [Inscriptions -> SaleTxs \cup LockTxs \cup {Unspent, Moved}]
      /\ accepted' \subseteq SaleTxs \cup LockTxs
  <2>1. CASE UNCHANGED nodeVars BY <2>1 DEF nodeVars, Typed, TypeOK
  <2>2. CASE ~UNCHANGED nodeVars
    <3>1. req[r].pc \in {"send", "submit"}
      BY <2>2 DEF VerifyLockingInputs, BroadcastTransaction, SubmitPackage,
                  MatchListing, Abandon, LoseReply
    <3> DEFINE l == req[r].listing
               tx == req[r].tx
    <3>2. l \in Listings /\ tx \in SaleTxs BY <1>1, <3>1 DEF Carries, Purchasing
    <3>3. \/ NodeTakes(On[l], tx, {tx})
          \/ NodeTakes(On[l], tx, {LockTx(l), tx})
          \/ NodeTakes(On[l], LockTx(l), {LockTx(l)})
      BY <2>2 DEF VerifyLockingInputs, BroadcastTransaction, SubmitPackage,
                  MatchListing, Abandon, LoseReply
    <3> HIDE DEF l, tx
    <3> QED BY <3>2, <3>3, NodeTakesType DEF Typed
  <2> QED BY <2>1, <2>2
<1>4. PICK q \in Request : Carries(q) /\ req' = [req EXCEPT ![r] = q]
  <2>1. CASE Finish(r) BY <2>1, IdleIsRequest, IdleCarries DEF Finish
  <2>2. CASE Continue(r, "submit") /\ req[r].pc = "verify"
    <3>1. [req[r] EXCEPT !.pc = "submit"] \in Request BY <1>1 DEF Request, PCs
    <3>2. Carries([req[r] EXCEPT !.pc = "submit"])
      BY <1>1, <2>2 DEF Carries, Purchasing, Request
    <3> QED BY <2>2, <3>1, <3>2 DEF Continue
  <2>3. CASE Continue(r, "record") /\ req[r].pc \in {"send", "submit"}
    <3>1. [req[r] EXCEPT !.pc = "record"] \in Request BY <1>1 DEF Request, PCs
    <3>2. Carries([req[r] EXCEPT !.pc = "record"])
      BY <1>1, <2>3 DEF Carries, Purchasing, Request
    <3> QED BY <2>3, <3>1, <3>2 DEF Continue
  <2>4. CASE MatchListing(r) /\ ~Finish(r)
    <3>1. PICK m \in Matches(r) : req' = [req EXCEPT ![r].listing = m[1], ![r].pc = m[2]]
      BY <2>4 DEF MatchListing
    <3>2. m[1] \in Listings /\ m[2] \in {"verify", "send"} /\ m[2] \in FlowFor(m[1], req[r].tx)
      BY DEF Matches, LatestActive, ActiveOn
    <3>3. m[2] = "send" => ~req[r].tx.protected BY <3>2 DEF FlowFor
    <3>4. [req[r] EXCEPT !.listing = m[1], !.pc = m[2]] \in Request
      BY <1>1, <3>2 DEF Request, PCs
    <3>5. Carries([req[r] EXCEPT !.listing = m[1], !.pc = m[2]])
      BY <1>1, <2>4, <3>2, <3>3 DEF Carries, Purchasing, Request, MatchListing
    <3> QED BY <3>1, <3>4, <3>5
  <2> QED BY <2>1, <2>2, <2>3, <2>4 DEF VerifyLockingInputs, BroadcastTransaction,
             SubmitPackage, MatchListing, Abandon, LoseReply
<1> QED BY <1>2, <1>3, <1>4, RequestStepTyped

\* A step that writes the table offers and keeps what the requests carry.
LEMMA OfferStepTyped ==
  ASSUME Typed, UNCHANGED <<listing, sales, owner, feed, built, nodeVars>>,
         offer' \in [Offers -> OfferRow],
         req' \in [Requests -> Request],
         \A r \in Requests : req'[r] \in {req[r], Idle},
         \A o \in Offers : offer[o].status # "absent" =>
           offer'[o].status # "absent" /\ offer'[o].tx = offer[o].tx,
         \A o \in Offers : offer'[o].status # "absent" => offer'[o].tx \in SaleTxs
  PROVE  Typed'
<1>1. TypeOK' BY DEF Typed, TypeOK, nodeVars
<1>2. RequestFields'
  <2> SUFFICES ASSUME NEW r \in Requests PROVE Carries(req[r])'
    BY DEF RequestFields
  <2>1. CASE req'[r] = Idle BY <2>1 DEF Idle, Carries, Purchasing
  <2>2. CASE req'[r] = req[r]
    <3>1. Carries(req[r]) /\ req[r] \in Request BY DEF Typed, RequestFields, TypeOK
    <3>2. req[r].offer # None =>
            /\ req[r].offer \in Offers
            /\ offer[req[r].offer].status # "absent"
            /\ offer'[req[r].offer].status # "absent"
            /\ offer'[req[r].offer].tx = offer[req[r].offer].tx
      BY <3>1 DEF Request, Carries
    <3> QED BY <2>2, <3>1, <3>2 DEF Carries
  <2> QED BY <2>1, <2>2
<1>3. OfferHasTx' BY DEF OfferHasTx
<1> QED BY <1>1, <1>2, <1>3 DEF Typed

LEMMA CreateOfferTyped ==
  ASSUME Typed, NEW o \in Offers, CreateOffer(o)
  PROVE  Typed'
<1>1. PICK l \in Listings, protected \in BOOLEAN :
        offer' = [offer EXCEPT ![o] =
          [status |-> "pending", lapsed |-> FALSE,
           tx |-> [listing |-> l, buyer |-> o, protected |-> protected]]]
  BY DEF CreateOffer
<1>2. [listing |-> l, buyer |-> o, protected |-> protected] \in SaleTxs BY DEF SaleTxs
<1>3. offer' \in [Offers -> OfferRow] BY <1>1, <1>2 DEF Typed, TypeOK, OfferRow
<1>4. \A p \in Offers : /\ p # o => offer'[p] = offer[p]
                        /\ offer'[o].tx \in SaleTxs
                        /\ offer[o].status = "absent"
  BY <1>1, <1>2 DEF CreateOffer, Typed, TypeOK
<1>5. req' = req /\ req' \in [Requests -> Request] BY DEF CreateOffer, Typed, TypeOK
<1> QED BY <1>3, <1>4, <1>5, OfferStepTyped DEF CreateOffer, Typed, OfferHasTx

LEMMA LapseTyped ==
  ASSUME Typed, NEW o \in Offers, Lapse(o)
  PROVE  Typed'
<1>1. offer[o] \in OfferRow BY DEF Typed, TypeOK
<1>2. [offer[o] EXCEPT !.lapsed = TRUE] \in OfferRow BY <1>1 DEF OfferRow
<1>3. offer' = [offer EXCEPT ![o] = [offer[o] EXCEPT !.lapsed = TRUE]]
  BY DEF Lapse
<1>4. offer' \in [Offers -> OfferRow] BY <1>2, <1>3 DEF Typed, TypeOK
<1>5. \A p \in Offers : offer'[p].status = offer[p].status /\ offer'[p].tx = offer[p].tx
  BY <1>1, <1>3 DEF Typed, TypeOK, OfferRow
<1>6. req' = req /\ req' \in [Requests -> Request] BY DEF Lapse, Typed, TypeOK
<1> QED BY <1>4, <1>5, <1>6, OfferStepTyped DEF Lapse, Typed, OfferHasTx

LEMMA ExpireTyped ==
  ASSUME Typed, ExpireStaleOffers
  PROVE  Typed'
<1>1. \A p \in Offers : /\ offer[p] \in OfferRow
                        /\ [offer[p] EXCEPT !.status = "expired"] \in OfferRow
  BY DEF Typed, TypeOK, OfferRow
<1>2. offer' = [p \in Offers |-> IF p \in Stale
                                THEN [offer[p] EXCEPT !.status = "expired"]
                                ELSE offer[p]]
  BY DEF ExpireStaleOffers
<1>3. offer' \in [Offers -> OfferRow] BY <1>1, <1>2
<1>4. \A p \in Offers : /\ offer'[p].tx = offer[p].tx
                        /\ offer'[p].status \in {offer[p].status, "expired"}
                        /\ p \in Stale => offer[p].status # "absent"
  BY <1>1, <1>2 DEF OfferRow, Stale
<1>5. \A p \in Offers : p \notin Stale => offer'[p] = offer[p] BY <1>2
<1>6. req' = req /\ req' \in [Requests -> Request]
  BY DEF ExpireStaleOffers, Typed, TypeOK
<1> QED BY <1>3, <1>4, <1>5, <1>6, OfferStepTyped DEF ExpireStaleOffers, Typed, OfferHasTx

LEMMA SetOfferStatusTyped ==
  ASSUME Typed, NEW r \in Requests, MarkExpired(r) \/ MarkWithdrawn(r)
  PROVE  Typed'
<1> DEFINE o == req[r].offer
<1>1. PICK status \in {"expired", "cancelled"} :
        offer' = [offer EXCEPT ![o].status = status]
  BY DEF MarkExpired, MarkWithdrawn, SetOfferStatus
<1>2. o \in Offers \cup {None} BY DEF Typed, TypeOK, Request
<1> HIDE DEF o
<1>3. \A p \in Offers : offer[p] \in OfferRow BY DEF Typed, TypeOK
<1>4. offer' \in [Offers -> OfferRow]
  <2>1. \A p \in Offers : [offer[p] EXCEPT !.status = status] \in OfferRow
    BY <1>3 DEF OfferRow
  <2> QED BY <1>1, <2>1 DEF Typed, TypeOK
<1>5. \A p \in Offers : /\ offer'[p].tx = offer[p].tx
                        /\ offer'[p].status \in {offer[p].status, status}
  BY <1>1, <1>3 DEF Typed, TypeOK, OfferRow
<1>6. /\ req' \in [Requests -> Request]
      /\ \A s \in Requests : req'[s] \in {req[s], Idle}
  BY OneRequest, IdleIsRequest
  DEF Typed, MarkExpired, MarkWithdrawn, SetOfferStatus, Finish
<1>7. UNCHANGED <<listing, sales, owner, feed, built, nodeVars>>
  BY DEF MarkExpired, MarkWithdrawn, SetOfferStatus
<1>8. offer[o].status # "absent"
  BY DEF o, Typed, RequestFields, Carries, MarkExpired, MarkWithdrawn, SetOfferStatus
<1>9. \A p \in Offers : offer'[p].status # "absent" => offer[p].status # "absent"
  BY <1>1, <1>8, <1>3 DEF Typed, TypeOK
<1> QED BY <1>4, <1>5, <1>6, <1>7, <1>9, OfferStepTyped DEF Typed, OfferHasTx


\* The rows the two commits write.
LEMMA CommitTyped ==
  ASSUME Typed, NEW r \in Requests, CommitOrder(r) \/ CommitOffer(r)
  PROVE  Typed'
<1> DEFINE l == req[r].listing
           tx == req[r].tx
           o == req[r].offer
<1>1. /\ l \in Listings /\ tx \in SaleTxs /\ o \in Offers \cup {None}
      /\ o = None => req[r].buyer \in Names
      /\ o # None => offer[o].status # "absent"
  BY DEF CommitOrder, CommitOffer, Typed, TypeOK, RequestFields, Carries, Request, Purchasing
<1>2. PICK name \in Names : Settle(r, name) BY <1>1 DEF CommitOrder, CommitOffer, Names
<1>3. /\ listing' \in [Listings -> ListingRow]
      /\ sales' \in Seq(SaleRow)
      /\ owner' \in [Inscriptions -> Names]
  BY <1>1, <1>2, SettleType DEF Typed
<1>4. feed' \subseteq FeedRow
  <2>1. [listing |-> l, tx |-> tx] \in FeedRow BY <1>1 DEF FeedRow
  <2>2. feed' = feed \/ LogSale(l, tx) BY DEF CommitOrder, CommitOffer
  <2> HIDE DEF l, tx
  <2>3. feed' = feed
        \/ \E logged \in SUBSET {[listing |-> l, tx |-> tx]} : feed' = feed \cup logged
    BY <2>2 DEF LogSale
  <2> QED BY <2>1, <2>3 DEF Typed, TypeOK
<1>5. /\ req' \in [Requests -> Request]
      /\ \A s \in Requests : req'[s] \in {req[s], Idle}
  BY OneRequest, IdleIsRequest DEF Typed, CommitOrder, CommitOffer, Finish
<1>6. /\ offer' \in [Offers -> OfferRow]
      /\ \A p \in Offers : /\ offer'[p].tx = offer[p].tx
                           /\ offer[p].status # "absent" => offer'[p].status # "absent"
                           /\ offer'[p].status # "absent" => offer[p].status # "absent"
  <2>1. CASE CommitOrder(r) BY <2>1 DEF CommitOrder, Typed, TypeOK
  <2>2. CASE CommitOffer(r)
    <3>1. \A p \in Offers : /\ offer[p] \in OfferRow
                            /\ [offer[p] EXCEPT !.status = "accepted"] \in OfferRow
                            /\ [offer[p] EXCEPT !.status = "cancelled"] \in OfferRow
      BY DEF Typed, TypeOK, OfferRow
    <3>2. offer' = [p \in Offers |->
            IF p = o THEN [offer[p] EXCEPT !.status = "accepted"]
            ELSE IF On[p] = On[o] /\ offer[p].status = "pending"
                 THEN [offer[p] EXCEPT !.status = "cancelled"]
                 ELSE offer[p]]
      BY <2>2 DEF CommitOffer
    <3>3. o # None BY <2>2 DEF CommitOffer
    <3> HIDE DEF o
    <3>4. offer' \in [Offers -> OfferRow] BY <3>1, <3>2
    <3>5. \A p \in Offers : /\ offer'[p].tx = offer[p].tx
                            /\ offer[p].status # "absent" => offer'[p].status # "absent"
                            /\ offer'[p].status # "absent" => offer[p].status # "absent"
      BY <1>1, <3>1, <3>2, <3>3 DEF OfferRow
    <3> QED BY <3>4, <3>5
  <2> QED BY <2>1, <2>2
<1>7. UNCHANGED <<built, nodeVars>> BY DEF CommitOrder, CommitOffer
<1>8. TypeOK' BY <1>3, <1>4, <1>5, <1>6, <1>7 DEF Typed, TypeOK, nodeVars
<1>9. RequestFields'
  <2> SUFFICES ASSUME NEW s \in Requests PROVE Carries(req[s])'
    BY DEF RequestFields
  <2>1. CASE req'[s] = Idle BY <2>1 DEF Idle, Carries, Purchasing
  <2>2. CASE req'[s] = req[s]
    <3>1. Carries(req[s]) /\ req[s] \in Request BY DEF Typed, RequestFields, TypeOK
    <3>2. req[s].offer # None =>
            /\ req[s].offer \in Offers
            /\ offer'[req[s].offer].status # "absent"
            /\ offer'[req[s].offer].tx = offer[req[s].offer].tx
      BY <1>6, <3>1 DEF Request, Carries
    <3> QED BY <2>2, <3>1, <3>2 DEF Carries
  <2> QED BY <1>5, <2>1, <2>2
<1>10. OfferHasTx' BY <1>6 DEF Typed, OfferHasTx
<1> QED BY <1>8, <1>9, <1>10 DEF Typed

\* What the network does on its own, and a restart of the server.
LEMMA NetworkTyped ==
  ASSUME Typed, NEW i \in Inscriptions, Confirm(i) \/ OwnerMoves(i) \/ Evict(i)
  PROVE  Typed'
<1>1. /\ mempool' \in [Inscriptions -> SaleTxs \cup LockTxs \cup {Unspent, Moved}]
      /\ chain' \in [Inscriptions -> SaleTxs \cup LockTxs \cup {Unspent, Moved}]
  BY DEF Confirm, OwnerMoves, Evict, Typed, TypeOK
<1>2. UNCHANGED <<dbVars, built, accepted, req>> BY DEF Confirm, OwnerMoves, Evict
<1> QED BY <1>1, <1>2 DEF Typed, TypeOK, RequestFields, Carries, OfferHasTx, dbVars

LEMMA CrashTyped ==
  ASSUME Typed, Crash
  PROVE  Typed'
<1>1. UNCHANGED <<dbVars, built, nodeVars>> BY DEF Crash
<1>2. /\ req' \in [Requests -> Request]
      /\ \A r \in Requests : req'[r] = Idle
  BY IdleIsRequest DEF Crash
<1>3. Carries(Idle)' BY DEF Idle, Carries, Purchasing
<1> QED BY <1>1, <1>2, <1>3 DEF Typed, TypeOK, RequestFields, OfferHasTx, dbVars, nodeVars

\* The typing invariant is inductive.
LEMMA StepTyped ==
  ASSUME Typed, [Next]_vars
  PROVE  Typed'
<1>1. CASE UNCHANGED vars
  BY <1>1 DEF vars, dbVars, nodeVars, Typed, TypeOK, RequestFields, Carries, OfferHasTx
<1>2. CASE Client
  BY <1>2, CreateListingTyped, BuyTyped, CreateOfferTyped, LapseTyped, ExpireTyped,
     StartsTyped, ConfirmOrderTyped, AcceptOrCancelOfferTyped DEF Client
<1>3. CASE Network BY <1>3, NetworkTyped DEF Network
<1>4. CASE \E r \in Requests : Proceed(r)
  <2> SUFFICES ASSUME NEW r \in Requests, Proceed(r) PROVE Typed' BY <1>4
  <2> QED BY ListingWritesTyped, ClearLockingTxTyped, NodeStepsTyped, CommitTyped,
             SetOfferStatusTyped DEF Proceed
<1>5. CASE Fault BY <1>5, CrashTyped, NodeStepsTyped DEF Fault
<1> QED BY <1>1, <1>2, <1>3, <1>4, <1>5 DEF Next, Work

\* Every reachable state is typed: no handler, fault or network event leaves a
\* row, a request or the node's view outside its type.
THEOREM TypeCorrect == Spec => []TypeOK
<1>1. Typed => TypeOK BY DEF Typed
<1> QED BY <1>1, InitTyped, StepTyped, PTL DEF Spec


-----------------------------------------------------------------------------
\* What a step can do to the node's history, the requests and the books.

\* The node forgets nothing it has accepted, and a request that reaches "record"
\* has had its transaction accepted by that very step.
LEMMA AcceptedSteps ==
  ASSUME Typed, [Next]_vars
  PROVE  /\ accepted \subseteq accepted'
         /\ \A r \in Requests : req'[r].pc = "record" =>
              \/ req'[r] = req[r]
              \/ /\ req'[r].tx \in accepted'
                 /\ req'[r].tx.protected => LockTx(req'[r].listing) \in accepted'
<1> DEFINE Sent(q) == /\ q.tx \in accepted'
                      /\ q.tx.protected => LockTx(q.listing) \in accepted'
           Goal == /\ accepted \subseteq accepted'
                   /\ \A r \in Requests : req'[r].pc = "record" =>
                        req'[r] = req[r] \/ Sent(req'[r])
<1> SUFFICES Goal OBVIOUS
<1>1. ASSUME UNCHANGED <<accepted, req>> PROVE Goal BY <1>1
<1>2. CASE Crash BY <1>2 DEF Crash, Idle, nodeVars
<1>3. ASSUME NEW r \in Requests,
             \/ \E l \in Listings : \/ SubmitLocking(r, l) \/ CancelListing(r, l)
                                    \/ ConfirmListing(r, l) \/ ImportCheck(r, l)
             \/ \E tx \in built : ConfirmOrder(r, tx)
             \/ \E o \in Offers : AcceptOffer(r, o) \/ CancelOffer(r, o)
      PROVE  Goal
  <2>1. accepted' = accepted
    BY <1>3 DEF SubmitLocking, CancelListing, ConfirmListing, ImportCheck,
                ConfirmOrder, AcceptOffer, CancelOffer, nodeVars
  <2>2. PICK q : q.pc # "record" /\ req' = [req EXCEPT ![r] = q]
    BY <1>3 DEF SubmitLocking, CancelListing, ConfirmListing, ImportCheck,
                ConfirmOrder, AcceptOffer, CancelOffer, Start, Idle, FlowFor
  <2>3. \A s \in Requests : req'[s] = req[s] \/ req'[s] = q
    BY <2>2 DEF Typed, TypeOK
  <2> QED BY <2>1, <2>2, <2>3
<1>4. ASSUME NEW r \in Requests, Proceed(r) \/ Abandon(r) \/ LoseReply(r)
      PROVE  Goal
  <2>1. req[r] \in Request /\ Carries(req[r]) BY DEF Typed, TypeOK, RequestFields
  <2>2. accepted \subseteq accepted'
    BY <1>4 DEF Proceed, StoreLockingTx, ClearLockingTx, MarkCancelled, StoreBuyerPsbt,
         ImportInsert, VerifyLockingInputs, BroadcastTransaction, SubmitPackage,
         CommitOrder, MatchListing, CommitOffer, MarkExpired, MarkWithdrawn,
         SetOfferStatus, Abandon, LoseReply, NodeTakes, nodeVars
  <2>3. ASSUME NEW s \in Requests PROVE s # r => req'[s] = req[s]
    BY <1>4 DEF Typed, TypeOK, Proceed, StoreLockingTx, ClearLockingTx, MarkCancelled,
         StoreBuyerPsbt, ImportInsert, VerifyLockingInputs, BroadcastTransaction,
         SubmitPackage, CommitOrder, MatchListing, CommitOffer, MarkExpired,
         MarkWithdrawn, SetOfferStatus, Abandon, LoseReply, Finish, Continue
  <2>4. req'[r].pc # "record" \/ Sent(req'[r])
    <3>1. CASE Finish(r) BY <3>1 DEF Finish, Idle, Typed, TypeOK
    <3>2. CASE Continue(r, "record") /\ (BroadcastTransaction(r) \/ SubmitPackage(r))
      <4>1. req'[r] = [req[r] EXCEPT !.pc = "record"]
        BY <3>2 DEF Continue, Typed, TypeOK
      <4>2. req'[r].tx = req[r].tx /\ req'[r].listing = req[r].listing
        BY <2>1, <4>1 DEF Request
      <4>3. Sent(req[r])
        <5>1. req'[r].pc = "record" BY <2>1, <4>1 DEF Request
        <5>2. ~Finish(r) BY <5>1 DEF Finish, Idle, Typed, TypeOK
        <5>3. CASE BroadcastTransaction(r)
          BY <2>1, <5>2, <5>3 DEF BroadcastTransaction, NodeTakes, Carries
        <5>4. CASE SubmitPackage(r)
          BY <5>2, <5>4 DEF SubmitPackage, NodeTakes
        <5> QED BY <3>2, <5>3, <5>4
      <4> QED BY <4>2, <4>3
    <3>3. CASE Continue(r, "submit") \/ Continue(r, "delist")
      BY <2>1, <3>3 DEF Continue, Typed, TypeOK, Request
    <3>4. CASE \E m \in Matches(r) :
                 req' = [req EXCEPT ![r].listing = m[1], ![r].pc = m[2]]
      <4>1. PICK m \in Matches(r) :
              req' = [req EXCEPT ![r].listing = m[1], ![r].pc = m[2]]
        BY <3>4
      <4>2. m[2] \in {"verify", "send"} BY DEF Matches
      <4> QED BY <2>1, <4>1, <4>2 DEF Typed, TypeOK, Request
    <3> QED BY <1>4, <3>1, <3>2, <3>3, <3>4
            DEF Proceed, StoreLockingTx, ClearLockingTx, MarkCancelled, StoreBuyerPsbt,
            ImportInsert, VerifyLockingInputs, BroadcastTransaction, SubmitPackage,
            CommitOrder, MatchListing, CommitOffer, MarkExpired, MarkWithdrawn,
            SetOfferStatus, Abandon, LoseReply
  <2> HIDE DEF Sent
  <2> QED BY <2>2, <2>3, <2>4
<1>5. CASE Network
  BY <1>5, <1>1 DEF Network, Confirm, OwnerMoves, Evict
<1>6. CASE Client
  <2>1. CASE UNCHANGED <<accepted, req>> BY <1>1, <2>1
  <2> QED BY <1>6, <1>3, <2>1
          DEF Client, CreateListing, Buy, CreateOffer, Lapse, ExpireStaleOffers,
              nodeVars
<1>7. CASE UNCHANGED vars BY <1>1, <1>7 DEF vars, nodeVars
<1> HIDE DEF Goal
<1> QED BY <1>2, <1>4, <1>5, <1>6, <1>7 DEF Next, Work, Fault

\* The actions that write a listing: the commits also write sales and owners,
\* the others leave those tables alone.
ListingWrite ==
  \/ \E l \in Listings : CreateListing(l)
  \/ \E r \in Requests : \/ StoreLockingTx(r) \/ ClearLockingTx(r) \/ MarkCancelled(r)
                         \/ StoreBuyerPsbt(r) \/ ImportInsert(r)

\* A sale is recorded, and an owner replaced, only by the commit of a request
\* that has reached "record".
LEMMA BookSteps ==
  ASSUME Typed, [Next]_vars
  PROVE  \/ UNCHANGED <<listing, sales, owner>>
         \/ ListingWrite /\ UNCHANGED <<sales, owner>>
         \/ \E r \in Requests : CommitOrder(r) \/ CommitOffer(r)
<1>1. CASE UNCHANGED vars BY <1>1 DEF vars, dbVars
<1>2. CASE Client
  BY <1>2 DEF Client, ListingWrite, CreateListing, Buy, CreateOffer, Lapse,
     ExpireStaleOffers, SubmitLocking, CancelListing, ConfirmListing, ImportCheck, ConfirmOrder, AcceptOffer, CancelOffer,
     dbVars
<1>3. CASE Network BY <1>3 DEF Network, Confirm, OwnerMoves, Evict, dbVars
<1>4. CASE Fault BY <1>4 DEF Fault, Crash, Abandon, LoseReply, dbVars
<1>5. ASSUME NEW r \in Requests, Proceed(r)
      PROVE  \/ UNCHANGED <<listing, sales, owner>>
             \/ ListingWrite /\ UNCHANGED <<sales, owner>>
             \/ CommitOrder(r) \/ CommitOffer(r)
  <2>1. CASE \/ StoreLockingTx(r) \/ ClearLockingTx(r) \/ MarkCancelled(r)
             \/ StoreBuyerPsbt(r) \/ ImportInsert(r)
    <3>1. UNCHANGED <<sales, owner>>
      BY <2>1 DEF StoreLockingTx, ClearLockingTx, MarkCancelled, StoreBuyerPsbt,
                  ImportInsert
    <3> QED BY <2>1, <3>1 DEF ListingWrite
  <2>2. CASE \/ VerifyLockingInputs(r) \/ BroadcastTransaction(r) \/ SubmitPackage(r)
             \/ MatchListing(r) \/ MarkExpired(r) \/ MarkWithdrawn(r)
    BY <2>2 DEF VerifyLockingInputs, BroadcastTransaction, SubmitPackage, MatchListing,
         MarkExpired, MarkWithdrawn, SetOfferStatus, dbVars
  <2> QED BY <1>5, <2>1, <2>2 DEF Proceed
<1> QED BY <1>1, <1>2, <1>3, <1>4, <1>5 DEF Next, Work

\* What such a write does to the fields the invariants speak of: an INSERT, the
\* step of submit-locking, the clearing of a locking transaction, or an UPDATE
\* that touches none of them but may cancel.
LEMMA ListingWriteEffect ==
  ASSUME Typed, ListingWrite, NEW k \in Listings
  PROVE  LET old == listing[k]  new == listing'[k] IN
         \/ new = old
         \/ /\ new.status = "active" /\ ~new.lockingTx
            /\ \/ new.protection = "none"
               \/ ~Exists(k) /\ new.protection = "locking_pending"
         \/ /\ new.status = old.status /\ new.lockingTx /\ new.protection = "active"
            /\ \E r \in Requests : req[r].pc = "locking" /\ req[r].listing = k
         \/ new.status = old.status /\ ~new.lockingTx /\ new.protection = "none"
         \/ /\ new.status \in {old.status, "cancelled"}
            /\ new.protection = old.protection /\ new.lockingTx = old.lockingTx
<1>1. listing[k] \in ListingRow BY DEF Typed, TypeOK
<1>2. CASE listing'[k] = listing[k] BY <1>2
<1>3. ASSUME NEW l \in Listings, CreateListing(l), listing'[k] # listing[k]
      PROVE  /\ listing'[k].status = "active" /\ ~listing'[k].lockingTx
             /\ \/ listing'[k].protection = "none"
                \/ ~Exists(k) /\ listing'[k].protection = "locking_pending"
  <2>1. PICK row \in ListingRow : /\ InsertListing(l, row)
                                  /\ row.status = "active" /\ ~row.lockingTx
                                  /\ row.protection \in {"none", "locking_pending"}
    <3>1. PICK protected \in BOOLEAN, psbt \in {"none", "seller"} :
            InsertListing(l, [NoListing EXCEPT
              !.status = "active", !.psbt = psbt, !.script = protected,
              !.protection = IF protected THEN "locking_pending" ELSE "none"])
      BY <1>3 DEF CreateListing
    <3> DEFINE row == [NoListing EXCEPT
              !.status = "active", !.psbt = psbt, !.script = protected,
              !.protection = IF protected THEN "locking_pending" ELSE "none"]
    <3>2. /\ row \in ListingRow /\ row.status = "active" /\ ~row.lockingTx
          /\ row.protection \in {"none", "locking_pending"}
      BY DEF NoListing, ListingRow
    <3> QED BY <3>1, <3>2
  <2>2. k = l BY <1>3, <2>1 DEF InsertListing, Typed, TypeOK
  <2>3. PICK n : listing'[k] = [row EXCEPT !.created = n]
    BY <2>1, <2>2 DEF InsertListing, Typed, TypeOK
  <2> QED BY <1>3, <2>1, <2>2, <2>3 DEF CreateListing, Fresh, ListingRow
<1>4. ASSUME NEW r \in Requests, ImportInsert(r), listing'[k] # listing[k]
      PROVE  /\ listing'[k].status = "active" /\ ~listing'[k].lockingTx
             /\ listing'[k].protection = "none"
  <2>1. PICK row \in ListingRow : /\ InsertListing(req[r].listing, row)
                                  /\ row.status = "active" /\ ~row.lockingTx
                                  /\ row.protection = "none"
    <3>1. PICK psbt \in {"none", "seller"} : InsertListing(req[r].listing,
            [NoListing EXCEPT !.status = "active", !.psbt = psbt, !.imported = TRUE])
      BY <1>4 DEF ImportInsert
    <3> DEFINE row == [NoListing EXCEPT !.status = "active", !.psbt = psbt,
                                        !.imported = TRUE]
    <3>2. /\ row \in ListingRow /\ row.status = "active" /\ ~row.lockingTx
          /\ row.protection = "none"
      BY DEF NoListing, ListingRow
    <3> QED BY <3>1, <3>2
  <2>2. k = req[r].listing BY <1>4, <2>1 DEF InsertListing, Typed, TypeOK
  <2>3. PICK n : listing'[k] = [row EXCEPT !.created = n]
    BY <2>1, <2>2 DEF InsertListing, Typed, TypeOK
  <2> QED BY <2>1, <2>3 DEF ListingRow
<1>5. ASSUME NEW r \in Requests, StoreLockingTx(r), listing'[k] # listing[k]
      PROVE  /\ listing'[k] = [listing[k] EXCEPT !.lockingTx = TRUE,
                                                 !.protection = "active"]
             /\ req[r].pc = "locking" /\ req[r].listing = k
  BY <1>5 DEF StoreLockingTx, Typed, TypeOK
<1>6. ASSUME NEW r \in Requests, ClearLockingTx(r), listing'[k] # listing[k]
      PROVE  listing'[k] = [listing[k] EXCEPT !.lockingTx = FALSE, !.script = FALSE,
                                              !.protection = "none"]
  BY <1>6 DEF ClearLockingTx, Typed, TypeOK
<1>7. ASSUME NEW r \in Requests, MarkCancelled(r) \/ StoreBuyerPsbt(r),
             listing'[k] # listing[k]
      PROVE  \/ listing'[k] = [listing[k] EXCEPT !.status = "cancelled"]
             \/ listing'[k] = [listing[k] EXCEPT !.psbt = "buyer"]
  BY <1>7 DEF MarkCancelled, StoreBuyerPsbt, Typed, TypeOK
<1>8. ASSUME NEW r \in Requests, StoreLockingTx(r), listing'[k] # listing[k]
      PROVE  /\ listing'[k].status = listing[k].status
             /\ listing'[k].lockingTx /\ listing'[k].protection = "active"
  BY <1>1, <1>5, <1>8 DEF ListingRow
<1>9. ASSUME NEW r \in Requests, ClearLockingTx(r), listing'[k] # listing[k]
      PROVE  /\ listing'[k].status = listing[k].status
             /\ ~listing'[k].lockingTx /\ listing'[k].protection = "none"
  BY <1>1, <1>6, <1>9 DEF ListingRow
<1>10. ASSUME NEW r \in Requests, MarkCancelled(r) \/ StoreBuyerPsbt(r),
              listing'[k] # listing[k]
       PROVE  /\ listing'[k].status \in {listing[k].status, "cancelled"}
              /\ listing'[k].protection = listing[k].protection
              /\ listing'[k].lockingTx = listing[k].lockingTx
  BY <1>1, <1>7, <1>10 DEF ListingRow
<1> QED BY <1>2, <1>3, <1>4, <1>5, <1>8, <1>9, <1>10 DEF ListingWrite

\* What a commit appends to the table sales, and that nothing is lost from it.
LEMMA CommitRow ==
  ASSUME Typed, NEW r \in Requests, CommitOrder(r) \/ CommitOffer(r)
  PROVE  \E name \in Names :
           LET row == [listing |-> req[r].listing, tx |-> req[r].tx, buyer |-> name,
                       locked |-> req[r].tx.protected]
           IN  /\ Settle(r, name)
               /\ CommitOffer(r) => name = req[r].offer
               /\ row \in SaleRow
               /\ DOMAIN sales = 1 .. Len(sales)
               /\ Len(sales) \in Nat
               /\ DOMAIN sales' = 1 .. (Len(sales) + 1)
               /\ sales'[Len(sales) + 1] = row
               /\ \A n \in DOMAIN sales : sales'[n] = sales[n]
<1>1. PICK name \in Names : Settle(r, name) /\ (CommitOffer(r) => name = req[r].offer)
  BY DEF CommitOrder, CommitOffer, Typed, TypeOK, RequestFields, Carries, Request,
     Purchasing, Names
<1> DEFINE row == [listing |-> req[r].listing, tx |-> req[r].tx, buyer |-> name,
                   locked |-> req[r].tx.protected]
<1>2. row \in SaleRow
  BY DEF CommitOrder, CommitOffer, Typed, RequestFields, Carries, Purchasing,
     SaleRow, SaleTxs
<1>3. sales' = Append(sales, row) /\ sales \in Seq(SaleRow) BY <1>1 DEF Settle, Typed, TypeOK
<1> HIDE DEF row
<1>4. /\ DOMAIN sales = 1 .. Len(sales)
      /\ Len(sales) \in Nat
      /\ DOMAIN sales' = 1 .. (Len(sales) + 1)
      /\ sales'[Len(sales) + 1] = row
      /\ \A n \in DOMAIN sales : sales'[n] = sales[n]
  BY <1>2, <1>3, AppendProperties
<1> QED BY <1>1, <1>2, <1>4 DEF row

\* Sale rows are backed by accepted transactions: inductive with what requests
\* about to record know.
LEMMA StepBacked ==
  ASSUME Typed, RecordAfterAccept, SalesBacked, [Next]_vars
  PROVE  RecordAfterAccept' /\ SalesBacked'
<1>1. accepted \subseteq accepted' BY AcceptedSteps
<1>2. RecordAfterAccept'
  <2> SUFFICES ASSUME NEW r \in Requests, req'[r].pc = "record"
               PROVE  /\ req'[r].tx \in accepted'
                      /\ req'[r].tx.protected => LockTx(req'[r].listing) \in accepted'
    BY DEF RecordAfterAccept, LockTx
  <2>1. CASE req'[r] = req[r] BY <1>1, <2>1 DEF RecordAfterAccept
  <2> QED BY <2>1, AcceptedSteps
<1>3. SalesBacked'
  <2>1. CASE sales' = sales BY <1>1, <2>1 DEF SalesBacked, LockTx
  <2>2. ASSUME NEW r \in Requests, CommitOrder(r) \/ CommitOffer(r) PROVE SalesBacked'
    <3>1. req[r].pc = "record" BY <2>2 DEF CommitOrder, CommitOffer
    <3>2. PICK name \in Names :
            LET row == [listing |-> req[r].listing, tx |-> req[r].tx, buyer |-> name,
                        locked |-> req[r].tx.protected]
            IN  /\ row \in SaleRow
                /\ DOMAIN sales = 1 .. Len(sales)
                /\ Len(sales) \in Nat
                /\ DOMAIN sales' = 1 .. (Len(sales) + 1)
                /\ sales'[Len(sales) + 1] = row
                /\ \A n \in DOMAIN sales : sales'[n] = sales[n]
      BY <2>2, CommitRow
    <3> SUFFICES ASSUME NEW n \in DOMAIN sales'
                 PROVE  /\ sales'[n].tx \in accepted'
                        /\ sales'[n].locked => LockTx(sales'[n].listing) \in accepted'
      BY DEF SalesBacked, LockTx
    <3>3. CASE n \in DOMAIN sales BY <1>1, <3>2, <3>3 DEF SalesBacked
    <3>4. CASE n = Len(sales) + 1 BY <1>1, <3>1, <3>2, <3>4 DEF RecordAfterAccept
    <3> QED BY <3>2, <3>3, <3>4
  <2> QED BY <2>1, <2>2, BookSteps
<1> QED BY <1>2, <1>3

\* The feed grows only by the row of the commit it is written with.
LEMMA FeedSteps ==
  ASSUME Typed, [Next]_vars
  PROVE  \/ feed' = feed
         \/ \E r \in Requests :
              /\ CommitOrder(r) \/ CommitOffer(r)
              /\ feed' \subseteq feed \cup {[listing |-> req[r].listing, tx |-> req[r].tx]}
<1>1. CASE UNCHANGED vars BY <1>1 DEF vars, dbVars
<1>2. CASE Client
  BY <1>2 DEF Client, CreateListing, Buy, CreateOffer, Lapse, ExpireStaleOffers,
     SubmitLocking, CancelListing, ConfirmListing, ImportCheck, ConfirmOrder,
     AcceptOffer, CancelOffer, dbVars
<1>3. CASE Network BY <1>3 DEF Network, Confirm, OwnerMoves, Evict, dbVars
<1>4. CASE Fault BY <1>4 DEF Fault, Crash, Abandon, LoseReply, dbVars
<1>5. ASSUME NEW r \in Requests, Proceed(r), feed' # feed
      PROVE  /\ CommitOrder(r) \/ CommitOffer(r)
             /\ feed' \subseteq feed \cup {[listing |-> req[r].listing, tx |-> req[r].tx]}
  <2>1. CommitOrder(r) \/ CommitOffer(r)
    BY <1>5 DEF Proceed, StoreLockingTx, ClearLockingTx, MarkCancelled, StoreBuyerPsbt,
       ImportInsert, VerifyLockingInputs, BroadcastTransaction, SubmitPackage,
       MatchListing, MarkExpired, MarkWithdrawn, SetOfferStatus, dbVars
  <2>2. LogSale(req[r].listing, req[r].tx) BY <1>5, <2>1 DEF CommitOrder, CommitOffer
  <2> QED BY <2>1, <2>2 DEF LogSale
<1> QED BY <1>1, <1>2, <1>3, <1>4, <1>5 DEF Next, Work

\* Every row of the feed has its sale row.
LEMMA StepFeed ==
  ASSUME Typed, FeedReportsSales, [Next]_vars
  PROVE  FeedReportsSales'
<1> SUFFICES ASSUME NEW e \in feed'
             PROVE  \E n \in DOMAIN sales' :
                      sales'[n].listing = e.listing /\ sales'[n].tx = e.tx
  BY DEF FeedReportsSales
<1>1. ASSUME NEW r \in Requests, CommitOrder(r) \/ CommitOffer(r)
      PROVE  /\ \E n \in DOMAIN sales' :
                  sales'[n].listing = req[r].listing /\ sales'[n].tx = req[r].tx
             /\ \A n \in DOMAIN sales : n \in DOMAIN sales' /\ sales'[n] = sales[n]
  <2>1. PICK name \in Names :
          LET row == [listing |-> req[r].listing, tx |-> req[r].tx, buyer |-> name,
                      locked |-> req[r].tx.protected]
          IN  /\ DOMAIN sales = 1 .. Len(sales)
              /\ Len(sales) \in Nat
              /\ DOMAIN sales' = 1 .. (Len(sales) + 1)
              /\ sales'[Len(sales) + 1] = row
              /\ \A n \in DOMAIN sales : sales'[n] = sales[n]
    BY <1>1, CommitRow
  <2> QED BY <2>1
<1>2. CASE e \in feed
  <2>1. PICK n \in DOMAIN sales : sales[n].listing = e.listing /\ sales[n].tx = e.tx
    BY <1>2 DEF FeedReportsSales
  <2>2. n \in DOMAIN sales' /\ sales'[n] = sales[n] BY <1>1, BookSteps
  <2> QED BY <2>1, <2>2
<1>3. CASE e \notin feed BY <1>1, <1>3, FeedSteps
<1> QED BY <1>2, <1>3

\* Listings become sold only together with their sale row.
LEMMA StepSold ==
  ASSUME Typed, SoldHasSale, [Next]_vars
  PROVE  SoldHasSale'
<1> SUFFICES ASSUME NEW l \in Listings, listing'[l].status = "sold"
             PROVE  \E n \in DOMAIN sales' : sales'[n].listing = l
  BY DEF SoldHasSale
<1>1. \A k \in Listings : listing[k] \in ListingRow BY DEF Typed, TypeOK
<1>2. CASE listing' = listing /\ sales' = sales BY <1>2 DEF SoldHasSale
<1>3. CASE ListingWrite /\ UNCHANGED sales
  <2>1. listing[l].status = "sold" BY <1>3, ListingWriteEffect
  <2> QED BY <1>3, <2>1 DEF SoldHasSale
<1>4. ASSUME NEW r \in Requests, CommitOrder(r) \/ CommitOffer(r)
      PROVE  \E n \in DOMAIN sales' : sales'[n].listing = l
  <2>1. PICK name \in Names :
          LET row == [listing |-> req[r].listing, tx |-> req[r].tx, buyer |-> name,
                      locked |-> req[r].tx.protected]
          IN  /\ Settle(r, name)
              /\ DOMAIN sales = 1 .. Len(sales)
              /\ Len(sales) \in Nat
              /\ DOMAIN sales' = 1 .. (Len(sales) + 1)
              /\ sales'[Len(sales) + 1] = row
              /\ \A n \in DOMAIN sales : sales'[n] = sales[n]
    BY <1>4, CommitRow
  <2>2. CASE l = req[r].listing BY <2>1, <2>2
  <2>3. CASE l # req[r].listing
    <3>1. listing[l].status = "sold" BY <2>1, <2>3 DEF Settle, Typed, TypeOK
    <3>2. PICK n \in DOMAIN sales : sales[n].listing = l BY <3>1 DEF SoldHasSale
    <3> QED BY <2>1, <3>2
  <2> QED BY <2>2, <2>3
<1> QED BY <1>2, <1>3, <1>4, BookSteps

\* The owner of an inscription changes only with its last sale row.
LEMMA StepOwner ==
  ASSUME Typed, OwnerIsLastBuyer, [Next]_vars
  PROVE  OwnerIsLastBuyer'
<1>1. CASE UNCHANGED <<sales, owner>> BY <1>1 DEF OwnerIsLastBuyer
<1>2. ASSUME NEW r \in Requests, CommitOrder(r) \/ CommitOffer(r)
      PROVE  OwnerIsLastBuyer'
  <2>1. PICK name \in Names :
          LET row == [listing |-> req[r].listing, tx |-> req[r].tx, buyer |-> name,
                      locked |-> req[r].tx.protected]
          IN  /\ Settle(r, name)
              /\ row \in SaleRow
              /\ DOMAIN sales = 1 .. Len(sales)
              /\ Len(sales) \in Nat
              /\ DOMAIN sales' = 1 .. (Len(sales) + 1)
              /\ sales'[Len(sales) + 1] = row
              /\ \A n \in DOMAIN sales : sales'[n] = sales[n]
    BY <1>2, CommitRow
  <2> DEFINE N == Len(sales) + 1
             i == On[req[r].listing]
  <2>2. /\ owner' = [owner EXCEPT ![i] = name] /\ i \in Inscriptions
        /\ sales'[N].buyer = name /\ On[sales'[N].listing] = i
        /\ N \in DOMAIN sales' /\ N \notin DOMAIN sales
        /\ \A n \in DOMAIN sales' : n <= N
    <3>1. req[r].listing \in Listings
      BY <1>2 DEF CommitOrder, CommitOffer, Typed, RequestFields, Carries
    <3> QED BY <2>1, <3>1 DEF Settle
  <2>3. SUFFICES ASSUME NEW j \in Inscriptions
                 PROVE  /\ {n \in DOMAIN sales' : On[sales'[n].listing] = j} = {}
                             => owner'[j] = Seller
                        /\ \A n \in DOMAIN sales' :
                             /\ On[sales'[n].listing] = j
                             /\ \A m \in DOMAIN sales' : On[sales'[m].listing] = j => m <= n
                             => owner'[j] = sales'[n].buyer
    BY DEF OwnerIsLastBuyer
  <2>4. CASE j = i
    <3>1. owner'[j] = name BY <2>2, <2>4 DEF Typed, TypeOK
    <3>2. ASSUME NEW n \in DOMAIN sales',
                 \A m \in DOMAIN sales' : On[sales'[m].listing] = j => m <= n
          PROVE  n = N
      BY <2>1, <2>2, <2>4, <3>2
    <3> QED BY <2>2, <2>4, <3>1, <3>2
  <2>5. CASE j # i
    <3>1. owner'[j] = owner[j] BY <2>2, <2>5 DEF Typed, TypeOK
    <3>2. ASSUME NEW n \in DOMAIN sales', On[sales'[n].listing] = j
          PROVE  n \in DOMAIN sales /\ sales'[n] = sales[n]
      BY <2>1, <2>2, <2>5, <3>2
    <3>3. \A n \in DOMAIN sales : n \in DOMAIN sales' /\ sales'[n] = sales[n] BY <2>1
    <3>4. {n \in DOMAIN sales' : On[sales'[n].listing] = j}
            = {n \in DOMAIN sales : On[sales[n].listing] = j}
      BY <3>2, <3>3
    <3>5. /\ {n \in DOMAIN sales : On[sales[n].listing] = j} = {} => owner[j] = Seller
          /\ \A n \in DOMAIN sales :
               /\ On[sales[n].listing] = j
               /\ \A m \in DOMAIN sales : On[sales[m].listing] = j => m <= n
               => owner[j] = sales[n].buyer
      BY DEF OwnerIsLastBuyer
    <3> QED BY <3>1, <3>2, <3>3, <3>4, <3>5
  <2> QED BY <2>4, <2>5
<1> QED BY <1>1, <1>2, BookSteps

\* Only accept_offer's database transaction makes an offer accepted, and the
\* transaction an offer was made with never changes.
LEMMA AcceptedOfferSteps ==
  ASSUME Typed, [Next]_vars, NEW o \in Offers, offer'[o].status = "accepted"
  PROVE  /\ offer'[o].tx = offer[o].tx
         /\ \/ offer[o].status = "accepted"
            \/ \E r \in Requests : CommitOffer(r) /\ req[r].offer = o
<1> DEFINE Goal == /\ offer'[o].tx = offer[o].tx
                   /\ \/ offer[o].status = "accepted"
                      \/ \E r \in Requests : CommitOffer(r) /\ req[r].offer = o
<1>1. \A p \in Offers : offer[p] \in OfferRow BY DEF Typed, TypeOK
<1>2. CASE UNCHANGED offer BY <1>2
<1>3. ASSUME NEW p \in Offers, CreateOffer(p) PROVE Goal
  <2>1. PICK row : row.status = "pending" /\ offer' = [offer EXCEPT ![p] = row]
    BY <1>3 DEF CreateOffer
  <2> QED BY <2>1 DEF Typed, TypeOK
<1>4. ASSUME NEW p \in Offers, Lapse(p) PROVE Goal
  <2>1. offer'[o] = [offer[o] EXCEPT !.lapsed = TRUE] \/ offer'[o] = offer[o]
    BY <1>4 DEF Lapse, Typed, TypeOK
  <2> QED BY <1>1, <2>1 DEF OfferRow
<1>5. ASSUME NEW r \in Requests, MarkExpired(r) \/ MarkWithdrawn(r) PROVE Goal
  <2>1. PICK status \in {"expired", "cancelled"} :
          offer' = [offer EXCEPT ![req[r].offer].status = status]
    BY <1>5 DEF MarkExpired, MarkWithdrawn, SetOfferStatus
  <2>2. offer'[o] = [offer[o] EXCEPT !.status = status] \/ offer'[o] = offer[o]
    BY <2>1 DEF Typed, TypeOK
  <2> QED BY <1>1, <2>1, <2>2 DEF OfferRow
<1>6. ASSUME NEW r \in Requests, CommitOffer(r) PROVE Goal
  <2>1. offer'[o] = IF o = req[r].offer THEN [offer[o] EXCEPT !.status = "accepted"]
                    ELSE IF On[o] = On[req[r].offer] /\ offer[o].status = "pending"
                         THEN [offer[o] EXCEPT !.status = "cancelled"]
                         ELSE offer[o]
    BY <1>6 DEF CommitOffer
  <2> QED BY <1>1, <1>6, <2>1 DEF OfferRow
<1>12. CASE ExpireStaleOffers
  <2>1. offer'[o] = [offer[o] EXCEPT !.status = "expired"] \/ offer'[o] = offer[o]
    BY <1>12 DEF ExpireStaleOffers, Typed, TypeOK
  <2> QED BY <1>1, <2>1 DEF OfferRow
<1>7. CASE Client
  <2>1. CASE UNCHANGED offer BY <2>1
  <2> QED BY <1>3, <1>4, <1>7, <1>12, <2>1 DEF Client, CreateListing, Buy, SubmitLocking,
       CancelListing, ConfirmListing, ImportCheck, ConfirmOrder, AcceptOffer,
       CancelOffer, dbVars
<1>8. CASE Network BY <1>2, <1>8 DEF Network, Confirm, OwnerMoves, Evict, dbVars
<1>9. CASE Fault BY <1>2, <1>9 DEF Fault, Crash, Abandon, LoseReply, dbVars
<1>10. ASSUME NEW r \in Requests, Proceed(r) PROVE Goal
  <2>1. CASE UNCHANGED offer BY <2>1
  <2> QED BY <1>5, <1>6, <1>10, <2>1 DEF Proceed, StoreLockingTx, ClearLockingTx,
       MarkCancelled, StoreBuyerPsbt, ImportInsert, VerifyLockingInputs,
       BroadcastTransaction, SubmitPackage, CommitOrder, MatchListing, dbVars
<1>11. CASE UNCHANGED vars BY <1>2, <1>11 DEF vars, dbVars
<1> QED BY <1>7, <1>8, <1>9, <1>10, <1>11 DEF Next, Work

\* Accepted offers have their sale row.
LEMMA StepAccepted ==
  ASSUME Typed, AcceptedHasSale, [Next]_vars
  PROVE  AcceptedHasSale'
<1> SUFFICES ASSUME NEW o \in Offers, offer'[o].status = "accepted"
             PROVE  \E n \in DOMAIN sales' :
                      sales'[n].buyer = o /\ sales'[n].tx = offer'[o].tx
  BY DEF AcceptedHasSale
<1>1. offer'[o].tx = offer[o].tx BY AcceptedOfferSteps
<1>2. CASE offer[o].status = "accepted"
  <2>1. PICK n \in DOMAIN sales : sales[n].buyer = o /\ sales[n].tx = offer[o].tx
    BY <1>2 DEF AcceptedHasSale
  <2>2. n \in DOMAIN sales' /\ sales'[n] = sales[n]
    <3>1. CASE UNCHANGED sales BY <3>1
    <3>2. ASSUME NEW r \in Requests, CommitOrder(r) \/ CommitOffer(r)
          PROVE  n \in DOMAIN sales' /\ sales'[n] = sales[n]
      <4>1. /\ DOMAIN sales = 1 .. Len(sales)
            /\ Len(sales) \in Nat
            /\ DOMAIN sales' = 1 .. (Len(sales) + 1)
            /\ \A m \in DOMAIN sales : sales'[m] = sales[m]
        BY <3>2, CommitRow
      <4> QED BY <4>1
    <3> QED BY <3>1, <3>2, BookSteps
  <2> QED BY <1>1, <2>1, <2>2
<1>3. ASSUME NEW r \in Requests, CommitOffer(r), req[r].offer = o
      PROVE  \E n \in DOMAIN sales' :
               sales'[n].buyer = o /\ sales'[n].tx = offer'[o].tx
  <2>1. req[r].tx = offer[o].tx
    BY <1>3 DEF CommitOffer, Typed, RequestFields, Carries, Purchasing
  <2>2. /\ Len(sales) \in Nat
        /\ DOMAIN sales' = 1 .. (Len(sales) + 1)
        /\ sales'[Len(sales) + 1].buyer = o
        /\ sales'[Len(sales) + 1].tx = req[r].tx
    <3>1. PICK name \in Names :
            LET row == [listing |-> req[r].listing, tx |-> req[r].tx, buyer |-> name,
                        locked |-> req[r].tx.protected]
            IN  /\ name = req[r].offer
                /\ Len(sales) \in Nat
                /\ DOMAIN sales' = 1 .. (Len(sales) + 1)
                /\ sales'[Len(sales) + 1] = row
      BY <1>3, CommitRow
    <3> QED BY <1>3, <3>1
  <2> QED BY <1>1, <2>1, <2>2
<1> QED BY <1>2, <1>3, AcceptedOfferSteps

\* A locking transaction is sent only by the submit step of its own listing.
LEMMA LockSteps ==
  ASSUME Typed, [Next]_vars, NEW l \in Listings, LockTx(l) \in accepted'
  PROVE  \/ LockTx(l) \in accepted
         \/ \E r \in Requests : req[r].pc = "submit" /\ req[r].listing = l
<1> DEFINE Goal == \/ LockTx(l) \in accepted
                   \/ \E r \in Requests : req[r].pc = "submit" /\ req[r].listing = l
<1>1. CASE accepted' = accepted BY <1>1
<1>2. ASSUME NEW r \in Requests,
             BroadcastTransaction(r) \/ SubmitPackage(r) \/ LoseReply(r)
      PROVE  Goal
  <2>1. req[r].tx \in SaleTxs
    BY <1>2 DEF BroadcastTransaction, SubmitPackage, LoseReply, Typed, RequestFields,
                Carries, Purchasing
  <2>2. LockTx(l) # req[r].tx BY <2>1 DEF LockTx, SaleTxs
  <2>3. LockTx(req[r].listing) = LockTx(l) => req[r].listing = l BY DEF LockTx
  <2> HIDE DEF LockTx
  <2>4. CASE req[r].pc = "send" BY <1>2, <2>2, <2>4
        DEF BroadcastTransaction, SubmitPackage, LoseReply, NodeTakes, nodeVars
  <2>5. CASE req[r].pc = "submit" BY <1>2, <2>2, <2>3, <2>5
        DEF BroadcastTransaction, SubmitPackage, LoseReply, NodeTakes, nodeVars
  <2> QED BY <1>2, <2>4, <2>5 DEF BroadcastTransaction, SubmitPackage, LoseReply
<1>3. CASE Client BY <1>1, <1>3 DEF Client, CreateListing, Buy, CreateOffer, Lapse,
      ExpireStaleOffers, SubmitLocking, CancelListing, ConfirmListing, ImportCheck, ConfirmOrder,
      AcceptOffer, CancelOffer, nodeVars
<1>4. CASE Network BY <1>1, <1>4 DEF Network, Confirm, OwnerMoves, Evict
<1>5. CASE Fault BY <1>1, <1>2, <1>5 DEF Fault, Crash, Abandon, nodeVars
<1>6. ASSUME NEW r \in Requests, Proceed(r) PROVE Goal
  <2>1. CASE accepted' = accepted BY <1>1, <2>1
  <2> QED BY <1>2, <1>6, <2>1 DEF Proceed, StoreLockingTx, ClearLockingTx,
       MarkCancelled, StoreBuyerPsbt, ImportInsert, VerifyLockingInputs, CommitOrder,
       MatchListing, CommitOffer, MarkExpired, MarkWithdrawn, SetOfferStatus, nodeVars
<1>7. CASE UNCHANGED vars BY <1>1, <1>7 DEF vars, nodeVars
<1> QED BY <1>3, <1>4, <1>5, <1>6, <1>7 DEF Next, Work

\* A request comes to hold a listing for submit-locking only when the row exists,
\* and for the co-signed flow only when the row read has an active protection.
LEMMA HoldSteps ==
  ASSUME Typed, [Next]_vars, NEW r \in Requests
  PROVE  /\ req'[r].pc = "locking" => req'[r] = req[r] \/ Exists(req'[r].listing)
         /\ req'[r].pc \in {"verify", "submit"} =>
              \/ /\ req[r].pc \in {"verify", "submit"}
                 /\ req'[r].listing = req[r].listing
              \/ listing[req'[r].listing].protection = "active"
<1> DEFINE Goal ==
      /\ req'[r].pc = "locking" => req'[r] = req[r] \/ Exists(req'[r].listing)
      /\ req'[r].pc \in {"verify", "submit"} =>
           \/ req[r].pc \in {"verify", "submit"} /\ req'[r].listing = req[r].listing
           \/ listing[req'[r].listing].protection = "active"
<1> SUFFICES Goal OBVIOUS
<1>1. req[r] \in Request BY DEF Typed, TypeOK
<1>2. CASE req'[r] = req[r] BY <1>2
<1>3. CASE req'[r] = Idle BY <1>3 DEF Idle
<1>4. ASSUME NEW s \in Requests, NEW l \in Listings, SubmitLocking(s, l) PROVE Goal
  <2>1. req'[r] = req[r] \/ req'[r] = [Idle EXCEPT !.pc = "locking", !.listing = l]
    BY <1>4 DEF SubmitLocking, Start, Typed, TypeOK
  <2> QED BY <1>2, <1>4, <2>1 DEF Idle, SubmitLocking
<1>5. ASSUME NEW s \in Requests, NEW l \in Listings,
             CancelListing(s, l) \/ ConfirmListing(s, l) \/ ImportCheck(s, l)
      PROVE  Goal
  <2>1. PICK q : /\ q.pc \notin {"locking", "verify", "submit"}
                 /\ req' = [req EXCEPT ![s] = q]
    BY <1>5 DEF CancelListing, ConfirmListing, ImportCheck, Start, Idle
  <2> QED BY <1>2, <2>1 DEF Typed, TypeOK
<1>6. ASSUME NEW s \in Requests, NEW o \in Offers, AcceptOffer(s, o) \/ CancelOffer(s, o)
      PROVE  Goal
  <2>1. PICK q : /\ q.pc \notin {"locking", "verify", "submit"}
                 /\ req' = [req EXCEPT ![s] = q]
    <3>1. CASE AcceptOffer(s, o)
      <4> DEFINE q == [Idle EXCEPT !.offer = o, !.tx = offer[o].tx,
                         !.pc = IF offer[o].lapsed THEN "expire" ELSE "match"]
      <4>1. q.pc \notin {"locking", "verify", "submit"} BY DEF Idle
      <4>2. req' = [req EXCEPT ![s] = q] BY <3>1 DEF AcceptOffer, Start, Idle
      <4> QED BY <4>1, <4>2
    <3>2. CASE CancelOffer(s, o) BY <3>2 DEF CancelOffer, Start, Idle
    <3> QED BY <1>6, <3>1, <3>2
  <2> QED BY <1>2, <2>1 DEF Typed, TypeOK
<1>7. ASSUME NEW s \in Requests, NEW tx \in built, ConfirmOrder(s, tx) PROVE Goal
  <2>1. PICK flow \in FlowFor(tx.listing, tx), name \in {tx.buyer, Unknown} :
          req' = [req EXCEPT ![s] = [Idle EXCEPT !.pc = flow, !.listing = tx.listing,
                                                 !.tx = tx, !.buyer = name]]
    BY <1>7 DEF ConfirmOrder, Start
  <2>2. \/ req'[r] = req[r]
        \/ req'[r] = [Idle EXCEPT !.pc = flow, !.listing = tx.listing,
                                  !.tx = tx, !.buyer = name]
    BY <2>1 DEF Typed, TypeOK
  <2>3. /\ flow \in {"send", "verify"}
        /\ flow = "verify" => listing[tx.listing].protection = "active"
    BY DEF FlowFor
  <2> QED BY <1>2, <2>2, <2>3 DEF Idle
<1>8. ASSUME NEW s \in Requests, MatchListing(s) PROVE Goal
  <2>1. CASE Finish(s) BY <1>2, <1>3, <2>1 DEF Finish, Typed, TypeOK
  <2>2. ASSUME NEW m \in Matches(s),
               req' = [req EXCEPT ![s].listing = m[1], ![s].pc = m[2]]
        PROVE  Goal
    <3>1. /\ m[2] \in {"send", "verify"}
          /\ m[2] = "verify" => listing[m[1]].protection = "active"
      BY DEF Matches, FlowFor
    <3>2. \/ req'[r] = req[r]
          \/ req'[r].pc = m[2] /\ req'[r].listing = m[1]
      BY <1>1, <2>2 DEF Typed, TypeOK, Request
    <3> QED BY <1>2, <3>1, <3>2
  <2> QED BY <1>8, <2>1, <2>2 DEF MatchListing
<1>9. ASSUME NEW s \in Requests, NEW pc \in {"submit", "record", "delist"},
             Continue(s, pc), pc = "submit" => req[s].pc = "verify"
      PROVE  Goal
  <2>1. \/ req'[r] = req[r]
        \/ r = s /\ req'[r].pc = pc /\ req'[r].listing = req[r].listing
    BY <1>1, <1>9 DEF Continue, Typed, TypeOK, Request
  <2> QED BY <1>2, <1>9, <2>1
<1>10. ASSUME NEW s \in Requests, Finish(s) PROVE Goal
  BY <1>2, <1>3, <1>10 DEF Finish, Typed, TypeOK
<1>11. CASE Client
  <2>1. CASE UNCHANGED req BY <1>2, <2>1
  <2> QED BY <1>4, <1>5, <1>6, <1>7, <1>11, <2>1
          DEF Client, CreateListing, Buy, CreateOffer, Lapse, ExpireStaleOffers
<1>12. CASE Network \/ UNCHANGED vars
  BY <1>2, <1>12 DEF Network, Confirm, OwnerMoves, Evict, vars
<1>13. CASE Fault BY <1>3, <1>10, <1>13 DEF Fault, Crash, Abandon, LoseReply
<1>14. ASSUME NEW s \in Requests, Proceed(s) PROVE Goal
  <2>1. \/ Finish(s) \/ MatchListing(s)
        \/ \E pc \in {"submit", "record", "delist"} :
             Continue(s, pc) /\ (pc = "submit" => req[s].pc = "verify")
    BY <1>14 DEF Proceed, StoreLockingTx, ClearLockingTx, MarkCancelled, StoreBuyerPsbt,
       ImportInsert, VerifyLockingInputs, BroadcastTransaction, SubmitPackage,
       CommitOrder, CommitOffer, MarkExpired, MarkWithdrawn, SetOfferStatus
  <2> QED BY <1>8, <1>9, <1>10, <2>1
<1> QED BY <1>11, <1>12, <1>13, <1>14 DEF Next, Work

\* Until it is stored, a listing's locking transaction is known to nobody.
LEMMA StepNotLocked ==
  ASSUME Typed, NotLockedYet, [Next]_vars
  PROVE  NotLockedYet'
<1> SUFFICES ASSUME NEW l \in Listings,
                    ~Exists(l)' \/ listing'[l].protection = "locking_pending"
             PROVE  /\ ~Exists(l)' =>
                         /\ listing'[l].protection # "active"
                         /\ \A r \in Requests :
                              req'[r].pc = "locking" => req'[r].listing # l
                    /\ LockTx(l) \notin accepted'
                    /\ \A r \in Requests :
                         req'[r].pc \in {"verify", "submit"} => req'[r].listing # l
  <2>1. \A l \in Listings : ~Exists(l)' <=> listing'[l].status = "absent" BY DEF Exists
  <2> QED BY <2>1 DEF NotLockedYet, Exists, LockTx
<1>1. /\ ~Exists(l)' => ~Exists(l) /\ listing'[l].protection # "active"
      /\ ~Exists(l) \/ listing[l].protection = "locking_pending"
  <2>1. CASE listing' = listing BY <2>1 DEF NotLockedYet, Exists
  <2>2. CASE ListingWrite
    <3> DEFINE old == listing[l]
               new == listing'[l]
    <3>1. ~Exists(l) => \A r \in Requests : req[r].pc = "locking" => req[r].listing # l
      BY DEF NotLockedYet
    <3>2. ~Exists(l) => old.protection # "active" BY DEF NotLockedYet
    <3> QED BY <2>2, <3>1, <3>2, ListingWriteEffect DEF Exists
  <2>3. ASSUME NEW r \in Requests, NEW name \in Names, Settle(r, name)
        PROVE  /\ ~Exists(l)' => ~Exists(l) /\ listing'[l].protection # "active"
               /\ ~Exists(l) \/ listing[l].protection = "locking_pending"
    <3>1. listing'[l] = listing[l] \/ listing'[l] = [listing[l] EXCEPT !.status = "sold"]
      BY <2>3 DEF Settle, Typed, TypeOK
    <3>2. listing[l] \in ListingRow BY DEF Typed, TypeOK
    <3> QED BY <3>1, <3>2 DEF ListingRow, Exists, NotLockedYet
  <2> QED BY <2>1, <2>2, <2>3, BookSteps, CommitRow
<1>2. ASSUME NEW r \in Requests, ~Exists(l)', req'[r].pc = "locking"
      PROVE  req'[r].listing # l
  BY <1>1, <1>2, HoldSteps DEF NotLockedYet
<1>3. ASSUME NEW r \in Requests, req'[r].pc \in {"verify", "submit"}
      PROVE  req'[r].listing # l
  BY <1>1, <1>3, HoldSteps DEF NotLockedYet
<1>4. LockTx(l) \notin accepted' BY <1>1, LockSteps DEF NotLockedYet
<1> QED BY <1>1, <1>2, <1>3, <1>4

\* A protected listing keeps its locking transaction while it is protected.
LEMMA StepActive ==
  ASSUME Typed, ActiveHoldsLockingTx, [Next]_vars
  PROVE  ActiveHoldsLockingTx'
<1> SUFFICES ASSUME NEW l \in Listings, listing'[l].protection = "active"
             PROVE  listing'[l].lockingTx
  BY DEF ActiveHoldsLockingTx
<1>1. CASE listing' = listing BY <1>1 DEF ActiveHoldsLockingTx
<1>2. CASE ListingWrite BY <1>2, ListingWriteEffect DEF ActiveHoldsLockingTx
<1>3. ASSUME NEW r \in Requests, NEW name \in Names, Settle(r, name)
      PROVE  listing'[l].lockingTx
  <2>1. listing'[l] = listing[l] \/ listing'[l] = [listing[l] EXCEPT !.status = "sold"]
    BY <1>3 DEF Settle, Typed, TypeOK
  <2>2. listing[l] \in ListingRow BY DEF Typed, TypeOK
  <2> QED BY <2>1, <2>2 DEF ListingRow, ActiveHoldsLockingTx
<1> QED BY <1>1, <1>2, <1>3, BookSteps, CommitRow

-----------------------------------------------------------------------------
\* The inductive invariant and the properties it implies.

LEMMA InitIndInv == Init => IndInv
<1> SUFFICES ASSUME Init PROVE IndInv
  OBVIOUS
<1>1. RequestFields /\ OfferHasTx BY InitTyped DEF Typed
<1>2. RecordAfterAccept /\ NotLockedYet
  BY DEF Init, RecordAfterAccept, NotLockedYet, Idle, NoListing
<1>3. SalesBacked /\ SoldHasSale /\ AcceptedHasSale /\ ActiveHoldsLockingTx
  BY DEF Init, SalesBacked, SoldHasSale, AcceptedHasSale, ActiveHoldsLockingTx, NoListing
<1>4. OwnerIsLastBuyer BY DEF Init, OwnerIsLastBuyer
<1> QED BY <1>1, <1>2, <1>3, <1>4 DEF IndInv

LEMMA StepIndInv == TypeOK /\ IndInv /\ [Next]_vars => (TypeOK /\ IndInv)'
<1> SUFFICES ASSUME TypeOK, IndInv, [Next]_vars PROVE TypeOK' /\ IndInv'
  OBVIOUS
<1>1. Typed BY DEF IndInv, Typed
<1>2. Typed' BY <1>1, StepTyped
<1>3. RecordAfterAccept' /\ SalesBacked' BY <1>1, StepBacked DEF IndInv
<1>4. NotLockedYet' BY <1>1, StepNotLocked DEF IndInv
<1>5. SoldHasSale' BY <1>1, StepSold DEF IndInv
<1>6. AcceptedHasSale' BY <1>1, StepAccepted DEF IndInv
<1>7. OwnerIsLastBuyer' BY <1>1, StepOwner DEF IndInv
<1>8. ActiveHoldsLockingTx' BY <1>1, StepActive DEF IndInv
<1> QED BY <1>2, <1>3, <1>4, <1>5, <1>6, <1>7, <1>8 DEF Typed, IndInv

\* The inductive invariant holds in every reachable state: what each request
\* carries agrees with the rows, the node and the books.
THEOREM Inductive == Spec => [](TypeOK /\ IndInv)
<1>1. Init => TypeOK /\ IndInv BY InitTyped, InitIndInv DEF Typed
<1> QED BY <1>1, StepIndInv, PTL DEF Spec

\* Whatever is dropped, refused or restarted, the table sales holds no sale that
\* the node has not accepted.
THEOREM SalesAreBacked == Spec => []SalesBacked
<1>1. IndInv => SalesBacked BY DEF IndInv
<1> QED BY <1>1, Inductive, PTL

\* No listing is sold without a row of the table sales.
THEOREM SoldIsRecorded == Spec => []SoldHasSale
<1>1. IndInv => SoldHasSale BY DEF IndInv
<1> QED BY <1>1, Inductive, PTL

\* No offer is accepted without the sale row of its own transaction.
THEOREM AcceptedIsBooked == Spec => []AcceptedHasSale
<1>1. IndInv => AcceptedHasSale BY DEF IndInv
<1> QED BY <1>1, Inductive, PTL

\* The owner on record is the buyer of the last recorded sale.
THEOREM OwnerAgreesWithSales == Spec => []OwnerIsLastBuyer
<1>1. IndInv => OwnerIsLastBuyer BY DEF IndInv
<1> QED BY <1>1, Inductive, PTL

\* The "missing locking_raw_tx" error of the protected flow is unreachable.
THEOREM ProtectedHoldsLock == Spec => []ActiveHoldsLockingTx
<1>1. IndInv => ActiveHoldsLockingTx BY DEF IndInv
<1> QED BY <1>1, Inductive, PTL

\* A locking transaction is not broadcast before submit-locking has stored it.
THEOREM LockStaysHome == Spec => []PendingNeverBroadcast
<1>1. IndInv => PendingNeverBroadcast BY DEF IndInv, NotLockedYet, PendingNeverBroadcast
<1> QED BY <1>1, Inductive, PTL

\* The activity feed never reports a sale the table sales does not hold.
THEOREM FeedIsTrue == Spec => []FeedReportsSales
<1>1. Init => FeedReportsSales BY DEF Init, FeedReportsSales
<1>2. TypeOK /\ IndInv /\ FeedReportsSales /\ [Next]_vars => FeedReportsSales'
  BY StepFeed DEF IndInv, Typed
<1> QED BY <1>1, <1>2, Inductive, PTL DEF Spec

\* When an offer becomes accepted its rivals stop being pending, in every step of
\* every behaviour.
THEOREM RivalsAreClosed == Spec => AcceptClosesRivals
<1> DEFINE A == \A o, p \in Offers :
                  /\ offer[o].status # "accepted" /\ offer'[o].status = "accepted"
                  /\ p # o /\ On[p] = On[o]
                  => offer'[p].status # "pending"
<1>1. TypeOK /\ IndInv /\ [Next]_vars => A
  <2> SUFFICES ASSUME Typed, [Next]_vars, NEW o \in Offers, NEW p \in Offers,
                      offer[o].status # "accepted", offer'[o].status = "accepted",
                      p # o, On[p] = On[o]
               PROVE  offer'[p].status # "pending"
    BY DEF IndInv, Typed
  <2>1. PICK r \in Requests : CommitOffer(r) /\ req[r].offer = o BY AcceptedOfferSteps
  <2>2. offer'[p] = IF offer[p].status = "pending"
                    THEN [offer[p] EXCEPT !.status = "cancelled"] ELSE offer[p]
    BY <2>1 DEF CommitOffer
  <2>3. offer[p] \in OfferRow BY DEF Typed, TypeOK
  <2> QED BY <2>2, <2>3 DEF OfferRow
<1>2. AcceptClosesRivals <=> [][A]_vars BY PTL DEF AcceptClosesRivals
<1> HIDE DEF A
<1> QED BY <1>1, <1>2, Inductive, PTL DEF Spec

-----------------------------------------------------------------------------
\* The refinement of SaleBook.

\* A function on 1 .. n+1 that extends one on 1 .. n appends its last value.
LEMMA ExtendIsAppend ==
  ASSUME NEW T, NEW n \in Nat, NEW f \in [1 .. n -> T], NEW g \in [1 .. (n + 1) -> T],
         \A k \in 1 .. n : g[k] = f[k]
  PROVE  g = Append(f, g[n + 1])
<1>1. /\ f \in Seq(T) /\ Len(f) = n
      /\ g \in Seq(T) /\ Len(g) = n + 1
  OBVIOUS
<1> DEFINE h == Append(f, g[n + 1])
<1>2. g[n + 1] \in T OBVIOUS
<1>3. h \in Seq(T) /\ Len(h) = n + 1 /\ \A k \in 1 .. (n + 1) : h[k] = g[k]
  BY <1>1, <1>2, AppendProperties
<1> QED BY <1>1, <1>3, SeqEqual

\* A step adds at most one sale transaction to what the node has accepted, and
\* none when it records a sale.
LEMMA TakenSteps ==
  ASSUME Typed, [Next]_vars
  PROVE  \/ accepted' = accepted
         \/ /\ UNCHANGED <<sales, owner>>
            /\ \E tx \in SaleTxs :
                 accepted' \cap SaleTxs \in {accepted \cap SaleTxs,
                                             (accepted \cap SaleTxs) \cup {tx}}
<1> DEFINE Goal == \/ accepted' = accepted
                   \/ /\ UNCHANGED <<sales, owner>>
                      /\ \E tx \in SaleTxs :
                           accepted' \cap SaleTxs \in {accepted \cap SaleTxs,
                                                       (accepted \cap SaleTxs) \cup {tx}}
<1> SUFFICES Goal OBVIOUS
<1>1. CASE accepted' = accepted BY <1>1
<1>2. ASSUME NEW r \in Requests,
             BroadcastTransaction(r) \/ SubmitPackage(r) \/ LoseReply(r)
      PROVE  Goal
  <2> DEFINE l == req[r].listing
             tx == req[r].tx
  <2>1. tx \in SaleTxs /\ l \in Listings
    BY <1>2 DEF BroadcastTransaction, SubmitPackage, LoseReply, Typed, RequestFields,
                Carries, Purchasing
  <2>2. LockTx(l) \notin SaleTxs
    <3> SUFFICES ASSUME LockTx(l) \in SaleTxs PROVE FALSE OBVIOUS
    <3>1. DOMAIN LockTx(l) = {"lock"} BY DEF LockTx
    <3>2. "listing" \in DOMAIN LockTx(l) BY DEF SaleTxs
    <3> QED BY <3>1, <3>2
  <2>3. UNCHANGED <<sales, owner>>
    BY <1>2 DEF BroadcastTransaction, SubmitPackage, LoseReply, dbVars
  <2>4. \/ accepted' = accepted
        \/ accepted' \in {accepted \cup {tx}, accepted \cup {LockTx(l), tx},
                          accepted \cup {LockTx(l)}}
    BY <1>2 DEF BroadcastTransaction, SubmitPackage, LoseReply, NodeTakes, nodeVars
  <2> HIDE DEF l, tx
  <2> QED BY <2>1, <2>2, <2>3, <2>4
<1>3. CASE Client BY <1>1, <1>3 DEF Client, CreateListing, Buy, CreateOffer, Lapse,
      ExpireStaleOffers, SubmitLocking, CancelListing, ConfirmListing, ImportCheck, ConfirmOrder,
      AcceptOffer, CancelOffer, nodeVars
<1>4. CASE Network BY <1>1, <1>4 DEF Network, Confirm, OwnerMoves, Evict
<1>5. CASE Fault BY <1>1, <1>2, <1>5 DEF Fault, Crash, Abandon, nodeVars
<1>6. ASSUME NEW r \in Requests, Proceed(r) PROVE Goal
  <2>1. CASE accepted' = accepted BY <1>1, <2>1
  <2> QED BY <1>2, <1>6, <2>1 DEF Proceed, StoreLockingTx, ClearLockingTx,
       MarkCancelled, StoreBuyerPsbt, ImportInsert, VerifyLockingInputs, CommitOrder,
       MatchListing, CommitOffer, MarkExpired, MarkWithdrawn, SetOfferStatus, nodeVars
<1>7. CASE UNCHANGED vars BY <1>1, <1>7 DEF vars, nodeVars
<1> QED BY <1>3, <1>4, <1>5, <1>6, <1>7 DEF Next, Work

\* The abstract book of sales, as the refinement mapping sees it.
Entry(s)  == [item |-> On[s.listing], tx |-> s.tx, buyer |-> s.buyer]
BookOf    == [n \in 1 .. Len(sales) |-> Entry(sales[n])]

LEMMA InitBook == Init => Book!Init
<1> SUFFICES ASSUME Init PROVE Book!Init
  OBVIOUS
<1>1. Len(sales) = 0 /\ accepted \cap SaleTxs = {} BY DEF Init
<1>2. [n \in 1 .. Len(sales) |->
         [item |-> On[sales[n].listing], tx |-> sales[n].tx,
          buyer |-> sales[n].buyer]] = <<>>
  BY <1>1
<1> QED BY <1>1, <1>2 DEF Init, Book!Init

\* A commit is a Record of the abstract book.
LEMMA CommitRecords ==
  ASSUME Typed, RecordAfterAccept, NEW r \in Requests, CommitOrder(r) \/ CommitOffer(r)
  PROVE  Book!Next
<1>1. PICK name \in Names :
        LET row == [listing |-> req[r].listing, tx |-> req[r].tx, buyer |-> name,
                    locked |-> req[r].tx.protected]
        IN  /\ Settle(r, name)
            /\ row \in SaleRow
            /\ DOMAIN sales = 1 .. Len(sales)
            /\ Len(sales) \in Nat
            /\ DOMAIN sales' = 1 .. (Len(sales) + 1)
            /\ sales'[Len(sales) + 1] = row
            /\ \A n \in DOMAIN sales : sales'[n] = sales[n]
  BY CommitRow
<1> DEFINE i == On[req[r].listing]
           tx == req[r].tx
           N == Len(sales)
           T == [item: Inscriptions, tx: SaleTxs, buyer: Names]
<1>2. /\ req[r].listing \in Listings /\ tx \in SaleTxs /\ req[r].pc = "record"
  BY DEF CommitOrder, CommitOffer, Typed, RequestFields, Carries, Purchasing
<1>3. i \in Inscriptions BY <1>2
<1>4. tx \in accepted /\ accepted' = accepted
  BY <1>2 DEF RecordAfterAccept, CommitOrder, CommitOffer, nodeVars
<1>5. sales \in Seq(SaleRow) /\ sales' \in Seq(SaleRow) /\ Len(sales') = N + 1
  <2>1. sales' \in Seq(SaleRow) BY <1>2, <1>1, SettleType DEF Typed
  <2> QED BY <1>1, <2>1, LenProperties DEF Typed, TypeOK
<1>6. \A s \in SaleRow : Entry(s) \in T BY DEF Entry, SaleRow
<1>7. BookOf \in [1 .. N -> T]
  <2>1. \A n \in 1 .. N : sales[n] \in SaleRow BY <1>5, ElementOfSeq
  <2> QED BY <1>6, <2>1 DEF BookOf
<1>8. BookOf' = [n \in 1 .. (N + 1) |-> Entry(sales'[n])]
  BY <1>5 DEF BookOf, Entry
<1>9. BookOf' \in [1 .. (N + 1) -> T]
  <2>1. \A n \in 1 .. (N + 1) : sales'[n] \in SaleRow BY <1>5, ElementOfSeq
  <2> QED BY <1>6, <1>8, <2>1
<1>10. \A n \in 1 .. N : BookOf'[n] = BookOf[n]
  BY <1>1, <1>8 DEF BookOf
<1>11. BookOf'[N + 1] = [item |-> i, tx |-> tx, buyer |-> name]
  BY <1>1, <1>8 DEF Entry
<1>12. BookOf' = Append(BookOf, [item |-> i, tx |-> tx, buyer |-> name])
  <2> HIDE DEF T
  <2> QED BY <1>1, <1>7, <1>9, <1>10, <1>11, ExtendIsAppend
<1>13. owner' = [owner EXCEPT ![i] = name] BY <1>1 DEF Settle
<1>14. Book!Record(i, tx, name)
  BY <1>2, <1>4, <1>12, <1>13 DEF Book!Record, BookOf, Entry
<1> QED BY <1>2, <1>3, <1>14 DEF Book!Next

LEMMA StepBook ==
  ASSUME Typed, RecordAfterAccept, [Next]_vars
  PROVE  [Book!Next]_<<accepted \cap SaleTxs, BookOf, owner>>
<1>1. CASE accepted' = accepted /\ UNCHANGED <<sales, owner>>
  BY <1>1 DEF BookOf, Entry
<1>2. CASE UNCHANGED <<sales, owner>> /\ accepted' # accepted
  <2>1. PICK tx \in SaleTxs :
          accepted' \cap SaleTxs \in {accepted \cap SaleTxs,
                                      (accepted \cap SaleTxs) \cup {tx}}
    BY <1>2, TakenSteps
  <2>2. BookOf' = BookOf BY <1>2 DEF BookOf, Entry
  <2>3. CASE accepted' \cap SaleTxs = accepted \cap SaleTxs
    BY <1>2, <2>2, <2>3 DEF SaleTxs
  <2>4. CASE accepted' \cap SaleTxs = (accepted \cap SaleTxs) \cup {tx}
    <3>1. Book!Take(tx) BY <1>2, <2>2, <2>4 DEF Book!Take, BookOf, Entry, SaleTxs
    <3> QED BY <3>1 DEF Book!Next
  <2> QED BY <2>1, <2>3, <2>4
<1>3. ASSUME NEW r \in Requests, CommitOrder(r) \/ CommitOffer(r) PROVE Book!Next
  BY <1>3, CommitRecords
<1> QED BY <1>1, <1>2, <1>3, BookSteps

\* The handlers, the faults and the network implement the abstract book of sales.
THEOREM Refinement == Spec => ImplementsSaleBook
<1>1. TypeOK /\ IndInv /\ [Next]_vars => [Book!Next]_<<accepted \cap SaleTxs, BookOf, owner>>
  BY StepBook DEF IndInv, Typed
<1> QED BY <1>1, InitBook, Inductive, PTL DEF Spec, ImplementsSaleBook, Book!Spec, BookOf, Entry

-----------------------------------------------------------------------------
\* Requests end.

\* A step of one request leaves the others where they are.
LEMMA OthersStay ==
  ASSUME Typed, NEW r \in Requests, NEW s \in Requests, s # r,
         Proceed(r) \/ Abandon(r) \/ LoseReply(r)
  PROVE  req'[s] = req[s]
BY DEF Typed, TypeOK, Proceed, StoreLockingTx, ClearLockingTx, MarkCancelled,
   StoreBuyerPsbt, ImportInsert, VerifyLockingInputs, BroadcastTransaction,
   SubmitPackage, CommitOrder, MatchListing, CommitOffer, MarkExpired,
   MarkWithdrawn, SetOfferStatus, Abandon, LoseReply, Finish, Continue

\* A request in progress is moved by its own steps only, or ended by a fault.
LEMMA RequestMoves ==
  ASSUME Typed, NEW r \in Requests, req[r].pc # "idle"
  PROVE  /\ Work => req'[r] = req[r] \/ Proceed(r)
         /\ Fault => req'[r] \in {req[r], Idle}
<1>1. ASSUME Client PROVE req'[r] = req[r]
  <2>1. CASE UNCHANGED req BY <2>1
  <2>2. ASSUME NEW s \in Requests, NEW q, Start(s, q) PROVE req'[r] = req[r]
    BY <2>2 DEF Start, Typed, TypeOK
  <2> QED BY <1>1, <2>1, <2>2 DEF Client, CreateListing, Buy, CreateOffer, Lapse,
          ExpireStaleOffers, SubmitLocking, CancelListing, ConfirmListing, ImportCheck,
          ConfirmOrder, AcceptOffer, CancelOffer
<1>2. ASSUME Network PROVE req'[r] = req[r]
  BY <1>2 DEF Network, Confirm, OwnerMoves, Evict
<1>3. ASSUME NEW s \in Requests, Proceed(s) PROVE req'[r] = req[r] \/ Proceed(r)
  BY <1>3, OthersStay
<1>4. ASSUME NEW s \in Requests, Abandon(s) \/ LoseReply(s)
      PROVE  req'[r] \in {req[r], Idle}
  <2>1. CASE s = r BY <1>4, <2>1 DEF Abandon, LoseReply, Finish, Typed, TypeOK
  <2>2. CASE s # r BY <1>4, <2>2, OthersStay
  <2> QED BY <2>1, <2>2
<1>5. ASSUME Crash PROVE req'[r] = Idle BY <1>5 DEF Crash
<1> QED BY <1>1, <1>2, <1>3, <1>4, <1>5 DEF Work, Fault

\* Every step of its own brings a request closer to its end.
LEMMA ProceedAdvances ==
  ASSUME Typed, NEW r \in Requests, Proceed(r)
  PROVE  Remaining[req'[r].pc] < Remaining[req[r].pc]
<1> USE DEF Remaining
<1>1. req[r] \in Request BY DEF Typed, TypeOK
<1>2. ASSUME NEW pc \in PCs, Continue(r, pc) PROVE req'[r].pc = pc
  BY <1>1, <1>2 DEF Continue, Request, Typed, TypeOK
<1>3. Finish(r) => req'[r].pc = "idle" BY DEF Finish, Idle, Typed, TypeOK
<1>4. CASE StoreLockingTx(r) \/ MarkCancelled(r) \/ StoreBuyerPsbt(r) \/ ImportInsert(r)
  BY <1>3, <1>4 DEF StoreLockingTx, MarkCancelled, StoreBuyerPsbt, ImportInsert
<1>5. CASE CommitOrder(r) \/ CommitOffer(r) \/ MarkExpired(r) \/ MarkWithdrawn(r)
  BY <1>3, <1>5 DEF CommitOrder, CommitOffer, MarkExpired, MarkWithdrawn, SetOfferStatus
<1>6. CASE ClearLockingTx(r) BY <1>2, <1>6 DEF ClearLockingTx, PCs
<1>7. CASE VerifyLockingInputs(r) BY <1>2, <1>3, <1>7 DEF VerifyLockingInputs, PCs
<1>8. CASE BroadcastTransaction(r) BY <1>2, <1>3, <1>8 DEF BroadcastTransaction, PCs
<1>9. CASE SubmitPackage(r)
  <2>1. req[r].pc = "submit" /\ (Finish(r) \/ Continue(r, "record"))
    BY <1>9 DEF SubmitPackage
  <2> QED BY <1>2, <1>3, <2>1 DEF PCs
<1>10. CASE MatchListing(r)
  <2>1. ASSUME NEW m \in Matches(r), req' = [req EXCEPT ![r].listing = m[1], ![r].pc = m[2]]
        PROVE  req'[r].pc \in {"verify", "send"}
    <3>1. m[2] \in {"verify", "send"} BY DEF Matches
    <3> QED BY <1>1, <2>1, <3>1 DEF Typed, TypeOK, Request
  <2>2. req[r].pc = "match" BY <1>10 DEF MatchListing
  <2>3. req'[r].pc \in {"verify", "send", "idle"}
    BY <1>3, <1>10, <2>1, Zenon DEF MatchListing
  <2> QED BY <2>2, <2>3
<1> QED BY <1>4, <1>5, <1>6, <1>7, <1>8, <1>9, <1>10 DEF Proceed

\* No handler retries or loops: whatever moves a request in progress brings it
\* closer to its end, so that four steps end it.
THEOREM RequestsGoForward == Spec => RequestsAdvance
<1>1. TypeOK /\ IndInv /\ [Next]_vars =>
        \A r \in Requests : \/ req[r].pc = "idle" \/ req'[r] = req[r]
                            \/ Remaining[req'[r].pc] < Remaining[req[r].pc]
  <2> SUFFICES ASSUME Typed, [Next]_vars, NEW r \in Requests,
                      req[r].pc # "idle", req'[r] # req[r]
               PROVE  Remaining[req'[r].pc] < Remaining[req[r].pc]
    BY DEF IndInv, Typed
  <2>1. req[r].pc \in PCs BY DEF Typed, TypeOK, Request
  <2>2. CASE Proceed(r) BY <2>2, ProceedAdvances
  <2>3. CASE req'[r] = Idle BY <2>1, <2>3 DEF Idle, Remaining, PCs
  <2>4. CASE UNCHANGED vars BY <2>4 DEF vars
  <2> QED BY <2>2, <2>3, <2>4, RequestMoves DEF Next
<1> QED BY <1>1, Inductive, TypeCorrect, PTL DEF Spec, RequestsAdvance

-----------------------------------------------------------------------------
\* The books without faults.

\* A sale stays recorded, and a commit records the sale of its request.
LEMMA RecordedSteps ==
  ASSUME Typed, NEW tx \in SaleTxs, [Next]_vars
  PROVE  /\ Recorded(tx) => Recorded(tx)'
         /\ \A r \in Requests :
              (CommitOrder(r) \/ CommitOffer(r)) /\ req[r].tx = tx => Recorded(tx)'
<1>1. ASSUME NEW r \in Requests, CommitOrder(r) \/ CommitOffer(r)
      PROVE  /\ Recorded(tx) => Recorded(tx)'
             /\ req[r].tx = tx => Recorded(tx)'
  <2>1. PICK name \in Names :
          LET row == [listing |-> req[r].listing, tx |-> req[r].tx, buyer |-> name,
                      locked |-> req[r].tx.protected]
          IN  /\ DOMAIN sales = 1 .. Len(sales)
              /\ Len(sales) \in Nat
              /\ DOMAIN sales' = 1 .. (Len(sales) + 1)
              /\ sales'[Len(sales) + 1] = row
              /\ \A n \in DOMAIN sales : sales'[n] = sales[n]
    BY <1>1, CommitRow
  <2>2. sales'[Len(sales) + 1].tx = req[r].tx /\ Len(sales) + 1 \in DOMAIN sales'
    BY <2>1
  <2> QED BY <2>1, <2>2 DEF Recorded
<1>2. CASE UNCHANGED sales BY <1>1, <1>2 DEF Recorded
<1> QED BY <1>1, <1>2, BookSteps

\* Without a fault a sale the node takes is in the hands of the request that sent it.
LEMMA SentSteps ==
  ASSUME Typed, NEW tx \in SaleTxs, tx \notin accepted, tx \in accepted', Work
  PROVE  \E r \in Requests : req'[r].pc = "record" /\ req'[r].tx = tx
<1>1. PICK r \in Requests : BroadcastTransaction(r) \/ SubmitPackage(r)
  BY DEF Work, Client, CreateListing, Buy, CreateOffer, Lapse, ExpireStaleOffers,
     SubmitLocking, CancelListing, ConfirmListing, ImportCheck, ConfirmOrder, AcceptOffer,
     CancelOffer, Network, Confirm, OwnerMoves, Evict, Proceed, StoreLockingTx,
     ClearLockingTx, MarkCancelled, StoreBuyerPsbt, ImportInsert, VerifyLockingInputs,
     CommitOrder, MatchListing, CommitOffer, MarkExpired, MarkWithdrawn, SetOfferStatus,
     nodeVars
<1>2. \A l \in Listings : LockTx(l) # tx
  <2>1. \A l \in Listings : "lock" \in DOMAIN LockTx(l) BY DEF LockTx
  <2>2. "lock" \notin DOMAIN tx BY DEF SaleTxs
  <2> QED BY <2>1, <2>2
<1>3. req[r].listing \in Listings /\ req[r] \in Request
  BY <1>1 DEF BroadcastTransaction, SubmitPackage, Typed, RequestFields, Carries, TypeOK
<1>4. tx = req[r].tx /\ Continue(r, "record")
  <2>1. CASE BroadcastTransaction(r)
    BY <2>1 DEF BroadcastTransaction, NodeTakes, nodeVars
  <2>2. CASE SubmitPackage(r)
    BY <1>2, <1>3, <2>2 DEF SubmitPackage, NodeTakes, nodeVars
  <2> QED BY <1>1, <2>1, <2>2
<1>5. req'[r] = [req[r] EXCEPT !.pc = "record"] BY <1>4 DEF Continue, Typed, TypeOK
<1>6. req'[r].pc = "record" /\ req'[r].tx = req[r].tx BY <1>3, <1>5 DEF Request
<1> QED BY <1>4, <1>6

\* Without a fault a sale that is in hand stays in hand until it is recorded.
LEMMA WorkKeepsSale ==
  ASSUME Typed, NEW tx \in SaleTxs, InHand(tx), [Work]_vars
  PROVE  InHand(tx)'
<1>1. CASE UNCHANGED vars
  BY <1>1 DEF vars, dbVars, nodeVars, InHand, Recorded
<1>2. CASE Work
  <2>1. CASE Recorded(tx)
    BY <1>2, <2>1, RecordedSteps DEF InHand, Next
  <2>2. ASSUME NEW r \in Requests, req[r].pc = "record", req[r].tx = tx
        PROVE  InHand(tx)'
    <3>1. CASE req'[r] = req[r] BY <2>2, <3>1 DEF InHand
    <3>2. CASE Proceed(r)
      <4>1. CommitOrder(r) \/ CommitOffer(r)
        BY <2>2, <3>2 DEF Proceed, StoreLockingTx, ClearLockingTx, MarkCancelled,
           StoreBuyerPsbt, ImportInsert, VerifyLockingInputs, BroadcastTransaction,
           SubmitPackage, MatchListing, MarkExpired, MarkWithdrawn, SetOfferStatus
      <4>2. Recorded(tx)' BY <1>2, <2>2, <4>1, RecordedSteps DEF Next
      <4> QED BY <4>2 DEF InHand
    <3> QED BY <1>2, <2>2, <3>1, <3>2, RequestMoves
  <2>3. CASE tx \notin accepted
    BY <1>2, <2>3, SentSteps DEF InHand
  <2> QED BY <2>1, <2>2, <2>3 DEF InHand
<1> QED BY <1>1, <1>2

AllInHand == \A tx \in SaleTxs : InHand(tx)

\* Nothing is ever missing from the books, or too much on them, but while a
\* request is between its broadcast and its commit: whatever happens to the
\* listing, the offers and the mempool meanwhile, and however many requests run.
THEOREM BooksAreBalanced == ReliableSpec => []BooksBalance
<1>1. Init => AllInHand
  BY DEF Init, AllInHand, InHand
<1>2. Typed /\ AllInHand /\ [Work]_vars => AllInHand'
  BY WorkKeepsSale DEF AllInHand
<1>3. [Work]_vars => [Next]_vars BY DEF Next
<1>4. TypeOK /\ IndInv => Typed BY DEF IndInv, Typed
<1>5. Typed /\ IndInv /\ AllInHand => BooksBalance
  <2> SUFFICES ASSUME Typed, SalesBacked, AllInHand,
                      \A r \in Requests : req[r].pc # "record"
               PROVE  accepted \cap SaleTxs = {sales[n].tx : n \in DOMAIN sales}
    BY DEF IndInv, BooksBalance
  <2>1. ASSUME NEW tx \in accepted \cap SaleTxs
        PROVE  \E n \in DOMAIN sales : sales[n].tx = tx
    BY DEF AllInHand, InHand, Recorded
  <2>2. ASSUME NEW n \in DOMAIN sales PROVE sales[n].tx \in accepted \cap SaleTxs
    <3>1. sales[n] \in SaleRow BY ElementOfSeq DEF Typed, TypeOK
    <3> QED BY <3>1 DEF SaleRow, SalesBacked
  <2> QED BY <2>1, <2>2
<1>6. ReliableSpec => Spec BY <1>3, PTL DEF ReliableSpec, Spec
<1> QED BY <1>1, <1>2, <1>4, <1>5, <1>6, TypeCorrect, Inductive, PTL DEF ReliableSpec

=============================================================================

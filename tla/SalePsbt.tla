------------------------------- MODULE SalePsbt -------------------------------
(***************************************************************************)
(* services/psbt.rs: the transactions of one listing, from the seller's    *)
(* request to the broadcast of a sale, through the routes that call it.    *)
(*                                                                         *)
(* A protected listing moves the inscription to a two-of-two output of the *)
(* seller and the marketplace: the seller signs that locking transaction   *)
(* and, in advance, an input and an output of the sale that will spend it. *)
(* An unprotected listing is one such input and output of the seller's     *)
(* wallet.  A buyer's request completes either into a sale transaction.    *)
(*                                                                         *)
(* Amounts are satoshi in machine words; sizes are quarters of a virtual   *)
(* byte.  A transaction is what its id covers, the scriptSigs included and *)
(* the witnesses not.                                                      *)
(***************************************************************************)
EXTENDS Integers, Sequences

CONSTANTS
  Buyers, Seller,
  SellerKeys,        \* compressed public keys, [odd |-> BOOLEAN, x |-> Nat]
  MarketKey,
  Inscriptions,      \* the seller's coins that may hold the inscription,
  GasCoins,          \* those that may fund the locking transaction, and
  BuyerCoins,        \* the buyers' coins: [kind, value]
  Prices,
  Rates,             \* fee rates, in tenths of a satoshi per virtual byte
  FeeBps,            \* MARKETPLACE_FEE_BPS
  FeeAddress,        \* MARKETPLACE_FEE_ADDRESS, or None
  Word,              \* u64 counts modulo Word
  None

Sats == 0 .. Word - 1

\* A price is a positive BIGINT (a CHECK of the table), and all bitcoin there is
\* fits half a word.
ASSUME AmountsAssumption ==
  /\ Word \in Nat /\ Word > 25000
  /\ \A p \in Prices : p \in Sats /\ p > 0 /\ 2 * p < Word
  /\ \A c \in Inscriptions \cup GasCoins \cup BuyerCoins :
       /\ c.kind \in {"p2sh", "p2wpkh", "p2tr"}
       /\ c.value \in Sats /\ c.value > 0 /\ 2 * c.value < Word
  /\ Rates \subseteq Nat /\ FeeBps \in Nat

VARIABLES
  listing,   \* the row of table listings, with the coins it was created from
  wallet,    \* the seller's: the unsigned locking transaction to be signed
  order,     \* per buyer: the PSBT that was handed out, signed, and its fate
  mempool,   \* transactions the node has taken
  sale       \* rows of table sales

vars == <<listing, wallet, order, mempool, sale>>

-----------------------------------------------------------------------------
\* Sizes and amounts.

Quarters == [p2sh |-> 364, p2wpkh |-> 271, p2tr |-> 230]   \* an input
Vbytes(quarters) == (quarters + 3) \div 4

\* The inscription's coin, and the one that pays for the locking, if any.
Total(coins) == coins[1].value + (IF Len(coins) = 2 THEN coins[2].value ELSE 0)

LockingVbytes(coins) ==
  Vbytes(42 + 172 + Quarters[coins[1].kind]
           + (IF Len(coins) = 2 THEN Quarters[coins[2].kind] ELSE 0))

SaleVbytes(kind) ==
  Vbytes(42 + 430 + Quarters[kind] + 124 * (IF FeeAddress # None /\ FeeBps > 0
                                            THEN 4 ELSE 3))

\* A float that does not fit the word becomes its greatest value.
SaleFee_Unsaturated(kind, rate) == (SaleVbytes(kind) * rate) \div 10

SaleFee(kind, rate) ==
  IF (SaleVbytes(kind) * rate) \div 10 \in Sats
  THEN (SaleVbytes(kind) * rate) \div 10
  ELSE Word - 1

MarketFee(price) ==
  LET share == ((price * FeeBps) % Word) \div 10000
  IN  IF FeeBps = 0 THEN 0 ELSE IF share < 1000 THEN 1000 ELSE share

InscriptionDust == 546

\* Every locking is built at the default rate of one satoshi per virtual byte.
LockedValue(coins) == (Total(coins) - LockingVbytes(coins)) % Word

LockingAccepted_NoMinimum(coins) ==
  /\ Len(coins) = 2 => coins[2].value >= LockingVbytes(coins)
  /\ LockedValue(coins) >= 330

LockingAccepted(coins) ==
  /\ coins[1].value < 343 => Len(coins) = 2
  /\ Len(coins) = 2 => coins[2].value >= LockingVbytes(coins)
  /\ LockedValue(coins) >= 330

-----------------------------------------------------------------------------
\* Transactions and signatures.

Unsigned(coins, outs) ==
  [ins |-> [i \in DOMAIN coins |-> [coin |-> coins[i], scriptSig |-> "empty"]],
   outs |-> outs]

\* Mutant: the inputs of segwit coins get a scriptSig like those of older ones.
Finalized_AsLegacy(tx) ==
  [tx EXCEPT !.ins = [i \in DOMAIN tx.ins |->
     [coin |-> tx.ins[i].coin,
      scriptSig |-> IF tx.ins[i].coin.kind = "p2tr" THEN "empty" ELSE "redeem"]]]

\* Finalizing gives the inputs of wrapped segwit coins their scriptSig.
Finalized(tx) ==
  [tx EXCEPT !.ins = [i \in DOMAIN tx.ins |->
     [coin |-> tx.ins[i].coin,
      scriptSig |-> IF tx.ins[i].coin.kind = "p2sh" THEN "redeem" ELSE "empty"]]]

Pay(to, value) == [to |-> to, value |-> value]
Coin(o, c)     == [owner |-> o, kind |-> c.kind, value |-> c.value]

\* Keys in the order of their compressed form, whose first byte is the parity;
\* the script holds the x coordinates.
Precedes(a, b) ==
  IF a.odd = b.odd THEN a.x <= b.x ELSE ~a.odd

Script(key) ==
  IF Precedes(key, MarketKey) THEN <<key.x, MarketKey.x>>
                              ELSE <<MarketKey.x, key.x>>

LockingTx(key, coins) ==
  Unsigned(coins, <<Pay(Script(key), LockedValue(coins))>>)

LockedCoin(tx) ==
  [owner |-> tx.outs[1].to, kind |-> "multisig", value |-> tx.outs[1].value,
   tx |-> tx]

\* What a signature covers: SINGLE|ANYONECANPAY an input and its output, ALL
\* everything but the scriptSigs.
Single(by, coin, out) == [by |-> by, over |-> <<"single", coin, out>>]
All(by, tx) == [by |-> by, over |-> <<"all", tx>>]

Signed(sig, by, tx, i) ==
  /\ sig.by = by
  /\ \/ sig.over = <<"single", tx.ins[i].coin, tx.outs[i]>>
     \/ sig.over = <<"all", Unsigned([n \in DOMAIN tx.ins |-> tx.ins[n].coin], tx.outs)>>

\* finalize_multisig_and_extract: the signature checked first goes last.
MultisigWitness_ByX(key, sigs) ==
  LET first == IF key.x <= MarketKey.x THEN key ELSE MarketKey
      Of(k) == CHOOSE s \in sigs : s.by = k
  IN  <<Of(key.x + MarketKey.x - first.x), Of(first.x)>>

MultisigWitness(key, sigs) ==
  LET Of(k) == CHOOSE s \in sigs : s.by = k
  IN  <<Of(Script(key)[2]), Of(Script(key)[1])>>

-----------------------------------------------------------------------------
\* The node (external): policy for a package of transactions.

\* No transaction here has more than two inputs and four outputs.
OutValue(tx) ==
  LET Value(n) == IF n \in DOMAIN tx.outs THEN tx.outs[n].value ELSE 0
  IN  Value(1) + Value(2) + Value(3) + Value(4)
InValue(tx) ==
  LET Value(n) == IF n \in DOMAIN tx.ins THEN tx.ins[n].coin.value ELSE 0
  IN  Value(1) + Value(2)

Spends(tx) == {tx.ins[i].coin : i \in DOMAIN tx.ins}
Spent      == UNION {Spends(tx) : tx \in mempool}

DustLimit(out) == IF out.to \in {Seller, FeeAddress} \cup Buyers THEN 294 ELSE 330
Dusty(tx)      == \E i \in DOMAIN tx.outs : tx.outs[i].value < DustLimit(tx.outs[i])

\* wit[i] are the signatures of input i.
ScriptsHold(tx, wit) ==
  \A i \in DOMAIN tx.ins :
    LET coin == tx.ins[i].coin
    IN  IF coin.kind = "multisig"
        THEN \A n \in 1 .. 2 : Signed(wit[i][3 - n], coin.owner[n], tx, i)
        ELSE Signed(wit[i][1], coin.owner, tx, i)

\* Psbt::extract_tx of rust-bitcoin refuses what spends more than it has, and a
\* fee above 25000 sat/vB.
Extractable(tx, vbytes) ==
  InValue(tx) - OutValue(tx) \in 0 .. 25000 * vbytes

-----------------------------------------------------------------------------
\* The handlers.

Stages == {"none", "locking_pending", "active"}   \* protection_status
NoListing == [stage |-> "absent"]
Listing(stage, key, price, coins, lock, sig) ==
  [stage |-> stage, key |-> key, price |-> price, coins |-> coins,
   lock |-> lock, sig |-> sig]

NoOrder == [pc |-> "idle"]

Init ==
  /\ listing = NoListing
  /\ wallet = None
  /\ order = [b \in Buyers |-> NoOrder]
  /\ mempool = {}
  /\ sale = {}

\* POST /listings with the seller's key; the response carries the locking PSBT
\* and the sale template, which is a function of it.
CreateProtected(key, coins, price) ==
  /\ listing.stage = "absent"
  /\ LockingAccepted(coins)
  /\ listing' = Listing("locking_pending", key, price, coins, None, None)
  /\ wallet' = LockingTx(key, coins)
  /\ UNCHANGED <<order, mempool, sale>>

\* POST /listings without a key, with the seller's signed PSBT.
CreateUnprotected(coin, price) ==
  /\ listing.stage = "absent"
  /\ listing' = Listing("none", None, price, <<coin>>, None,
                        Single(Seller, coin, Pay(Seller, price)))
  /\ UNCHANGED <<wallet, order, mempool, sale>>

\* The seller signs both: the template spends the output of the locking
\* transaction as it was before it was signed.
SubmitLocking ==
  /\ listing.stage = "locking_pending"
  /\ listing' = Listing("active", listing.key, listing.price, listing.coins,
                        Finalized(wallet),
                        Single(listing.key.x, LockedCoin(wallet),
                               Pay(Seller, listing.price)))
  /\ UNCHANGED <<wallet, order, mempool, sale>>

\* What a sale spends in its first input.
Offered == IF listing.stage = "active" THEN LockedCoin(listing.lock)
                                       ELSE listing.coins[1]

Required_NoMarketFee(coin, rate) ==
  (listing.price + InscriptionDust + SaleFee(coin.kind, rate)) % Word

Required(coin, rate) ==
  (listing.price + InscriptionDust + SaleFee(coin.kind, rate)
     + MarketFee(listing.price)) % Word

Change(coin, rate) ==
  (coin.value - listing.price - InscriptionDust - SaleFee(coin.kind, rate)
     - MarketFee(listing.price)) % Word

SaleTx_ShareOnly(b, coin, rate) ==
  Unsigned(<<Offered, coin>>,
    <<Pay(Seller, listing.price), Pay(b, InscriptionDust), Pay(b, Change(coin, rate))>>
      \o (IF FeeAddress # None /\ FeeBps > 0
          THEN <<Pay(FeeAddress, (listing.price * FeeBps) \div 10000)>> ELSE <<>>))

SaleTx(b, coin, rate) ==
  Unsigned(<<Offered, coin>>,
    <<Pay(Seller, listing.price), Pay(b, InscriptionDust), Pay(b, Change(coin, rate))>>
      \o (IF FeeAddress # None /\ MarketFee(listing.price) > 0
          THEN <<Pay(FeeAddress, MarketFee(listing.price))>> ELSE <<>>))

\* POST /orders/buy builds the PSBT; the buyer signs its own input.
Buy(b, coin, rate) ==
  /\ listing.stage \in {"none", "active"}
  /\ order[b].pc = "idle"
  /\ coin.value >= Required(coin, rate)
  /\ LET tx == SaleTx(b, coin, rate)
     IN  order' = [order EXCEPT ![b] =
           [pc |-> "signed", tx |-> tx, coin |-> coin, rate |-> rate,
            fee |-> SaleFee(coin.kind, rate), sigs |-> {listing.sig, All(b, tx)}]]
  /\ UNCHANGED <<listing, wallet, mempool, sale>>

\* POST /orders/confirm: the marketplace signs, the inputs are finalized, the
\* node gets the sale with the locking transaction it spends.
Witnesses(b) ==
  LET o == order[b]
  IN  <<IF listing.stage = "active"
        THEN MultisigWitness(listing.key, o.sigs \cup {All(MarketKey.x, o.tx)})
        ELSE <<listing.sig>>,
        <<All(b, o.tx)>>>>

Package(b) ==
  {Finalized(order[b].tx)}
    \cup IF listing.stage = "active" THEN {listing.lock} ELSE {}

PackageVbytes(b) ==
  SaleVbytes(order[b].coin.kind)
    + (IF listing.stage = "active" THEN LockingVbytes(listing.coins) ELSE 0)

\* The locking adds a fee of its size at one satoshi per virtual byte.
PackageFee(b) ==
  InValue(order[b].tx) - OutValue(order[b].tx)
    + (IF listing.stage = "active" THEN LockingVbytes(listing.coins) ELSE 0)

Conflicts(b) == (Spends(order[b].tx) \cup {listing.coins[1]}) \cap Spent # {}

Accepted(b) ==
  /\ Extractable(order[b].tx, SaleVbytes(order[b].coin.kind))
  /\ ~Conflicts(b)
  /\ ~Dusty(order[b].tx)
  /\ PackageFee(b) >= PackageVbytes(b)
  /\ ScriptsHold(order[b].tx, Witnesses(b))

ConfirmOrder(b) ==
  /\ order[b].pc = "signed"
  /\ IF Accepted(b)
     THEN /\ order' = [order EXCEPT ![b].pc = "sold"]
          /\ mempool' = mempool \cup Package(b)
          /\ sale' = sale \cup {[buyer |-> b, price |-> listing.price,
                                 fee |-> MarketFee(listing.price),
                                 tx |-> Finalized(order[b].tx)]}
     ELSE /\ order' = [order EXCEPT ![b].pc = "refused"]
          /\ UNCHANGED <<mempool, sale>>
  /\ UNCHANGED <<listing, wallet>>

Locking == {<<Coin(Seller, c)>> : c \in Inscriptions}
             \cup {<<Coin(Seller, c), Coin(Seller, g)>> : c \in Inscriptions, g \in GasCoins}

Next ==
  \/ \E key \in SellerKeys, coins \in Locking, price \in Prices :
       CreateProtected(key, coins, price)
  \/ \E c \in Inscriptions, price \in Prices :
       CreateUnprotected(Coin(Seller, c), price)
  \/ SubmitLocking
  \/ \E b \in Buyers, c \in BuyerCoins, rate \in Rates : Buy(b, Coin(b, c), rate)
  \/ \E b \in Buyers : ConfirmOrder(b)

Spec == Init /\ [][Next]_vars

-----------------------------------------------------------------------------
\* Amounts stay in their word and every row keeps its shape.
TypeOK ==
  /\ listing.stage \in Stages \cup {"absent"}
  /\ \A b \in Buyers :
       /\ order[b].pc \in {"idle", "signed", "sold", "refused"}
       /\ order[b].pc # "idle" =>
            /\ order[b].fee \in Sats
            /\ \A i \in DOMAIN order[b].tx.outs : order[b].tx.outs[i].value \in Sats
  /\ \A r \in sale : r.buyer \in Buyers /\ r.price \in Prices

\* build_locking_psbt: the locking transaction spends what it has, pays for its
\* size at the minimum relay rate and locks no dust, for any gas input and
\* whatever the arithmetic of the word does.
LockingFunded ==
  wallet # None =>
    /\ OutValue(wallet) + LockingVbytes(listing.coins) = InValue(wallet)
    /\ ~Dusty(wallet)

\* The sum that buy compares with the buyer's coin, in full.
Outlay(o) == listing.price + InscriptionDust + o.fee + MarketFee(listing.price)

\* A buyer pays what the response of buy quotes and no more: the price, the dust,
\* the fee and the marketplace's fee, exactly, if their sum fits the word; and no
\* transaction spends more than it has even at the rate that saturates the fee.
\* (At a rate in between the sum wraps and neither holds.)
QuoteHolds ==
  \A b \in Buyers : order[b].pc # "idle" =>
    LET o == order[b]
    IN  /\ Outlay(o) < Word =>
             o.coin.value - o.tx.outs[3].value = Outlay(o)
        /\ Outlay(o) < Word \/ o.fee = Word - 1 =>
             OutValue(o.tx) <= InValue(o.tx)

\* What may stop a sale that buy has built and the buyer has signed: another sale
\* of the listing went through, an output is too small to relay, the requested
\* rate was below the node's or out of range, what goes to the fee (the coin sold,
\* and the marketplace's share where nobody is there to receive it) is more than a
\* library accepts as one, or a wrapped coin was locked (see PlannedLockIsSpent).
UnpaidMarketFee == IF FeeAddress = None THEN MarketFee(listing.price) ELSE 0

Excused(b) ==
  \/ Conflicts(b)
  \/ Dusty(order[b].tx)
  \/ order[b].rate < 10
  \/ Outlay(order[b]) >= Word
  \/ Offered.value + order[b].fee + UnpaidMarketFee
       > 25000 * SaleVbytes(order[b].coin.kind)
  \/ listing.stage = "active" /\ \E n \in DOMAIN listing.coins :
                                    listing.coins[n].kind = "p2sh"

\* A sale goes through unless one of these stops it, whichever of the two keys
\* of a protected listing sorts first.
PurchaseCompletes ==
  \A b \in Buyers : order[b].pc = "refused" => Excused(b)

\* The books agree with the chain: a row of sales stands for a broadcast
\* transaction that pays the seller its price, the marketplace the fee on
\* record, and the only one for the listing.
BooksMatchChain ==
  \A r \in sale :
    /\ r.tx \in mempool
    /\ \E i \in DOMAIN r.tx.outs : r.tx.outs[i] = Pay(Seller, r.price)
    /\ r.fee > 0 /\ FeeAddress # None =>
         \E i \in DOMAIN r.tx.outs : r.tx.outs[i] = Pay(FeeAddress, r.fee)
    /\ \A q \in sale : q = r

\* The seller signs in advance the sale of the output that the locking
\* transaction will have once it is signed (services/psbt.rs:692), which is so
\* unless an input of it is wrapped segwit: the scriptSig changes the id.
PlannedLockIsSpent ==
  listing.stage = "active" =>
    \/ listing.sig.over[2] = LockedCoin(listing.lock)
    \/ \E n \in DOMAIN listing.coins : listing.coins[n].kind = "p2sh"

\* Ordinals are first in, first out: the inscription, on the first satoshi of
\* the first input, is in the first output with a value.
InscriptionOutput(tx) ==
  tx.outs[CHOOSE i \in DOMAIN tx.outs :
            tx.outs[i].value > 0 /\ \A j \in 1 .. i - 1 : tx.outs[j].value = 0]

\* A sale delivers: the inscription of a recorded sale is in an output of its
\* buyer, who becomes the owner on record.
BuyerHoldsInscription ==
  \A r \in sale : InscriptionOutput(r.tx).to = r.buyer
=============================================================================

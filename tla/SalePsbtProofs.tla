---------------------------- MODULE SalePsbtProofs ----------------------------
(***************************************************************************)
(* Proofs about SalePsbt, for all coins, prices, fee rates and words.      *)
(***************************************************************************)
EXTENDS SalePsbt, SequenceTheorems, TLAPS

USE AmountsAssumption

-----------------------------------------------------------------------------
\* Amounts.

Kinds == {"p2sh", "p2wpkh", "p2tr"}

\* A coin of either side: its value is positive and below half a word.
LEMMA CoinTyped ==
  ASSUME NEW o, NEW c \in Inscriptions \cup GasCoins \cup BuyerCoins
  PROVE  /\ Coin(o, c).owner = o /\ Coin(o, c).kind \in Kinds
         /\ Coin(o, c).kind = c.kind /\ Coin(o, c).value = c.value
         /\ Coin(o, c).value \in Nat /\ Coin(o, c).value > 0
         /\ 2 * Coin(o, c).value < Word
BY DEF Coin, Kinds, Sats

\* An input of any kind has a size.
LEMMA InputSize ==
  ASSUME NEW k \in Kinds
  PROVE  Quarters[k] \in 230 .. 364
<1>1. Quarters["p2sh"] = 364 /\ Quarters["p2wpkh"] = 271 /\ Quarters["p2tr"] = 230
  BY DEF Quarters
<1> QED BY <1>1 DEF Kinds

\* The coins of a locking transaction: the inscription's, and one for gas or none.
LEMMA LockingCoins ==
  ASSUME NEW coins \in Locking
  PROVE  /\ Len(coins) \in {1, 2} /\ DOMAIN coins = 1 .. Len(coins)
         /\ \A n \in DOMAIN coins :
              /\ coins[n].kind \in Kinds /\ coins[n].value \in Nat
              /\ coins[n].value > 0 /\ 2 * coins[n].value < Word
<1>1. CASE \E c \in Inscriptions : coins = <<Coin(Seller, c)>>
  <2>1. PICK c \in Inscriptions : coins = <<Coin(Seller, c)>> BY <1>1
  <2>2. Len(coins) = 1 /\ DOMAIN coins = 1 .. 1 /\ coins[1] = Coin(Seller, c)
    BY <2>1
  <2>3. \A n \in DOMAIN coins : coins[n] = Coin(Seller, c) BY <2>2
  <2> QED BY <2>2, <2>3, CoinTyped
<1>2. CASE \E c \in Inscriptions, g \in GasCoins :
              coins = <<Coin(Seller, c), Coin(Seller, g)>>
  <2>1. PICK c \in Inscriptions, g \in GasCoins :
          coins = <<Coin(Seller, c), Coin(Seller, g)>>
    BY <1>2
  <2>2. /\ Len(coins) = 2 /\ DOMAIN coins = 1 .. 2
        /\ coins[1] = Coin(Seller, c) /\ coins[2] = Coin(Seller, g)
    BY <2>1
  <2>3. \A n \in DOMAIN coins : coins[n] \in {Coin(Seller, c), Coin(Seller, g)}
    BY <2>2
  <2> QED BY <2>2, <2>3, CoinTyped
<1> QED BY <1>1, <1>2 DEF Locking

\* The size of a locking transaction; one without a gas input has at most 145
\* virtual bytes.
LEMMA LockingSize ==
  ASSUME NEW coins \in Locking
  PROVE  /\ LockingVbytes(coins) \in Nat
         /\ Len(coins) = 1 => LockingVbytes(coins) <= 145
<1> DEFINE q(n) == Quarters[coins[n].kind]
<1>1. Len(coins) \in {1, 2} /\ \A n \in 1 .. Len(coins) : coins[n].kind \in Kinds
  BY LockingCoins
<1>2. coins[1].kind \in Kinds /\ (Len(coins) = 2 => coins[2].kind \in Kinds)
  BY <1>1
<1>3. q(1) \in 230 .. 364 /\ (Len(coins) = 2 => q(2) \in 230 .. 364)
  BY <1>2, InputSize
<1>4. LockingVbytes(coins) =
        (42 + 172 + q(1) + (IF Len(coins) = 2 THEN q(2) ELSE 0) + 3) \div 4
  BY DEF LockingVbytes, Vbytes
<1> HIDE DEF q
<1>5. CASE Len(coins) = 1
  <2>1. LockingVbytes(coins) = (217 + q(1)) \div 4 BY <1>3, <1>4, <1>5
  <2> QED BY <1>3, <1>5, <2>1
<1>6. CASE Len(coins) = 2
  <2>1. LockingVbytes(coins) = (42 + 172 + q(1) + q(2) + 3) \div 4 BY <1>4, <1>6
  <2> QED BY <1>3, <1>6, <2>1
<1> QED BY <1>1, <1>5, <1>6

\* An accepted locking does not wrap: it locks what the fee leaves of the coins,
\* and that is no dust.
LEMMA LockedExactly ==
  ASSUME NEW coins \in Locking, LockingAccepted(coins)
  PROVE  /\ LockedValue(coins) + LockingVbytes(coins) = Total(coins)
         /\ LockedValue(coins) \in Sats /\ LockedValue(coins) >= 330
<1> DEFINE v == LockingVbytes(coins)
           t == Total(coins)
<1>1. v \in Nat /\ (Len(coins) = 1 => v <= 145) BY LockingSize
<1>2. t \in Nat /\ t < Word /\ v <= t
  <2>1. CASE Len(coins) = 1
    <3>1. coins[1].value \in Nat /\ 2 * coins[1].value < Word
      BY <2>1, LockingCoins
    <3>2. coins[1].value >= 343
      BY <2>1, <3>1 DEF LockingAccepted
    <3> HIDE DEF v
    <3> QED BY <1>1, <2>1, <3>1, <3>2 DEF Total
  <2>2. CASE Len(coins) = 2
    <3>1. /\ coins[1].value \in Nat /\ 2 * coins[1].value < Word
          /\ coins[2].value \in Nat /\ 2 * coins[2].value < Word
      BY <2>2, LockingCoins
    <3>2. coins[2].value >= v
      BY <2>2 DEF LockingAccepted
    <3> HIDE DEF v
    <3> QED BY <1>1, <2>2, <3>1, <3>2 DEF Total
  <2> QED BY <2>1, <2>2, LockingCoins
<1>3. LockedValue(coins) = (t - v) % Word BY DEF LockedValue
<1>4. LockedValue(coins) >= 330 BY DEF LockingAccepted
<1> HIDE DEF v, t
<1>5. t - v \in 0 .. Word - 1 BY <1>1, <1>2
<1>6. (t - v) % Word = t - v BY <1>5
<1>7. LockedValue(coins) + v = t /\ LockedValue(coins) \in Sats
  BY <1>1, <1>2, <1>3, <1>5, <1>6 DEF Sats
<1> QED BY <1>4, <1>7 DEF v, t

\* The marketplace's fee is a small part of a word, whatever the price and rate.
LEMMA MarketFeeFits ==
  ASSUME NEW price \in Prices
  PROVE  /\ MarketFee(price) \in Sats
         /\ price + InscriptionDust + MarketFee(price) < Word
<1> DEFINE w == (price * FeeBps) % Word
           share == w \div 10000
<1>1. price \in Nat /\ 2 * price < Word BY DEF Sats
<1>2. price * FeeBps \in Nat BY <1>1
<1>3. w \in 0 .. Word - 1 BY <1>2
<1>4. MarketFee(price) \in {0, 1000, share} BY DEF MarketFee
<1> HIDE DEF w
<1>5. share \in Nat /\ 10000 * share <= w BY <1>3
<1> HIDE DEF share
<1>6. MarketFee(price) \in Nat /\ 10000 * MarketFee(price) < 10000000 + Word
  BY <1>3, <1>4, <1>5
<1> QED BY <1>1, <1>6 DEF Sats, InscriptionDust

\* The fee of a sale is an amount at any rate.
LEMMA SaleFeeFits ==
  ASSUME NEW k \in Kinds, NEW rate \in Rates
  PROVE  SaleFee(k, rate) \in Sats
BY DEF SaleFee, Sats

-----------------------------------------------------------------------------
\* The inductive invariant.

\* The listing and the seller's wallet: what a protected one locks has been
\* accepted, and its signature is for the output as it was planned.
ListingBuilt ==
  \/ /\ listing = NoListing /\ wallet = None
     /\ \A b \in Buyers : order[b].pc = "idle"
  \/ /\ wallet = None
     /\ \E c \in Inscriptions, price \in Prices :
          listing = Listing("none", None, price, <<Coin(Seller, c)>>, None,
                            Single(Seller, Coin(Seller, c), Pay(Seller, price)))
  \/ \E key \in SellerKeys, coins \in Locking, price \in Prices :
       /\ LockingAccepted(coins) /\ wallet = LockingTx(key, coins)
       /\ \/ /\ listing = Listing("locking_pending", key, price, coins, None, None)
             /\ \A b \in Buyers : order[b].pc = "idle"
          \/ listing = Listing("active", key, price, coins, Finalized(wallet),
                         Single(key.x, LockedCoin(wallet), Pay(Seller, price)))

\* Each order's PSBT is the one that buy builds from the listing as it is now, with
\* the signatures of the seller and the buyer.
OrderedFor(o, b) ==
  /\ DOMAIN o = {"pc", "tx", "coin", "rate", "fee", "sigs"}
  /\ o.pc \in {"signed", "sold", "refused"}
  /\ o.sigs = {listing.sig, All(b, o.tx)}
  /\ \E c \in BuyerCoins, rate \in Rates :
       /\ o.tx = SaleTx(b, Coin(b, c), rate) /\ o.coin = Coin(b, c)
       /\ o.rate = rate /\ o.fee = SaleFee(c.kind, rate)
       /\ c.value >= Required(Coin(b, c), rate)

OrdersBuilt ==
  /\ DOMAIN order = Buyers
  /\ \A b \in Buyers :
       \E o \in {order[b]} :
         \/ o = NoOrder
         \/ listing.stage \in {"none", "active"} /\ OrderedFor(o, b)

\* Every row of sales is an order's, and the node has it: so there is one at most.
SalesBuilt ==
  /\ \A r \in sale : \E b \in Buyers :
       /\ order[b].pc = "sold" /\ Finalized(order[b].tx) \in mempool
       /\ r = [buyer |-> b, price |-> listing.price, fee |-> MarketFee(listing.price),
               tx |-> Finalized(order[b].tx)]
  /\ \A q, r \in sale : q = r

Built == ListingBuilt /\ OrdersBuilt /\ SalesBuilt

\* Finalizing changes neither what a transaction spends nor what it pays.
LEMMA FinalizedKeeps ==
  ASSUME NEW coins, NEW outs
  PROVE  LET tx == Unsigned(coins, outs)
         IN  /\ Finalized(tx).outs = outs /\ tx.outs = outs
             /\ DOMAIN tx.ins = DOMAIN coins
             /\ DOMAIN Finalized(tx).ins = DOMAIN coins
             /\ \A n \in DOMAIN coins : /\ tx.ins[n].coin = coins[n]
                                        /\ Finalized(tx).ins[n].coin = coins[n]
BY DEF Finalized, Unsigned

\* A listing that can be bought has a price, and the value of what it offers is
\* positive.
LEMMA OfferedTyped ==
  ASSUME ListingBuilt, listing.stage \in {"none", "active"}
  PROVE  /\ listing.price \in Prices
         /\ Offered.value \in Nat /\ Offered.value > 0
<1>1. listing # NoListing BY DEF NoListing
<1>2. CASE \E c \in Inscriptions, price \in Prices :
          listing = Listing("none", None, price, <<Coin(Seller, c)>>, None,
                            Single(Seller, Coin(Seller, c), Pay(Seller, price)))
  <2>1. PICK c \in Inscriptions, price \in Prices :
          listing = Listing("none", None, price, <<Coin(Seller, c)>>, None,
                            Single(Seller, Coin(Seller, c), Pay(Seller, price)))
    BY <1>2
  <2>2. /\ listing.stage = "none" /\ listing.price = price
        /\ listing.coins = <<Coin(Seller, c)>>
    BY <2>1 DEF Listing
  <2>3. Offered = Coin(Seller, c) BY <2>2 DEF Offered
  <2> QED BY <2>2, <2>3, CoinTyped
<1>3. ASSUME NEW key \in SellerKeys, NEW coins \in Locking, NEW price \in Prices,
             LockingAccepted(coins), wallet = LockingTx(key, coins),
             listing = Listing("active", key, price, coins, Finalized(wallet),
                         Single(key.x, LockedCoin(wallet), Pay(Seller, price)))
      PROVE  /\ listing.price \in Prices
             /\ Offered.value \in Nat /\ Offered.value > 0
  <2>1. /\ listing.stage = "active" /\ listing.price = price
        /\ listing.lock = Finalized(wallet)
    BY <1>3 DEF Listing
  <2>2. listing.lock.outs = <<Pay(Script(key), LockedValue(coins))>>
    BY <1>3, <2>1, FinalizedKeeps DEF LockingTx
  <2>3. Offered.value = LockedValue(coins)
    BY <2>1, <2>2 DEF Offered, LockedCoin, Pay
  <2> QED BY <1>3, <2>1, <2>3, LockedExactly DEF Sats
<1>4. \A key \in SellerKeys, coins \in Locking, price \in Prices :
        listing # Listing("locking_pending", key, price, coins, None, None)
  BY DEF Listing
<1> QED BY <1>1, <1>2, <1>3, <1>4 DEF ListingBuilt

\* Three outputs, and a fourth one or none.
LEMMA Outputs ==
  ASSUME NEW x, NEW y, NEW z, NEW u
  PROVE  /\ <<x, y, z>> \o <<>> = <<x, y, z>>
         /\ <<x, y, z>> \o <<u>> = <<x, y, z, u>>
<1> DEFINE S == {x, y, z, u}
           s == <<x, y, z>>
<1>1. s \in Seq(S) /\ <<u>> \in Seq(S) /\ <<x, y, z, u>> \in Seq(S) /\ <<>> \in Seq(S)
  OBVIOUS
<1>2. s \o <<>> = s
  BY <1>1, ConcatEmptySeq
<1>3. s \o <<u>> = <<x, y, z, u>>
  <2> DEFINE r == s \o <<u>>
             e == <<u>>
             f == <<x, y, z, u>>
  <2>1. Len(s) = 3 /\ Len(e) = 1 /\ Len(f) = 4 OBVIOUS
  <2>2. /\ r \in Seq(S) /\ Len(r) = Len(s) + Len(e)
        /\ \A i \in 1 .. Len(s) + Len(e) :
             r[i] = IF i <= Len(s) THEN s[i] ELSE e[i - Len(s)]
    BY <1>1, ConcatProperties
  <2>3. /\ s[1] = x /\ s[2] = y /\ s[3] = z /\ e[1] = u
        /\ f[1] = x /\ f[2] = y /\ f[3] = z /\ f[4] = u
    OBVIOUS
  <2>4. f \in Seq(S) BY <1>1
  <2> HIDE DEF r, e, s, f
  <2>5. \A i \in 1 .. 4 : r[i] = f[i]
    BY <2>1, <2>2, <2>3
  <2>6. r = f BY <2>1, <2>2, <2>4, <2>5, SeqEqual
  <2> QED BY <2>6 DEF r, e, s, f
<1> QED BY <1>2, <1>3

\* The inputs and outputs of a sale.
LEMMA SaleShape ==
  ASSUME NEW b, NEW coin, NEW rate
  PROVE  LET tx  == SaleTx(b, coin, rate)
             fee == MarketFee(listing.price)
             n   == IF FeeAddress # None /\ fee > 0 THEN 4 ELSE 3
         IN  /\ DOMAIN tx.ins = 1 .. 2 /\ DOMAIN tx.outs = 1 .. n
             /\ tx.ins[1].coin = Offered /\ tx.ins[2].coin = coin
             /\ tx.outs[1] = Pay(Seller, listing.price)
             /\ tx.outs[2] = Pay(b, InscriptionDust)
             /\ tx.outs[3] = Pay(b, Change(coin, rate))
             /\ n = 4 => tx.outs[4] = Pay(FeeAddress, fee)
             /\ DOMAIN Finalized(tx).ins = 1 .. 2 /\ Finalized(tx).outs = tx.outs
             /\ Finalized(tx).ins[1].coin = Offered
             /\ Finalized(tx).ins[2].coin = coin
<1> DEFINE tx  == SaleTx(b, coin, rate)
           fee == MarketFee(listing.price)
           three == <<Pay(Seller, listing.price), Pay(b, InscriptionDust),
                      Pay(b, Change(coin, rate))>>
           last == IF FeeAddress # None /\ fee > 0 THEN <<Pay(FeeAddress, fee)>> ELSE <<>>
           outs == three \o last
           coins == <<Offered, coin>>
<1>1. tx = Unsigned(coins, outs) BY DEF SaleTx
<1>2. DOMAIN coins = 1 .. 2 /\ coins[1] = Offered /\ coins[2] = coin
  OBVIOUS
<1> HIDE DEF coins
<1>3. CASE FeeAddress # None /\ fee > 0
  <2>0. last = <<Pay(FeeAddress, fee)>> BY <1>3
  <2> HIDE DEF last
  <2>1. outs = <<Pay(Seller, listing.price), Pay(b, InscriptionDust),
                 Pay(b, Change(coin, rate)), Pay(FeeAddress, fee)>>
    BY <2>0, Outputs
  <2> HIDE DEF outs
  <2>2. /\ DOMAIN outs = 1 .. 4 /\ outs[1] = Pay(Seller, listing.price)
        /\ outs[2] = Pay(b, InscriptionDust) /\ outs[3] = Pay(b, Change(coin, rate))
        /\ outs[4] = Pay(FeeAddress, fee)
    BY <2>1
  <2> HIDE DEF fee, tx
  <2> QED BY <1>1, <1>2, <1>3, <2>2, FinalizedKeeps DEF fee, tx
<1>4. CASE ~(FeeAddress # None /\ fee > 0)
  <2>0. last = <<>> BY <1>4
  <2> HIDE DEF last
  <2>1. outs = three BY <2>0, Outputs
  <2> HIDE DEF outs
  <2>2. /\ DOMAIN outs = 1 .. 3 /\ outs[1] = Pay(Seller, listing.price)
        /\ outs[2] = Pay(b, InscriptionDust) /\ outs[3] = Pay(b, Change(coin, rate))
    BY <2>1
  <2> HIDE DEF tx
  <2>3. /\ tx.outs = outs /\ Finalized(tx).outs = outs
        /\ DOMAIN tx.ins = 1 .. 2 /\ DOMAIN Finalized(tx).ins = 1 .. 2
        /\ tx.ins[1].coin = Offered /\ Finalized(tx).ins[1].coin = Offered
        /\ tx.ins[2].coin = coin /\ Finalized(tx).ins[2].coin = coin
    BY <1>1, <1>2, FinalizedKeeps
  <2> QED BY <1>4, <2>2, <2>3 DEF tx
<1> QED BY <1>3, <1>4

-----------------------------------------------------------------------------
\* What the invariant implies.

\* The amounts of a locking transaction.
LEMMA LockingShape ==
  ASSUME NEW key, NEW coins \in Locking
  PROVE  LET tx == LockingTx(key, coins)
         IN  /\ tx.outs = <<Pay(Script(key), LockedValue(coins))>>
             /\ DOMAIN tx.ins = DOMAIN coins
             /\ \A n \in DOMAIN coins : tx.ins[n].coin = coins[n]
             /\ OutValue(tx) = LockedValue(coins) /\ InValue(tx) = Total(coins)
<1> DEFINE tx == LockingTx(key, coins)
<1>1. /\ tx.outs = <<Pay(Script(key), LockedValue(coins))>>
      /\ DOMAIN tx.ins = DOMAIN coins
      /\ \A n \in DOMAIN coins : tx.ins[n].coin = coins[n]
  BY DEF LockingTx, Unsigned
<1>2. Len(coins) \in {1, 2} /\ DOMAIN coins = 1 .. Len(coins)
  BY LockingCoins
<1>3. \A n \in DOMAIN coins : tx.ins[n].coin = coins[n] /\ coins[n].value \in Nat
  <2>1. ASSUME NEW n \in DOMAIN coins PROVE coins[n].value \in Nat
    BY LockingCoins
  <2>2. \A n \in DOMAIN coins : tx.ins[n].coin = coins[n] BY <1>1
  <2> QED BY <2>1, <2>2
<1>4. /\ DOMAIN tx.outs = 1 .. 1 /\ tx.outs[1].value = LockedValue(coins)
  BY <1>1 DEF Pay
<1> HIDE DEF tx
<1>5. LockedValue(coins) \in Int
  <2>1. LockingVbytes(coins) \in Nat BY LockingSize
  <2>2. coins[1].value \in Nat /\ (Len(coins) = 2 => coins[2].value \in Nat)
    BY <1>2, <1>3
  <2>3. Total(coins) \in Nat BY <2>2 DEF Total
  <2> QED BY <2>1, <2>3 DEF LockedValue
<1>6. OutValue(tx) = LockedValue(coins)
  BY <1>4, <1>5 DEF OutValue
<1>7. InValue(tx) = Total(coins)
  BY <1>1, <1>2, <1>3 DEF InValue, Total
<1> QED BY <1>1, <1>6, <1>7 DEF tx

\* The locking transaction balances.
LEMMA Funded == ListingBuilt => LockingFunded
<1> SUFFICES ASSUME ListingBuilt, wallet # None PROVE LockingFunded
  BY DEF LockingFunded
<1>1. PICK key \in SellerKeys, coins \in Locking, price \in Prices :
        /\ LockingAccepted(coins) /\ wallet = LockingTx(key, coins)
        /\ listing.coins = coins
  BY DEF ListingBuilt, Listing
<1>2. OutValue(wallet) + LockingVbytes(listing.coins) = InValue(wallet)
  BY <1>1, LockingShape, LockedExactly
<1>3. ~Dusty(wallet)
  <2>1. wallet.outs = <<Pay(Script(key), LockedValue(coins))>>
    BY <1>1, LockingShape
  <2>2. /\ DOMAIN wallet.outs = 1 .. 1
        /\ wallet.outs[1].value = LockedValue(coins)
    BY <2>1 DEF Pay
  <2>3. LockedValue(coins) \in Nat /\ LockedValue(coins) >= 330
    BY <1>1, LockedExactly DEF Sats
  <2>4. DustLimit(wallet.outs[1]) \in {294, 330} BY DEF DustLimit
  <2> QED BY <2>2, <2>3, <2>4 DEF Dusty
<1> QED BY <1>2, <1>3 DEF LockingFunded

\* The output is the planned one unless an input gets a scriptSig.
LEMMA Planned == ListingBuilt => PlannedLockIsSpent
<1> SUFFICES ASSUME ListingBuilt, listing.stage = "active",
                    \A n \in DOMAIN listing.coins : listing.coins[n].kind # "p2sh"
             PROVE  listing.sig.over[2] = LockedCoin(listing.lock)
  BY DEF PlannedLockIsSpent
<1>1. PICK key \in SellerKeys, coins \in Locking, price \in Prices :
        /\ wallet = LockingTx(key, coins) /\ listing.coins = coins
        /\ listing.lock = Finalized(wallet)
        /\ listing.sig = Single(key.x, LockedCoin(wallet), Pay(Seller, price))
  BY DEF ListingBuilt, Listing, NoListing
<1>2. /\ DOMAIN wallet.ins = DOMAIN coins
      /\ \A n \in DOMAIN coins : wallet.ins[n].coin = coins[n]
  BY <1>1, LockingShape
<1>3. \A n \in DOMAIN coins :
        [coin |-> wallet.ins[n].coin,
         scriptSig |-> IF wallet.ins[n].coin.kind = "p2sh" THEN "redeem" ELSE "empty"]
          = [coin |-> coins[n], scriptSig |-> "empty"]
  <2> TAKE n \in DOMAIN coins
  <2>1. wallet.ins[n].coin = coins[n] BY <1>2
  <2>2. coins[n].kind # "p2sh" BY <1>1
  <2> QED BY <2>1, <2>2
<1>4. wallet = [ins |-> [n \in DOMAIN coins |-> [coin |-> coins[n], scriptSig |-> "empty"]],
                outs |-> <<Pay(Script(key), LockedValue(coins))>>]
  BY <1>1 DEF LockingTx, Unsigned
<1>5. Finalized(wallet) = wallet
  <2> DEFINE ins == [n \in DOMAIN wallet.ins |->
                      [coin |-> wallet.ins[n].coin,
                       scriptSig |-> IF wallet.ins[n].coin.kind = "p2sh" THEN "redeem"
                                     ELSE "empty"]]
  <2>1. ins = wallet.ins BY <1>2, <1>3, <1>4
  <2>2. Finalized(wallet) = [wallet EXCEPT !.ins = ins] BY DEF Finalized
  <2>3. wallet = [ins |-> wallet.ins, outs |-> wallet.outs] BY <1>4
  <2> HIDE DEF ins
  <2> QED BY <2>1, <2>2, <2>3
<1>6. listing.sig.over[2] = LockedCoin(wallet) BY <1>1 DEF Single
<1> QED BY <1>1, <1>5, <1>6

\* What is known of an order that has been built.
LEMMA OrderBuilt ==
  ASSUME Built, NEW b \in Buyers, order[b].pc # "idle"
  PROVE  /\ listing.stage \in {"none", "active"}
         /\ listing.price \in Prices
         /\ order[b].pc \in {"signed", "sold", "refused"}
         /\ \E c \in BuyerCoins, rate \in Rates :
              /\ order[b].coin = Coin(b, c) /\ order[b].fee = SaleFee(c.kind, rate)
              /\ order[b].tx = SaleTx(b, Coin(b, c), rate)
              /\ c.value >= Required(Coin(b, c), rate)
<1>1. order[b] # NoOrder BY DEF NoOrder
<1> QED BY <1>1, OfferedTyped DEF Built, OrdersBuilt, OrderedFor

\* The transaction of an order is a sale.
LEMMA OrderTx ==
  ASSUME Built, NEW b \in Buyers, order[b].pc # "idle"
  PROVE  \E c \in BuyerCoins, rate \in Rates : order[b].tx = SaleTx(b, Coin(b, c), rate)
<1>1. PICK c \in BuyerCoins, rate \in Rates :
        /\ order[b].coin = Coin(b, c) /\ order[b].fee = SaleFee(c.kind, rate)
        /\ order[b].tx = SaleTx(b, Coin(b, c), rate)
        /\ c.value >= Required(Coin(b, c), rate)
  BY OrderBuilt
<1> QED BY <1>1

\* The sums of words that buy computes: what it requires and what is left.
LEMMA SumsFit ==
  ASSUME NEW outlay \in Nat, NEW value \in Nat, value < Word, value >= outlay % Word
  PROVE  /\ (value - outlay) % Word \in Sats
         /\ outlay < Word => (value - outlay) % Word = value - outlay
         /\ outlay >= Word /\ outlay < 2 * Word =>
              (value - outlay) % Word = value - outlay + Word
<1>1. (value - outlay) % Word \in Sats BY DEF Sats
<1>2. ASSUME outlay < Word PROVE (value - outlay) % Word = value - outlay
  <2>1. outlay % Word = outlay BY <1>2
  <2>2. value - outlay \in 0 .. Word - 1 BY <2>1
  <2> QED BY <2>2
<1>3. ASSUME outlay >= Word, outlay < 2 * Word
      PROVE  (value - outlay) % Word = value - outlay + Word
  <2>1. outlay - Word \in 0 .. Word - 1 BY <1>3
  <2>2. outlay % Word = outlay - Word BY <1>3, <2>1
  <2>3. value - outlay + Word \in 0 .. Word - 1 BY <2>1, <2>2
  <2>4. (value - outlay) % Word = (value - outlay + Word) % Word BY <2>3
  <2> QED BY <2>3, <2>4
<1> QED BY <1>1, <1>2, <1>3

\* A built order costs what was quoted, and what is left of its inputs is the coin
\* sold, the fee, and the marketplace's fee if nobody receives it.
LEMMA Balanced ==
  ASSUME Built, NEW b \in Buyers, order[b].pc # "idle"
  PROVE  LET o == order[b]
         IN  /\ Outlay(o) < Word =>
                  /\ o.coin.value - o.tx.outs[3].value = Outlay(o)
                  /\ InValue(o.tx) - OutValue(o.tx)
                       = Offered.value + o.fee + UnpaidMarketFee
             /\ Outlay(o) < Word \/ o.fee = Word - 1 =>
                  OutValue(o.tx) <= InValue(o.tx)
<1>1. PICK c \in BuyerCoins, rate \in Rates :
        /\ order[b].coin = Coin(b, c) /\ order[b].fee = SaleFee(c.kind, rate)
        /\ order[b].tx = SaleTx(b, Coin(b, c), rate)
        /\ c.value >= Required(Coin(b, c), rate)
  BY OrderBuilt
<1> DEFINE o == order[b]
           v == c.value
           p == listing.price
           m == MarketFee(p)
           f == o.fee
           sum == p + InscriptionDust + f + m
           change == (v - sum) % Word
           offered == Offered.value
           last == IF FeeAddress # None /\ m > 0 THEN m ELSE 0
<1>2. /\ p \in Nat /\ p > 0 /\ m \in Nat /\ p + 546 + m < Word
      /\ v \in Nat /\ v < Word /\ offered \in Nat /\ offered > 0
      /\ f \in Nat /\ f <= Word - 1 /\ InscriptionDust = 546
  <2>1. p \in Prices /\ offered \in Nat /\ offered > 0
    BY OrderBuilt, OfferedTyped DEF Built
  <2>2. m \in Nat /\ p + 546 + m < Word
    BY <2>1, MarketFeeFits DEF Sats, InscriptionDust
  <2>3. c.kind \in Kinds /\ v \in Nat /\ v < Word BY DEF Sats, Kinds
  <2>4. f \in Sats BY <1>1, <2>3, SaleFeeFits
  <2> QED BY <2>1, <2>2, <2>3, <2>4 DEF Sats, InscriptionDust
<1>3. Outlay(o) = sum BY DEF Outlay
<1>4. Coin(b, c).kind = c.kind /\ Coin(b, c).value = v BY CoinTyped
<1>5. Required(Coin(b, c), rate) = sum % Word /\ v >= sum % Word
  BY <1>1, <1>4 DEF Required
<1>6. Change(Coin(b, c), rate) = change
  <2>1. Change(Coin(b, c), rate) = (v - p - InscriptionDust - f - m) % Word
    BY <1>1, <1>4 DEF Change
  <2>2. v - p - InscriptionDust - f - m = v - sum BY <1>2
  <2> QED BY <2>1, <2>2
<1>7. /\ DOMAIN o.tx.ins = 1 .. 2
      /\ o.tx.ins[1].coin = Offered /\ o.tx.ins[2].coin.value = v
      /\ DOMAIN o.tx.outs = 1 .. (IF FeeAddress # None /\ m > 0 THEN 4 ELSE 3)
      /\ o.tx.outs[1].value = p /\ o.tx.outs[2].value = 546
      /\ o.tx.outs[3].value = change
      /\ FeeAddress # None /\ m > 0 => o.tx.outs[4].value = m
  <2>1. /\ o.tx.outs[1] = Pay(Seller, p) /\ o.tx.outs[2] = Pay(b, InscriptionDust)
        /\ o.tx.outs[3] = Pay(b, Change(Coin(b, c), rate))
        /\ FeeAddress # None /\ m > 0 => o.tx.outs[4] = Pay(FeeAddress, m)
    BY <1>1, SaleShape
  <2>2. /\ DOMAIN o.tx.ins = 1 .. 2
        /\ o.tx.ins[1].coin = Offered /\ o.tx.ins[2].coin = Coin(b, c)
        /\ DOMAIN o.tx.outs = 1 .. (IF FeeAddress # None /\ m > 0 THEN 4 ELSE 3)
    BY <1>1, SaleShape
  <2>3. \A to, value : Pay(to, value).value = value BY DEF Pay
  <2> HIDE DEF o, v, m, f, change, offered
  <2> QED BY <1>2, <1>4, <1>6, <2>1, <2>2, <2>3 DEF v
<1>8. o.coin.value = v BY <1>1, <1>4
<1> HIDE DEF o, v, m, f, change, offered
<1>9. InValue(o.tx) = offered + v
  BY <1>2, <1>7 DEF InValue, offered
<1>10. sum \in Nat /\ change \in Sats BY <1>2, <1>5, SumsFit DEF change
<1>11. OutValue(o.tx) = p + 546 + change + last
  <2>1. CASE FeeAddress # None /\ m > 0
    <3>1. DOMAIN o.tx.outs = 1 .. 4 /\ last = m BY <1>7, <2>1
    <3> HIDE DEF last, sum
    <3> QED BY <1>2, <1>7, <1>10, <2>1, <3>1 DEF OutValue, Sats
  <2>2. CASE ~(FeeAddress # None /\ m > 0)
    <3>1. DOMAIN o.tx.outs = 1 .. 3 BY <1>7, <2>2
    <3>2. last = 0 BY <2>2
    <3> HIDE DEF last, sum
    <3>3. /\ 1 \in DOMAIN o.tx.outs /\ 2 \in DOMAIN o.tx.outs
          /\ 3 \in DOMAIN o.tx.outs /\ 4 \notin DOMAIN o.tx.outs
      BY <3>1
    <3>4. OutValue(o.tx)
            = o.tx.outs[1].value + o.tx.outs[2].value + o.tx.outs[3].value + 0
      BY <3>3 DEF OutValue
    <3>5. o.tx.outs[1].value = p /\ o.tx.outs[2].value = 546 /\ o.tx.outs[3].value = change
      BY <1>7
    <3> QED BY <1>2, <1>10, <3>2, <3>4, <3>5 DEF Sats
  <2> QED BY <2>1, <2>2
<1>12. last \in Nat /\ last <= m /\ m - last = UnpaidMarketFee
  BY <1>2 DEF UnpaidMarketFee, m
<1> HIDE DEF last
<1>13. ASSUME sum < Word
       PROVE  /\ change = v - sum /\ OutValue(o.tx) <= InValue(o.tx)
              /\ InValue(o.tx) - OutValue(o.tx) = offered + f + UnpaidMarketFee
  <2>1. change = v - sum BY <1>2, <1>5, <1>10, <1>13, SumsFit DEF change
  <2> QED BY <1>2, <1>9, <1>11, <1>12, <2>1
<1>14. ASSUME f = Word - 1
       PROVE  OutValue(o.tx) <= InValue(o.tx)
  <2>1. sum >= Word /\ sum < 2 * Word BY <1>2, <1>14
  <2>2. change = v - sum + Word BY <1>2, <1>5, <1>10, <2>1, SumsFit DEF change
  <2> QED BY <1>2, <1>9, <1>11, <1>12, <1>14, <2>2
<1>15. sum < Word => o.coin.value - o.tx.outs[3].value = sum
  BY <1>2, <1>7, <1>8, <1>13
<1> QED BY <1>3, <1>13, <1>14, <1>15 DEF o, f, offered

LEMMA Quoted == Built => QuoteHolds
BY Balanced DEF QuoteHolds

\* Rows and amounts are typed.
LEMMA Typed == Built => TypeOK
<1> SUFFICES ASSUME Built PROVE TypeOK OBVIOUS
<1>1. listing.stage \in Stages \cup {"absent"}
  BY DEF Built, ListingBuilt, Listing, NoListing, Stages
<1>2. ASSUME NEW b \in Buyers
      PROVE  order[b].pc \in {"idle", "signed", "sold", "refused"}
  BY OrderBuilt
<1>3. ASSUME NEW b \in Buyers, order[b].pc # "idle"
      PROVE  /\ order[b].fee \in Sats
             /\ \A i \in DOMAIN order[b].tx.outs : order[b].tx.outs[i].value \in Sats
  <2>1. PICK c \in BuyerCoins, rate \in Rates :
          /\ order[b].fee = SaleFee(c.kind, rate)
          /\ order[b].tx = SaleTx(b, Coin(b, c), rate)
          /\ c.value >= Required(Coin(b, c), rate)
    BY <1>3, OrderBuilt
  <2> DEFINE p == listing.price
             m == MarketFee(p)
             outs == order[b].tx.outs
             f == SaleFee(c.kind, rate)
             sum == p + InscriptionDust + f + m
  <2>2. p \in Prices /\ p \in Sats /\ m \in Sats /\ InscriptionDust \in Sats
    BY <1>3, OrderBuilt, MarketFeeFits DEF InscriptionDust, Sats
  <2>3. order[b].fee \in Sats /\ f \in Sats
    <3>1. c.kind \in Kinds BY DEF Kinds
    <3> QED BY <2>1, <3>1, SaleFeeFits
  <2>4. Change(Coin(b, c), rate) \in Sats
    <3>1. Coin(b, c).kind = c.kind /\ Coin(b, c).value = c.value /\ c.value \in Nat
      BY CoinTyped DEF Sats
    <3>2. Change(Coin(b, c), rate) = (c.value - p - InscriptionDust - f - m) % Word
      BY <3>1 DEF Change
    <3> HIDE DEF f, m
    <3>3. c.value - p - InscriptionDust - f - m \in Int BY <2>2, <2>3, <3>1 DEF Sats
    <3> QED BY <3>2, <3>3 DEF Sats
  <2>5. /\ DOMAIN outs \subseteq 1 .. 4
        /\ outs[1] = Pay(Seller, p) /\ outs[2] = Pay(b, InscriptionDust)
        /\ outs[3] = Pay(b, Change(Coin(b, c), rate))
        /\ 4 \in DOMAIN outs => outs[4] = Pay(FeeAddress, m)
    BY <2>1, SaleShape
  <2>6. \A to, value : Pay(to, value).value = value BY DEF Pay
  <2> HIDE DEF outs, m
  <2>7. ASSUME NEW i \in DOMAIN outs PROVE outs[i].value \in Sats
    <3>1. i \in {1, 2, 3, 4} BY <2>5
    <3> QED BY <2>2, <2>4, <2>5, <2>6, <3>1
  <2> QED BY <2>3, <2>7 DEF outs
<1>4. ASSUME NEW r \in sale PROVE r.buyer \in Buyers /\ r.price \in Prices
  <2>1. PICK b \in Buyers :
          /\ order[b].pc = "sold"
          /\ r = [buyer |-> b, price |-> listing.price, fee |-> MarketFee(listing.price),
                  tx |-> Finalized(order[b].tx)]
    BY DEF Built, SalesBuilt
  <2> QED BY <2>1, OrderBuilt
<1> QED BY <1>1, <1>2, <1>3, <1>4 DEF TypeOK

\* A row of sales is backed by a transaction that pays what it says.
LEMMA Booked == Built => BooksMatchChain
<1> SUFFICES ASSUME Built, NEW r \in sale
             PROVE  /\ r.tx \in mempool
                    /\ \E i \in DOMAIN r.tx.outs : r.tx.outs[i] = Pay(Seller, r.price)
                    /\ r.fee > 0 /\ FeeAddress # None =>
                         \E i \in DOMAIN r.tx.outs : r.tx.outs[i] = Pay(FeeAddress, r.fee)
                    /\ \A q \in sale : q = r
  BY DEF BooksMatchChain
<1>1. PICK b \in Buyers :
        /\ order[b].pc = "sold" /\ Finalized(order[b].tx) \in mempool
        /\ r = [buyer |-> b, price |-> listing.price, fee |-> MarketFee(listing.price),
                tx |-> Finalized(order[b].tx)]
  BY DEF Built, SalesBuilt
<1>2. PICK c \in BuyerCoins, rate \in Rates : order[b].tx = SaleTx(b, Coin(b, c), rate)
  BY <1>1, OrderBuilt
<1> DEFINE m == MarketFee(listing.price)
<1>3. /\ r.price = listing.price /\ r.fee = m /\ r.tx = Finalized(order[b].tx)
  BY <1>1
<1>4. /\ DOMAIN r.tx.outs = 1 .. (IF FeeAddress # None /\ m > 0 THEN 4 ELSE 3)
      /\ r.tx.outs[1] = Pay(Seller, listing.price)
      /\ FeeAddress # None /\ m > 0 => r.tx.outs[4] = Pay(FeeAddress, m)
  BY <1>2, <1>3, SaleShape
<1>5. 1 \in DOMAIN r.tx.outs /\ (FeeAddress # None /\ m > 0 => 4 \in DOMAIN r.tx.outs)
  BY <1>4
<1>6. \A q \in sale : q = r BY DEF Built, SalesBuilt
<1> HIDE DEF m
<1> QED BY <1>1, <1>3, <1>4, <1>5, <1>6

-----------------------------------------------------------------------------
\* What an honest purchase meets at the node.

\* What is known of an order that has been built, with its rate and signatures.
LEMMA OrderParts ==
  ASSUME Built, NEW b \in Buyers, order[b].pc # "idle"
  PROVE  /\ listing.stage \in {"none", "active"}
         /\ order[b].sigs = {listing.sig, All(b, order[b].tx)}
         /\ order[b].rate \in Rates
         /\ \E c \in BuyerCoins :
              /\ order[b].coin = Coin(b, c)
              /\ order[b].fee = SaleFee(c.kind, order[b].rate)
              /\ order[b].tx = SaleTx(b, Coin(b, c), order[b].rate)
<1>1. order[b] # NoOrder BY DEF NoOrder
<1> QED BY <1>1 DEF Built, OrdersBuilt, OrderedFor

\* A sale has a size.
LEMMA SaleSize ==
  ASSUME NEW k \in Kinds
  PROVE  SaleVbytes(k) \in Nat /\ SaleVbytes(k) > 0
<1>1. Quarters[k] \in 230 .. 364 BY InputSize
<1> DEFINE n == IF FeeAddress # None /\ FeeBps > 0 THEN 4 ELSE 3
<1>2. n \in {3, 4} OBVIOUS
<1>3. SaleVbytes(k) = (42 + 430 + Quarters[k] + 124 * n + 3) \div 4
  BY DEF SaleVbytes, Vbytes
<1> HIDE DEF n
<1> QED BY <1>1, <1>2, <1>3

\* At one satoshi per virtual byte or more, a fee that is not saturated pays for
\* the size.
LEMMA FeePaysSize ==
  ASSUME NEW k \in Kinds, NEW rate \in Rates, rate >= 10,
         SaleFee(k, rate) # Word - 1
  PROVE  SaleFee(k, rate) >= SaleVbytes(k)
<1> DEFINE n == SaleVbytes(k)
           product == n * rate
<1>1. n \in Nat /\ rate \in Nat BY SaleSize
<1>2. SaleFee(k, rate) = product \div 10 BY DEF SaleFee
<1> HIDE DEF n
<1>3. product \in Nat /\ product >= 10 * n
  <2>1. rate - 10 \in Nat BY <1>1
  <2>2. n * (rate - 10) \in Nat BY <1>1, <2>1
  <2>3. product = n * (rate - 10) + 10 * n BY <1>1
  <2> DEFINE rest == n * (rate - 10)
  <2> HIDE DEF rest, product
  <2>4. rest \in Nat /\ product = rest + 10 * n BY <2>2, <2>3 DEF rest
  <2> QED BY <1>1, <2>4
<1> HIDE DEF product
<1>4. product \div 10 >= n BY <1>1, <1>3
<1> QED BY <1>2, <1>4 DEF n

\* A signature over everything signs a sale's either input.
LEMMA AllSigns ==
  ASSUME NEW b, NEW coin, NEW rate, NEW by, NEW i \in 1 .. 2
  PROVE  Signed(All(by, SaleTx(b, coin, rate)), by, SaleTx(b, coin, rate), i)
<1> DEFINE tx == SaleTx(b, coin, rate)
           coins == <<Offered, coin>>
           restored == [n \in DOMAIN tx.ins |-> tx.ins[n].coin]
<1>1. PICK outs : tx = Unsigned(coins, outs) BY DEF SaleTx
<1>2. DOMAIN coins = 1 .. 2 /\ coins = [n \in 1 .. 2 |-> coins[n]] OBVIOUS
<1> HIDE DEF tx, coins
<1>3. /\ tx.outs = outs /\ DOMAIN tx.ins = 1 .. 2
      /\ \A n \in 1 .. 2 : tx.ins[n].coin = coins[n]
  BY <1>1, <1>2, FinalizedKeeps
<1>4. restored = coins BY <1>2, <1>3
<1> HIDE DEF restored
<1>5. tx = Unsigned(restored, tx.outs) BY <1>1, <1>3, <1>4
<1>6. All(by, tx).by = by /\ All(by, tx).over = <<"all", tx>> BY DEF All
<1>7. Signed(All(by, tx), by, tx, i) BY <1>5, <1>6 DEF Signed, restored
<1> QED BY <1>7 DEF tx

\* A signature over the first input and its output signs them.
LEMMA SingleSigns ==
  ASSUME NEW b, NEW coin, NEW rate, NEW by
  PROVE  Signed(Single(by, Offered, Pay(Seller, listing.price)), by,
                SaleTx(b, coin, rate), 1)
<1> DEFINE tx == SaleTx(b, coin, rate)
           sig == Single(by, Offered, Pay(Seller, listing.price))
<1>1. tx.ins[1].coin = Offered /\ tx.outs[1] = Pay(Seller, listing.price)
  BY SaleShape
<1>2. sig.by = by /\ sig.over = <<"single", Offered, Pay(Seller, listing.price)>>
  BY DEF Single
<1> HIDE DEF tx, sig
<1> QED BY <1>1, <1>2 DEF Signed, tx, sig

\* finalize_multisig_and_extract orders the witness for the script, whichever key
\* sorts first and whoever else signed: its n-th signature from the end is by the
\* script's n-th key.
LEMMA WitnessOrdered ==
  ASSUME NEW key, NEW sigs, NEW n \in 1 .. 2,
         \E s \in sigs : s.by = key.x, \E s \in sigs : s.by = MarketKey.x
  PROVE  /\ MultisigWitness(key, sigs)[3 - n] \in sigs
         /\ MultisigWitness(key, sigs)[3 - n].by = Script(key)[n]
<1> DEFINE Of(k) == CHOOSE s \in sigs : s.by = k
           wit == <<Of(Script(key)[2]), Of(Script(key)[1])>>
<1>1. \A k \in {key.x, MarketKey.x} : Of(k) \in sigs /\ Of(k).by = k
  <2> TAKE k \in {key.x, MarketKey.x}
  <2>1. \E s \in sigs : s.by = k OBVIOUS
  <2> QED BY <2>1
<1>2. Script(key)[n] \in {key.x, MarketKey.x} BY DEF Script
<1>3. MultisigWitness(key, sigs) = wit BY DEF MultisigWitness
<1> HIDE DEF Of
<1>4. wit[3 - n] = Of(Script(key)[n])
  <2>1. CASE n = 1 BY <2>1
  <2>2. CASE n = 2 BY <2>2
  <2> QED BY <2>1, <2>2
<1> HIDE DEF wit
<1> QED BY <1>1, <1>2, <1>3, <1>4

\* The witnesses of an order hold, unless a wrapped coin was locked.
LEMMA WitnessesHold ==
  ASSUME Built, NEW b \in Buyers, order[b].pc # "idle",
         listing.stage = "active" =>
           \A n \in DOMAIN listing.coins : listing.coins[n].kind # "p2sh"
  PROVE  ScriptsHold(order[b].tx, Witnesses(b))
<1> DEFINE tx == order[b].tx
           wit == Witnesses(b)
           coin(i) == tx.ins[i].coin
<1>1. PICK c \in BuyerCoins, rate \in Rates : tx = SaleTx(b, Coin(b, c), rate)
  BY OrderTx
<1>2. DOMAIN tx.ins = 1 .. 2 /\ coin(1) = Offered /\ coin(2) = Coin(b, c)
  BY <1>1, SaleShape
<1>3. /\ wit[1] = IF listing.stage = "active"
                   THEN MultisigWitness(listing.key,
                                        order[b].sigs \cup {All(MarketKey.x, tx)})
                   ELSE <<listing.sig>>
      /\ wit[2] = <<All(b, tx)>>
  BY DEF Witnesses
<1> HIDE DEF wit
<1>4. \A by : \A i \in 1 .. 2 : Signed(All(by, tx), by, tx, i)
  BY <1>1, AllSigns
<1>5. \A by : Signed(Single(by, Offered, Pay(Seller, listing.price)), by, tx, 1)
  BY <1>1, SingleSigns
<1> HIDE DEF tx
<1>6. ASSUME listing.stage = "none"
      PROVE  coin(1).kind # "multisig" /\ Signed(wit[1][1], coin(1).owner, tx, 1)
  <2>1. PICK d \in Inscriptions, price \in Prices :
          listing = Listing("none", None, price, <<Coin(Seller, d)>>, None,
                            Single(Seller, Coin(Seller, d), Pay(Seller, price)))
    BY <1>6 DEF Built, ListingBuilt, Listing, NoListing
  <2>2. /\ listing.price = price /\ listing.coins = <<Coin(Seller, d)>>
        /\ listing.sig = Single(Seller, Coin(Seller, d), Pay(Seller, price))
    BY <2>1 DEF Listing
  <2>3. Offered = Coin(Seller, d) BY <1>6, <2>2 DEF Offered
  <2>4. coin(1).kind \in Kinds /\ coin(1).owner = Seller BY <1>2, <2>3, CoinTyped
  <2>5. wit[1][1] = Single(Seller, Offered, Pay(Seller, listing.price))
    BY <1>3, <1>6, <2>2, <2>3
  <2> QED BY <1>5, <2>4, <2>5 DEF Kinds
<1>7. ASSUME listing.stage = "active", NEW n \in 1 .. 2
      PROVE  coin(1).kind = "multisig" /\ Signed(wit[1][3 - n], coin(1).owner[n], tx, 1)
  <2>1. PICK key \in SellerKeys, coins \in Locking, price \in Prices :
          /\ wallet = LockingTx(key, coins)
          /\ listing = Listing("active", key, price, coins, Finalized(wallet),
                         Single(key.x, LockedCoin(wallet), Pay(Seller, price)))
    BY <1>7 DEF Built, ListingBuilt, Listing, NoListing
  <2>2. /\ listing.price = price /\ listing.key = key
        /\ listing.lock = Finalized(wallet)
        /\ listing.sig = Single(key.x, LockedCoin(wallet), Pay(Seller, price))
    BY <2>1 DEF Listing
  <2>3. Offered = LockedCoin(listing.lock) BY <1>7 DEF Offered
  <2>4. Offered.kind = "multisig" /\ Offered.owner = Script(key)
    <3>1. listing.lock.outs = <<Pay(Script(key), LockedValue(coins))>>
      BY <2>1, <2>2, FinalizedKeeps DEF LockingTx
    <3> QED BY <2>3, <3>1 DEF LockedCoin, Pay
  <2>5. listing.sig = Single(key.x, Offered, Pay(Seller, listing.price))
    <3>1. listing.sig.over[2] = LockedCoin(listing.lock)
      BY <1>7, Planned DEF Built, PlannedLockIsSpent
    <3>2. listing.sig.over[2] = LockedCoin(wallet) BY <2>2 DEF Single
    <3> QED BY <2>2, <2>3, <3>1, <3>2
  <2> DEFINE sigs == {listing.sig, All(b, tx), All(MarketKey.x, tx)}
             s == MultisigWitness(key, sigs)[3 - n]
  <2>6. order[b].sigs = {listing.sig, All(b, tx)} BY OrderParts DEF tx
  <2>7. wit[1] = MultisigWitness(key, sigs)
    <3>1. order[b].sigs \cup {All(MarketKey.x, tx)} = sigs BY <2>6
    <3> HIDE DEF sigs
    <3> QED BY <1>3, <1>7, <2>2, <3>1
  <2>8. s \in sigs /\ s.by = Script(key)[n]
    <3>1. listing.sig.by = key.x /\ All(MarketKey.x, tx).by = MarketKey.x
      BY <2>2 DEF Single, All
    <3>2. (\E q \in sigs : q.by = key.x) /\ (\E q \in sigs : q.by = MarketKey.x)
      BY <3>1
    <3> HIDE DEF sigs
    <3> QED BY <3>2, WitnessOrdered
  <2>9. ASSUME NEW q \in sigs PROVE Signed(q, q.by, tx, 1)
    <3>1. CASE q = listing.sig
      <4>1. q.by = key.x BY <2>5, <3>1 DEF Single
      <4> QED BY <1>5, <2>5, <3>1, <4>1
    <3>2. CASE q = All(b, tx)
      <4>1. q.by = b BY <3>2 DEF All
      <4> QED BY <1>4, <3>2, <4>1
    <3>3. CASE q = All(MarketKey.x, tx)
      <4>1. q.by = MarketKey.x BY <3>3 DEF All
      <4> QED BY <1>4, <3>3, <4>1
    <3> QED BY <3>1, <3>2, <3>3
  <2> HIDE DEF s, sigs
  <2>10. Signed(s, Script(key)[n], tx, 1) BY <2>8, <2>9
  <2> QED BY <1>2, <2>4, <2>7, <2>10 DEF s
<1>8. coin(2).kind # "multisig" /\ Signed(wit[2][1], coin(2).owner, tx, 2)
  <2>1. coin(2).kind \in Kinds /\ coin(2).owner = b BY <1>2, CoinTyped
  <2>2. wit[2][1] = All(b, tx) BY <1>3
  <2> QED BY <1>4, <2>1, <2>2 DEF Kinds
<1>9. listing.stage \in {"none", "active"} BY OrderParts
<1>10. ASSUME NEW i \in DOMAIN tx.ins
       PROVE  IF coin(i).kind = "multisig"
              THEN \A n \in 1 .. 2 : Signed(wit[i][3 - n], coin(i).owner[n], tx, i)
              ELSE Signed(wit[i][1], coin(i).owner, tx, i)
  <2>1. i = 1 \/ i = 2 BY <1>2
  <2>2. CASE i = 1 BY <1>6, <1>7, <1>9, <2>2
  <2>3. CASE i = 2 BY <1>8, <2>3
  <2> QED BY <2>1, <2>2, <2>3
<1> QED BY <1>10 DEF ScriptsHold, tx, wit

\* A purchase that the node refuses is excused.
LEMMA RefusedForCause ==
  ASSUME Built, NEW b \in Buyers, order[b].pc # "idle", ~Accepted(b)
  PROVE  Excused(b)
<1> SUFFICES ASSUME ~Excused(b) PROVE FALSE
  OBVIOUS
<1> DEFINE tx == order[b].tx
           f == order[b].fee
           rest == InValue(tx) - OutValue(tx)
           offered == Offered.value
           size == SaleVbytes(order[b].coin.kind)
           locking == IF listing.stage = "active" THEN LockingVbytes(listing.coins) ELSE 0
<1>1. /\ ~Conflicts(b) /\ ~Dusty(tx) /\ ~(order[b].rate < 10) /\ ~(Outlay(order[b]) >= Word)
      /\ ~(offered + f + UnpaidMarketFee > 25000 * size)
      /\ listing.stage = "active" =>
           \A n \in DOMAIN listing.coins : listing.coins[n].kind # "p2sh"
  BY DEF Excused
<1>2. ScriptsHold(tx, Witnesses(b)) BY <1>1, WitnessesHold
<1>3. PICK c \in BuyerCoins :
        /\ order[b].coin = Coin(b, c)
        /\ f = SaleFee(c.kind, order[b].rate)
  BY OrderParts
<1>4. /\ c.kind \in Kinds /\ order[b].coin.kind = c.kind
      /\ order[b].rate \in Rates /\ order[b].rate \in Nat /\ order[b].rate >= 10
  <2>1. c.kind \in Kinds /\ order[b].coin.kind = c.kind BY <1>3, CoinTyped DEF Kinds
  <2>2. order[b].rate \in Rates BY OrderParts
  <2> DEFINE rate == order[b].rate
  <2>3. rate \in Nat
    <3>1. Rates \subseteq Nat OBVIOUS
    <3>2. rate \in Rates BY <2>2
    <3> HIDE DEF rate
    <3> QED BY <3>1, <3>2
  <2> HIDE DEF rate
  <2>4. ~(rate < 10) BY <1>1 DEF rate
  <2>5. rate >= 10 BY <2>3, <2>4
  <2> QED BY <2>1, <2>2, <2>3, <2>5 DEF rate
<1>5. f \in Nat /\ f <= Word - 1 BY <1>3, <1>4, SaleFeeFits DEF Sats
<1>6. /\ listing.price \in Nat /\ listing.price > 0
      /\ MarketFee(listing.price) \in Nat /\ UnpaidMarketFee \in Nat
      /\ offered \in Nat
  <2>1. listing.price \in Prices /\ offered \in Nat BY OrderBuilt, OfferedTyped DEF Built
  <2>2. MarketFee(listing.price) \in Nat BY <2>1, MarketFeeFits DEF Sats
  <2> QED BY <2>1, <2>2 DEF Sats, UnpaidMarketFee
<1>7. Outlay(order[b]) < Word /\ f # Word - 1
  <2>1. Outlay(order[b]) = listing.price + 546 + f + MarketFee(listing.price)
    BY DEF Outlay, InscriptionDust
  <2> QED BY <1>1, <1>5, <1>6, <2>1
<1>8. rest = offered + f + UnpaidMarketFee BY <1>7, Balanced
<1>9. size \in Nat /\ f >= size BY <1>3, <1>4, <1>7, SaleSize, FeePaysSize
<1>10. locking \in Nat
  <2>1. ASSUME listing.stage = "active" PROVE LockingVbytes(listing.coins) \in Nat
    <3>1. PICK coins \in Locking : listing.coins = coins
      BY <2>1 DEF Built, ListingBuilt, Listing, NoListing
    <3> QED BY <3>1, LockingSize
  <2> QED BY <2>1
<1>11. PackageFee(b) = rest + locking /\ PackageVbytes(b) = size + locking
  BY DEF PackageFee, PackageVbytes
<1> HIDE DEF rest, size, locking, offered, f
<1>12. rest \in 0 .. 25000 * size BY <1>1, <1>5, <1>6, <1>8, <1>9
<1>13. PackageFee(b) >= PackageVbytes(b) BY <1>5, <1>6, <1>8, <1>9, <1>10, <1>11
<1> QED BY <1>1, <1>2, <1>12, <1>13 DEF Accepted, Extractable, rest, size

-----------------------------------------------------------------------------
\* Steps.

\* While nobody has ordered, nothing is sold.
LEMMA NoneSold ==
  ASSUME Built, \A b \in Buyers : order[b].pc = "idle"
  PROVE  sale = {} /\ \A b \in Buyers : order[b] = NoOrder
<1>1. sale = {} BY DEF Built, SalesBuilt
<1>2. ASSUME NEW b \in Buyers PROVE order[b] = NoOrder
  <2>1. PICK o \in {order[b]} : o = NoOrder \/ OrderedFor(o, b)
    BY DEF Built, OrdersBuilt
  <2>2. ASSUME OrderedFor(o, b) PROVE FALSE
    BY <2>2 DEF OrderedFor
  <2> QED BY <2>1, <2>2
<1> QED BY <1>1, <1>2

\* A listing is created when there is none, and no order.
LEMMA NoneListed ==
  ASSUME Built, listing.stage = "absent"
  PROVE  wallet = None /\ \A b \in Buyers : order[b].pc = "idle"
BY DEF Built, ListingBuilt, Listing

\* What an order is built from is the listing.
LEMMA SameListing ==
  ASSUME UNCHANGED listing, NEW o, NEW b
  PROVE  OrderedFor(o, b)' <=> OrderedFor(o, b)
BY DEF OrderedFor, SaleTx, Required, Change, Offered

\* A listing that is created.
LEMMA CreateBuilt ==
  ASSUME Built, Next, listing.stage = "absent"
  PROVE  Built'
<1>1. wallet = None /\ \A b \in Buyers : order[b].pc = "idle" BY NoneListed
<1>2. sale = {} /\ \A b \in Buyers : order[b] = NoOrder BY <1>1, NoneSold
<1>3. DOMAIN order = Buyers BY DEF Built, OrdersBuilt
<1>4. CASE \E key \in SellerKeys, coins \in Locking, price \in Prices :
             CreateProtected(key, coins, price)
  <2>1. PICK key \in SellerKeys, coins \in Locking, price \in Prices :
          CreateProtected(key, coins, price)
    BY <1>4
  <2>2. ListingBuilt' BY <1>1, <2>1 DEF CreateProtected, ListingBuilt
  <2> QED BY <1>2, <1>3, <2>1, <2>2 DEF CreateProtected, Built, OrdersBuilt, SalesBuilt
<1>5. CASE \E c \in Inscriptions, price \in Prices :
             CreateUnprotected(Coin(Seller, c), price)
  <2>1. PICK c \in Inscriptions, price \in Prices :
          CreateUnprotected(Coin(Seller, c), price)
    BY <1>5
  <2>2. ListingBuilt' BY <1>1, <2>1 DEF CreateUnprotected, ListingBuilt
  <2> QED BY <1>2, <1>3, <2>1, <2>2 DEF CreateUnprotected, Built, OrdersBuilt, SalesBuilt
<1>6. ~SubmitLocking BY DEF SubmitLocking
<1>7. \A b \in Buyers : \A coin, rate : ~Buy(b, coin, rate) BY DEF Buy
<1>8. \A b \in Buyers : ~ConfirmOrder(b) BY <1>1 DEF ConfirmOrder
<1> QED BY <1>4, <1>5, <1>6, <1>7, <1>8 DEF Next

\* A locking transaction that is submitted is the one that was handed out.
LEMMA SubmitBuilt ==
  ASSUME Built, SubmitLocking
  PROVE  Built'
<1>1. PICK key \in SellerKeys, coins \in Locking, price \in Prices :
        /\ LockingAccepted(coins) /\ wallet = LockingTx(key, coins)
        /\ listing = Listing("locking_pending", key, price, coins, None, None)
        /\ \A b \in Buyers : order[b].pc = "idle"
  BY DEF Built, SubmitLocking, ListingBuilt, Listing, NoListing
<1>2. /\ wallet' = wallet
      /\ listing' = Listing("active", key, price, coins, Finalized(wallet),
                            Single(key.x, LockedCoin(wallet), Pay(Seller, price)))
  <2>1. listing.key = key /\ listing.price = price /\ listing.coins = coins
    BY <1>1 DEF Listing
  <2> QED BY <2>1 DEF SubmitLocking
<1>3. ListingBuilt' BY <1>1, <1>2 DEF ListingBuilt
<1>4. sale = {} /\ \A b \in Buyers : order[b] = NoOrder BY <1>1, NoneSold
<1> QED BY <1>3, <1>4 DEF SubmitLocking, Built, OrdersBuilt, SalesBuilt

\* A listing that is for sale stays as it is while orders come and go.
LEMMA StillListed ==
  ASSUME Built, listing.stage \in {"none", "active"}, UNCHANGED <<listing, wallet>>
  PROVE  ListingBuilt'
<1>1. /\ listing # NoListing
      /\ \A key \in SellerKeys, coins \in Locking, price \in Prices :
           listing # Listing("locking_pending", key, price, coins, None, None)
  BY DEF NoListing, Listing
<1> QED BY <1>1 DEF Built, ListingBuilt

\* An order is built when it is handed out.
LEMMA BuyBuilt ==
  ASSUME Built, NEW b \in Buyers, NEW c \in BuyerCoins, NEW rate \in Rates,
         Buy(b, Coin(b, c), rate)
  PROVE  Built'
<1> DEFINE coin == Coin(b, c)
<1>1. ListingBuilt' BY StillListed DEF Buy
<1>2. OrdersBuilt'
  <2>1. /\ coin.kind = c.kind /\ coin.value = c.value BY CoinTyped
  <2> HIDE DEF coin
  <2>2. /\ order' = [order EXCEPT ![b] =
             [pc |-> "signed", tx |-> SaleTx(b, coin, rate), coin |-> coin, rate |-> rate,
              fee |-> SaleFee(c.kind, rate), sigs |-> {listing.sig, All(b, SaleTx(b, coin, rate))}]]
        /\ c.value >= Required(coin, rate)
        /\ listing.stage \in {"none", "active"} /\ listing' = listing
    BY <2>1 DEF Buy, coin
  <2>3. DOMAIN order' = Buyers BY <2>2 DEF Built, OrdersBuilt
  <2>4. ASSUME NEW d \in Buyers \ {b} PROVE order'[d] = order[d]
    BY <2>2 DEF Built, OrdersBuilt
  <2>5. order'[b] =
          [pc |-> "signed", tx |-> SaleTx(b, coin, rate), coin |-> coin, rate |-> rate,
           fee |-> SaleFee(c.kind, rate), sigs |-> {listing.sig, All(b, SaleTx(b, coin, rate))}]
    BY <2>2 DEF Built, OrdersBuilt
  <2>6. ASSUME NEW o, o = order'[b] PROVE OrderedFor(o, b)
    <3> DEFINE tx == SaleTx(b, coin, rate)
               sigs == {listing.sig, All(b, tx)}
    <3>1. o = [pc |-> "signed", tx |-> tx, coin |-> coin, rate |-> rate,
               fee |-> SaleFee(c.kind, rate), sigs |-> sigs]
      BY <2>5, <2>6
    <3> HIDE DEF sigs, tx
    <3>2. /\ DOMAIN o = {"pc", "tx", "coin", "rate", "fee", "sigs"}
          /\ o.pc = "signed" /\ o.tx = tx /\ o.coin = coin /\ o.rate = rate
          /\ o.fee = SaleFee(c.kind, rate) /\ o.sigs = sigs
      BY <3>1
    <3>3. o.sigs = {listing.sig, All(b, o.tx)} BY <3>2 DEF sigs
    <3> QED BY <2>2, <3>2, <3>3 DEF OrderedFor, coin, tx
  <2>7. ASSUME NEW d \in Buyers, NEW o, o = order'[d]
        PROVE  o = NoOrder \/ OrderedFor(o, d)
    BY <2>4, <2>6, <2>7 DEF Built, OrdersBuilt
  <2>8. ASSUME NEW d \in Buyers, NEW o, OrderedFor(o, d)
        PROVE  OrderedFor(o, d)'
    BY <2>2, <2>8, SameListing
  <2> QED BY <2>2, <2>3, <2>7, <2>8 DEF OrdersBuilt
<1>3. SalesBuilt'
  <2>1. /\ UNCHANGED <<listing, sale, mempool>> /\ order[b].pc = "idle"
        /\ \A d \in Buyers \ {b} : order'[d] = order[d]
    BY DEF Buy, Built, OrdersBuilt
  <2> QED BY <2>1 DEF Built, SalesBuilt
<1> QED BY <1>1, <1>2, <1>3 DEF Built

\* What two orders of a listing spend has a coin in common, so the second is not
\* accepted after the first was sold.
LEMMA SecondConflicts ==
  ASSUME Built, NEW b \in Buyers, order[b].pc = "signed", sale # {}
  PROVE  Conflicts(b)
<1>1. PICK d \in Buyers : order[d].pc = "sold" /\ Finalized(order[d].tx) \in mempool
  BY DEF Built, SalesBuilt
<1>2. PICK c \in BuyerCoins, rate \in Rates : order[b].tx = SaleTx(b, Coin(b, c), rate)
  <2>1. order[b].pc # "idle" OBVIOUS
  <2> QED BY <2>1, OrderTx
<1>3. PICK e \in BuyerCoins, ratf \in Rates : order[d].tx = SaleTx(d, Coin(d, e), ratf)
  <2>1. order[d].pc # "idle" BY <1>1
  <2> QED BY <2>1, OrderTx
<1>4. /\ DOMAIN order[b].tx.ins = 1 .. 2 /\ order[b].tx.ins[1].coin = Offered
  BY <1>2, SaleShape
<1>5. /\ DOMAIN Finalized(order[d].tx).ins = 1 .. 2
      /\ Finalized(order[d].tx).ins[1].coin = Offered
  BY <1>3, SaleShape
<1>6. Offered \in Spends(order[b].tx) BY <1>4 DEF Spends
<1>7. Offered \in Spends(Finalized(order[d].tx)) BY <1>5 DEF Spends
<1>8. Offered \in Spent BY <1>1, <1>7 DEF Spent
<1> QED BY <1>6, <1>8 DEF Conflicts

\* An order is sold or refused as it was built, and sold only as the first.
LEMMA ConfirmBuilt ==
  ASSUME Built, NEW b \in Buyers, ConfirmOrder(b)
  PROVE  Built'
<1>1. /\ order[b].pc = "signed" /\ listing.stage \in {"none", "active"}
      /\ UNCHANGED <<listing, wallet>>
  BY OrderBuilt DEF ConfirmOrder
<1>2. ListingBuilt' BY <1>1, StillListed
<1>3. DOMAIN order = Buyers BY DEF Built, OrdersBuilt
<1>4. PICK pc \in {"sold", "refused"} : order' = [order EXCEPT ![b].pc = pc]
  BY DEF ConfirmOrder
<1>5. /\ DOMAIN order' = Buyers /\ order'[b] = [order[b] EXCEPT !.pc = pc]
      /\ \A d \in Buyers \ {b} : order'[d] = order[d]
  BY <1>3, <1>4
<1>6. PICK o \in {order[b]} : o = NoOrder \/ OrderedFor(o, b)
  BY DEF Built, OrdersBuilt
<1>7. o = order[b] /\ OrderedFor(o, b) BY <1>1, <1>6 DEF NoOrder
<1>8. DOMAIN o = {"pc", "tx", "coin", "rate", "fee", "sigs"} BY <1>7 DEF OrderedFor
<1>9. ASSUME NEW n, n = order'[b]
      PROVE  /\ DOMAIN n = {"pc", "tx", "coin", "rate", "fee", "sigs"}
             /\ n.pc = pc /\ n.tx = o.tx /\ n.coin = o.coin
             /\ n.rate = o.rate /\ n.fee = o.fee /\ n.sigs = o.sigs
  <2>1. n = [o EXCEPT !.pc = pc] BY <1>5, <1>7, <1>9
  <2> QED BY <1>8, <2>1
<1>10. ASSUME NEW n, n = order'[b] PROVE OrderedFor(n, b)
  <2>1. /\ DOMAIN n = {"pc", "tx", "coin", "rate", "fee", "sigs"}
        /\ n.pc \in {"signed", "sold", "refused"}
        /\ n.tx = o.tx /\ n.coin = o.coin /\ n.rate = o.rate /\ n.fee = o.fee
        /\ n.sigs = {listing.sig, All(b, n.tx)}
    <3>1. o.sigs = {listing.sig, All(b, o.tx)} BY <1>7 DEF OrderedFor
    <3> QED BY <1>9, <1>10, <3>1
  <2>2. PICK c \in BuyerCoins, rate \in Rates :
          /\ o.tx = SaleTx(b, Coin(b, c), rate) /\ o.coin = Coin(b, c)
          /\ o.rate = rate /\ o.fee = SaleFee(c.kind, rate)
          /\ c.value >= Required(Coin(b, c), rate)
    <3>1. OrderedFor(o, b) BY <1>7
    <3>2. ASSUME OrderedFor(o, b)
          PROVE  \E c \in BuyerCoins, rate \in Rates :
                   /\ o.tx = SaleTx(b, Coin(b, c), rate) /\ o.coin = Coin(b, c)
                   /\ o.rate = rate /\ o.fee = SaleFee(c.kind, rate)
                   /\ c.value >= Required(Coin(b, c), rate)
      BY <3>2 DEF OrderedFor
    <3> QED BY <3>1, <3>2
  <2>3. /\ n.tx = SaleTx(b, Coin(b, c), rate) /\ n.coin = Coin(b, c)
        /\ n.rate = rate /\ n.fee = SaleFee(c.kind, rate)
    BY <2>1, <2>2
  <2>4. \E k \in BuyerCoins, ratf \in Rates :
          /\ n.tx = SaleTx(b, Coin(b, k), ratf) /\ n.coin = Coin(b, k)
          /\ n.rate = ratf /\ n.fee = SaleFee(k.kind, ratf)
          /\ k.value >= Required(Coin(b, k), ratf)
    BY <2>2, <2>3
  <2> QED BY <2>1, <2>4 DEF OrderedFor
<1>11. OrdersBuilt'
  <2>1. ASSUME NEW d \in Buyers, NEW n, n = order'[d]
        PROVE  n = NoOrder \/ OrderedFor(n, d)
    BY <1>5, <1>10, <2>1 DEF Built, OrdersBuilt
  <2>2. ASSUME NEW d \in Buyers, NEW n, OrderedFor(n, d)
        PROVE  OrderedFor(n, d)'
    BY <1>1, <2>2, SameListing
  <2> QED BY <1>1, <1>5, <2>1, <2>2 DEF OrdersBuilt
<1>12. SalesBuilt'
  <2>1. order'[b].pc = pc /\ order'[b].tx = order[b].tx BY <1>7, <1>9
  <2>2. CASE Accepted(b)
    <3>1. sale = {} BY <1>1, <2>2, SecondConflicts DEF Accepted
    <3>2. /\ order'[b].pc = "sold"
          /\ Finalized(order[b].tx) \in mempool'
          /\ sale' = {[buyer |-> b, price |-> listing.price,
                       fee |-> MarketFee(listing.price), tx |-> Finalized(order[b].tx)]}
      <4>1. /\ order' = [order EXCEPT ![b].pc = "sold"]
            /\ mempool' = mempool \cup Package(b)
            /\ sale' = sale \cup {[buyer |-> b, price |-> listing.price,
                        fee |-> MarketFee(listing.price), tx |-> Finalized(order[b].tx)]}
        BY <2>2 DEF ConfirmOrder
      <4>2. order'[b] = [order[b] EXCEPT !.pc = "sold"] BY <1>3, <4>1
      <4>3. order'[b].pc = "sold" BY <1>7, <1>8, <4>2
      <4> QED BY <3>1, <4>1, <4>3 DEF Package
    <3> QED BY <1>1, <2>1, <3>2 DEF SalesBuilt
  <2>3. CASE ~Accepted(b)
    <3>1. UNCHANGED <<mempool, sale>> BY <2>3 DEF ConfirmOrder
    <3> QED BY <1>1, <1>5, <3>1 DEF Built, SalesBuilt
  <2> QED BY <2>2, <2>3
<1> QED BY <1>2, <1>11, <1>12 DEF Built

\* A step of any handler.
LEMMA Step == Built /\ [Next]_vars => Built'
<1> SUFFICES ASSUME Built, [Next]_vars PROVE Built'
  OBVIOUS
<1>1. CASE listing.stage = "absent" /\ Next BY <1>1, CreateBuilt
<1>2. CASE SubmitLocking BY <1>2, SubmitBuilt
<1>3. CASE \E b \in Buyers, c \in BuyerCoins, rate \in Rates : Buy(b, Coin(b, c), rate)
  BY <1>3, BuyBuilt
<1>4. CASE \E b \in Buyers : ConfirmOrder(b) BY <1>4, ConfirmBuilt
<1>5. CASE UNCHANGED vars
  <2>1. ASSUME NEW o, NEW b PROVE OrderedFor(o, b)' <=> OrderedFor(o, b)
    BY <1>5, SameListing DEF vars
  <2>2. OrdersBuilt' BY <1>5, <2>1 DEF vars, Built, OrdersBuilt
  <2>3. ListingBuilt' /\ SalesBuilt' BY <1>5 DEF vars, Built, ListingBuilt, SalesBuilt
  <2> QED BY <2>2, <2>3 DEF Built
<1>6. ASSUME Next, listing.stage # "absent"
      PROVE  \/ SubmitLocking
             \/ \E b \in Buyers, c \in BuyerCoins, rate \in Rates : Buy(b, Coin(b, c), rate)
             \/ \E b \in Buyers : ConfirmOrder(b)
  <2>1. \A key, coins, price : ~CreateProtected(key, coins, price)
    BY <1>6 DEF CreateProtected
  <2>2. \A coin, price : ~CreateUnprotected(coin, price)
    BY <1>6 DEF CreateUnprotected
  <2> QED BY <1>6, <2>1, <2>2 DEF Next
<1> QED BY <1>1, <1>2, <1>3, <1>4, <1>5, <1>6

\* What excuses a refusal goes on excusing it: the listing stays as it is once
\* somebody has ordered, and the node forgets no transaction.
LEMMA StillExcused ==
  ASSUME NEW b \in Buyers, Excused(b), UNCHANGED listing, mempool \subseteq mempool',
         order'[b].tx = order[b].tx, order'[b].coin = order[b].coin,
         order'[b].rate = order[b].rate, order'[b].fee = order[b].fee
  PROVE  Excused(b)'
<1>1. Offered' = Offered /\ UnpaidMarketFee' = UnpaidMarketFee
  BY DEF Offered, UnpaidMarketFee
<1>2. Outlay(order[b])' = Outlay(order[b]) BY DEF Outlay
<1>3. Conflicts(b) => Conflicts(b)' BY DEF Conflicts, Spent
<1>4. Dusty(order[b].tx)' = Dusty(order[b].tx) BY DEF Dusty
<1> QED BY <1>1, <1>2, <1>3, <1>4 DEF Excused

\* The order of a refused purchase stays as it was refused.
LEMMA StepCompletes == Built /\ PurchaseCompletes /\ [Next]_vars => PurchaseCompletes'
<1> SUFFICES ASSUME Built, PurchaseCompletes, [Next]_vars, NEW b \in Buyers,
                    order'[b].pc = "refused"
             PROVE  Excused(b)'
  BY DEF PurchaseCompletes
<1>1. DOMAIN order = Buyers BY DEF Built, OrdersBuilt
<1>2. CASE ConfirmOrder(b)
  <2>1. ~Accepted(b)
    <3>1. CASE Accepted(b)
      <4>1. order' = [order EXCEPT ![b].pc = "sold"] BY <1>2, <3>1 DEF ConfirmOrder
      <4>2. order'[b] = [order[b] EXCEPT !.pc = "sold"] BY <1>1, <4>1
      <4>3. "pc" \in DOMAIN order[b]
        <5>1. order[b].pc = "signed" BY <1>2 DEF ConfirmOrder
        <5> QED BY <5>1 DEF Built, OrdersBuilt, OrderedFor, NoOrder
      <4> QED BY <4>2, <4>3
    <3> QED BY <3>1
  <2>2. /\ order[b].pc = "signed" /\ order' = [order EXCEPT ![b].pc = "refused"]
        /\ UNCHANGED <<listing, mempool>>
    BY <1>2, <2>1 DEF ConfirmOrder
  <2>3. Excused(b) BY <2>1, <2>2, RefusedForCause
  <2>4. order'[b] = [order[b] EXCEPT !.pc = "refused"] BY <1>1, <2>2
  <2>5. /\ order'[b].tx = order[b].tx /\ order'[b].coin = order[b].coin
        /\ order'[b].rate = order[b].rate /\ order'[b].fee = order[b].fee
    BY <2>4
  <2> QED BY <2>2, <2>3, <2>5, StillExcused
<1>3. CASE order'[b] = order[b] /\ UNCHANGED listing /\ mempool \subseteq mempool'
  BY <1>3, StillExcused DEF PurchaseCompletes
<1>4. ASSUME NEW d \in Buyers \ {b}, ConfirmOrder(d)
      PROVE  order'[b] = order[b] /\ UNCHANGED listing /\ mempool \subseteq mempool'
  BY <1>1, <1>4 DEF ConfirmOrder
<1>5. ASSUME NEW d \in Buyers, NEW coin, NEW rate, Buy(d, coin, rate)
      PROVE  order'[b] = order[b] /\ UNCHANGED listing /\ mempool \subseteq mempool'
  <2>1. d # b
    <3>1. ASSUME d = b PROVE order'[b].pc = "signed" BY <1>1, <1>5, <3>1 DEF Buy
    <3> QED BY <3>1
  <2> QED BY <1>1, <1>5, <2>1 DEF Buy
<1>6. ASSUME UNCHANGED order, listing.stage \notin {"none", "active"} PROVE FALSE
  BY <1>6, OrderBuilt
<1>7. CASE UNCHANGED vars BY <1>3, <1>7 DEF vars
<1>8. CASE listing.stage \notin {"none", "active"}
  <2>1. ASSUME NEW d \in Buyers PROVE ~ConfirmOrder(d)
    BY <1>8, OrderBuilt DEF ConfirmOrder
  <2>2. \A d, coin, rate : ~Buy(d, coin, rate) BY <1>8 DEF Buy
  <2>3. UNCHANGED order
    <3>1. \A key, coins, price : CreateProtected(key, coins, price) => UNCHANGED order
      BY DEF CreateProtected
    <3>2. \A coin, price : CreateUnprotected(coin, price) => UNCHANGED order
      BY DEF CreateUnprotected
    <3>3. SubmitLocking => UNCHANGED order BY DEF SubmitLocking
    <3> QED BY <2>1, <2>2, <3>1, <3>2, <3>3 DEF Next, vars
  <2> QED BY <1>6, <1>8, <2>3
<1>9. CASE listing.stage \in {"none", "active"} /\ Next
  <2>1. /\ \A key, coins, price : ~CreateProtected(key, coins, price)
        /\ \A coin, price : ~CreateUnprotected(coin, price)
        /\ ~SubmitLocking
    BY <1>9 DEF CreateProtected, CreateUnprotected, SubmitLocking
  <2>2. \/ \E d \in Buyers, c \in BuyerCoins, rate \in Rates : Buy(d, Coin(d, c), rate)
        \/ \E d \in Buyers : ConfirmOrder(d)
    BY <1>9, <2>1 DEF Next
  <2> QED BY <1>2, <1>3, <1>4, <1>5, <2>2
<1> QED BY <1>7, <1>8, <1>9

-----------------------------------------------------------------------------
\* Theorems.

\* Orders are built from the listing as it is, which does not change under them;
\* what is locked was accepted; and every recorded sale is in the node's mempool.
THEOREM Inductive == Spec => []Built
<1>1. Init => Built
  BY DEF Init, Built, ListingBuilt, OrdersBuilt, SalesBuilt, NoListing, NoOrder
<1> QED BY <1>1, Step, PTL DEF Spec

\* Amounts stay in their word and every row keeps its shape.
THEOREM TypeCorrect == Spec => []TypeOK
BY Inductive, Typed, PTL

\* build_locking_psbt spends what it has, pays for its size and locks no dust.
THEOREM LockingIsFunded == Spec => []LockingFunded
<1>1. Built => LockingFunded BY Funded DEF Built
<1> QED BY <1>1, Inductive, PTL

\* A buyer pays what buy quotes and no more, and spends no more than it has, at
\* any rate for which the sum fits the word or the fee is saturated.
THEOREM QuoteIsKept == Spec => []QuoteHolds
BY Inductive, Quoted, PTL

\* The sale that the seller signs in advance spends the output that the locking
\* transaction has once signed, if no input of it is wrapped segwit.
THEOREM PlannedIsSpent == Spec => []PlannedLockIsSpent
<1>1. Built => PlannedLockIsSpent BY Planned DEF Built
<1> QED BY <1>1, Inductive, PTL

\* A row of sales stands for the one transaction of the listing that the node
\* took, which pays the price and the marketplace's fee on record.
THEOREM BooksAgree == Spec => []BooksMatchChain
BY Inductive, Booked, PTL

\* A purchase that buy built and the buyer signed goes through, for any keys, coins,
\* prices and rates, unless one of the causes of Excused stops it.
THEOREM PurchasesComplete == Spec => []PurchaseCompletes
<1>1. Init => PurchaseCompletes BY DEF Init, NoOrder, PurchaseCompletes
<1> QED BY <1>1, StepCompletes, Inductive, PTL DEF Spec
=============================================================================

SPECIFICATION Spec
CONSTANTS
  b1 = b1  b2 = b2  Seller = Seller  Fees = Fees  None = None
  Buyers = {b1}
  SellerKeys <- Keys  MarketKey <- Market
  Inscriptions <- InscriptionCoins  GasCoins <- Gas  BuyerCoins <- Purse
  Prices = {600}  Rates = {10}
  FeeBps = 250  FeeAddress = Fees  Word = 67108864
CHECK_DEADLOCK FALSE
INVARIANT BuyerHoldsInscription

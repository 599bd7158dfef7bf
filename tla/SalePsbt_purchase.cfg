SPECIFICATION Spec
CONSTANTS
  b1 = b1  b2 = b2  Seller = Seller  Fees = Fees  None = None
  Buyers = {b1, b2}
  SellerKeys <- Keys  MarketKey <- Market
  Inscriptions <- InscriptionCoins  GasCoins <- Gas  BuyerCoins <- Purses
  Prices = {600, 20000}  Rates = {5, 10, 73, 2164769, 2236963}
  FeeBps = 250  FeeAddress = Fees  Word = 67108864
SYMMETRY BuyerSymmetry
CHECK_DEADLOCK FALSE
INVARIANTS TypeOK LockingFunded QuoteHolds PurchaseCompletes 
  PlannedLockIsSpent

SPECIFICATION Spec
CONSTANTS
  l1 = l1  l2 = l2  o1 = o1  o2 = o2  b1 = b1  b2 = b2  r1 = r1  r2 = r2  i1 = i1
  Listings = {l1}  Offers = {o1, o2}  Buyers = {}  Requests = {r1, r2}
  Inscriptions = {i1}  On <- OneInscription  MaxSales = 2
  None = None  Seller = Seller  Unknown = Unknown  Unspent = Unspent  Moved = Moved
SYMMETRY OfferSymmetry
VIEW WithoutFeed
INVARIANTS AcceptedHasSale
 

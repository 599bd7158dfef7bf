SPECIFICATION Spec
CONSTANTS
  a1 = a1  a2 = a2  p1 = p1  p2 = p2  n1 = n1  n2 = n2  n3 = n3  r1 = r1  r2 = r2  r3 = r3
  Addresses = {a1, a2}  Profiles = {p1, p2}  Nonces = {n1, n2, n3}
  Requests = {r1, r2, r3}  MaxVersion = 4  None = None
SYMMETRY Symmetry
INVARIANTS TypeOK OneSessionPerChallenge
PROPERTIES AddressKeepsProfile  LastWalletGoesInARace DesertedForGood

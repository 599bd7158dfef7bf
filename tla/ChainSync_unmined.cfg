SPECIFICATION Spec
CONSTANTS
  s1 = s1  s2 = s2  i1 = i1  c1 = c1
  Sales = {s1}  Inscriptions = {i1}  Of <- OneInscription
  Seller = Seller  Outsider = Outsider  Collections = {}  None = None
INVARIANT ConfirmedIsMined

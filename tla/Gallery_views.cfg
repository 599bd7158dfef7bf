\* Two addresses that pass two inscriptions back and forth, spending each at
\* most once; four blocks, four children, pages of two.
CONSTANTS
  a1 = a1  a2 = a2  i1 = i1  i2 = i2  None = None
  Addrs <- MCAddrs
  Outs <- MCOuts
  Inscriptions <- MCOuts
  RowOf <- MCRowOf
  Rare <- MCRare
  Limit = 2
  MaxTip = 4
  MaxKids = 4
  MaxGone = 1
SYMMETRY Symmetric
SPECIFICATION Spec
INVARIANTS TypeOK ValidatedWalletsAreListed  EachCardHasOneOwner GridCountsBits WalkMissesNothing
CHECK_DEADLOCK FALSE

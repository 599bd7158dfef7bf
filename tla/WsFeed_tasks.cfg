SPECIFICATION FairSpec
CONSTANTS
  c1 = c1  i1 = i1  i2 = i2
  None = None  Clients = {c1}  Inscriptions = {i1, i2}
  Filters <- MCFilters  Capacity = 2  MaxRows = 4
INVARIANTS TypeOK OnlyOverwrittenMissed
PROPERTIES ImplementsFeedPromise WantedRowArrives
CHECK_DEADLOCK FALSE

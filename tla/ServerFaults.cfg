\* Every call may fail. The requests end, so the system may stop.
CONSTANTS
  p = p
  c = c
  d = d
  x = x
  y = y
  u = u
  Plain = Plain
  Failed = Failed
  UASIds = {u}
  NoRequest = NoRequest
  Requests = {p, c, x, y}
  MayAsk <- ChangingTwo
  LiveAS = TRUE
  ManagesUAS = TRUE
  Faults = {"as", "uas", "fs", "source"}
  Ids <- MCIds
SPECIFICATION Spec
CHECK_DEADLOCK FALSE
SYMMETRY SameRole
INVARIANTS
  TypeOK
  DeletedServiceStaysDeleted
  CreatedServiceIsListed
  PanicOnlyAfterAggregatorDeleted
  ListedServiceIsBacked
  CollectionsMatchAggregators
PROPERTY ImplementsCollection

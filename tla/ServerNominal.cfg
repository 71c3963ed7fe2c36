\* No call fails, but any call without a timeout may never return; a live AS.
\* The requests end, so the system may stop.
CONSTANTS
  p = p
  c = c
  d = d
  x = x
  y = y
  u = u
  Plain = Plain
  Failed = Failed
  UASIds = {u}
  NoRequest = NoRequest
  Requests = {p, c, x, y}
  MayAsk <- AnyAndDeleteOrGet
  LiveAS = TRUE
  ManagesUAS = TRUE
  Faults = {"silence"}
  Ids <- MCIds
SPECIFICATION FairSpec
CHECK_DEADLOCK FALSE
INVARIANTS
  PollingMissesNothing
  DeleteLeavesOnlyDirectories
PROPERTY EveryRequestIsAnswered

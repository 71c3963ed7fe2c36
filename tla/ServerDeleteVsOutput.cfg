\* A DELETE races a rematerialization.
CONSTANTS
  p = p
  c = c
  d = d
  x = x
  y = y
  u = u
  Plain = Plain
  Failed = Failed
  UASIds = {u}
  NoRequest = NoRequest
  Requests = {p, c, d, x}
  MayAsk <- OneService
  LiveAS = FALSE
  ManagesUAS = FALSE
  Faults = {}
  Ids <- MCIds
SPECIFICATION Spec
CHECK_DEADLOCK FALSE
INVARIANT DeletedServiceHasNoAsset

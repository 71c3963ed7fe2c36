CONSTANTS
  s1 = s1
  s2 = s2
  x1 = x1
  x2 = x2
  Requests = {r1, r2}
  Services <- TwoServices
  Sources = {x1, x2}
  SourcesOf <- Sharing
  Faults = {"account", "uas", "lost", "as"}
  MaxId = 3
  MaxRequests = 3
SPECIFICATION Spec
\* Without an account token nothing happens.
CHECK_DEADLOCK FALSE
SYMMETRY Symmetry
INVARIANTS
  TypeOK
  DerivedFromItsSources
  OneDerivationPerSource
  DerivationStands
  ReadyServiceAgrees
  ServedAfterRecheck
PROPERTY KnownIdIsKept

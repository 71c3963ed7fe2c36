CONSTANTS
  s1 = s1
  a = a
  b = b
  Requests = {r1, r2}
  Services <- OneService
  Sources = {a}
  SourcesOf <- OfOne
  Tagged = {a}
  Protected = {a}
  Faults = {"source", "oxigraph"}
  MaxVersion = 2
  MaxToken = 2
SPECIFICATION Spec
\* All requests may be answered, with the bounds on the sources reached.
CHECK_DEADLOCK FALSE
SYMMETRY Symmetry
INVARIANTS
  TypeOK
  ServedIsFresh
  ServedWasReadable
  ETagsDescribeOutput
  ServedIsComplete

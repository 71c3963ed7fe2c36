CONSTANTS
  s1 = s1
  a = a
  b = b
  Requests = {r1, r2}
  Services <- OneService
  Sources = {a, b}
  SourcesOf <- OfBoth
  Tagged = {a}
  Protected = {a}
  Faults = {}
  MaxVersion = 2
  MaxToken = 1
SPECIFICATION Spec
\* All requests may be answered, with the bounds on the sources reached.
CHECK_DEADLOCK FALSE
SYMMETRY Symmetry
INVARIANT
  ChangedDataIsServed

\* Requests run and arrive beside Shutdown; no call fails, but some never return.
CONSTANTS
  Handlers = {h1, h2}
  Main = Main
  Resources = {n1, n2}
  Faults = {"silence"}
  NamesAreIds = TRUE
  Overlap = TRUE
  MaxClient = 6
  Lives = 2
SPECIFICATION Spec
\* The process may have ended for the last time.
CHECK_DEADLOCK FALSE
SYMMETRY Symmetry
INVARIANTS
  ShutdownCleansUp
  NothingForgotten

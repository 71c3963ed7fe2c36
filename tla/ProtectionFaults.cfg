\* Calls fail before or after their effect, or never return.
CONSTANTS
  Handlers = {h1, h2}
  Main = Main
  Resources = {n1}
  Faults = {"refuse", "lose", "silence"}
  NamesAreIds = FALSE
  Overlap = TRUE
  MaxClient = 6
  Lives = 2
SPECIFICATION FairSpec
\* The process may have ended for the last time.
CHECK_DEADLOCK FALSE
INVARIANTS
  TypeOK
  ClientIsRegistered
  AnswersStand
PROPERTIES
  ImplementsRegistry
  ShutdownEnds

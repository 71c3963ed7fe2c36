\* A body is answered once.
CONSTANTS
  Bodies <- AllBodies
  Expansion <- Names
  UnknownNames <- Unknown
  AbsoluteIris <- Absolute
  Transformation <- View
  QueryParameters <- QuerySet
  SourceParameters <- SourceSet
  ValidQueries <- Queries
SPECIFICATION FairSpec
CHECK_DEADLOCK FALSE
INVARIANTS
  TypeOK
  ParsedIsWritten
  ReadAsMeant
  DamageIsNoticed
PROPERTY EveryBodyIsAnswered

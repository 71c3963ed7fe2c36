CONSTANTS
  h1 = h1
  h2 = h2
  a1 = a1
  a2 = a2
  services = services
  others = others
  alice = alice
  bob = bob
  carol = carol
  read = read
  create = create
  delete = delete
  Handlers <- TwoHandlers
  Main = Main
  Aggregators <- OneAggregator
  Resources <- OneResource
  AggregatorOf <- InOne
  ScopesOf <- ReadOrCreate
  Read = read
  Subjects <- ThreeSubjects
  ConfigSubject = alice
  Owner = owner
  OwnersPermissions <- BothPolicies
  Nobody = nobody
  Faults = TRUE
  Deletions = TRUE
  Lives = 2
SPECIFICATION Spec
CHECK_DEADLOCK FALSE
SYMMETRY Symmetry
INVARIANTS
  TypeOK
  RegistrationGrantsAccess
  NoDuplicateRules
PROPERTIES
  OnlyNewRulesAreWritten

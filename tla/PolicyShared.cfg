CONSTANTS
  h1 = h1
  h2 = h2
  a1 = a1
  a2 = a2
  services = services
  others = others
  alice = alice
  bob = bob
  carol = carol
  read = read
  create = create
  delete = delete
  Handlers <- OneHandler
  Main = Main
  Aggregators <- TwoAggregators
  Resources <- TwoResources
  AggregatorOf <- OneOfEach
  ScopesOf <- Shipped
  Read = read
  Subjects <- TwoSubjects
  ConfigSubject = alice
  Owner = owner
  OwnersPermissions <- PublicAndShared
  Nobody = nobody
  Faults = TRUE
  Deletions = FALSE
  Lives = 2
SPECIFICATION Spec
CHECK_DEADLOCK FALSE
INVARIANTS
  SyncCoversAssets
  RulesStaySeparate

SPECIFICATION Spec
CONSTANTS
  Databases  <- MCDatabases
  Models     <- MCModels
  Operations <- MCOperations
  Faults     = {"env_create", "stat", "env_open", "txn_begin", "dbi_open", "cursor"}
INVARIANTS
  OrderFollowsIds
  DecodersInvert
  ServiceInductive
  TypeOK
  NothingStaysOpen
  StreamAscends
PROPERTIES
  OnlyFailuresLeak
  CallsReturn
  ImplementsService

SPECIFICATION CliSpec
CONSTANTS
  Databases  <- MCDatabases
  Models     <- MCModels
  Operations <- MCOperations
  Kept       <- MCKept
  Faults     = {"stat", "env_open", "cursor"}
  OutMayFail = TRUE
INVARIANTS
  CliTypeOK
  OutputIsPrefix
  ExitTellsWhole
  NoKeyTwice
PROPERTIES
  CommandExits

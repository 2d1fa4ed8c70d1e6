SPECIFICATION Spec
CONSTANTS
  Databases <- MCDatabases
  Apis      <- MCApis
  Lookups   <- MCLookups
INVARIANTS
  ToolkitTypeOK
  HandlesNest
  AnswersOfOneState
PROPERTIES
  CallsReturn

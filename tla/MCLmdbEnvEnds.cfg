SPECIFICATION Spec
CONSTANTS
  Readers    <- MCReaders
  App        = "app"
  Process    <- Apart
  MaxReaders = 2
  MaxTxn     = 2
  Crashing   = {"app", "r1"}
  DieOpening = FALSE
PROPERTY CallsEnd

SPECIFICATION Spec
CONSTANTS
  Readers    <- MCReaders
  App        = "app"
  Process    <- Apart
  MaxReaders = 2
  MaxTxn     = 4
  Crashing   = {"r1"}
  DieOpening = TRUE
INVARIANT NewestIntact

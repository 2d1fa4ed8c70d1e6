SPECIFICATION NestedSpec
CONSTANTS
  Readers    <- MCReaders
  App        = "app"
  Process    <- Together
  MaxReaders = 2
  MaxTxn     = 4
  Crashing   = {}
  DieOpening = FALSE
INVARIANT SnapshotIntact

SPECIFICATION Spec
CONSTANTS
  Readers    <- MCReaders
  App        = "app"
  Process    <- Apart
  MaxReaders = 2
  MaxTxn     = 4
  Crashing   = {"app", "r1"}
  DieOpening = FALSE
INVARIANTS
  EnvTypeOK
  SnapshotIntact
  SlotsCoverReaders
  NewestIntact

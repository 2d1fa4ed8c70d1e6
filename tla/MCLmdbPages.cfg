SPECIFICATION Spec
CONSTANTS
    Readers = {r1}
    MaxPg = 31
    NodeMax = 1
    MaxFree1Pg = 3
    DirtyRoom = 8
    SpillNeed = 2
    SpillShare = 1
    BigPages = 2
    MaxLeaves = 3
    MaxBig = 1
    Starts <- MCStarts
CHECK_DEADLOCK FALSE
INVARIANTS PagesTypeOK SnapshotsSpared EveryPageOnce SnapshotAudit
PROPERTIES CommitWritten SaveEnds

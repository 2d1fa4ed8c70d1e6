SPECIFICATION Spec
CONSTANTS
    Keys <- FullKeys
    KeySize <- FullKeySize
    DataSizes <- FullDataSizes
    Header = 5
    Room = 2040
    KeyThresh = 32
    CursorStack = 4
    MaxDrift = 4
    Touched <- FullTouched
    Loads <- FullLoads
VIEW View
INVARIANT NeverFull

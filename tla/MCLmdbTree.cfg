SPECIFICATION Spec
CONSTANTS
    Keys <- MCKeys
    KeySize <- MCKeySize
    DataSizes <- MCDataSizes
    Header = 1
    Room = 5
    KeyThresh = 32
    CursorStack = 4
    MaxDrift = 4
    Touched <- MCTouched
    Loads <- MCLoads
VIEW View
INVARIANTS TreeTypeOK OrderedTree BalancedTree CursorOnPath
PROPERTY ImplementsMap

SPECIFICATION SyncSpec
CONSTANTS
    Device = {a, b}
    MaxEdit = 2
    MaxWrite = 0
    MaxRow = 0
    MaxVersion = 3
    None = None
SYMMETRY Alike
PROPERTY UpToDateMeansSynced
CHECK_DEADLOCK FALSE

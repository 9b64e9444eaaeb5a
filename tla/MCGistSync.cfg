SPECIFICATION SyncSpec
CONSTANTS
    Device = {a, b}
    MaxEdit = 1
    MaxWrite = 1
    MaxRow = 2
    MaxVersion = 2
    None = None
INVARIANT GistTypeOK
PROPERTY EditsDuringSyncOutrankIt
PROPERTY MemoryNeverRegresses
PROPERTY MemoriesConverge
CHECK_DEADLOCK FALSE

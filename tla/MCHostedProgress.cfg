SPECIFICATION FairTaskSpec
CONSTANTS
    Message = {m, k}
    MaxEvent = 4
    MaxEpoch = 2
    Restarts = 1
    Refreshes = 1
    Outcome = {done}
    None = None
PROPERTIES
    LiveEventsReachLedger
    ExitedTaskSettles
CHECK_DEADLOCK FALSE

SPECIFICATION TaskSpec
CONSTANTS
    Message = {m, k}
    MaxEvent = 6
    MaxEpoch = 2
    Restarts = 1
    Refreshes = 1
    Outcome = {done}
    None = None
INVARIANTS
    HostedTypeOK
    AckedIsStored
    EveryEventApplies
PROPERTIES
    RunsImplemented
CHECK_DEADLOCK FALSE

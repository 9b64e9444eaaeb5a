SPECIFICATION TaskSpec
CONSTANTS
    Message = {m}
    MaxEvent = 4
    MaxEpoch = 2
    Restarts = 1
    Refreshes = 0
    Outcome = {done, failed}
    None = None
PROPERTIES
    LiveHostReattached
CHECK_DEADLOCK FALSE

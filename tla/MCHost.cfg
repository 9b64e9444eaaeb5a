SPECIFICATION HostSpec
CONSTANTS
    Client = {a, b}
    Message = {m}
    Body = {x}
    MaxEpoch = 2
    MaxEvent = 2
    MaxRecord = 5
    MaxCalls = 2
    Faults = 1
    Outcome = {done}
    None = None
SYMMETRY Alike
INVARIANTS
    HostTypeOK
    DeliveredOnce
    UndeliveredNeverHanded
    UnfaultedExitConfirms
    HandedIsJournalled
    ConfirmedExitIsComplete
PROPERTIES
    OnlyOwnerDelivers
    KnowledgeOnlyGrows
    FeedImplemented
CHECK_DEADLOCK FALSE

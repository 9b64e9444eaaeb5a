SPECIFICATION ClientSpec
CONSTANTS
    p = p
    c = c
    d = d
    o = o
    Task = {p, c}
    Parent <- PairParent
    Harness <- CodexPair
    MayMessage = {p, c}
    Session = {s1}
    Turn = {}
    Result = {r1}
    Evidence = {e1}
    Input = {u1}
    Text = {submit}
    Submit = submit
    MaxGen = 2
    MaxRev = 3
    LinkLimit = 3
    None = None
    RunLimit <- PairRuns
    RevLimit <- PairRevs
    Reports <- PairReports
    Holds = {p}
    Restarts = 1
INVARIANTS
    TypeOK
    HistoryMirrorsCurrent
    OneOwnerPerSession
    QueuedMailIsCurrent
PROPERTIES
    RunsOnlyAdvance
    OutcomeIsFinal
    MailboxImplemented
CHECK_DEADLOCK FALSE

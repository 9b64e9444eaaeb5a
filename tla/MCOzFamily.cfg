SPECIFICATION ClientSpec
CONSTANTS
    p = p
    c = c
    d = d
    o = o
    Task = {o, p, c, d}
    Parent <- OzParent
    Harness <- OzFamily
    MayMessage = {}
    Session = {s1}
    Turn = {n1, n2}
    Result = {r1}
    Evidence = {e1}
    Input = {u1}
    Text = {}
    Submit = submit
    MaxGen = 3
    MaxRev = 6
    LinkLimit = 3
    None = None
    RunLimit <- OzRuns
    RevLimit <- OzRevs
    Reports <- OzReports
    Holds = {o}
    Restarts = 1
INVARIANTS
    OneUnconfirmedResult
    ResultsSpeakForEndedRuns
SYMMETRY Siblings
CHECK_DEADLOCK FALSE

SPECIFICATION ClientSpec
CONSTANTS
    p = p
    c = c
    d = d
    o = o
    Task = {p, c, d}
    Parent <- TrioParent
    Harness <- GrokTrio
    MayMessage = {c}
    Session = {s1}
    Turn = {n1, n2}
    Result = {r1}
    Evidence = {e1}
    Input = {u1}
    Text = {}
    Submit = submit
    MaxGen = 3
    MaxRev = 8
    LinkLimit = 3
    None = None
    RunLimit <- TrioRuns
    RevLimit <- TrioRevs
    Reports <- TrioReports
    Holds = {}
    Restarts = 0
PROPERTIES
    ResumeWithdrawsResults
SYMMETRY Siblings
CHECK_DEADLOCK FALSE

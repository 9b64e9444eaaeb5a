SPECIFICATION ClientSpec
CONSTANTS
    p = p
    c = c
    d = d
    o = o
    Task = {p, c, d}
    Parent <- TrioParent
    Harness <- ClaudeTrio
    MayMessage = {c}
    Session = {s1}
    Turn = {n1, n2}
    Result = {r1}
    Evidence = {e1}
    Input = {u1, u2}
    Text = {}
    Submit = submit
    MaxGen = 3
    MaxRev = 6
    LinkLimit = 3
    None = None
    RunLimit <- TrioRuns
    RevLimit <- ClaudeRevs
    Reports <- ClaudeReports
    Holds = {}
    Restarts = 0
INVARIANTS
    CurrentInputWasReceived
PROPERTIES
    NoResultCrossesUserTurn
SYMMETRY Siblings
CHECK_DEADLOCK FALSE

SPECIFICATION ClientSpec
CONSTANTS
    p = p
    c = c
    d = d
    o = o
    Task = {p}
    Parent <- OneParent
    Harness <- OneGrok
    MayMessage = {}
    Session = {s1}
    Turn = {n1, n2}
    Result = {r1}
    Evidence = {e1}
    Input = {u1, u2, u3}
    Text = {}
    Submit = submit
    MaxGen = 3
    MaxRev = 5
    LinkLimit = 2
    None = None
    RunLimit <- OneRuns
    RevLimit <- OneRevs
    Reports <- OneReports
    Holds = {}
    Restarts = 1
INVARIANTS
    CurrentInputWasReceived
    QueueReadable
PROPERTIES
    LateAnswersFromSameProcess
SYMMETRY Inputs
CHECK_DEADLOCK FALSE

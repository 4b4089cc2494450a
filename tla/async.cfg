SPECIFICATION FairSpec
CONSTANTS
    root = root
    term = term
    a = a
    b = b
    c = c
    w1 = w1
    w2 = w2
    Collections = {a, b}
    Root = root
    Terminator = term
    Upstream <- ChainUpstream
    Workers = {w1}
    Failing = {a}
    ReadOnly = {}
    Callbacks = {b}
    Polled = {a}
    Precreated = TRUE
    ErasureAhead = FALSE
    RetryCount = 0
    MaxRequeues = 1
    MaxPolls = 1
    MaxFaults = 0
    MaxRestarts = 0
CHECK_DEADLOCK FALSE
PROPERTIES AnsweredTasksFinish StepEnds

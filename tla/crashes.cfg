SPECIFICATION Spec
CONSTANTS
    root = root
    term = term
    a = a
    b = b
    c = c
    w1 = w1
    w2 = w2
    Collections = {a, b}
    Root = root
    Terminator = term
    Upstream <- ChainUpstream
    Workers = {w1}
    Failing = {a}
    ReadOnly = {b}
    Callbacks = {}
    Polled = {}
    Precreated = FALSE
    ErasureAhead = TRUE
    RetryCount = 0
    MaxRequeues = 1
    MaxPolls = 1
    MaxFaults = 1
    MaxRestarts = 1
CHECK_DEADLOCK FALSE
PROPERTIES KeepsPromise

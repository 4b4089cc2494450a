SPECIFICATION Spec
CONSTANTS
    root = root
    term = term
    a = a
    b = b
    c = c
    w1 = w1
    w2 = w2
    Collections = {a, b, c}
    Root = root
    Terminator = term
    Upstream <- DiamondUpstream
    Workers = {w1, w2}
    Failing = {a}
    ReadOnly = {}
    Callbacks = {}
    Polled = {}
    Precreated = FALSE
    ErasureAhead = FALSE
    RetryCount = 1
    MaxRequeues = 0
    MaxPolls = 1
    MaxFaults = 0
    MaxRestarts = 0
CHECK_DEADLOCK FALSE
SYMMETRY WorkerSymmetry
INVARIANTS TypeOK RunsAfterUpstreams ProceedsAfterAll NeverStalled FailureReachesDescendants
PROPERTIES KeepsPromise IndependentPathsFinish

SPECIFICATION Spec
CONSTANTS
    w1 = w1
    w2 = w2
    Workers = {w1}
    Configs <- ErasurePolicies
    UploadFailures = TRUE
    SoftLimits = TRUE
    MaxFaults = 1
    MaxRestarts = 1
    MaxExpiries = 1
    MaxRepeats = 1
    MaxScans = 2
CHECK_DEADLOCK FALSE
INVARIANTS ErasesAfterAccess

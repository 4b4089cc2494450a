SPECIFICATION Spec
CONSTANTS
    w1 = w1
    w2 = w2
    Workers = {w1}
    Configs <- Straight
    UploadFailures = TRUE
    SoftLimits = FALSE
    MaxFaults = 1
    MaxRestarts = 1
    MaxExpiries = 0
    MaxRepeats = 0
    MaxScans = 1
CHECK_DEADLOCK FALSE
INVARIANT ResumeMissesNothing

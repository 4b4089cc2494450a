SPECIFICATION Spec
CONSTANTS
    a = a
    b = b
    c = c
    gone = gone
    Collections = {a, b, c}
    Deleted = gone
    Root = root
    Terminator = term
    Inputs <- AnyTraversed
    MaxCrashes = 1
CHECK_DEADLOCK FALSE
INVARIANTS TypeOK NoCycleIsMissed TerminatorIsLast RefusedForCause FullGraphStartsWithAllRows

SPECIFICATION FairSpec
CONSTANTS
    a = a
    b = b
    c = c
    Collections = {a, b, c}
    Root = root
    Terminator = term
    Inputs <- SmallInputs
CHECK_DEADLOCK FALSE
INVARIANTS TypeOK PendingIsBlocked AllAboveTerminator AllBelowRoot EveryReferenceIsFollowed DirectedStaysAcyclic
PROPERTIES VisitedInOrder TraversalEnds

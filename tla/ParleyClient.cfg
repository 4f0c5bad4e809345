\* A call and its retry over a connection that may fail or fall silent.
SPECIFICATION FairClientSpec
CONSTANTS
    t1 = t1
    t2 = t2
    None = None
    Targets <- MCTargets
    Kinds <- MCKinds
    Retries <- MCRetries
    MaxCalls = 2
    MaxMoves = 2
    MaxFaults = 1
INVARIANTS
    KnownOutcomesAreTrue
    PinnedCallsStayExact
PROPERTY
    HalfOpenIsNoticed

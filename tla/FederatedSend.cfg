CONSTANTS
    s = s
    h1 = h1
    h2 = h2
    Scalars = {s}
    Handles = {h1, h2}
    ScalarOf <- TheScalar
    LifeOf <- TheLife
    MaxSends = 2
    MaxLives = 2
    MaxTargets = 2
    MaxFaults = 1
    None = None
SPECIFICATION SendSpec
INVARIANTS
    HandlesKeepTheirEndpoint
PROPERTIES
    PeerDispatchRefined

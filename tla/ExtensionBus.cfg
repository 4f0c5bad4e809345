\* Two connections, two sessions, two registrations each, and ownership that may
\* change three times before the capabilities freeze.
CONSTANTS
    Sockets = {s1, s2}
    a = a
    b = b
    Keys = {a, b}
    KeyId <- TheKeyId
    KeyScope <- TheKeyScope
    Profiles <- Unnamed
    MaxSuffix = 1
    MaxSessions = 2
    MaxUnregistered = 2
    MaxEpoch = 2
    None = None
    MaxOwnerEpochs = 3
    MaxRevision = 2
SPECIFICATION BusSpec
SYMMETRY SocketSymmetry
INVARIANTS
    OwnerIsSeniorEligible
    CapableSessionsAreUpToDate
PROPERTIES
    StaleOwnersNeverCommit

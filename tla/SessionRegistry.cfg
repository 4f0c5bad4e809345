\* Three connections over three sessions, one more of each than may be live, and
\* room for one unregistered connection. Fair, so without symmetry.
CONSTANTS
    Sockets = {s1, s2, s3}
    a = a
    b = b
    far = far
    Keys = {a, b, far}
    KeyId <- TheKeyId
    KeyScope <- TheKeyScope
    Profiles <- ClashingProfiles
    MaxSuffix = 2
    MaxSessions = 2
    MaxUnregistered = 1
    MaxEpoch = 2
    None = None
SPECIFICATION FairRegistrySpec
INVARIANTS
    SessionsHoldTheirSocket
    
    EvictionSparesSessions
PROPERTIES
    UnregisteredConnectionsSettle

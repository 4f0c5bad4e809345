\* Two racing clients, one of them without the startup lock, and three broker
\* processes: a winner, a loser and a successor. Fair, so without symmetry.
CONSTANTS
    Clients = {c1, c2}
    Lockless = {c2}
    Brokers = {b1, b2, b3}
    Foreign = Foreign
    None = None
SPECIFICATION FairSpec
INVARIANTS
    AtMostOneListener
    ServingIsReachable
    
PROPERTIES
    RuntimeServiceRefined
    IdleBrokerStops
    CallsSettle

\* Three commits of two payloads, and one file that a fault leaves unreadable.
CONSTANTS
    Payloads = {p1, p2}
    MaxRevision = 3
    MaxDamage = 1
    None = None
    Torn = Torn
SPECIFICATION StoreSpec
SYMMETRY PayloadSymmetry
INVARIANTS
    AcknowledgedSurvives
PROPERTIES
    StateRegisterRefined

\* The table holds every key; the byte bound holds two records of a pair.
CONSTANTS
    s = s
    h = h
    m1 = m1
    m2 = m2
    Scalars = {s, m1, m2}
    Handles = {h}
    ScalarOf <- TheScalar
    Capacity = 4
    Bytes = 7
    None = None
SPECIFICATION JournalSpec
INVARIANTS
    CompactedJournalReloads

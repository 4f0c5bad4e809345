\* Two compactions, two contacts, two faults and one spoiled file.
CONSTANTS
    Events = {e1, e2}
    Tokens = {t1, t2}
    RecentEvents = 1
    MaxRequests = 2
    MaxFaults = 2
    None = None
SPECIFICATION FairSpec
INVARIANTS
    CompactionsCountOnce
    MarkFollowsContact
    BaselinesSurvive
PROPERTIES
    EveryCompactionIsRecorded

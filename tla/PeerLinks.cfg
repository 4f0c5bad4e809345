\* Each broker dials for one scope, and one of them again; one fault.
CONSTANTS
    Low = Low
    High = High
    l1 = l1
    h1 = h1
    h2 = h2
    Attempts = {l1, h1, h2}
    Dialer <- TheDialer
    Carries <- TheScopes
    MaxFaults = 1
SPECIFICATION FairPeerSpec
CHECK_DEADLOCK FALSE
INVARIANTS
    OneLinkPerScope
    NoHalfLinks
    AttachLeavesALink
PROPERTIES
    SettledLinksAreDefended
    SilentLinksClear

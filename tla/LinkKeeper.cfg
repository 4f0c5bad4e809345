\* Two spellings, requests, a computer that goes and returns, a keeper that is
\* killed, FlightDeck that comes and goes.
SPECIFICATION FairSpec
CONSTANTS
    box = box
    alias = alias
    other = other
    Local = Local
    Here = Here
    Dests = {box, alias}
    Reach <- MCReach
    NameOf <- MCNameOf
    Parley = {box}
    MaxRequests = 3
    MaxFaults = 1
INVARIANTS
    ComputersLinkOnce
    IdleKeeperIsDone

    

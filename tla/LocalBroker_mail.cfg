\* Two messages that are retried over a mailbox of one, while sessions come back,
\* take over and rename, or come back hidden from their author.
CONSTANTS
    Sockets = {s1, s2}
    a = a
    b = b
    c = c
    m1 = m1
    m2 = m2
    m3 = m3
    Keys = {a, b}
    KeyId <- TheKeyId
    KeyScope <- TheKeyScope
    Profiles <- NamedOrSupervised
    MaxSuffix = 1
    MaxSessions = 2
    MaxUnregistered = 2
    MaxEpoch = 2
    None = None
    Msgs = {m1, m2}
    Letter <- PlainLetters
    Bulky = {m1}
    IdPrefixOf <- NoPrefixes
    MaxMailbox = 1
    Forgets = {"mail"}
    StoreFailures = {"stage"}
    MaxTries = 2
SPECIFICATION BrokerSpec
SYMMETRY SocketSymmetry
INVARIANTS
    AtMostOnce
    
    RemovedMailNeverArrives
PROPERTIES
    HandedOnlyToVisible
    MailServiceRefined

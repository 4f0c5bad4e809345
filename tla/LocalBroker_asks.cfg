\* A question, its answer and a question that supersedes it, on a disk that may
\* fail for the ask and for the commit after it (not in between: the ask is then
\* open for a receiver that was handed nothing, and nobody knows its id), with a
\* mailbox of one.
CONSTANTS
    Sockets = {s1, s2}
    a = a
    b = b
    c = c
    m1 = m1
    m2 = m2
    m3 = m3
    Keys = {a, b}
    KeyId <- TheKeyId
    KeyScope <- TheKeyScope
    Profiles <- Unnamed
    MaxSuffix = 1
    MaxSessions = 2
    MaxUnregistered = 2
    MaxEpoch = 2
    None = None
    Msgs = {m1, m2, m3}
    Letter <- AskLetters
    Bulky = {}
    IdPrefixOf <- NoPrefixes
    MaxMailbox = 1
    Forgets = {"records", "routes", "asks"}
    StoreFailures = {"ask", "commit"}
    MaxTries = 1
SPECIFICATION BrokerSpec
SYMMETRY SocketSymmetry
INVARIANTS
    RepliesAnswerWhatArrived
    
    AskFilesMatchEdges

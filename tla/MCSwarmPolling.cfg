SPECIFICATION FairSpec
CONSTANTS
    m1 = m1
    s1 = s1
    s2 = s2
    p1 = p1
    p2 = p2
    Messages = {m1}
    Snodes = {s1, s2}
    SampleSize = 2
    Polls = {p1, p2}
    Kinds = {"PRIVATE", "GROUPV2"}
    Copies = {1, 2}
    MaxAttempts = 3
    CacheLimit = 1
    MaxFaults = 1
\* it may stop once the bound on faults and copies is reached
CHECK_DEADLOCK FALSE
INVARIANTS
    TypeOK
    SeenIsHeld
    FetchedIsHeld
    StoredOnce
    RowIsAwaited
PROPERTIES
    EveryMessageArrives

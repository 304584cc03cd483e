SPECIFICATION FairSpec
CONSTANTS
    n1 = n1
    n2 = n2
    n3 = n3
    r1 = r1
    r2 = r2
    Snodes = {n1, n2, n3}
    Dead = {n1}
    Requests = {r1, r2}
    ONION_REQUEST_HOPS = 2
    desiredGuardCount = 1
    minSnodePoolCount = 1
    failureThreshold = 2
    MaxFaults = 1
INVARIANTS
    TypeOK
    PathsAreWhole
    CountedNodeIsDropped
PROPERTIES
    BadNodeLeaves
    PathsComeBack

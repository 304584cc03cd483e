SPECIFICATION FairSpec
CONSTANTS
    c1 = c1
    c2 = c2
    c3 = c3
    p1 = p1
    p2 = p2
    Parts = 2
    Kinds = {"user"}
    UserConfigs <- OneOfTheUser
    OurChanges = {c1}
    TheirChanges = {c3}
    Pushes = {p1, p2}
    MaxGen = 0
    WithHistory = FALSE
    MaxFaults = 1
INVARIANTS
    CleanIsStored
PROPERTIES
    ChangesStay
    EveryChangeArrives

SPECIFICATION Spec
CONSTANTS
    c1 = c1
    c2 = c2
    c3 = c3
    p1 = p1
    p2 = p2
    Parts = 1
    Kinds = {"group"}
    UserConfigs <- OneOfTheUser
    OurChanges = {c1}
    TheirChanges = {}
    Pushes = {p1}
    MaxGen = 1
    WithHistory = TRUE
    MaxFaults = 0
INVARIANTS
    KeysFirst

SPECIFICATION Spec
CONSTANTS
    c1 = c1
    c2 = c2
    c3 = c3
    p1 = p1
    p2 = p2
    Parts = 1
    Kinds = {"user", "group"}
    UserConfigs <- TwoOfTheUser
    OurChanges = {c1}
    TheirChanges = {}
    Pushes = {p1, p2}
    MaxGen = 1
    WithHistory = FALSE
    MaxFaults = 1
INVARIANTS
    TypeOK
    CleanIsStored
    KeysFirst
SYMMETRY Alike

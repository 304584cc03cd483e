SPECIFICATION Spec
CONSTANTS
    r1 = r1
    r2 = r2
    m1 = m1
    m2 = m2
    p1 = p1
    p2 = p2
    Rooms = {r1, r2}
    Messages = {m1}
    RoomOf <- InFirstRoom
    Polls = {p1}
    MaxUpdates = 2
    MaxChanges = 1
    MaxFaults = 1
\* it stops when there is nothing to poll
CHECK_DEADLOCK FALSE
INVARIANTS
    MemberStays

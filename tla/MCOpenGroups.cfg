SPECIFICATION FairSpec
CONSTANTS
    r1 = r1
    r2 = r2
    m1 = m1
    m2 = m2
    p1 = p1
    p2 = p2
    Rooms = {r1}
    Messages = {m1, m2}
    RoomOf <- InFirstRoom
    Polls = {p1, p2}
    MaxUpdates = 2
    MaxChanges = 2
    MaxFaults = 1
\* it stops when there is nothing to poll
CHECK_DEADLOCK FALSE
INVARIANTS
    TypeOK
    RoomsAgree
    PolledIsHeld
    StoredOnce

    

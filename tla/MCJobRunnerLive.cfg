SPECIFICATION FairSpec
CONSTANTS
    j1 = j1
    j2 = j2
    j3 = j3
    a = a
    b = b
    Job = {j1, j3}
    Identifier = {a, b}
    IdOf <- MCIdOf
    Subject <- MCSubject
    WorkerCount = 1
    MaxAttempts = 2
    Delay = 1
    Restorable = TRUE
    MaxTime = 2
    MaxCrashes = 1
    MaxWriteFailures = 0
INVARIANTS
    AttemptsBounded
    AckedJobIsDurable
PROPERTIES
    EveryJobEnds

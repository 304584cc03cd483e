SPECIFICATION Spec
CONSTANTS
    j1 = j1
    j2 = j2
    j3 = j3
    a = a
    b = b
    Job = {j1, j2, j3}
    Identifier = {a, b}
    IdOf <- MCIdOf
    Subject <- MCSubject
    WorkerCount = 2
    MaxAttempts = 2
    Delay = 1
    Restorable = TRUE
    MaxTime = 1
    MaxCrashes = 0
    MaxWriteFailures = 1
INVARIANTS
    TypeOK
    OneWorkerPerIdentifier
PROPERTIES
    OnlyEndedJobsLeave

SPECIFICATION FairSpec
CONSTANTS
    a1 = a1
    a2 = a2
    Kinds = {"outgoing", "incoming"}
    Attachments = {a1, a2}
    MAX_ATTACHMENT_JOB_PARALLELISM = 1
    MaxAttempts = 2
    Attempts = 2
    MaxRetries = 1
    MaxFaults = 2
\* it stops once everything has ended
CHECK_DEADLOCK FALSE
INVARIANTS
    TypeOK
    SentIsStored
    UnsentIsKept
PROPERTIES
    EveryJobEnds
    ExpiringIsDestroyed

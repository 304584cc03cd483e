SPECIFICATION Spec
CONSTANTS
    a1 = a1
    a2 = a2
    Kinds = {"incoming"}
    Attachments = {a1, a2}
    MAX_ATTACHMENT_JOB_PARALLELISM = 2
    MaxAttempts = 2
    Attempts = 2
    MaxRetries = 1
    MaxFaults = 0
PROPERTIES
    DownloadIsKept

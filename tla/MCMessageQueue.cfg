SPECIFICATION FairSpec
CONSTANTS
    peer = peer
    us = us
    x = x
    y = y
    Device = {peer, us}
    Identifier = {x, y}
    Message <- MCMessage
    WithCallback <- MCWithCallback
    MaxCalls = 3
    MaxCrashes = 1
    MaxWriteFailures = 1
    MaxLoadFailures = 1
\* a rejected load stops the queue until the next start
CHECK_DEADLOCK FALSE
INVARIANTS
    TypeOK
    JobsFollowCache
    SavedIsDurable
    NoCallbackLeaks
    SendsBounded
PROPERTIES
    IsOutbox
    SavedIsSettled

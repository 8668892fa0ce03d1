SPECIFICATION FairLifespan
CONSTANTS
    MaxTasks = 2
    max_concurrent = 1
    CanStop = TRUE
    Streams = {s1}
    Requests = {r1}
    Nobody = Nobody
    Shutdown = Shutdown
INVARIANTS
    SemaphoreBalanced
    RecordsMatchCoroutines
    OnlyLeftoversLeak
PROPERTIES
    KeepsTaskPool
    EveryTaskEnds
    ShutdownEnds
CHECK_DEADLOCK FALSE

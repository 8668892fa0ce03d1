SPECIFICATION Spec
CONSTANTS
    r1 = r1
    r2 = r2
    w1 = w1
    w2 = w2
    Requests <- TwoClients
    Workers <- TwoWorkers
    WorkerOf <- OwnWorker
    MaxRounds = 2
    APPROVAL_TTL = 1
    Serial = TRUE
    CanFail = TRUE
    CanCrash = TRUE
    CanDisconnect = TRUE
INVARIANTS
    RepliesAgree
PROPERTIES
    KeepsRounds
    NoLateDecision

SPECIFICATION Spec
CONSTANTS
    r1 = r1
    r2 = r2
    w1 = w1
    w2 = w2
    Requests <- TwoClients
    Workers <- OneWorker
    WorkerOf <- SameWorker
    MaxRounds = 2
    APPROVAL_TTL = 1
    Serial = TRUE
    CanFail = FALSE
    CanCrash = FALSE
    CanDisconnect = FALSE
PROPERTIES
    AnswersCurrentRound

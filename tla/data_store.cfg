SPECIFICATION Spec
CONSTANTS
    w1 = w1
    w2 = w2
    t1 = t1
    t2 = t2
    u1 = u1
    u2 = u2
    NoRow = NoRow
    Workers <- MCWorkers
    Threads <- MCThreads
    Users <- MCUsers
    Mixes <- MCMixes
SYMMETRY Symmetry
INVARIANTS
    AcknowledgedRowsKept
PROPERTIES
    DeletedItemsGone
    SpentTokenRefused
    PasswordsStick
    OnlyOverlapsTakeThreads

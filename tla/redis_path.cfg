SPECIFICATION Spec
CONSTANTS
    Workers = {w1, w2}
    Addresses = {a1}
    Users = {u1}
    NoUser = NoUser
    NoRequest = NoRequest
    max_requests = 2
    emergency_limit = 1
    Window = 3
    Second = 2
    FAIL_OPEN_REDIS = FALSE
    max_tracked_ips = 2
    Timeout = 1
    Scopes = {s1, s2}
    TTL = 2
    NoEntry = NoEntry
SYMMETRY Symmetric
CONSTRAINT MCWatched
INVARIANTS
    RedisWindowKept
    RefusedMayReturn
    AnswersOwnAndFresh

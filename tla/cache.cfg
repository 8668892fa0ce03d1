SPECIFICATION FairSpec
CONSTANTS
    c1 = c1
    c2 = c2
    c3 = c3
    k1 = k1
    k2 = k2
    k3 = k3
    NoOne = NoOne
    Callers <- MCCallers
    Keys <- MCTwoKeys
    KeysOf <- OneSharedKey
    Outcomes = {"value", "none", "error"}
    max_entries = 1
    ttl = 1
    Cancellable = {c2}
    Clearing = {c3}
    MaxClears = 1
INVARIANTS
    StoreBounded
    AwaitedFutureRegistered
PROPERTIES
    KeepsSingleFlight
    OnlyLostLeadersHang

SPECIFICATION FairSpec
CONSTANTS
    c1 = c1
    c2 = c2
    c3 = c3
    k1 = k1
    k2 = k2
    k3 = k3
    NoOne = NoOne
    Callers <- MCCallers
    Keys <- MCTwoKeys
    KeysOf <- SharedKeys
    Outcomes = {"value", "none", "error"}
    max_entries = 1
    ttl = 1
    Cancellable = {}
    Clearing = {}
    MaxClears = 0
PROPERTIES
    EveryCallEnds

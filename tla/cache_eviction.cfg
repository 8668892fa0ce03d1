SPECIFICATION Spec
CONSTANTS
    c1 = c1
    c2 = c2
    c3 = c3
    k1 = k1
    k2 = k2
    k3 = k3
    NoOne = NoOne
    Callers <- MCTwoCallers
    Keys <- MCThreeKeys
    KeysOf <- SharedKeys
    Outcomes = {"value", "none"}
    max_entries = 2
    ttl = 2
    Cancellable = {c2}
    Clearing = {}
    MaxClears = 0
INVARIANTS
    StoreBounded
PROPERTIES
    KeepsSingleFlight

SPECIFICATION FairSpec
CONSTANTS
    c1 = c1
    c2 = c2
    c3 = c3
    Callers <- MCCallers
    failure_threshold = 2
    cooldown_seconds = 1
    success_threshold = 1
    half_open_max_trials = 1
    FailureCountCap = 3
    HistoryCap = 3
PROPERTIES
    RecoversOnceHealthy

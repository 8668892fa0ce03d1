SPECIFICATION FairSpec
CONSTANTS
    Callers = {a, b}
    failure_threshold = 2
    cooldown_seconds = 1
    success_threshold = 1
    half_open_max_trials = 1
    FailureCountCap = 2
    HistoryCap = 0
    max_retries = 1
    MaxBackoff = 1
    CrashesReported = TRUE
    CanHang = FALSE
PROPERTIES DeadSessionReplaced

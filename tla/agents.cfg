SPECIFICATION PipelineFairSpec
CONSTANTS
    p1 = p1
    c1 = c1
    Callers <- MCCallers
    Plans <- MCPlans
    Configurations <- MCConfigurations
    NoLibrary = {"huggingface"}
    max_retries = 1
    MAX_PARALLEL_AGENTS = 4
    failure_threshold = 2
    cooldown_seconds = 1
    success_threshold = 2
    half_open_max_trials = 2
    FailureCountCap = 2
    HistoryCap = 2
INVARIANTS
    CountersAgreeWithState
    TripsOnlyOnEvidence
    StreakTrips
    NoLeakedSlot
PROPERTIES
    KeepsGatePromise
    RecoversWithASlotLeft
    EveryPlanEnds

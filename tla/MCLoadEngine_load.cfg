SPECIFICATION LiveSpec
CONSTANTS
    NumBuckets = 2
    MinRequests = 1
    MaxErrorPercent = 50
    LimitsLatency = TRUE
    ConsecutiveBreaches = 2
    Workers = {"w1", "w2"}
    Steps <- ScenarioSteps
    InitialStep = "browse"
    Targets <- ScenarioTargets
    OnFailure <- ScenarioOnFailure
    Outcomes = {"ok", "timeout"}
    MaxSteps = 2
    Profiles = {"flat_vu", "target_rps", "ramping"}
    VUs = 2
    MaxInflight = 1
    Stages <- UpAndDown
    MaxDelay = 1
    MaxSessions = 2
    MaxSlices = 3
INVARIANTS
    SummaryIsFinal
    WindowIsExact
    TripIsJustified
    StatusIsEarned
PROPERTIES
    StoppedRunReturns
CHECK_DEADLOCK FALSE

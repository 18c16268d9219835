SPECIFICATION Spec
CONSTANTS
    NumBuckets = 2
    MinRequests = 1
    MaxErrorPercent = 50
    LimitsLatency = TRUE
    ConsecutiveBreaches = 2
    Workers = {"w1", "w2"}
    Steps <- ScenarioSteps
    InitialStep = "browse"
    Targets <- ScenarioTargets
    OnFailure <- ScenarioOnFailure
    Outcomes = {"ok", "error"}
    MaxSteps = 2
    Profiles = {"flat_vu"}
    VUs = 2
    MaxInflight = 1
    Stages <- UpAndDown
    MaxDelay = 1
    MaxSessions = 2
    MaxSlices = 3
INVARIANTS
    NoPanic
CHECK_DEADLOCK FALSE

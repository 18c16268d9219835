SPECIFICATION Spec
CONSTANTS
    MinutesPerDay = 3
    DaysPerWeek = 2
    Offset = 1
    Slots <- Evening
    MaxTime = 7
    MaxSchedules = 2
    MaxRestarts = 1
    Hosts = {"shop", "search"}
    Blocked = {"search"}
    Private = {}
    CloudHosts = {"shop"}
    Requests = {"q1", "q2"}
    RunRequests <- Wanted
    MaxTokens = 1
    MaxRequests = 3
    Words <- Beginnings
    Slugs <- Names
    Shapes <- Curves
    Baselines = {1, 10}
    MaxPresets = 3
    Recorders = {"w1", "w2"}
    Outcome <- Results
    LinearBuckets = 1
    TotalBuckets = 3
    Lower <- Bounds
    Percentages = {50, 99}
    Answers = {200, 302, 404, 500}
    MaxStepTransitions = 5
    MaxPages = 3
    MaxFolders = 2
    VariableNames <- Variables
    Recordings <- Recorded
    Bases = {"", "shop"}
    Collections <- Nested
    Exports <- Exported
    Traces <- Traced
    Sites <- Found
    Specs <- Documented
    Authored <- Handwritten
    Measured <- Summaries
    Configured <- Configurations
    Shared <- Elsewhere
    MaxFinished = 2
    MaxShared = 2
INVARIANTS
    TypeOK
    
    StateNamesItsOwn
    TestedIsOwned
    PollFindsProof
    MetricsAreFaithful
    JourneyIsFaithful
    WorseIsNeverSafer
CHECK_DEADLOCK FALSE

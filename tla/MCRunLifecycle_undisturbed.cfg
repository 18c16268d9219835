SPECIFICATION LiveSpec
CONSTANTS
    Runs = {"prod", "dev"}
    Guarded = {"prod"}
    ChaosRuns = {}
    FaultOf <- OwnFaults
    Clients = {"c1", "c2"}
    Nobody = Nobody
    Operations = {"approve", "abort"}
    Disturbances = {}
    MaxRuns = 1
    MaxStarts = 2
    MaxCalls = 3
INVARIANTS
    NoStuckRun
    ExecutedIsApproved
    ActiveIsLive
    Abortable
PROPERTIES
    RunsSettle
CHECK_DEADLOCK FALSE

SPECIFICATION Spec
CONSTANTS
    Runs = {"prod", "dev"}
    Guarded = {}
    ChaosRuns = {}
    FaultOf <- OwnFaults
    Clients = {"c1"}
    Nobody = Nobody
    Operations = {"abort"}
    Disturbances = {}
    MaxRuns = 1
    MaxStarts = 1
    MaxCalls = 1
PROPERTIES
    AbortedIsNotExecuted
CHECK_DEADLOCK FALSE

SPECIFICATION MonitorSpec
CONSTANTS
    Runs = {"prod", "dev"}
    Guarded = {"prod"}
    ChaosRuns = {"prod", "dev"}
    FaultOf <- SameFault
    Clients = {"c1"}
    Nobody = Nobody
    Operations = {"approve", "abort", "share"}
    Disturbances = {"storage_error", "chaos_error", "stop"}
    MaxRuns = 1
    MaxStarts = 1
    MaxCalls = 2
INVARIANTS
    SlotsMatch
PROPERTIES
    CancelledFaultEnds
CHECK_DEADLOCK FALSE

SPECIFICATION WatchdogSpec
CONSTANTS
    Faults <- NarrowFaults
    NoFault = "none"
    Contexts = {"c1", "c2"}
    Interfaces = {"eth0"}
    IdOf <- NarrowIds
    InterfaceOf <- NarrowInterfaceOf
    Filtered = {}
    Disturbances = {"kernel_error", "signal"}
    MaxApplies = 3
    MaxLaunches = 1
INVARIANTS
    RevertedIsClean
PROPERTIES
    IsDeadManSwitch
    InstalledIsRemoved
CHECK_DEADLOCK FALSE

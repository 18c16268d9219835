SPECIFICATION CancelSpec
CONSTANTS
    Faults <- WideFaults
    NoFault = "none"
    Contexts = {"c1", "c2"}
    Interfaces <- WideInterfaces
    IdOf <- WideIds
    InterfaceOf <- WideInterfaceOf
    Filtered = {"lossy"}
    Disturbances = {"kernel_error", "link_error", "signal", "kill"}
    MaxApplies = 2
    MaxLaunches = 2
INVARIANTS
    InjectedIsGuarded
PROPERTIES
    CancelledIsReverted
CHECK_DEADLOCK FALSE

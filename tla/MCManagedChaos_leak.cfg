SPECIFICATION Spec
CONSTANTS
    Faults <- TwoFaults
    NoFault = "none"
    Contexts = {"c1", "c2"}
    Interfaces <- WideInterfaces
    IdOf <- TwoIds
    InterfaceOf <- TwoInterfaceOf
    Filtered = {}
    Disturbances = {}
    MaxApplies = 2
    MaxLaunches = 1
INVARIANTS
    RevertedIsClean
CHECK_DEADLOCK FALSE

SPECIFICATION LiveSpec
CONSTANTS
    Min <- MinOf
    Max <- MaxOf
    Tolerance <- ToleranceOf
    MaxIterations = 3
    Width <- WidthOf
    Unit = 8
    MinVUs = 1
    MaxVUs = 10
    Applications <- ApplicationsOf
    Disturbances = {"cancel", "refusal", "other_revert", "other_apply"}
INVARIANTS
    ReportIsMeasured
    ThresholdIsFound
    TrialFaultEnds
PROPERTIES
    SearchEnds
CHECK_DEADLOCK FALSE

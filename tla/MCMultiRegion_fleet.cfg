SPECIFICATION Spec
CONSTANTS
    Ids = {"one", "two"}
    Regions = {"west", "east"}
    Runs = {1, 2}
    Nobody = Nobody
    Agents = {"a", "b", "c"}
    IdOf <- IdOfThree
    RegionOf <- RegionOfThree
    Wanted <- WantedOf
    MaxFailures = 1
INVARIANTS
    LoadIsSplit
    MergedIsReported
PROPERTIES
    NoReportMissed
CHECK_DEADLOCK FALSE

SPECIFICATION Spec
CONSTANTS
    Runs = {"r1", "r2"}
    LiveRuns = {"r1"}
    SharedRuns = {"r2"}
    Streams = {"s1", "s2"}
    BusBuffer = 1
    MaxSnapshots = 1
    Readers = {"c1"}
    LogCapacity = 2
    Backlog = 1
    LogBuffering = 1
    MaxEntries = 5
    StressFaults = {"burn", "fill"}
    StressIdOf <- StressIds
    StressKinds <- Burdens
    MaxStresses = 3
    ProxyRequests = {"get", "post"}
    ProxyHosts = {"shop", "pay"}
    ProxyFaults = {"slow", "broken"}
    ProxyEffects <- Effects
    ProxyDomains <- Domains
    MaxSwitches = 3
    Pods = {"p1", "p2", "p3"}
    KillPercents = {0, 50}
    MaxReplicas = 2
    MaxSamples = 2
INVARIANTS
    TypeOK
    ChannelsAreSafe
    StreamIsFaithful
    LogIsFaithful
    TouchedByItsFault
    KubernetesIsReported
PROPERTIES
    StreamEnds
    StressEnds
CHECK_DEADLOCK FALSE

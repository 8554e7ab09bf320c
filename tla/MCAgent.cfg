SPECIFICATION MCSpec
CONSTANTS
    Hardware <- MCHardware
    MaxRate = 2
    MaxSince = 5
    PollInterval = 2
    Watts = {0, 1, 3}
    PodUid = {"a", "b", "c"}
    Replica = {"rs"}
    OwnerOf <- MCOwner
    TopOf <- MCTop
    None = "none"
    MaxAttempts = 2
    RefreshTicks = 2
    MaxChanges = 2
    MaxKills = 1
    NumCores = 4
    NumSockets = 2
    Interval = 2
    Observations <- MCObservations
    Energies <- MCEnergies
    Container <- MCContainer
    Pod = {"p", "q"}
    Namespace <- MCNamespace
    detail_capacity = 2
    summary_capacity = 2
    PodLists <- MCPodLists
    MaxPushes = 3
    MaxDelivered = 3
INVARIANTS
    EnergyCountedOnce BestReadings DiscoveredReadable
    CacheIsAListing SameOwnerSameWorkload WrongOnlyAfterFailure
    EngineWithinMeasured StoreComplete
PROPERTIES
    PodCacheConverges ReportsResume LevelsAddUp ImplementsOutbox

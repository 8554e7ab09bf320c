SPECIFICATION MCSpec
CONSTANTS
    n1 = n1
    n2 = n2
    ns1 = ns1
    Node = {n1}
    Uid = {u1}
    Namespace = {ns1}
    Power = {1, 2}
    Platform = {NoReading}
    NoReading = NoReading
    Staleness = 1
    Retention = 0
    MaxDelay = 1
    AgeCap = 3
    Home <- HomeIsN1
    NamespaceOf <- InNs1
    Trusted = {n1}
    MaxPower = 1
    MaxPods = 1
    KeplerEnabled = TRUE
    MaxInFlight = 1
    AlertAfter = 2
PROPERTIES
    RemovedNodeForgotten
    LiveNodeVisible
    EndedPodForgotten
    RecoveredAgentClears

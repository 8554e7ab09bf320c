SPECIFICATION MetricsSpec
CONSTANTS
    n1 = n1
    n2 = n2
    ns1 = ns1
    Node = {n1}
    Uid = {u1}
    Namespace = {ns1}
    Power = {1}
    Platform = {NoReading}
    NoReading = NoReading
    Staleness = 2
    Retention = 0
    MaxDelay = 1
    AgeCap = 2
    Home <- HomeIsN1
    NamespaceOf <- InNs1
    Trusted = {n1}
    MaxPower = 1
    MaxPods = 1
    KeplerEnabled = FALSE
    MaxInFlight = 2
    AlertAfter = 1
PROPERTY LatestReading

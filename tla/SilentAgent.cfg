SPECIFICATION AlertsSpec
CONSTANTS
    n1 = n1
    n2 = n2
    ns1 = ns1
    Node = {n1, n2}
    Uid = {}
    Namespace = {ns1}
    Power = {1}
    Platform = {NoReading}
    NoReading = NoReading
    Staleness = 1
    Retention = 0
    MaxDelay = 1
    AgeCap = 3
    Home <- HomeIsN1
    NamespaceOf <- InNs1
    Trusted = {n1, n2}
    MaxPower = 1
    MaxPods = 1
    KeplerEnabled = FALSE
    MaxInFlight = 1
    AlertAfter = 2
PROPERTY SilentAgentAlerts

SPECIFICATION MCSpec
CONSTANTS
    n2 = n2
    u1 = u1
    u2 = u2
    ns1 = ns1
    p1 = p1
    p2 = p2
    p3 = p3
    c1 = c1
    c2 = c2
    Node = {n1, n2}
    Uid = {u1, u2}
    Namespace = {ns1, ns2}
    Power = {1}
    Platform = {NoReading}
    NoReading = NoReading
    Staleness = 1
    Retention = 1
    MaxDelay = 1
    AgeCap = 2
    WorkloadOf <- Workloads
    PartOf <- Labels
    OperatorOf <- Operators
    ClusterNs = {p1, p2, p3}
    ClusterOperator = {c1, c2}
    Shared = {p3}
    NameFits <- SomeNamesFit
    MaxChanges = 1
    Cluster = {"east", "west"}
    ClusterReports <- SomeClusterReports
    Owners <- SomeOwners
    Policies <- AllPolicies
    staleness_threshold = 2
    MaxAge = 3
INVARIANT GroupShowsOneMethod

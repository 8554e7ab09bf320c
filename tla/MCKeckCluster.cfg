SPECIFICATION MCSpec
CONSTANTS
    k1 = k1
    k2 = k2
    Cluster = {k1, k2}
    SpecVersion = {1, 2}
    ReadFaults <- NamespacedChildren
    WriteFaults <- EveryStep
    Refused = {"monitor", "pdb"}
    Place = {"inside", "outside"}
    MaxEdits = 3
    MaxFaults = 1
INVARIANTS
    ChildrenHaveOwner
PROPERTIES
    InstallCompletes
    SpecApplied
    PhaseFollowsPods
    DeletionCompletes
CHECK_DEADLOCK FALSE

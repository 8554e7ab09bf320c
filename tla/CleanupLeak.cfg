SPECIFICATION WholeSpec
CONSTANTS
    k1 = k1
    k2 = k2
    Cluster = {k1}
    SpecVersion = {1}
    ReadFaults = {"role"}
    WriteFaults = {}
    Refused = {"monitor", "pdb"}
    Place = {"outside"}
    MaxEdits = 2
    MaxFaults = 1
INVARIANT ChildrenHaveOwner

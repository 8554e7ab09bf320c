SPECIFICATION WholeSpec
CONSTANTS
    k1 = k1
    k2 = k2
    Cluster = {k1}
    SpecVersion = {1}
    ReadFaults = {}
    WriteFaults = {}
    Refused = {"monitor", "pdb"}
    Place = {"inside"}
    MaxEdits = 2
    MaxFaults = 0
PROPERTY FinalizerCleansUp
CHECK_DEADLOCK FALSE

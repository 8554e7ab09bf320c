SPECIFICATION MCSpec
CONSTANTS
    Cpu = {0}
    Pid = {p1, p2}
    Idle = Idle
    CgroupOf <- Cgroups
    MaxEntries = 1
    MaxTime = 3
    FreqCpu = {0, 1}
    Freq = {f1, f2}
    MaxFreqEntries = 3
    MaxFreqTime = 3
    NetCpu = {0, 1}
    Tgid = {p1, p2}
    MaxNetEntries = 1
    MaxBytes = 2
    HwCore = {0, 1}
    MaxEvents = 3
    MaxFailures = 1
    ProcPid = {1, 2}
    Home <- MCHome
    Cached <- MCCached
    Pss = {1}
    PssEvery = 2
    CleanEvery = 2
    Node <- MCPower
    ReadCores = {0}
    Llc = TRUE
    Snapshots <- MCSnapshots
    GpuLines <- MCGpuLines
    MaxTicks <- MCTicks
    MaxIo <- MCIo
    MaxIoFailed <- MCIo
INVARIANT CrossSocketCorrect

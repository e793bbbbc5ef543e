SPECIFICATION Spec
CONSTANTS
    CPUResource = "cores"
    PrimaryBoostFactor = 150
    FallbackBoostFactor = 125
    HostMem = 48
    VMs = {v1, v2}
    v1 = v1
    HostCPUs = 4
    ConsecutiveSamples = 1
    DownscaleConsecutiveSamples = 1
    BoostDuration = 1
    TicksPerSecond = 1
    ExcludeTag = "noautoscale"
    InitAlloc <- HalfHost
    Zones <- MemZones
    NodeLoads <- MemLoad
    AdminValues <- NoEdits
    AdminActs = {"retag"}
    Faults = {}
    MaxValue = 64
    v2 = v2
INVARIANTS
    BoostIsTagged
    NothingLeft
PROPERTIES
    OvershootBounded
SYMMETRY Permuted

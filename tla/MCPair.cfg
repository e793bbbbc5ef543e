SPECIFICATION Spec
CONSTANTS
    CPUResource = "cores"
    PrimaryBoostFactor = 150
    FallbackBoostFactor = 125
    HostMem = 12
    VMs = {v1}
    v1 = v1
    HostCPUs = 4
    ConsecutiveSamples = 1
    DownscaleConsecutiveSamples = 1
    BoostDuration = 1
    TicksPerSecond = 1
    ExcludeTag = "noautoscale"
    InitAlloc <- TwoCores
    Zones <- BothZones
    NodeLoads <- MemLoad
    AdminValues <- PairEdits
    AdminActs = {"resize"}
    Faults = {"save", "crash"}
    MaxValue = 12
INVARIANTS
    BaselineKept
    PersistedMatchesMemory
PROPERTIES
    ImplementsContract

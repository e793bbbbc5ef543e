SPECIFICATION Spec
CONSTANTS
    CPUResource = "cores"
    PrimaryBoostFactor = 150
    FallbackBoostFactor = 125
    HostMem = 64
    VMs = {v1}
    v1 = v1
    HostCPUs = 4
    ConsecutiveSamples = 2
    DownscaleConsecutiveSamples = 2
    BoostDuration = 3
    TicksPerSecond = 2
    ExcludeTag = "noautoscale"
    InitAlloc <- TwoCores
    Zones <- CpuZones
    NodeLoads <- AnyLoad
    AdminValues <- CpuEdits
    AdminActs = {"resize"}
    Faults = {"error", "lost", "save", "delete", "load", "crash"}
    MaxValue = 6
INVARIANTS
    TypeOK
    BaselineKept
    AtMostOneBoost
    PersistedMatchesMemory
    IInv
PROPERTIES
    RevertsInTime
    ImplementsContract

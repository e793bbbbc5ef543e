SPECIFICATION Spec
CONSTANTS
    CPUResource = "cpulimit"
    PrimaryBoostFactor = 150
    FallbackBoostFactor = 125
    HostMem = 64
    VMs = {v1}
    v1 = v1
    HostCPUs = 4
    ConsecutiveSamples = 1
    DownscaleConsecutiveSamples = 1
    BoostDuration = 2
    TicksPerSecond = 1
    ExcludeTag = "noautoscale"
    InitAlloc <- OneLimit
    Zones <- CpuZones
    NodeLoads <- AnyLoad
    AdminValues <- LimitEdits
    AdminActs = {"resize", "power"}
    Faults = {"error", "lost", "delete", "crash"}
    MaxValue = 160
INVARIANTS
    BaselineKept
PROPERTIES
    ImplementsContract

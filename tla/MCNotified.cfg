SPECIFICATION NFairSpec
CONSTANTS
    CPUResource = "cores"
    PrimaryBoostFactor = 150
    FallbackBoostFactor = 125
    HostMem = 64
    VMs = {v1}
    v1 = v1
    HostCPUs = 4
    ConsecutiveSamples = 1
    DownscaleConsecutiveSamples = 1
    BoostDuration = 1
    TicksPerSecond = 1
    ExcludeTag = "noautoscale"
    InitAlloc <- TwoCores
    Zones <- CpuZones
    NodeLoads <- NoLoad
    AdminValues <- CpuEdits
    AdminActs = {"resize"}
    Faults = {"error", "crash"}
    MaxValue = 6
    Enabled = {"email", "slack"}
    MaxFlights = 1
PROPERTIES
    AlertsAreTrue
    EachBackendOnce
    AlertsEnd
    MonitorUnaffected

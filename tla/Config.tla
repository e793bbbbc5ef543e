-------------------------------- MODULE Config --------------------------------
(***************************************************************************)
(* Package config: the defaults, the file laid over them, and what         *)
(* validate accepts. Thresholds and factors are percentages, durations are *)
(* seconds; the notification and logging sections, which validate does not *)
(* look at, are left out.                                                  *)
(***************************************************************************)
EXTENDS Integers

defaultConfig ==
    [Host |-> "", Node |-> "", TokenID |-> "", TokenSecret |-> "",
     PollInterval |-> 5, SaturationThreshold |-> 95, DownscaleThreshold |-> 80,
     ConsecutiveSamples |-> 3, DownscaleConsecutiveSamples |-> 6,
     BoostDuration |-> 120, HistorySamples |-> 10,
     CPUResource |-> "cores", PrimaryBoostFactor |-> 150,
     FallbackBoostFactor |-> 125, HostCPUMaxThreshold |-> 90,
     HostMemoryMaxThreshold |-> 90,
     DBPath |-> "/var/lib/proxmox-autoscaler/state.db"]

Required == {"Host", "Node", "TokenID", "TokenSecret", "DBPath"}
Positive == {"PollInterval", "ConsecutiveSamples", "DownscaleConsecutiveSamples",
             "BoostDuration", "HistorySamples"}
Numbers  == Positive \cup {"SaturationThreshold", "DownscaleThreshold",
                           "PrimaryBoostFactor", "FallbackBoostFactor"}

\* yaml.Unmarshal sets the fields that the file names.
Load(file) ==
    [f \in DOMAIN defaultConfig |->
        IF f \in DOMAIN file THEN file[f] ELSE defaultConfig[f]]

\* Variant with a bug: the two thresholds are not compared.
ValidateApart(c) ==
    /\ \A f \in Required : c[f] # ""
    /\ \A f \in Positive : c[f] > 0
    /\ c.SaturationThreshold > 0 /\ c.SaturationThreshold <= 100
    /\ c.DownscaleThreshold > 0 /\ c.DownscaleThreshold <= 100
    /\ c.CPUResource \in {"cores", "cpulimit"}
    /\ c.PrimaryBoostFactor > 100 /\ c.FallbackBoostFactor > 100

Validate(c) ==
    /\ \A f \in Required : c[f] # ""
    /\ \A f \in Positive : c[f] > 0
    /\ c.SaturationThreshold > 0 /\ c.SaturationThreshold <= 100
    /\ c.DownscaleThreshold > 0 /\ c.DownscaleThreshold <= 100
    /\ c.DownscaleThreshold < c.SaturationThreshold
    /\ c.CPUResource \in {"cores", "cpulimit"}
    /\ c.PrimaryBoostFactor > 100 /\ c.FallbackBoostFactor > 100
===============================================================================

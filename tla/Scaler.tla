-------------------------------- MODULE Scaler --------------------------------
(***************************************************************************)
(* The arithmetic of package scaler: how a boosted value is computed from  *)
(* the current allocation and which boost the host has room for.           *)
(*                                                                         *)
(* Allocations are naturals: cores, hundredths of a core (cpulimit) or MB, *)
(* which is the resolution each value has when it is written to Proxmox.   *)
(* A factor is a percentage, 150 standing for 1.5.                         *)
(***************************************************************************)
EXTENDS Integers

CONSTANTS
    CPUResource,          \* scaling.cpu_resource: "cores" or "cpulimit"
    PrimaryBoostFactor,   \* scaling.primary_boost_factor, in percent
    FallbackBoostFactor,  \* scaling.fallback_boost_factor, in percent
    HostMem               \* physical memory of the node, in MB

\* What Config.validate guarantees of the scaling section: any other
\* configuration is refused before the service starts.
ASSUME ScalingAssumption ==
    /\ CPUResource \in {"cores", "cpulimit"}
    /\ PrimaryBoostFactor \in Nat /\ PrimaryBoostFactor > 100
    /\ FallbackBoostFactor \in Nat /\ FallbackBoostFactor > 100
    /\ HostMem \in Nat

Kinds == {"cpu", "memory"}

\* Cores and megabytes are rounded up, a cpulimit to the nearest hundredth.
applyFactor(kind, current, factor) ==
    IF kind = "cpu" /\ CPUResource = "cpulimit"
    THEN (current * factor + 50) \div 100
    ELSE (current * factor + 99) \div 100

\* The error result of ComputeBoost.
NoBoost == -1

\* Variant with a bug: what the candidate asks for is counted as free.
FitsAlways(candidate, current, totalAlloc) ==
    candidate - current <= HostMem - totalAlloc + candidate

\* The capacity test of one candidate. The current allocation is part of
\* totalAlloc and is added back, exactly as the code computes its headroom.
Fits(candidate, current, totalAlloc) ==
    candidate - current <= HostMem - totalAlloc + current

\* saturated is the set of resources the node is short of, taken from the
\* node status the caller read; totalAlloc is the memory of the running
\* containers whose configuration could be read.
ComputeBoost(kind, current, saturated, totalAlloc) ==
    LET primary  == applyFactor(kind, current, PrimaryBoostFactor)
        fallback == applyFactor(kind, current, FallbackBoostFactor)
    IN  IF kind \in saturated THEN NoBoost
        ELSE IF kind = "cpu" THEN primary
        ELSE IF Fits(primary, current, totalAlloc) THEN primary
        ELSE IF Fits(fallback, current, totalAlloc) THEN fallback
        ELSE NoBoost

\* Every value a boost of current may write, whatever the host's load.
Boosts(kind, current) ==
    {applyFactor(kind, current, f) :
        f \in {PrimaryBoostFactor, FallbackBoostFactor}}
===============================================================================

----------------------------- MODULE MCAutoscaler -----------------------------
(***************************************************************************)
(* Small instances of Autoscaler for TLC: values for the constants that a  *)
(* .cfg cannot write down.                                                 *)
(***************************************************************************)
EXTENDS AutoscalerProperties, TLC

Only(kind, x, otherwise) == [k \in Kinds |-> IF k = kind THEN x ELSE otherwise]

\* Usage classes: one resource, or both, ever get busy.
CpuZones  == Only("cpu", UsageClasses, {"calm"})
MemZones  == Only("memory", UsageClasses, {"calm"})
BothZones == [k \in Kinds |-> {"calm", "saturated"}]

\* What the node may report itself short of.
NoLoad  == {{}}
AnyLoad == {{}, {"cpu"}}
MemLoad == {{}, {"memory"}}

\* Values the administrator may choose: unset or unlimited, the initial one,
\* and one that is also the boosted value of another.
NoEdits    == [k \in Kinds |-> {}]
CpuEdits   == Only("cpu", {0, 2, 3}, {})
LimitEdits == Only("cpu", {0, 70, 105}, {})
PairEdits  == [k \in Kinds |-> IF k = "cpu" THEN {2} ELSE {8, 10}]

\* Configurations before the first start.
TwoCores   == [r \in Res |-> IF r[2] = "cpu" THEN 2 ELSE 8]
OneLimit   == [r \in Res |-> IF r[2] = "cpu" THEN 70 ELSE 8]
HalfHost   == [r \in Res |-> IF r[2] = "cpu" THEN 2 ELSE 24]

\* Containers are alike when they start alike.
Permuted == Permutations(VMs)
===============================================================================

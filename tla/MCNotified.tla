------------------------------ MODULE MCNotified ------------------------------
(***************************************************************************)
(* A small instance of NotifiedAutoscaler for TLC.                         *)
(***************************************************************************)
EXTENDS NotifiedAutoscaler

CpuZones == [k \in Kinds |-> IF k = "cpu" THEN {"calm", "saturated"}
                                         ELSE {"calm"}]
NoLoad   == {{}}
CpuEdits == [k \in Kinds |-> IF k = "cpu" THEN {0} ELSE {}]
TwoCores == [r \in Res |-> IF r[2] = "cpu" THEN 2 ELSE 8]
===============================================================================

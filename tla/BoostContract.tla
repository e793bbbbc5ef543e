----------------------------- MODULE BoostContract -----------------------------
(***************************************************************************)
(* What the autoscaler promises about the value of a resource, without     *)
(* saying how: polls, records, requests and restarts are invisible here.   *)
(*                                                                         *)
(* A resource is at its configured value or one boost above it. A boost    *)
(* starts from the configured value and from nowhere else, a revert leads  *)
(* back to that value and to nowhere else, and nobody but the              *)
(* administrator changes what is configured. A resource may drop out of    *)
(* the promise: whatever happens to its value then, it comes back with the *)
(* administrator's next edit, and no other resource is affected.           *)
(***************************************************************************)
CONSTANTS
    Resources,       \* what is scaled
    Amount(_, _),    \* the amount that a value configured for a resource is
    Raised(_, _)     \* the values that one boost of an amount may lead to

VARIABLES
    configured,      \* what the administrator configured
    value,           \* what is in force
    lost             \* resources the promise does not cover any more

state == <<configured, value, lost>>

AtConfigured(r) == Amount(r, value[r]) = Amount(r, configured[r])

Init == value = configured /\ lost = {}

\* Nothing but the value of r changes.
OnlyValue(r) ==
    /\ \A q \in Resources \ {r} : value'[q] = value[q]
    /\ UNCHANGED configured

Boost(r) ==
    /\ r \notin lost /\ AtConfigured(r)
    /\ value'[r] \in Raised(r, Amount(r, value[r]))
    /\ OnlyValue(r) /\ UNCHANGED lost

Revert(r) ==
    /\ r \notin lost
    /\ value'[r] = Amount(r, configured[r])
    /\ OnlyValue(r) /\ UNCHANGED lost

\* The administrator configures another value, which begins a new promise or,
\* when it looks like a boost the service remembers, ends the present one.
Edit(r) ==
    /\ configured'[r] = value'[r]
    /\ \A q \in Resources \ {r} :
           value'[q] = value[q] /\ configured'[q] = configured[q]
    /\ lost' \in {lost \cup {r}, lost \ {r}}

\* Resources drop out of the promise; their values stay.
Lose(S) == lost' = lost \cup S /\ UNCHANGED <<configured, value>>

\* The value of a resource that is out of the promise, from this step on if
\* not before, changes.
Drift(r) == lost' = lost \cup {r} /\ OnlyValue(r)

Next ==
    \/ \E r \in Resources : Boost(r) \/ Revert(r) \/ Edit(r) \/ Drift(r)
    \/ \E S \in SUBSET Resources : Lose(S)

Spec == Init /\ [][Next]_state
===============================================================================

------------------------------- MODULE Notifier -------------------------------
(***************************************************************************)
(* Package notifier: every alert is a goroutine of its own that calls the  *)
(* enabled backends one after the other. A backend that fails is logged    *)
(* and passed over, nothing is tried twice, and no call has a time limit:  *)
(* the mail program is run without a context, Slack is posted to with      *)
(* http.DefaultClient.                                                     *)
(***************************************************************************)
EXTENDS Naturals, Sequences

CONSTANTS
    Enabled,      \* backends enabled in the notifications section
    MaxFlights    \* alerts under way that are followed at a time

ASSUME NotifierAssumption ==
    Enabled \subseteq {"email", "slack"} /\ MaxFlights \in Nat

VARIABLE flight   \* the goroutines: what each announces and whom it has called

\* The slice of main, handed to NewMulti: the mail program before Slack.
Chosen(backend) == IF backend \in Enabled THEN <<backend>> ELSE << >>
Backends        == Chosen("email") \o Chosen("slack")

Slots == 1..MaxFlights
Free  == [none |-> TRUE]

\* BoostParams and RevertParams are built by the caller and passed by value.
Launched(alert) == [alert |-> alert, called |-> << >>, stuck |-> FALSE]

InitFlights == flight = [s \in Slots |-> Free]

\* Variant with a bug: the caller waits for the alerts under way.
LaunchWhenDone(alert) ==
    /\ \A s \in Slots : flight[s] = Free
    /\ flight' = [flight EXCEPT ![1] = Launched(alert)]

\* go SendBoost, go SendRevert: the caller does not wait. The code starts any
\* number of goroutines; those beyond MaxFlights are not followed.
Launch(alert) ==
    IF \E s \in Slots : flight[s] = Free
    THEN \E s \in Slots :
            /\ flight[s] = Free
            /\ \A q \in 1..(s - 1) : flight[q] # Free
            /\ flight' = [flight EXCEPT ![s] = Launched(alert)]
    ELSE UNCHANGED flight

Calling(s) ==
    /\ flight[s] # Free /\ ~flight[s].stuck
    /\ Len(flight[s].called) < Len(Backends)

NextBackend(s) == Backends[Len(flight[s].called) + 1]

\* The backend has sent the alert, or has failed, which is logged: MultiNotifier
\* does not see the difference.
Deliver(s) ==
    /\ Calling(s)
    /\ flight' = [flight EXCEPT ![s].called = Append(@, NextBackend(s))]

\* Variant with a bug: the fan-out ends at the first error.
FailAndReturn(s) ==
    /\ Calling(s)
    /\ flight' = [flight EXCEPT ![s] = Free]

\* Variant with a bug: a failure starts the whole fan-out again.
FailAndRetry(s) ==
    /\ Calling(s)
    /\ flight' = [flight EXCEPT ![s].called = << >>]

Fail(s) ==
    /\ Calling(s)
    /\ flight' = [flight EXCEPT ![s].called = Append(@, NextBackend(s))]

\* The mail program or the request never returns.
Hang(s) ==
    /\ Calling(s)
    /\ flight' = [flight EXCEPT ![s].stuck = TRUE]

Return(s) ==
    /\ flight[s] # Free /\ ~flight[s].stuck
    /\ Len(flight[s].called) = Len(Backends)
    /\ flight' = [flight EXCEPT ![s] = Free]

\* Goroutines die with the process; main waits for none of them.
Vanish == flight' = [s \in Slots |-> Free]

Progress(s) == Deliver(s) \/ Fail(s) \/ Hang(s) \/ Return(s)
===============================================================================

-------------------------- MODULE NotifiedAutoscaler --------------------------
(***************************************************************************)
(* The daemon together with its alerts: triggerBoost and revertBoost end   *)
(* with a go statement, whose goroutine runs beside the polling loop until *)
(* its backends are done, hang for ever or the process ends.               *)
(***************************************************************************)
EXTENDS AutoscalerProperties, Notifier

nvars == <<vars, flight>>

\* triggerBoost: what the alert says is what was applied.
BoostAlert == [kind |-> "boost", res |-> job.res,
               orig |-> job.from, boosted |-> job.to]

\* Variant with a bug: the state is read after clearBoostState.
RevertAlertCleared == [kind |-> "revert", res |-> job.res,
                       orig |-> rs'[job.res].orig,
                       boosted |-> rs'[job.res].boosted]

\* revertBoost: both values are copied before clearBoostState.
RevertAlert == [kind |-> "revert", res |-> job.res,
                orig |-> rs[job.res].orig, boosted |-> rs[job.res].boosted]

AnnounceBoost  == (\E reply \in Replies : Tag(reply)) /\ Launch(BoostAlert)
AnnounceRevert == (\E reply \in Replies : Settle(reply)) /\ Launch(RevertAlert)

\* Whatever else the process does is not announced: neither the adoption of a
\* manual change nor the reverts of RevertAllBoosts.
Unannounced ==
    /\ pc \notin {"tag", "settle"} /\ Service /\ pc' # "down"
    /\ UNCHANGED flight

EndOfProcess == Exit /\ Vanish

NService == AnnounceBoost \/ AnnounceRevert \/ Unannounced \/ EndOfProcess

NCrash == Crash /\ Vanish

\* Time and the administrator.
Elsewhere == (Tick \/ Environment) /\ pc' = pc /\ UNCHANGED flight

Notify(s) == Progress(s) /\ UNCHANGED vars

NInit == Init /\ InitFlights

NNext == NService \/ NCrash \/ Elsewhere \/ \E s \in Slots : Notify(s)

NSpec == NInit /\ [][NNext]_nvars

\* The daemon is scheduled as before, and so is every goroutine: its calls
\* return unless they hang.
NFairSpec ==
    /\ NSpec
    /\ WF_nvars(NService) /\ WF_nvars(Tick /\ UNCHANGED flight)
    /\ \A s \in Slots : WF_nvars(Notify(s))
-------------------------------------------------------------------------------
(* What the alerts promise *)

Untouched == job.res \notin forgotten \cup edited

\* An alert tells what happened: a boost alert names the administrator's own
\* value as the original one and the value now in force as the boosted one, a
\* revert alert the value the resource really is back at and a boost of it,
\* even when the boost was begun by a process that has crashed since. Exempt are
\* resources an event put at risk, and one edited since it was read (Untouched).
AlertsAreTrue ==
    [][/\ AnnounceBoost /\ Untouched =>
            /\ BoostAlert.orig = Effective(job.res, base[job.res])
            /\ BoostAlert.boosted = alloc[job.res]
       /\ AnnounceRevert /\ Untouched =>
            /\ RevertAlert.orig = Effective(job.res, alloc[job.res])
            /\ RevertAlert.orig = Effective(job.res, base[job.res])
            /\ RevertAlert.boosted \in Boosts(job.res[2], RevertAlert.orig)]_nvars

\* A goroutine that ends before the process has called every enabled backend
\* exactly once, in order: a failing mail program keeps nobody from Slack and
\* nothing is sent twice.
EachBackendOnce ==
    [][\A s \in Slots :
         flight[s] # Free /\ flight'[s] = Free /\ pc' # "down"
           => flight[s].called = Backends]_nvars

\* Every alert ends: all backends are called, or one of them hangs, or the
\* process ends.
AlertsEnd == \A s \in Slots : flight[s] # Free ~> flight[s] = Free \/ flight[s].stuck

\* Alerts never hold up or disturb the daemon, not even those that hang.
MonitorUnaffected == FairSpec
===============================================================================

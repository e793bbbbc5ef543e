------------------------- MODULE AutoscalerProperties -------------------------
(***************************************************************************)
(* What the service promises of Autoscaler, the inductive invariant that   *)
(* explains the central promise, and what the documentation says that the  *)
(* code does not do.                                                       *)
(***************************************************************************)
EXTENDS Autoscaler

(* What the service promises *)

\* The resource amounts to what the administrator configured.
Settled(r) == Effective(r, alloc[r]) = Effective(r, base[r])

\* The process knows the boost and the value to go back to.
MemoryKnows(r) ==
    /\ rs[r].phase = "boosted"
    /\ rs[r].boosted = alloc[r]
    /\ rs[r].orig = Effective(r, base[r])

\* No process knows the boost yet, but the row that start-up will read does.
RowKnows(r) ==
    /\ pc = "down" \/ (pc = "boot" /\ r \in todo)
    /\ db[r] # NoRow
    /\ db[r].boosted = alloc[r]
    /\ db[r].orig = Effective(r, base[r])

\* A container that is not at the administrator's value is under a boost that
\* the process, or the database while there is none, can undo: through every
\* interleaving of edits, failing calls, crashes and restarts the original
\* value is never lost, except by the events that mark the resource forgotten
\* (a lost answer, a boost that could not be saved or resumed before the
\* process ended, an edit the service overwrote or could not tell apart, cores
\* unset between the two calls that sample a container).
BaselineKept == \A r \in Res \ forgotten : Settled(r) \/ MemoryKnows(r) \/ RowKnows(r)

\* Boosts never compound: a container is never raised above one boost of the
\* administrator's own value, however often the service polls or restarts.
AtMostOneBoost ==
    \A r \in Res \ forgotten :
        alloc[r] \in {base[r], Effective(r, base[r])}
                        \cup Boosts(r[2], Effective(r, base[r]))

\* The values one boost of an amount of r may lead to.
RaisedTo(r, amount) == Boosts(r[2], amount)

Contract == INSTANCE BoostContract WITH
    Resources <- Res, Amount <- Effective, Raised <- RaisedTo,
    configured <- base, value <- alloc, lost <- forgotten

\* The daemon, with its polls, stale reads, records, retries, crashes and
\* restarts, implements BoostContract: whatever it writes to a container is a
\* boost of the configured value or a return to exactly that value.
ImplementsContract == Contract!Spec

\* The row of a boost in memory, once SaveBoost succeeded, is the row of that
\* boost and not of an earlier one, so that a crash at any point resumes it.
PersistedMatchesMemory ==
    \A r \in Boosted \ unsaved :
        /\ db[r] # NoRow
        /\ db[r].orig = rs[r].orig
        /\ db[r].boosted = rs[r].boosted

\* While the service runs a boost is reverted no earlier than boost_duration
\* after it was applied, restarts included, less the fraction of a second
\* that the stored time stamp drops.
RevertsInTime ==
    [][\A r \in Res \ forgotten' :
         pc = "restore" /\ pc' # pc /\ alloc'[r] # alloc[r]
           => held[r] + TicksPerSecond - 1 >= BoostDuration]_vars

\* Between polls a boosted container carries the boosted tag (setTag): true as
\* long as only one of its resources is ever boosted, which is what the run
\* checks, because the revert of one resource removes the tag of both.
BoostIsTagged ==
    pc = "idle" /\ ~stopping => \A r \in Boosted : boostedTag \in tags[r[1]]

\* However many boosts one poll applies on the strength of one node status,
\* none leaves the running containers with more memory than the node has and
\* the boosted container had before: the capacity test errs by no more than
\* that when every configuration is read and nobody else resizes
\* or starts a container.
OvershootBounded ==
    [][\A v \in VMs : pc = "apply" /\ job.res = <<v, "memory">> /\ alloc' # alloc
           => MemoryOf(running)' <= HostMem + job.from]_vars

\* A process that ended by a regular stop leaves no record behind, and every
\* resource that is not marked at the administrator's value: RevertAllBoosts
\* misses no boost that the process knows of, in whatever step the signal comes,
\* as long as requests and deletions succeed. Exempt, because it is marked, is
\* the boost whose own request the signal cancels after the node has carried it
\* out (StopRevertsAll, below, is about that one).
NothingLeft ==
    pc = "down" => \A r \in Res : /\ db[r] = NoRow
                                  /\ r \notin forgotten => Settled(r)

\* What a step of the process is when every call of a running loop succeeds
\* and usage stays below the downscale threshold.
Calm == Steps({"ok"} \cup (IF stopping THEN {"error"} ELSE {}), {"calm"})

\* Once the node answers, usage is low and nobody interferes, every boost is
\* eventually reverted, whatever happened before.
CalmRestores ==
    <>[][Calm \/ Tick]_vars => <>[](\A r \in Res \ forgotten : Settled(r))

\* After a signal the process ends, whatever the calls return.
StopTerminates == stopping ~> pc = "down"
-------------------------------------------------------------------------------
(* Why the baseline is kept: the inductive invariant *)

\* A step in progress works on a resource it has the configuration of, and
\* start-up on the rows it loaded.
StepInHand ==
    /\ pc = "config" => cfg # NoCfg
    /\ pc \in {"apply", "save", "tag", "restore", "untag", "settle"} =>
         job # NoJob /\ cfg # NoCfg /\ cfg.vm = job.res[1]
    /\ pc = "drop" => job # NoJob
    /\ pc = "boot" => \A r \in todo : db[r] # NoRow

\* The phases agree with where the process is.
PhasesMatch ==
    /\ pc = "down" => Boosted = {}
    /\ pc = "boot" => todo \cap Boosted = {}
    /\ pc = "apply" => job.res \notin Boosted
    /\ pc = "save" => job.res \in Boosted
    /\ pc \in {"expire", "restore", "untag", "settle", "stop", "drop"} =>
         todo \subseteq Boosted
    /\ pc \in {"down", "boot", "idle", "expire"} => cfg = NoCfg

\* A boost is a positive amount.
Positive ==
    /\ \A r \in Res : rs[r].phase = "boosted" => rs[r].boosted > 0
    /\ \A r \in Res : db[r] # NoRow => db[r].boosted > 0
    /\ pc = "apply" => job.to > 0

\* What was read is what is there, up to the edits made since.
Fresh ==
    /\ pc = "config" /\ <<cfg.vm, "cpu">> \notin edited =>
         cfg.cpus = Effective(<<cfg.vm, "cpu">>, alloc[<<cfg.vm, "cpu">>])
    /\ pc = "poll" /\ cfg # NoCfg =>
         \A r \in todo \ edited :
             r[1] = cfg.vm => Measured(cfg, r) = Effective(r, alloc[r])
    /\ pc \in {"apply", "save", "tag"} =>
         \A r \in todo \ (edited \cup {job.res}) :
             r[1] = cfg.vm => Measured(cfg, r) = Effective(r, alloc[r])
    /\ pc = "apply" /\ job.res \notin edited =>
         job.from = Effective(job.res, alloc[job.res])
    /\ pc = "restore" /\ job.res \notin edited \cup forgotten =>
         job.to = Effective(job.res, base[job.res])
    /\ pc \in {"untag", "settle", "drop"} /\ job.res \notin forgotten =>
         Settled(job.res)

\* A record that could be mistaken for the administrator's own value leads
\* back to that value; it may be a stale row or a resumed one.
Unambiguous ==
    \A r \in Res \ forgotten :
        /\ rs[r].phase = "boosted" /\ rs[r].boosted = Effective(r, base[r])
             => rs[r].orig = Effective(r, base[r])
        /\ db[r] # NoRow /\ db[r].boosted = Effective(r, base[r])
             => db[r].orig = Effective(r, base[r])

IInv ==
    /\ TypeOK /\ StepInHand /\ PhasesMatch /\ Positive /\ Fresh
    /\ Unambiguous /\ PersistedMatchesMemory /\ BaselineKept
-------------------------------------------------------------------------------
(* What the documentation says and the code does not do *)

\* "adopts the new value as the baseline without overwriting it": the revert
\* at shutdown changes no value that was edited during the boost.
ShutdownKeepsManualChange ==
    [][\A r \in Res : pc = "stop" /\ base' = base /\ alloc'[r] # alloc[r]
           => alloc[r] = rs[r].boosted]_vars

\* "capped by available host capacity": boosts alone never commit more memory
\* to the running containers than the node has.
MemoryFitsHost ==
    MemoryOf(running) <= HostMem

\* "reverts all active boosts before exiting": after a stop, no crash and no
\* failing call involved, nothing is boosted.
StopRevertsAll == pc = "down" => \A r \in Res : Settled(r)
===============================================================================

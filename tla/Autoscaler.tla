------------------------------ MODULE Autoscaler ------------------------------
(***************************************************************************)
(* The autoscaler daemon: the polling loop of package monitor, the boost   *)
(* records of package db, start-up and shutdown of cmd/autoscaler, and the *)
(* Proxmox node they act on. One action is one call whose outcome another  *)
(* party can observe or disturb: an administrator edits containers, calls  *)
(* fail or lose their answer, the process dies, all between any two steps. *)
(***************************************************************************)
EXTENDS Scaler, FiniteSetsExt

CONSTANTS
    VMs,                           \* container ids on the node
    HostCPUs,                      \* status.CPUs of a container with cores unset
    ConsecutiveSamples,            \* monitor.consecutive_samples
    DownscaleConsecutiveSamples,   \* monitor.downscale_consecutive_samples
    BoostDuration,                 \* monitor.boost_duration, in ticks
    TicksPerSecond,                \* resolution of the clock against RFC 3339
    ExcludeTag,                    \* scaling.exclude_tag
    InitAlloc,                     \* configuration before the first start
    \* The environment, and the bounds a run puts on it:
    Zones,          \* [Kinds -> usage classes the containers can report]
    NodeLoads,      \* subsets of Kinds the node can report as saturated
    AdminValues,    \* [Kinds -> values the administrator may configure]
    AdminActs,      \* subset of {"resize", "retag", "power"}
    Faults,         \* subset of FaultKinds that may happen
    MaxValue        \* Proxmox refuses a value above this one

boostedTag == "boosted"
FaultKinds == {"error", "lost", "save", "delete", "load", "crash"}

\* A usage sample against the two thresholds: below the downscale one,
\* between the two, or at least the saturation one. Config.validate keeps
\* the downscale threshold strictly below, so the classes are disjoint.
UsageClasses == {"calm", "busy", "saturated"}

Res  == VMs \X Kinds
Tags == {boostedTag, ExcludeTag}

ASSUME MonitorAssumption ==
    /\ HostCPUs \in Nat \ {0}
    /\ ConsecutiveSamples \in Nat \ {0}
    /\ DownscaleConsecutiveSamples \in Nat \ {0}
    /\ BoostDuration \in Nat \ {0}
    /\ TicksPerSecond \in Nat \ {0}

\* Every container has an amount of memory configured, as Proxmox writes one
\* when it creates a container.
ASSUME EnvironmentAssumption ==
    /\ IsFiniteSet(VMs)
    /\ InitAlloc \in [Res -> Nat]
    /\ \A v \in VMs : InitAlloc[<<v, "memory">>] > 0
    /\ Zones \in [Kinds -> SUBSET UsageClasses]
    /\ NodeLoads \subseteq SUBSET Kinds
    /\ AdminValues \in [Kinds -> SUBSET Nat] /\ 0 \notin AdminValues["memory"]
    /\ Faults \subseteq FaultKinds
    /\ MaxValue \in Nat

VARIABLES
    \* The node
    alloc,      \* live configuration of every resource
    tags,       \* tags of every container
    running,    \* containers that run
    \* The database file
    db,         \* active_boosts, one optional row per primary key
    \* The process
    rs,         \* Monitor.states
    pc,         \* where the one goroutine that does the work is
    todo,       \* resources the current loop has still to visit
    cfg,        \* status and configuration a step has read and will use
    job,        \* the configuration change being carried out
    short,      \* resources the node status of this poll reports saturated
    stopping,   \* the context of the polling loop is cancelled
    \* History
    base,       \* the value the administrator last configured
    held,       \* ticks since the service last raised the resource
    edited,     \* resources edited after what cfg says of them was read
    unsaved,    \* boosts in memory whose row was never written
    forgotten   \* resources whose baseline an identified event put at risk

world == <<alloc, tags, running, base>>
local == <<todo, cfg, job, short>>
hist  == <<held, edited, unsaved, forgotten>>
vars  == <<alloc, tags, running, db, rs, pc, todo, cfg, job, short, stopping,
           base, held, edited, unsaved, forgotten>>
-------------------------------------------------------------------------------
NoRow == [none |-> TRUE]
NoCfg == [none |-> TRUE]
NoJob == [none |-> TRUE]

Ages == 0..BoostDuration

\* db.BoostRecord, its timestamp kept as an age (see Tick).
BoostRecord == [orig : Nat, boosted : Nat, age : Ages]

\* The fields of monitor.ResourceState that decide anything.
ResourceState == [phase : {"normal", "boosted"},
                  sat : 0..ConsecutiveSamples,
                  down : 0..DownscaleConsecutiveSamples,
                  orig : Nat, boosted : Nat, age : Ages]

NewState == [phase |-> "normal", sat |-> 0, down |-> 0,
             orig |-> 0, boosted |-> 0, age |-> 0]

\* What processContainer has read of a container: status.CPUs from one call,
\* the configuration from the next.
ContainerConfig == [vm : VMs, cpus : Nat, val : [Kinds -> Nat], tags : SUBSET Tags]
Job == [res : Res, from : Nat, to : Nat]

PCs == {"down", "boot", "idle", "poll", "config", "apply", "save", "tag",
        "expire", "restore", "untag", "settle", "stop", "drop"}

TypeOK ==
    /\ alloc \in [Res -> Nat] /\ base \in [Res -> Nat]
    /\ tags \in [VMs -> SUBSET Tags]
    /\ running \subseteq VMs
    /\ db \in [Res -> BoostRecord \cup {NoRow}]
    /\ rs \in [Res -> ResourceState]
    /\ pc \in PCs
    /\ todo \subseteq Res
    /\ cfg \in ContainerConfig \cup {NoCfg}
    /\ job \in Job \cup {NoJob}
    /\ short \subseteq Kinds
    /\ stopping \in BOOLEAN
    /\ held \in [Res -> Ages]
    /\ edited \subseteq Res /\ unsaved \subseteq Res /\ forgotten \subseteq Res
-------------------------------------------------------------------------------
(* Helpers *)

\* Counters are compared with >= only, so they stop at their limit.
Count(n, limit) == IF n < limit THEN n + 1 ELSE limit

\* What a configured value amounts to: cores = 0 leaves the container with
\* every CPU that status.CPUs reports.
Effective(r, x) ==
    IF r[2] = "cpu" /\ CPUResource = "cores" /\ x = 0 THEN HostCPUs ELSE x

\* clearBoostState; OriginalValue survives it.
Cleared(s) == [NewState EXCEPT !.orig = s.orig]

\* Variant with a bug: the boost duration is not looked at.
CanDownscaleEarly(s) == s.down >= DownscaleConsecutiveSamples

\* Variant with a bug: one sample too many is asked for.
CanDownscaleStrict(s) ==
    s.age >= BoostDuration /\ s.down > DownscaleConsecutiveSamples

\* canDownscale
CanDownscale(s) ==
    /\ s.age >= BoostDuration
    /\ s.down >= DownscaleConsecutiveSamples

\* UpdateContainerConfig either takes effect and is answered, fails without
\* effect, or takes effect and its answer is lost.
StopReplies(x) ==
    IF x > MaxValue THEN {"error"}
                    ELSE {"ok"} \cup (Faults \cap {"error", "lost"})

\* A request of the polling loop is given up when the context is cancelled,
\* on its way or already carried out. RevertAllBoosts has its own context.
PutReplies(x) ==
    IF ~stopping THEN StopReplies(x)
    ELSE {"error"} \cup (IF x > MaxValue THEN {} ELSE {"lost"})

GetFails == stopping \/ "error" \in Faults

\* Outcomes of a database statement of the given kind.
DbReplies(kind) == {"ok"} \cup (Faults \cap {kind})

\* Variant with a bug: the statement selects by vmid alone. (Not while the rows
\* loaded at the start are visited, of which db stands for the copies.)
DeleteContainer(r, reply) ==
    db' = IF reply = "ok"
          THEN [q \in Res |-> IF q = r \/ (q[1] = r[1] /\ pc # "boot")
                              THEN NoRow ELSE db[q]]
          ELSE db

\* DeleteBoost, whose error is only logged.
Delete(r, reply) ==
    db' = IF reply = "ok" THEN [db EXCEPT ![r] = NoRow] ELSE db

\* A container's resources are visited cpu first; a container whose
\* configuration is in hand is finished before another one is begun.
Ready ==
    {r \in todo : /\ cfg # NoCfg => cfg.vm = r[1]
                  /\ r[2] = "memory" => <<r[1], "cpu">> \notin todo}

\* The step for r is over: drop what it used and go back to the loop.
Finish(r, loop) ==
    /\ pc' = loop
    /\ todo' = todo \ {r}
    /\ job' = NoJob
    /\ IF loop = "poll" /\ r[2] = "cpu"
       THEN UNCHANGED <<cfg, edited>>
       ELSE cfg' = NoCfg /\ edited' = {}

Boosted == {r \in Res : rs[r].phase = "boosted"}

\* GetContainerConfig, answered now; cpus comes from an earlier status call.
ReadConfig(v, cpus) == [vm |-> v, cpus |-> cpus,
                        val |-> [k \in Kinds |-> alloc[<<v, k>>]],
                        tags |-> tags[v]]

\* The process is gone, and what only it knew with it.
LoseMemory ==
    /\ pc' = "down"
    /\ rs' = [r \in Res |-> NewState]
    /\ todo' = {} /\ cfg' = NoCfg /\ job' = NoJob /\ short' = {}
    /\ stopping' = FALSE
    /\ edited' = {} /\ unsaved' = {}
    /\ forgotten' = forgotten \cup {r \in unsaved : alloc[r] = rs[r].boosted}
-------------------------------------------------------------------------------
Init ==
    /\ alloc = InitAlloc /\ base = InitAlloc
    /\ tags = [v \in VMs |-> {}]
    /\ running = VMs
    /\ db = [r \in Res |-> NoRow]
    /\ rs = [r \in Res |-> NewState]
    /\ pc = "down"
    /\ todo = {} /\ cfg = NoCfg /\ job = NoJob /\ short = {}
    /\ stopping = FALSE
    /\ held = [r \in Res |-> BoostDuration]
    /\ edited = {} /\ unsaved = {} /\ forgotten = {}
-------------------------------------------------------------------------------
(* Start-up: Monitor.New reconciles the stored boosts with the node *)

\* LoadAllBoosts. A failed load is not fatal: the service starts with no
\* boost in memory and leaves the rows, and the boosts they describe, alone.
Start(reply) ==
    /\ pc = "down"
    /\ reply \in DbReplies("load")
    /\ LET rows == {r \in Res : db[r] # NoRow}
       IN  IF reply = "ok"
           THEN todo' = rows /\ UNCHANGED forgotten
           ELSE /\ todo' = {}
                /\ forgotten' = forgotten \cup
                       {r \in rows : alloc[r] = db[r].boosted}
    /\ pc' = "boot"
    /\ UNCHANGED <<world, db, rs, cfg, job, short, stopping, held, edited, unsaved>>

\* Variant with a bug: the live value is taken for the original one.
ResumeFromNode(r) ==
    /\ pc = "boot" /\ r \in todo
    /\ alloc[r] = db[r].boosted
    /\ rs' = [rs EXCEPT ![r] = [@ EXCEPT !.phase = "boosted", !.orig = alloc[r],
                                        !.boosted = db[r].boosted,
                                        !.age = db[r].age]]
    /\ todo' = todo \ {r}
    /\ UNCHANGED <<world, db, pc, cfg, job, short, stopping, hist>>

\* The container still has the boosted value: the boost is resumed with its
\* original time stamp, its counters start afresh.
Resume(r) ==
    /\ pc = "boot" /\ r \in todo
    /\ alloc[r] = db[r].boosted
    /\ rs' = [rs EXCEPT ![r] = [@ EXCEPT !.phase = "boosted", !.orig = db[r].orig,
                                        !.boosted = db[r].boosted,
                                        !.age = db[r].age]]
    /\ todo' = todo \ {r}
    /\ UNCHANGED <<world, db, pc, cfg, job, short, stopping, hist>>

\* The value was reverted or changed by hand while the service was down.
Discard(r, reply) ==
    /\ pc = "boot" /\ r \in todo
    /\ alloc[r] # db[r].boosted
    /\ reply \in DbReplies("delete")
    /\ Delete(r, reply)
    /\ todo' = todo \ {r}
    /\ UNCHANGED <<world, rs, pc, cfg, job, short, stopping, hist>>

\* The container's configuration cannot be read: the row is passed over.
PassOver(r) ==
    /\ pc = "boot" /\ r \in todo
    /\ "error" \in Faults
    /\ todo' = todo \ {r}
    /\ forgotten' = IF alloc[r] = db[r].boosted THEN forgotten \cup {r}
                                                ELSE forgotten
    /\ UNCHANGED <<world, db, rs, pc, cfg, job, short, stopping, held, edited,
                   unsaved>>

StartLoop ==
    /\ pc = "boot" /\ todo = {}
    /\ pc' = "idle"
    /\ UNCHANGED <<world, db, rs, local, stopping, hist>>
-------------------------------------------------------------------------------
(* poll: sampling the containers *)

\* ListLXC: the resources of the running containers without the exclusion tag.
Listed == {r \in Res : r[1] \in running /\ ExcludeTag \notin tags[r[1]]}

\* Variant with a bug: a tick is served although the context is cancelled.
PollAnyway(load) ==
    /\ pc = "idle"
    /\ load \in NodeLoads
    /\ todo' = Listed
    /\ short' = load
    /\ pc' = "poll"
    /\ UNCHANGED <<world, db, rs, cfg, job, stopping, hist>>

\* A tick of the loop: the running containers without the exclusion tag are
\* listed and the node status is read. When either call fails the poll ends
\* at once, which changes nothing: not even expired boosts are looked at.
Poll(load) ==
    /\ pc = "idle" /\ ~stopping
    /\ load \in NodeLoads
    /\ todo' = Listed
    /\ short' = load
    /\ pc' = "poll"
    /\ UNCHANGED <<world, db, rs, cfg, job, stopping, hist>>

\* What the configuration in c says of r; with cores unset the count that the
\* status call reported before is taken instead.
Measured(c, r) ==
    IF r[2] = "cpu" /\ CPUResource = "cores" /\ c.val["cpu"] = 0
    THEN c.cpus ELSE c.val[r[2]]

\* processContainer asks for the status first, which tells how many CPUs the
\* container has, and for the configuration in a second call.
ReadStatus(v) ==
    /\ pc = "poll" /\ cfg = NoCfg /\ <<v, "cpu">> \in todo
    /\ ~stopping
    /\ cfg' = [vm |-> v, cpus |-> Effective(<<v, "cpu">>, alloc[<<v, "cpu">>]),
               val |-> [k \in Kinds |-> 0], tags |-> {}]
    /\ pc' = "config"
    /\ UNCHANGED <<world, db, rs, todo, job, short, stopping, hist>>

StatusFails(v) ==
    /\ pc = "poll" /\ cfg = NoCfg /\ <<v, "cpu">> \in todo
    /\ GetFails
    /\ todo' = todo \ ({v} \X Kinds)
    /\ UNCHANGED <<world, db, rs, pc, cfg, job, short, stopping, hist>>

\* Both evaluations below use this one copy. It overtakes the edits made since
\* the status call, except when cores were unset: the count is the old one.
Sample ==
    /\ pc = "config" /\ ~stopping
    /\ cfg' = ReadConfig(cfg.vm, cfg.cpus)
    /\ edited' = {r \in edited : Measured(cfg', r) # Effective(r, alloc[r])}
    /\ pc' = "poll"
    /\ UNCHANGED <<world, db, rs, todo, job, short, stopping, held, unsaved,
                   forgotten>>

ConfigFails ==
    /\ pc = "config" /\ GetFails
    /\ todo' = todo \ ({cfg.vm} \X Kinds)
    /\ cfg' = NoCfg /\ edited' = {}
    /\ pc' = "poll"
    /\ UNCHANGED <<world, db, rs, job, short, stopping, held, unsaved, forgotten>>

\* The guard shared by the branches of evaluateCPU and evaluateMemory.
Evaluating(r) == pc = "poll" /\ cfg # NoCfg /\ r \in Ready

\* Variant with a bug: both evaluations read the same field.
CurrentCores(r) == Measured(cfg, <<r[1], "cpu">>)

Current(r) == Measured(cfg, r)

\* cpulimit = 0 means unlimited: such a sample is dropped.
Measurable(r) == Current(r) > 0

SkipSample(r) ==
    /\ Evaluating(r) /\ ~Measurable(r)
    /\ Finish(r, "poll")
    /\ UNCHANGED <<world, db, rs, short, stopping, held, unsaved, forgotten>>

\* observeBoostedUsage
ObserveBoosted(r, usage) ==
    /\ Evaluating(r) /\ Measurable(r)
    /\ rs[r].phase = "boosted"
    /\ rs' = [rs EXCEPT ![r].down =
                  IF usage = "calm" THEN Count(@, DownscaleConsecutiveSamples)
                                    ELSE 0]
    /\ Finish(r, "poll")
    /\ UNCHANGED <<world, db, short, stopping, held, unsaved, forgotten>>

SaturatedAfter(r, usage) ==
    IF usage = "saturated" THEN Count(rs[r].sat, ConsecutiveSamples) ELSE 0

\* Memory configured for the containers in S, in MB.
MemoryOf(S) == MapThenSumSet(LAMBDA v : alloc[<<v, "memory">>], S)

\* What ComputeBoost may answer. For memory it lists the containers and sums
\* the running ones; one whose configuration cannot be read is left out.
Outcomes(r) ==
    LET summed == IF "error" \in Faults THEN SUBSET running ELSE {running}
    IN  (IF r[2] = "memory" /\ "error" \in Faults THEN {NoBoost} ELSE {}) \cup
        {ComputeBoost(r[2], Current(r), short, MemoryOf(S)) : S \in summed}

\* Not saturated for long enough, no boost fits, or the context is cancelled
\* before the change is sent: only the count is kept.
CountSample(r, usage) ==
    /\ Evaluating(r) /\ Measurable(r)
    /\ rs[r].phase = "normal"
    /\ \/ SaturatedAfter(r, usage) < ConsecutiveSamples
       \/ NoBoost \in Outcomes(r)
       \/ stopping
    /\ rs' = [rs EXCEPT ![r].sat = SaturatedAfter(r, usage)]
    /\ Finish(r, "poll")
    /\ UNCHANGED <<world, db, short, stopping, held, unsaved, forgotten>>

\* Variant with a bug: the error of ComputeBoost is not checked.
StartBoostUnchecked(r, usage) ==
    /\ Evaluating(r) /\ Measurable(r) /\ ~stopping
    /\ rs[r].phase = "normal"
    /\ SaturatedAfter(r, usage) = ConsecutiveSamples
    /\ \E value \in Outcomes(r) :
           job' = [res |-> r, from |-> Current(r), to |-> value]
    /\ rs' = [rs EXCEPT ![r].sat = ConsecutiveSamples]
    /\ pc' = "apply"
    /\ UNCHANGED <<world, db, todo, cfg, short, stopping, hist>>

\* Variant with a bug: a boosted resource is boosted again when saturated.
StartBoostAgain(r, usage) ==
    /\ Evaluating(r) /\ Measurable(r) /\ ~stopping
    /\ IF rs[r].phase = "boosted" THEN usage = "saturated"
       ELSE SaturatedAfter(r, usage) = ConsecutiveSamples
    /\ \E value \in Outcomes(r) \ {NoBoost} :
           job' = [res |-> r, from |-> Current(r), to |-> value]
    /\ pc' = "apply"
    /\ UNCHANGED <<world, db, rs, todo, cfg, short, stopping, hist>>

\* triggerBoost, up to the request it sends.
StartBoost(r, usage) ==
    /\ Evaluating(r) /\ Measurable(r) /\ ~stopping
    /\ rs[r].phase = "normal"
    /\ SaturatedAfter(r, usage) = ConsecutiveSamples
    /\ \E value \in Outcomes(r) \ {NoBoost} :
           job' = [res |-> r, from |-> Current(r), to |-> value]
    /\ rs' = [rs EXCEPT ![r].sat = ConsecutiveSamples]
    /\ pc' = "apply"
    /\ UNCHANGED <<world, db, todo, cfg, short, stopping, hist>>
-------------------------------------------------------------------------------
(* triggerBoost: raise the value, remember it, persist it, tag the container *)

\* Variant with a bug: the new value is recorded as the original one.
ApplyMisrecorded(reply) ==
    /\ pc = "apply"
    /\ reply = "ok" /\ reply \in PutReplies(job.to)
    /\ alloc' = [alloc EXCEPT ![job.res] = job.to]
    /\ rs' = [rs EXCEPT ![job.res] = [NewState EXCEPT !.phase = "boosted",
                                                     !.orig = job.to,
                                                     !.boosted = job.to]]
    /\ held' = [held EXCEPT ![job.res] = 0]
    /\ pc' = "save"
    /\ unsaved' = unsaved \cup {job.res}
    /\ forgotten' = forgotten \cup (edited \cap {job.res})
    /\ UNCHANGED <<tags, running, base, db, todo, cfg, job, short, stopping, edited>>

\* The value the resource had when the configuration was read is replaced.
\* Memory is updated only once the answer is in.
Apply(reply) ==
    /\ pc = "apply"
    /\ reply \in PutReplies(job.to) \ {"error"}
    /\ LET r == job.res
       IN  /\ alloc' = [alloc EXCEPT ![r] = job.to]
           /\ held' = [held EXCEPT ![r] = 0]
           /\ IF reply = "ok"
              THEN /\ rs' = [rs EXCEPT ![r] =
                                 [NewState EXCEPT !.phase = "boosted",
                                                  !.orig = job.from,
                                                  !.boosted = job.to]]
                   /\ pc' = "save"
                   /\ unsaved' = unsaved \cup {r}
                   /\ forgotten' = forgotten \cup (edited \cap {r})
                   /\ UNCHANGED <<todo, cfg, job, edited>>
              ELSE /\ forgotten' = forgotten \cup {r}
                   /\ Finish(r, "poll")
                   /\ UNCHANGED <<rs, unsaved>>
    /\ UNCHANGED <<tags, running, base, db, short, stopping>>

ApplyFails ==
    /\ pc = "apply"
    /\ "error" \in PutReplies(job.to)
    /\ Finish(job.res, "poll")
    /\ UNCHANGED <<world, db, rs, short, stopping, held, unsaved, forgotten>>

\* Variant with a bug: two columns are exchanged.
SaveSwapped(reply, gained) ==
    /\ pc = "save"
    /\ reply \in DbReplies("save") /\ gained \in 0..TicksPerSecond - 1
    /\ LET r == job.res
       IN  IF reply = "ok"
           THEN /\ db' = [db EXCEPT ![r] = [orig |-> rs[r].boosted,
                                           boosted |-> rs[r].orig,
                                           age |-> rs[r].age]]
                /\ unsaved' = unsaved \ {r}
           ELSE UNCHANGED <<db, unsaved>>
    /\ pc' = "tag"
    /\ UNCHANGED <<world, rs, local, stopping, held, edited, forgotten>>

\* SaveBoost. The time stamp is stored to the second, so up to a second of
\* age is gained; an error is logged and the boost stays in memory only.
Save(reply, gained) ==
    /\ pc = "save"
    /\ reply \in DbReplies("save") /\ gained \in 0..TicksPerSecond - 1
    /\ LET r == job.res
           age == rs[r].age + gained
       IN  IF reply = "ok"
           THEN /\ db' = [db EXCEPT ![r] =
                            [orig |-> rs[r].orig, boosted |-> rs[r].boosted,
                             age |-> IF age < BoostDuration THEN age
                                                            ELSE BoostDuration]]
                /\ unsaved' = unsaved \ {r}
           ELSE UNCHANGED <<db, unsaved>>
    /\ pc' = "tag"
    /\ UNCHANGED <<world, rs, local, stopping, held, edited, forgotten>>

\* setTag writes the whole list, as it was in the configuration read before.
WriteTags(v, list, reply) ==
    /\ reply \in PutReplies(0)
    /\ tags' = IF reply = "error" THEN tags ELSE [tags EXCEPT ![v] = list]

\* Variant with a bug: the tag is removed where it should be added.
TagRemoved(reply) ==
    /\ pc = "tag"
    /\ WriteTags(cfg.vm, cfg.tags \ {boostedTag}, reply)
    /\ Finish(job.res, "poll")
    /\ UNCHANGED <<alloc, running, base, db, rs, short, stopping, held, unsaved,
                   forgotten>>

Tag(reply) ==
    /\ pc = "tag"
    /\ IF boostedTag \in cfg.tags
       THEN reply = "ok" /\ UNCHANGED tags
       ELSE WriteTags(cfg.vm, cfg.tags \cup {boostedTag}, reply)
    /\ Finish(job.res, "poll")
    /\ UNCHANGED <<alloc, running, base, db, rs, short, stopping, held, unsaved,
                   forgotten>>
-------------------------------------------------------------------------------
(* checkExpiredBoosts and revertBoost *)

\* The time is taken once, so the boosts that may end are known here.
BeginExpire ==
    /\ pc = "poll" /\ todo = {}
    /\ todo' = {r \in Boosted : CanDownscale(rs[r])}
    /\ cfg' = NoCfg /\ short' = {}
    /\ pc' = "expire"
    /\ UNCHANGED <<world, db, rs, job, stopping, hist>>

\* A configuration that cannot be read leaves the boost for the next poll.
RevertUnread(r) ==
    /\ pc = "expire" /\ r \in Ready /\ GetFails
    /\ todo' = todo \ {r}
    /\ UNCHANGED <<world, db, rs, pc, cfg, job, short, stopping, hist>>

\* Variant with a bug: the new baseline is noted but the boost is not ended.
AdoptUncleared(r, reply) ==
    /\ pc = "expire" /\ r \in Ready /\ ~stopping
    /\ alloc[r] # rs[r].boosted
    /\ reply \in DbReplies("delete")
    /\ rs' = [rs EXCEPT ![r].orig = alloc[r]]
    /\ Delete(r, reply)
    /\ unsaved' = unsaved \ {r}
    /\ todo' = todo \ {r}
    /\ UNCHANGED <<world, pc, cfg, job, short, stopping, held, edited, forgotten>>

\* The value is not the boosted one: it was changed by hand and is adopted.
Adopt(r, reply) ==
    /\ pc = "expire" /\ r \in Ready /\ ~stopping
    /\ alloc[r] # rs[r].boosted
    /\ reply \in DbReplies("delete")
    /\ rs' = [rs EXCEPT ![r] = [Cleared(@) EXCEPT !.orig = alloc[r]]]
    /\ Delete(r, reply)
    /\ unsaved' = unsaved \ {r}
    /\ todo' = todo \ {r}
    /\ UNCHANGED <<world, pc, cfg, job, short, stopping, held, edited, forgotten>>

\* Variant with a bug: manual changes are not looked for.
StartRevertBlind(r) ==
    /\ pc = "expire" /\ r \in Ready /\ ~stopping
    /\ cfg' = ReadConfig(r[1], 0)
    /\ job' = [res |-> r, from |-> rs[r].boosted, to |-> rs[r].orig]
    /\ pc' = "restore"
    /\ UNCHANGED <<world, db, rs, todo, short, stopping, hist>>

StartRevert(r) ==
    /\ pc = "expire" /\ r \in Ready /\ ~stopping
    /\ alloc[r] = rs[r].boosted
    /\ cfg' = ReadConfig(r[1], 0)
    /\ job' = [res |-> r, from |-> rs[r].boosted, to |-> rs[r].orig]
    /\ pc' = "restore"
    /\ UNCHANGED <<world, db, rs, todo, short, stopping, hist>>

\* RevertBoost: the change is sent without looking at the value again.
Restore(reply) ==
    /\ pc = "restore"
    /\ reply \in PutReplies(job.to) \ {"error"}
    /\ LET r == job.res
       IN  /\ alloc' = [alloc EXCEPT ![r] = job.to]
           /\ forgotten' = forgotten \cup (edited \cap {r})
           /\ IF reply = "ok" THEN pc' = "untag" /\ UNCHANGED <<todo, cfg, job, edited>>
                              ELSE Finish(r, "expire")
    /\ UNCHANGED <<tags, running, base, db, rs, short, stopping, held, unsaved>>

RestoreFails ==
    /\ pc = "restore"
    /\ "error" \in PutReplies(job.to)
    /\ Finish(job.res, "expire")
    /\ UNCHANGED <<world, db, rs, short, stopping, held, unsaved, forgotten>>

Untag(reply) ==
    /\ pc = "untag"
    /\ WriteTags(cfg.vm, cfg.tags \ {boostedTag}, reply)
    /\ pc' = "settle"
    /\ UNCHANGED <<alloc, running, base, db, rs, local, stopping, hist>>

Settle(reply) ==
    /\ pc = "settle"
    /\ reply \in DbReplies("delete")
    /\ LET r == job.res
       IN  /\ rs' = [rs EXCEPT ![r] = Cleared(@)]
           /\ Delete(r, reply)
           /\ unsaved' = unsaved \ {r}
           /\ Finish(r, "expire")
    /\ UNCHANGED <<world, short, stopping, held, forgotten>>

EndExpire ==
    /\ pc = "expire" /\ todo = {}
    /\ pc' = "idle"
    /\ UNCHANGED <<world, db, rs, local, stopping, hist>>
-------------------------------------------------------------------------------
(* Shutdown: main stops the loop, then RevertAllBoosts *)

\* SIGTERM or SIGINT. Before the loop has started nobody catches it and it
\* kills the process (Crash); a second one is ignored.
Signal ==
    /\ pc \notin {"down", "boot", "stop", "drop"} /\ ~stopping
    /\ stopping' = TRUE
    /\ UNCHANGED <<world, db, rs, pc, local, hist>>

\* Variant with a bug: only the boosts that have run their time are taken back.
LoopExitExpired ==
    /\ pc = "idle" /\ stopping
    /\ todo' = {r \in Boosted : CanDownscale(rs[r])}
    /\ pc' = "stop"
    /\ UNCHANGED <<world, db, rs, cfg, job, short, stopping, hist>>

LoopExit ==
    /\ pc = "idle" /\ stopping
    /\ todo' = Boosted
    /\ pc' = "stop"
    /\ UNCHANGED <<world, db, rs, cfg, job, short, stopping, hist>>

\* The original value is written without reading the configuration first: a
\* value changed by hand while the boost was active is overwritten.
StopRevert(r, reply) ==
    /\ pc = "stop" /\ r \in Ready
    /\ reply \in StopReplies(rs[r].orig)
    /\ IF reply = "error"
       THEN UNCHANGED <<alloc, forgotten>>
       ELSE /\ alloc' = [alloc EXCEPT ![r] = rs[r].orig]
            /\ forgotten' = IF alloc[r] = rs[r].boosted THEN forgotten
                                                       ELSE forgotten \cup {r}
    /\ IF reply = "ok"
       THEN /\ pc' = "drop"
            /\ job' = [res |-> r, from |-> rs[r].boosted, to |-> rs[r].orig]
            /\ UNCHANGED todo
       ELSE /\ todo' = todo \ {r}
            /\ UNCHANGED <<pc, job>>
    /\ UNCHANGED <<tags, running, base, db, rs, cfg, short, stopping, held, edited,
                   unsaved>>

Drop(reply) ==
    /\ pc = "drop"
    /\ reply \in DbReplies("delete")
    /\ LET r == job.res
       IN  /\ rs' = [rs EXCEPT ![r].phase = "normal"]
           /\ Delete(r, reply)
           /\ unsaved' = unsaved \ {r}
           /\ Finish(r, "stop")
    /\ UNCHANGED <<world, short, stopping, held, forgotten>>

Exit ==
    /\ pc = "stop" /\ todo = {}
    /\ LoseMemory
    /\ UNCHANGED <<world, db, held>>
-------------------------------------------------------------------------------
(* The environment *)

Crash ==
    /\ pc # "down" /\ "crash" \in Faults
    /\ LoseMemory
    /\ UNCHANGED <<world, db, held>>

\* Time passes; ages past the boost duration are not told apart.
Tick ==
    /\ rs' = [r \in Res |-> IF rs[r].phase = "boosted"
                            THEN [rs[r] EXCEPT !.age = Count(@, BoostDuration)]
                            ELSE rs[r]]
    /\ db' = [r \in Res |-> IF db[r] = NoRow THEN NoRow
                            ELSE [db[r] EXCEPT !.age = Count(@, BoostDuration)]]
    /\ held' = [r \in Res |-> Count(held[r], BoostDuration)]
    /\ UNCHANGED <<world, pc, local, stopping, edited, unsaved, forgotten>>

\* A value the administrator sets that equals a recorded boosted value cannot
\* be told from that boost.
Aliased(r, x) ==
    \/ rs[r].phase = "boosted" /\ rs[r].boosted = Effective(r, x)
    \/ db[r] # NoRow /\ db[r].boosted = Effective(r, x)

AdminSet(r, x) ==
    /\ "resize" \in AdminActs
    /\ x \in AdminValues[r[2]] /\ x # alloc[r]
    /\ alloc' = [alloc EXCEPT ![r] = x]
    /\ base' = [base EXCEPT ![r] = x]
    /\ edited' = IF cfg # NoCfg /\ cfg.vm = r[1] THEN edited \cup {r} ELSE edited
    /\ forgotten' = IF Aliased(r, x) THEN forgotten \cup {r} ELSE forgotten \ {r}
    /\ UNCHANGED <<tags, running, db, rs, pc, local, stopping, held, unsaved>>

AdminRetag(v) ==
    /\ "retag" \in AdminActs
    /\ tags' = [tags EXCEPT ![v] = IF ExcludeTag \in @ THEN @ \ {ExcludeTag}
                                                       ELSE @ \cup {ExcludeTag}]
    /\ UNCHANGED <<alloc, running, base, db, rs, pc, local, stopping, hist>>

AdminPower(v) ==
    /\ "power" \in AdminActs
    /\ running' = IF v \in running THEN running \ {v} ELSE running \cup {v}
    /\ UNCHANGED <<alloc, tags, base, db, rs, pc, local, stopping, hist>>
-------------------------------------------------------------------------------
Replies == {"ok", "error", "lost", "save", "delete", "load"}

\* The steps of the process when calls end in replies and the containers
\* report usage in classes.
Steps(replies, classes) ==
    \/ \E reply \in replies :
          \/ Start(reply) \/ Apply(reply) \/ Tag(reply)
          \/ \E gained \in 0..TicksPerSecond - 1 : Save(reply, gained)
          \/ Restore(reply) \/ Untag(reply) \/ Settle(reply) \/ Drop(reply)
          \/ \E r \in todo : Discard(r, reply) \/ Adopt(r, reply) \/ StopRevert(r, reply)
    \/ "error" \in replies /\ (ConfigFails \/ ApplyFails \/ RestoreFails)
    \/ "error" \in replies /\ \E r \in todo : PassOver(r) \/ StatusFails(r[1])
                                              \/ RevertUnread(r)
    \/ \E r \in todo : Resume(r) \/ ReadStatus(r[1]) \/ SkipSample(r)
                      \/ StartRevert(r)
    \/ Sample
    \/ \E r \in todo : \E usage \in Zones[r[2]] \cap classes :
          ObserveBoosted(r, usage) \/ CountSample(r, usage) \/ StartBoost(r, usage)
    \/ \E load \in NodeLoads : Poll(load)
    \/ StartLoop \/ BeginExpire \/ EndExpire \/ LoopExit \/ Exit

Service == Steps(Replies, UsageClasses)

Environment ==
    \/ Signal \/ Crash
    \/ \E r \in Res : \E x \in AdminValues[r[2]] : AdminSet(r, x)
    \/ \E v \in VMs : AdminRetag(v) \/ AdminPower(v)

Next == Service \/ Tick \/ Environment

Spec == Init /\ [][Next]_vars

\* Every call ends within the client's timeout and the ticker fires, so the
\* process keeps taking steps; after it ended somebody starts it again
\* (systemd after a failure, an operator after a stop). Time passes. Nothing
\* is assumed of the administrator or of the calls' outcomes.
Fairness == WF_vars(Service) /\ WF_vars(Tick)

FairSpec == Spec /\ Fairness
===============================================================================

# Verification of the Proxmox autoscaler

TLA+ modules, TLC configurations and TLAPS proofs kept beside the code of
`proxmox-autoscaler`: a daemon that raises the CPU and memory of saturated LXC
containers through the Proxmox API and gives the original values back later. What makes
it hard is that the truth is spread over three places that change independently — the
node's configuration, the memory of the process and the SQLite file — while
administrators edit the same containers, calls fail or lose their answers and the
process may end between any two steps.

## 1. Inventory

| Component | State | Operations | Interacts with |
|---|---|---|---|
| `internal/monitor` | `states` (phase, counters, original and boosted value, time stamp per resource), mutex, context | `New`/reconciliation, `poll`, `processContainer`, `evaluateCPU`/`evaluateMemory`, `triggerBoost`, `checkExpiredBoosts`, `revertBoost`, `RevertAllBoosts`, `setTag` | everything below; one goroutine does all the work, `main` only waits for it |
| `internal/scaler` | none | `ComputeBoost`, `ApplyBoost`, `RevertBoost` | reads all containers' configurations, writes one |
| `internal/db` | table `active_boosts`, key (vmid, resource) | `SaveBoost`, `DeleteBoost`, `LoadAllBoosts` | called by the monitor; errors are logged and ignored |
| `internal/proxmox` | none | list, status, config, update, node status | the node; 30 s timeout per request, cancelled by the loop's context |
| `cmd/autoscaler` | signal channel | start, wait for a signal, `Stop`, `RevertAllBoosts`, exit | monitor, db |
| `internal/config` | the configuration | defaults, `validate` | read-only afterwards |
| `internal/notifier` | none | fan-out to e-mail and Slack, one goroutine per event | never feeds back |
| `deployments`, `scripts/deploy.sh` | installed files, service state | install, update, uninstall | systemd starts, stops and restarts the process |

What makes each part correct:

- monitor and db: the administrator's value of a boosted resource is never lost, boosts
  do not compound, rows describe the boosts they belong to, a boost begins and ends only
  on the samples the configuration asks for, it is not ended early, it is ended
  eventually, and a stop ends;
- scaler: a boost is a positive increase and fits the host;
- client: a request may have been carried out although it failed for the caller;
- config: what `validate` accepts is what the rest relies on;
- notifier: an alert says what happened, reaches every backend once, and never holds up
  the daemon;
- deployment: the running service is stopped, and its boosts reverted, before its binary
  is replaced; what a completed run leaves is what was asked for, whatever earlier runs
  left half done; the administrator's configuration stays.

The places where this is hard to test are listed, with their lines, under `hazards` in
`PROJECT.json`.

## 2. Modules

| Module | Contents |
|---|---|
| `Scaler` | the boost arithmetic and the capacity test, and what `validate` guarantees of the scaling section |
| `Autoscaler` | the node, the database, the process and the administrator: state, actions, fairness |
| `BoostContract` | the abstract specification: what the service promises about the value of a resource |
| `AutoscalerProperties` | what the service promises, the refinement mapping to `BoostContract`, the inductive invariant, and what the documentation says but the code does not do |
| `AutoscalerProofs`, `AutoscalerRefinement` | theorems about `Autoscaler` for all values of the constants: the baseline, the rows, the contract |
| `AutoscalerTiming` | that no boost is cut short |
| `AutoscalerFleet` | what holds of any number of containers while calls succeed: tags, regular stops, the memory of the node |
| `MCAutoscaler` | values of its constants for TLC |
| `Notifier` | the goroutines of the alerts and the serial fan-out to e-mail and Slack |
| `NotifiedAutoscaler`, `NotifiedProofs`, `MCNotified` | `Autoscaler` composed with `Notifier`; its theorems; an instance |
| `Config` | defaults, the file laid over them, `validate` |
| `Samples`, `SamplesProofs`, `MCSamples` | counters, history window and pre-boost average of one resource, under any configuration `Config` accepts; theorems; an instance |
| `Deploy`, `DeployProofs` | `scripts/deploy.sh`, the systemd unit, the operator and the machine; theorems |

Definitions whose comment begins with *Variant with a bug* are not used by any
specification. Each is a faulty version of the definition that follows it, used to show
that a property can fail.

### State and code

- `alloc`, `tags`, `running`: configuration, tags and power state on the node. An
  allocation is a natural number: cores, hundredths of a core or MB, which is the
  resolution the code writes. The code compares floats with a tolerance of 0.01; for
  cores and MB that is equality, and for a cpulimit it makes two values that differ by
  exactly one hundredth equal or not depending on rounding, which the model does not
  follow.
- `db`: the table, one optional row per (container, resource). `rs`: `Monitor.states`.
  Time stamps are kept as ages which stop at the boost duration, since nothing tells
  larger ages apart; a row's age can gain less than a second when it is written, as RFC
  3339 has no fractions.
- `pc`, `todo`, `cfg`, `job`, `short`: where the goroutine is, which resources its loop
  has still to visit, the configuration and the node status it has read, and the change
  it is making. `stopping` is the cancelled context.
- `base`, `held`, `edited`, `unsaved`, `forgotten` are history: nothing the process does
  depends on them. `base` is what the administrator last configured, `held` the time
  since the service raised a resource, `edited` what was edited after it was read, and
  `unsaved` the boosts whose row was never written. `forgotten` names the resources
  whose baseline an *identified* event put at risk: an answer that was lost while the
  boost or the first request was carried out; a boost that was not recorded when the
  process ended; a row that start-up could not load or compare; an edit the service
  replaced because it came between the read and the write, or at shutdown; an edit that
  equals a recorded boosted value; cores unset between the status and the configuration
  call of one sample, so that the old count is recorded as the original value. The
  administrator's next unambiguous edit takes the mark away.

### Actions and code

One action per call whose effect others can see or disturb; what lies between two such
calls is part of the action.

| Code | Actions |
|---|---|
| `reconcileBootstrapState` | `Start` (load), per row `Resume`, `Discard`, `PassOver`; then `StartLoop` |
| `poll` up to the containers | `Poll` (a failed list or node call changes nothing) |
| `processContainer` | `ReadStatus`/`StatusFails` (status call), `Sample`/`ConfigFails` (configuration call) |
| `evaluateCPU`, `evaluateMemory` | `SkipSample`, `ObserveBoosted`, `CountSample`, `StartBoost` |
| `triggerBoost` | `StartBoost`, `Apply`/`ApplyFails`, `Save`, `Tag` |
| `checkExpiredBoosts` | `BeginExpire`, `EndExpire` |
| `revertBoost` | `RevertUnread`, `Adopt`, `StartRevert`, `Restore`/`RestoreFails`, `Untag`, `Settle` |
| signal, `Stop`, `RevertAllBoosts`, exit | `Signal`, `LoopExit`, `StopRevert`, `Drop`, `Exit` |
| environment | `Crash`, `Tick`, `AdminSet`, `AdminRetag`, `AdminPower` |

A request ends `ok`, in `error` without effect, or `lost`: carried out, but an error for
the caller. When the context is cancelled the last two are always possible. Database
statements fail by kind (`save`, `delete`, `load`).

### Samples

`Autoscaler` sees a sample as one of three usage classes and keeps of `ResourceState`
what decides something. `Samples` has the rest for one resource: usage in percent,
compared with the thresholds of a configuration that went through `Load` and `Validate`;
`UsageHistory`, `PreBoostAvg` and `downscaleDeferred`; a poll that fails (`PollFails`)
or does not sample the container (`Miss`); a boost that is refused (`Count`, which
computes the average all the same). `taken`, `mark` and `before` are history: every
sample of this process, where the present phase began, and what was taken when the boost
was applied; `refused` counts the attempts to boost that failed in the present run of
saturated samples. A restart resumes a boost, the one in force or one that an earlier
start passed over, with its phase and time stamp and nothing else, or none. The average
is an exact fraction.

### Alerts

An alert is a goroutine in a slot of `flight`: what it announces, the backends it has
called, and whether a call hangs. `Tag` and `Settle`, the last calls of `triggerBoost`
and `revertBoost`, launch one and go on. `Deliver` and `Fail` are one step for
`MultiNotifier`, which does not see whether a backend failed; both are kept because
their code differs and so do the faults that are tried on them. `Hang` is possible at
every call: the mail program is run without a context and Slack is posted to with
`http.DefaultClient`. `Vanish` is the end of the process. Everything else the daemon
does, the adoption of a manual change and the reverts of the shutdown included, is
announced to nobody (`Unannounced`).

### Deployment

One action per command of `deploy.sh` that changes the machine; `Fail` is a command that
fails, or an interruption, at any of them. A configuration is told apart by the one test
the script makes, `grep -q xxxx`: `example`, `complete`, and `partial` for one whose
credentials are filled in and whose unused Slack token is still the example's. The
service is `Type=simple` with `Restart=on-failure`; between any two commands it may fail
and be restarted, the operator may use `systemctl` or edit the configuration, and the
machine may reboot. `alone`, `served` and `found` are history: only the script has
touched the service since it began, what ran then, and which binary was installed.
Starting the service and looking whether it runs two seconds later are separate steps,
and so are the answer to the question of the uninstall, the removal of the directories
and the end of the script, so that each may be interrupted before the next.

## 3. Runs

| Run | Question | Instance |
|---|---|---|
| `recovery` | `BaselineKept`, `AtMostOneBoost`, `PersistedMatchesMemory`, `RevertsInTime`, `ImplementsContract`, types, and the inductive invariant | one container, cores; edits to 0 (unset), 2 and 3 = boosted 2; every fault; two samples needed each way, duration 3, two ticks a second |
| `limit` | the baseline and the contract, with cpulimit | edits to 0 (unlimited), 70 and 105 = boosted 70; lost and failing calls, failing deletions, crashes, power changes |
| `pair` | the baseline, the rows and the contract when both resources of a container are boosted | memory limited by a 12 MB host so that only the fallback or no factor may fit; failing saves, crashes |
| `fleet` | `BoostIsTagged`, `OvershootBounded`, `NothingLeft` | two containers of 24 MB on a 48 MB host, so that the second boost of a poll meets what the first committed; retagging at any step; one boosted resource per container |
| `progress` | `CalmRestores`, `StopTerminates` | edits, failing reads, writes and deletions, crashes; then, for the first, calm for ever |
| `notified` | `AlertsAreTrue`, `EachBackendOnce`, `AlertsEnd`, `MonitorUnaffected` | one container whose cores are unset by hand, failing calls, crashes; both backends; one alert followed at a time |
| `samples` | `BoostJustified`, `RevertJustified`, `AverageIsPreBoost`, `DeferralLoggedOnce` | three usages, on and beside both thresholds; six samples; one or two samples needed to boost and two to revert; windows of 1, 3 and 10; thresholds that `validate` just accepts (94) or refuses (95, 96), and files it refuses for other reasons |
| `deploy` | `InstallServes`, `ConfigKept`, `UninstallRemoves` | two releases, both kinds of edits; unbounded otherwise |

Each bounded domain is chosen for the cases it contains. One container suffices for the
runs about baselines because resources interact only through the host's memory
(`fleet`), the copy of the configuration of *their* container, and the order of the
loops; both resources of a container share that copy in `pair`. Edits include a value
that equals the boosted value of another, the unset value, and a second edit back.
`MaxValue` makes Proxmox refuse boosts of the larger values. Counters stop at their
limits because the code compares them with `>=` only. `MaxSamples` = 6 is enough for a
boost, its revert and a second boost of two samples each, and what concerns counters in
longer sequences is proved. `MaxFlights` = 1 follows one alert out of any number: alerts
do not share anything, and those that are not followed leave the daemon alone in the
same way; the theorem about alerts is for any number. Deadlock is checked in every run:
none of the modelled parts may stop for good.

The remaining runs each show one statement of the documentation the code does not keep;
the findings in `PROJECT.json` quote the line.

| Run | Statement that fails |
|---|---|
| `shutdown_edit` | a manual change is not overwritten (it is, at shutdown) |
| `capacity` | boosts are capped by the host's memory (headroom counts the container's own memory twice) |
| `stop_in_flight` | a stop reverts all boosts (not one whose request it cancels) |
| `update_restart` | an update stops the service, replaces the binary and restarts it (not if the configuration has `xxxx` anywhere) |

Lost answers, a boost unsaved at a crash and overwritten edits are the reasons for the
mark `forgotten` and for stating `BaselineKept` for the other resources: with it the
runs say precisely which events endanger a baseline, and that no others do.
`NothingLeft` is the other half of `stop_in_flight`: when requests and deletions
succeed, a stop leaves no row and none of the boosts the process knew of. Exempt,
because it is marked, is the boost whose own request the signal cancels after the node
has carried it out: the very case that `stop_in_flight` shows. `OvershootBounded` is the
other half of `capacity`: the memory of the node is exceeded by at most what the boosted
container had before, however many boosts one poll applies, as long as every
configuration is read and nobody starts or resizes a container meanwhile.

More that reading the code against `src/README.md` shows; the first three follow from
the actions named:

- a crash between `ApplyBoost` (monitor.go:334) and `SaveBoost` (:370) leaves a boost no
  later start knows (README:17 says boost state survives restarts): `Apply`, then
  `Crash`;
- a container tagged for exclusion while boosted is still scaled down (README:180 says
  never scaled): `AdminRetag`, then `StartRevert`, which does not look at the tags;
- when cores are unset between the status call (monitor.go:155) and the configuration
  call (:164) of one sample, `status.CPUs` is the old count: it is recorded as the
  original (:222), boosted, and written back later (README:8). `ReadStatus`, `AdminSet`,
  `Sample`; it is one of the events of `forgotten`;
- the average before a boost is over the usage before saturation kicked in (state.go:34)
  only when the first attempt succeeds. It is computed at every attempt and leaves out
  consecutive_samples samples (monitor.go:305), so every refused attempt puts one
  saturated sample of the run into it: with consecutive_samples = 1 and samples of 10,
  95 (refused) and 95 (boosted) it is over 10 and 95. `AverageIsPreBoost` says that it
  is these samples and no others;
- a container without a cores setting has an explicit one after its first revert
  (README:8 says the allocation is reverted): `Current` and `StartRevert`;
- a manual change is only looked for when usage has been low for long enough;
  README:48-50 has the comparison first;
- polls that skip a container neither count nor reset, so *consecutive polls*
  (README:42, state.go:27) are consecutive samples;
- the default `noautoscale` (README:22) is in the example configuration only,
  `defaultConfig` leaves the tag empty;
- a retained boost is logged again each time usage has climbed and fallen (README:20
  says no noise);
- boosts that a shutdown reverts are announced to nobody, and alerts under way when the
  process ends are lost (README:19);
- an install that failed after its binary was in place is not repaired by running the
  script again, which finds the version installed (deploy.sh:127);
- `--force` on a running service neither stops nor restarts it, because it removes the
  binary that the version check looks for (deploy.sh:267): `Erase`, after which `update`
  is FALSE in `StopService`. `InstallServes` exempts it by name (`Recognised`), and asks
  for a running service only when the configuration has no xxxx, the other case being
  `update_restart`.

### Fairness

`FairSpec` assumes that the process keeps taking steps (every request has a 30 s
timeout, database statements and the ticker end; after the end of the process systemd
restarts it on failure and an operator after a stop) and that time passes. `WF(Service)`
is on the whole process: no branch and no outcome of a call is favoured. Nothing is
assumed of the administrator. `CalmRestores` has its condition in the formula: if from
some point on only steps with successful calls, usage below the downscale threshold and
no edits happen, then everything not marked is eventually at the administrator's value
and stays there. `StopTerminates` needs no such condition.

`NFairSpec` assumes the same of the daemon and its clock beside the alerts, and that
every goroutine keeps taking steps, which the Go scheduler provides. `Hang` is one of
those steps, so the fairness does not assume that a mail program or a request returns:
`AlertsEnd` says that all backends have been called, or one hangs, or the process has
ended. That the fairness of the daemon survives the composition is not assumed but
checked: `MonitorUnaffected` is `FairSpec` itself, as a property of `NFairSpec`.
`Samples` and `Deploy` state no liveness and assume no fairness.

## 4. Proofs

`AutoscalerProofs` proves for any finite set of containers, thresholds, factors,
durations, faults and administrator, assuming only the named assumptions on the
constants (`ScalingAssumption` and `MonitorAssumption`: what `validate` ensures;
`EnvironmentAssumption`: types of the environment's sets):

- `TypeCorrect`: `Spec => []TypeOK`;
- `Inductive`: `Spec => []IInv`;
- `Baseline`: `Spec => []BaselineKept`;
- `Persisted`: `Spec => []PersistedMatchesMemory`.

`BaselineKept` is not inductive. What it needs:

- `StepInHand` and `PhasesMatch`: a step works on a resource that it has read and that
  is in the phase the step expects; no configuration is in hand between loops;
- `Positive`: no recorded boost is 0, so that it cannot be mistaken for *unset*;
- `Fresh`: what was read is what is there, up to the edits made since, and what will be
  written back is the baseline;
- `Unambiguous`: a record whose boosted value *is* the administrator's value leads back
  to that value. Rows that failed deletions leave behind, and boosts that are resumed
  from them, make this necessary;
- `PersistedMatchesMemory`: when the process ends, the rows take over.

The induction is done in four layers, each using the ones before: types with
`StepInHand`, `Control` (phases, amounts, rows), `Keep` (`BaselineKept` with
`Unambiguous`) and `Fresh`, each with one lemma per group of actions and one step per
action.

`AutoscalerRefinement` proves that the daemon implements the abstract specification and
what follows from that:

- `Refinement`: `Spec => ImplementsContract`. The mapping reads `base` as what is
  configured, `alloc` as what is in force and `forgotten` as what is out of the promise;
  everything else is invisible. A boost is a step of the contract because of one more
  invariant, `RaiseInHand` (the value being applied is one boost of the value that was
  read), with `Fresh`; a revert because of `BaselineKept` and `Fresh`.
- `OneBoost`: `Spec => []AtMostOneBoost`, from the contract: its steps preserve the
  formula.

`AutoscalerTiming` proves `InTime`: `Spec => RevertsInTime`. There are three clocks: the
age in memory, the age of the row, which a stored time stamp may put ahead by a fraction
of a second, and `held`, the time since the container was really raised. A record may
well be older than the last raise, when it is a row that a failed deletion left, so the
invariant (`Timing`) compares the clocks only where the record would lead to a change
(`Timely`), and knows of a revert under way that it is due (`Due`). That such a row may
be resumed at the next start without harm rests on `Unambiguous`.

`AutoscalerFleet` proves three properties that are about a node whose calls succeed.
Their hypotheses restrict constants only, the run `fleet` satisfies them, and none can
be left out: with an `error`, `lost`, `delete` or `crash` among the faults, with both
resources scarce, with `boosted` as the exclusion tag or with `power` among what the
administrator does, TLC finds one of the three violated on the instance of `fleet`.

- `StopsClean`: `Spec => []NothingLeft`, when requests and deletions succeed and nothing
  kills the process (`CallsSucceed`; saves and loads may fail). The invariant `Clean`
  says that every row is of a boost in memory, that every boost can be taken back, and
  that `RevertAllBoosts` has not passed over one.
- `TagFollowsBoost`: `Spec => []BoostIsTagged`, when in addition one resource is never
  scarce (`OneIsScarce`) and the exclusion tag is not `boosted`. `OneKind` says that
  only the other is ever boosted, so no revert removes a tag that a second boost needs;
  `Marked` that the list of tags written back by the next `setTag` has the tag if the
  container has to keep it.
- `Overshoot`: `Spec => OvershootBounded`, when configurations can be read and nobody
  else resizes, starts or stops a container (`OnlyBoosts`). The invariant `Room` says
  that the boost in hand still passes the capacity test against the sum as it is *now*.
  The sum is a fold over a set; that it changes by what one member changes, and is a
  natural number, is proved by induction on the size of the set (`SubsetInduction`, from
  the least element of a set of numbers, which the library states without an operator
  parameter).

`NotifiedProofs` is about the composition:

- `BaselineBesideAlerts`: `NSpec => []BaselineKept`, because every step of the whole is
  a step of the daemon or leaves it as it was;
- `TrueAlerts`: `NSpec => AlertsAreTrue`. It takes that every record, in memory or on
  disk, is of one boost (`RecordsAreBoosts`: an alert about a boost that was resumed
  after a crash is true as well), and that what a step in progress will announce is
  still so when it gets there (`MessageInHand`);
- `PromisesBesideAlerts`: the contract, the single boost and the duration, in the same
  way;
- `OncePerBackend`: `NSpec => EachBackendOnce`, for any number of alerts. Its invariant,
  `FanOut`, says that an alert under way has called a prefix of the backends, which is
  what makes `called = Backends` follow from the length the last step tests.

`SamplesProofs` is about one resource, any set of configuration files and any number of
samples (the bound of the run is a constant):

- `BoostsAreJustified`, `RevertsAreJustified`: the invariant says that each counter is
  the length of a run of samples that ends with the newest one and began after the last
  change of phase (`SaturatedRun`, `CalmRun`), that only one of the two counts at a
  time, and that the configuration is one `validate` accepted, from which the comparison
  of the two thresholds comes.
- `AverageLeavesOutBoost`: `Spec => []AverageIsPreBoost`. The invariant says that the
  window is the last `history_samples` samples of this process (`Window`), so that
  cutting samples off the window cuts them off all samples, and that the saturated run
  is as long as it can be and has one sample for every refused attempt beyond the first
  `consecutive_samples` - 1 (`Refusals`). `Sum` is left alone: the average is proved to
  be a sum of the right samples, whatever a sum is.
- `LoggedOnce`: `Spec => []DeferralLoggedOnce`, because the flag is set exactly as long
  as one line was logged (`Logged`).

`DeployProofs` proves `InstallServed`, `Uninstalled` and `ConfigurationKept` for any
releases and any edits. The invariant has three parts: `Done`, what each command finds
done by those before it in this run of the script, `Undisturbed`, what the script knows
of the service as long as nobody else touched it, and `Known`, what it knows in an
install besides when it has recognised whether a service ran.

The assumptions are the named ones of the modules, `ScalingAssumption`,
`MonitorAssumption`, `EnvironmentAssumption` (which has the containers finite in
number), `NotifierAssumption`, `SamplesAssumption` and `DeployAssumption`, and the three
hypotheses of `AutoscalerFleet`.

With that every invariant and every action property of a passing run has a theorem. Only
model-checked are the properties that involve fairness, which are out of the prover's
reach: `CalmRestores`, `StopTerminates`, `AlertsEnd` and `MonitorUnaffected`. Nor can it
prove what a recursive definition over data computes when the induction needs an
operator for its hypothesis; none of the theorems does.

## 5. Not modelled

- log messages and the texts of the alerts, with their translations and formats; the
  flags `warnedUnlimited`, which only keep a warning from being repeated;
- JSON, HTTP and TLS; flag parsing and logger set-up; build and release files, which
  have no behaviour at run time;
- the notification and logging sections of the configuration, the two host thresholds
  (the model has what they decide) and values that YAML reads as not a number;
- fractional `status.CPUs` of a container with cores unset;
- how long requests take, so neither polls that fall behind nor systemd's stop timeout
  as such (a kill during the shutdown is `Crash`);
- what a boost commits when a container's configuration cannot be read (scaler.go:60):
  nothing bounds it;
- in `deploy.sh`, the detection of the architecture and of the latest release, which are
  inputs, and the log and database directories;
- a container that is destroyed or created while the service runs; a container without a
  memory setting; a status call is modelled by the CPU count and the usage class it
  reports, the latter chosen when the sample is evaluated;
- what an edit to the tags loses when `setTag` writes back an older list (the model has
  the write, no property is about the other tags);
- the feedback of a boost on the node's load: the node status is an input;
- `CPUResource` changing between two runs of the service with rows in the table.

## 6. Plan

The modules were written in this order, the most important behaviour first: `Scaler` and
`Autoscaler` with its invariants and their proofs; `BoostContract` and the refinement;
`Samples` with `Config`; `Notifier` and its composition with the daemon; `Deploy`.

The proofs followed in the same order. What would come next:

1. containers that are destroyed, created or migrated, whose states and rows the code
   never drops;
2. `cpu_resource` changed between two runs of the service while rows are in the table;
3. node load that follows the boosts, for the host thresholds;
4. that the counters of `Samples`, with usage read as the classes of `Autoscaler`, are
   the counters of `Autoscaler`: a refinement between the two views of `ResourceState`.

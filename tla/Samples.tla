-------------------------------- MODULE Samples --------------------------------
(***************************************************************************)
(* ResourceState of one resource under any accepted configuration, without *)
(* its values: how usage samples decide when a boost begins and when it    *)
(* may end, what is logged meanwhile, and the average before the boost.    *)
(* Autoscaler has the counters in the context of everything else, here are *)
(* the samples themselves: usage in percent, compared with the thresholds. *)
(***************************************************************************)
EXTENDS Config, Sequences, SequencesExt

CONSTANTS
    Files,        \* configuration files the service may be started with
    Usage,        \* usage in percent that a sample may show
    MaxSamples    \* samples one process takes

\* A file that gives a number setting anything else does not parse.
ASSUME SamplesAssumption ==
    /\ Usage \subseteq 0..100 /\ MaxSamples \in Nat
    /\ \A file \in Files : \A f \in Numbers : Load(file)[f] \in Int

VARIABLES
    conf,      \* the configuration, once Load has accepted it
    rs,        \* ResourceState
    age,       \* seconds since BoostedAt, up to the boost duration
    pc,        \* "sample", "check": what the poll does next; or "wait"
    \* History
    taken,     \* every sample of this process
    mark,      \* how many of them precede the last change of phase
    before,    \* what was taken when this process applied the boost, or empty
    refused,   \* attempts to boost refused in the present run of saturated
               \* samples; while boosted, in the run that led to the boost
    deferrals  \* deferrals logged since usage was last too high to revert

vars == <<conf, rs, age, pc, taken, mark, before, refused, deferrals>>

\* Averages are exact: a sum and the number of samples it is over.
NewState == [phase |-> "normal", sat |-> 0, down |-> 0, history |-> << >>,
             avg |-> <<0, 1>>, deferred |-> FALSE]

Init ==
    /\ conf \in {Load(file) : file \in Files} /\ Validate(conf)
    /\ rs = NewState /\ age = 0 /\ pc = "wait"
    /\ taken = << >> /\ mark = 0 /\ before = << >> /\ refused = 0 /\ deferrals = 0

Sum(s) == FoldLeft(LAMBDA x, y : x + y, 0, s)

Suffix(s, n) == SubSeq(s, Len(s) - n + 1, Len(s))

\* Variant with a bug: one sample too many is kept.
addHistoryLong(history, usage) ==
    LET longer == Append(history, usage)
    IN  IF Len(longer) > conf.HistorySamples + 1
        THEN Suffix(longer, conf.HistorySamples + 1) ELSE longer

addHistory(history, usage) ==
    LET longer == Append(history, usage)
    IN  IF Len(longer) > conf.HistorySamples
        THEN Suffix(longer, conf.HistorySamples) ELSE longer

computePreBoostAvg(history) ==
    LET usable == Len(history) - conf.ConsecutiveSamples
    IN  IF usable <= 0 THEN <<50, 1>>
                       ELSE <<Sum(SubSeq(history, 1, usable)), usable>>

\* clearBoostState; the history stays.
Cleared == [rs EXCEPT !.phase = "normal", !.sat = 0, !.down = 0,
                      !.avg = <<0, 1>>, !.deferred = FALSE]

Poll == pc = "wait" /\ pc' = "sample"
        /\ UNCHANGED <<conf, rs, age, taken, mark, before, refused, deferrals>>

\* ListLXC or GetNodeStatus fails: not even expired boosts are looked at.
PollFails == pc = "sample" /\ pc' = "wait"
             /\ UNCHANGED <<conf, rs, age, taken, mark, before, refused, deferrals>>

\* The container is not running, excluded or cannot be read, its cpulimit is
\* zero, or no memory figure is reported.
Miss == pc = "sample" /\ pc' = "check"
        /\ UNCHANGED <<conf, rs, age, taken, mark, before, refused, deferrals>>

\* What every sample does.
Take(usage) ==
    /\ pc = "sample" /\ Len(taken) < MaxSamples
    /\ taken' = Append(taken, usage)
    /\ pc' = "check"
    /\ UNCHANGED conf

\* observeBoostedUsage
Observe(usage) ==
    /\ Take(usage) /\ rs.phase = "boosted"
    /\ LET calm == usage < conf.DownscaleThreshold
       IN  /\ rs' = [rs EXCEPT !.history = addHistory(@, usage),
                               !.down = IF calm THEN @ + 1 ELSE 0,
                               !.deferred = @ /\ calm]
           /\ deferrals' = IF calm THEN deferrals ELSE 0
    /\ UNCHANGED <<age, mark, before, refused>>

\* Variant with a bug: a sample that is not saturated is passed over.
SaturatedInTotal(usage) ==
    IF usage >= conf.SaturationThreshold THEN rs.sat + 1 ELSE rs.sat

SaturatedAfter(usage) ==
    IF usage >= conf.SaturationThreshold THEN rs.sat + 1 ELSE 0

\* Not saturated for long enough, or the boost is impossible or fails: in the
\* latter case the average is computed all the same.
Count(usage) ==
    /\ Take(usage) /\ rs.phase = "normal"
    /\ LET history == addHistory(rs.history, usage)
           sat     == SaturatedAfter(usage)
       IN  /\ rs' = [rs EXCEPT !.history = history, !.sat = sat,
                               !.avg = IF sat >= conf.ConsecutiveSamples
                                       THEN computePreBoostAvg(history) ELSE @]
           /\ refused' = IF sat >= conf.ConsecutiveSamples THEN refused + 1 ELSE 0
    /\ UNCHANGED <<age, mark, before, deferrals>>

Boost(usage) ==
    /\ Take(usage) /\ rs.phase = "normal"
    /\ SaturatedAfter(usage) >= conf.ConsecutiveSamples
    /\ LET history == addHistory(rs.history, usage)
       IN  rs' = [rs EXCEPT !.history = history, !.phase = "boosted",
                            !.avg = computePreBoostAvg(history),
                            !.sat = 0, !.down = 0, !.deferred = FALSE]
    /\ age' = 0
    /\ mark' = Len(taken') /\ before' = taken' /\ deferrals' = 0
    /\ UNCHANGED refused

\* canDownscale
CanDownscale ==
    age >= conf.BoostDuration /\ rs.down >= conf.DownscaleConsecutiveSamples

\* Variant with a bug: the flag is not set.
DeferUnnoted ==
    /\ pc = "check" /\ rs.phase = "boosted" /\ ~CanDownscale
    /\ age >= conf.BoostDuration /\ ~rs.deferred
    /\ deferrals' = deferrals + 1
    /\ pc' = "wait"
    /\ UNCHANGED <<conf, rs, age, taken, mark, before, refused>>

\* checkExpiredBoosts: the retained boost is logged.
Defer ==
    /\ pc = "check" /\ rs.phase = "boosted" /\ ~CanDownscale
    /\ age >= conf.BoostDuration /\ ~rs.deferred
    /\ rs' = [rs EXCEPT !.deferred = TRUE]
    /\ deferrals' = deferrals + 1
    /\ pc' = "wait"
    /\ UNCHANGED <<conf, age, taken, mark, before, refused>>

\* Nothing to revert yet, or the revert fails.
Leave ==
    /\ pc = "check"
    /\ rs.phase = "boosted" /\ age >= conf.BoostDuration =>
           CanDownscale \/ rs.deferred
    /\ pc' = "wait"
    /\ UNCHANGED <<conf, rs, age, taken, mark, before, refused, deferrals>>

\* revertBoost, whether it restores the value or adopts a new one.
Revert ==
    /\ pc = "check" /\ rs.phase = "boosted" /\ CanDownscale
    /\ rs' = Cleared
    /\ mark' = Len(taken) /\ before' = << >> /\ refused' = 0 /\ deferrals' = 0
    /\ age' = 0 /\ pc' = "wait"
    /\ UNCHANGED <<conf, taken>>

\* The process ends and another resumes a boost, with nothing but the phase and
\* the time stamp of its row: the one in force, or one that the process before
\* it had passed over or failed to load. Or there is none to resume, because the
\* shutdown reverted it or its row is gone. (Which of them is Autoscaler's.)
Restart ==
    /\ \E phase \in {"normal", "boosted"} :
           /\ rs' = [NewState EXCEPT !.phase = phase]
           /\ age' \in IF phase = "boosted" THEN age..conf.BoostDuration ELSE {0}
    /\ taken' = << >> /\ mark' = 0 /\ before' = << >> /\ refused' = 0
    /\ deferrals' = 0
    /\ pc' = "wait"
    /\ UNCHANGED conf

Tick ==
    /\ rs.phase = "boosted" /\ age < conf.BoostDuration
    /\ age' = age + 1
    /\ UNCHANGED <<conf, rs, pc, taken, mark, before, refused, deferrals>>

Next ==
    \/ Poll \/ Miss \/ PollFails
    \/ \E usage \in Usage : Observe(usage) \/ Count(usage) \/ Boost(usage)
    \/ Defer \/ Leave \/ Revert \/ Restart \/ Tick

Spec == Init /\ [][Next]_vars
-------------------------------------------------------------------------------
(* What the samples must have shown *)

Changes(phase) == rs.phase # phase /\ rs'.phase = phase

\* The last n samples since the last change of phase, this one included.
Recent(n) == (Len(taken') - n + 1)..Len(taken')

\* A boost that is applied, not resumed, rests on the last consecutive_samples
\* samples, all taken since the previous revert or start of the process and all
\* saturated, however many attempts were refused before and polls missed in
\* between.
BoostJustified ==
    [][Changes("boosted") /\ ~Restart =>
         /\ Len(taken') - mark >= conf.ConsecutiveSamples
         /\ \A i \in Recent(conf.ConsecutiveSamples) :
                taken'[i] >= conf.SaturationThreshold]_vars

\* A revert rests on the last downscale_consecutive_samples samples, all taken
\* while boosted, none of which would count towards the next boost.
RevertJustified ==
    [][Changes("normal") /\ ~Restart =>
         /\ age >= conf.BoostDuration
         /\ Len(taken) - mark >= conf.DownscaleConsecutiveSamples
         /\ \A i \in Recent(conf.DownscaleConsecutiveSamples) :
                /\ taken[i] < conf.DownscaleThreshold
                /\ taken[i] < conf.SaturationThreshold]_vars

\* The average of the samples of s from m + 1 to n, one half if there are none.
AverageOver(s, m, n) ==
    IF n <= m THEN <<50, 1>> ELSE <<Sum(SubSeq(s, m + 1, n)), n - m>>

\* The samples of s that the window has dropped.
Dropped(s) == IF Len(s) > conf.HistorySamples
              THEN Len(s) - conf.HistorySamples ELSE 0

\* s ends with a run of saturated samples that begins after position onset.
SaturatedFrom(s, onset) ==
    /\ onset > 0 => s[onset] < conf.SaturationThreshold
    /\ \A i \in 1..Len(s) : i > onset => s[i] >= conf.SaturationThreshold

\* "Average usage before saturation kicked in" is what the window of
\* history_samples still holds of the time before the whole run of saturated
\* samples that led to the boost, or one half. That is what the verdict on a
\* revert compares with as long as the process lives, when the first attempt
\* succeeded. For every attempt that was refused, one saturated sample of that
\* run is averaged as well, unless the window has dropped it.
AverageIsPreBoost ==
    rs.phase = "boosted" /\ before # << >> =>
        \E onset \in 0..Len(before) :
            /\ SaturatedFrom(before, onset)
            /\ rs.avg = AverageOver(before, Dropped(before), onset + refused)

\* A retained boost is logged once until usage climbs again.
DeferralLoggedOnce == deferrals <= 1
===============================================================================

----------------------------- MODULE SamplesProofs -----------------------------
(***************************************************************************)
(* What boosts, reverts and the recorded average rest on, and how often a  *)
(* retained boost is logged, for every set of configuration files and any  *)
(* number of samples.                                                      *)
(***************************************************************************)
EXTENDS Samples, SequenceTheorems, TLAPS

\* The configuration passed validate, and its numbers are numbers.
Accepted ==
    /\ Validate(conf)
    /\ \A f \in Numbers : conf[f] \in Int

\* rs has the fields of ResourceState; the counters are numbers.
Shape ==
    /\ rs = [phase |-> rs.phase, sat |-> rs.sat, down |-> rs.down,
             history |-> rs.history, avg |-> rs.avg,
             deferred |-> rs.deferred]
    /\ rs.phase \in {"normal", "boosted"}
    /\ rs.sat \in Nat /\ rs.down \in Nat
    /\ taken \in Seq(Int) /\ mark \in 0..Len(taken)

\* Each counter is the length of a run of samples that ends with the newest
\* one and began after the last change of phase.
SaturatedRun ==
    /\ rs.sat <= Len(taken) - mark
    /\ \A i \in 1..Len(taken) :
          i > Len(taken) - rs.sat => taken[i] >= conf.SaturationThreshold

CalmRun ==
    /\ rs.down <= Len(taken) - mark
    /\ \A i \in 1..Len(taken) :
          i > Len(taken) - rs.down => taken[i] < conf.DownscaleThreshold

\* Only one of them counts at a time.
OneCounts ==
    /\ rs.phase = "boosted" => rs.sat = 0
    /\ rs.phase = "normal" => rs.down = 0

SInv == Accepted /\ Shape /\ SaturatedRun /\ CalmRun /\ OneCounts
-------------------------------------------------------------------------------
LEMMA NumbersNamed ==
    ASSUME Accepted
    PROVE  /\ conf.SaturationThreshold \in Int /\ conf.DownscaleThreshold \in Int
           /\ conf.ConsecutiveSamples \in Int /\ conf.ConsecutiveSamples > 0
           /\ conf.DownscaleConsecutiveSamples \in Int
           /\ conf.DownscaleConsecutiveSamples > 0
           /\ conf.DownscaleThreshold < conf.SaturationThreshold
BY DEF Accepted, Validate, Numbers, Positive

LEMMA SamplesInit == Init => SInv
<1> SUFFICES ASSUME Init PROVE SInv
  OBVIOUS
<1>1. Accepted
  BY SamplesAssumption DEF Init, Accepted
<1>2. /\ rs.sat = 0 /\ rs.down = 0 /\ rs.phase = "normal" /\ mark = 0
      /\ taken \in Seq(Int) /\ Len(taken) = 0
  BY EmptySeq DEF Init, NewState
<1>3. Shape
  BY <1>2 DEF Init, Shape, NewState
<1> QED
  BY <1>1, <1>2, <1>3 DEF SInv, SaturatedRun, CalmRun, OneCounts

\* Taking a sample puts it at the end of those taken.
LEMMA Taken ==
    ASSUME SInv, NEW usage \in Usage, Take(usage)
    PROVE  /\ usage \in Int /\ conf' = conf
           /\ taken' \in Seq(Int) /\ Len(taken) \in Nat
           /\ Len(taken') = Len(taken) + 1
           /\ taken'[Len(taken')] = usage
           /\ \A i \in 1..Len(taken) : taken'[i] = taken[i] /\ taken[i] \in Int
<1>1. usage \in Int
  BY SamplesAssumption
<1>2. taken \in Seq(Int) /\ taken' = Append(taken, usage) /\ conf' = conf
  BY DEF SInv, Shape, Take
<1> QED
  BY <1>1, <1>2, AppendProperties, ElementOfSeq, LenProperties

\* While boosted a sample continues the calm run or ends it.
LEMMA StepObserve ==
    ASSUME SInv, NEW usage \in Usage, Observe(usage)
    PROVE  SInv'
<1>1. Take(usage)
  BY DEF Observe
<1>2. /\ rs.phase = "boosted" /\ rs'.phase = "boosted" /\ rs'.sat = rs.sat
      /\ rs'.down = IF usage < conf.DownscaleThreshold THEN rs.down + 1 ELSE 0
      /\ mark' = mark /\ rs.down \in Nat /\ rs.sat = 0
  BY DEF Observe, SInv, Shape, OneCounts
<1>3. Accepted'
  BY <1>1, Taken DEF SInv, Accepted
<1>4. Shape'
  <2>1. rs' = [phase |-> rs'.phase, sat |-> rs'.sat, down |-> rs'.down,
               history |-> rs'.history, avg |-> rs'.avg,
               deferred |-> rs'.deferred]
    BY DEF Observe, SInv, Shape
  <2> QED
    BY <1>1, <1>2, <2>1, Taken DEF SInv, Shape
<1>5. SaturatedRun' /\ OneCounts'
  BY <1>1, <1>2, Taken DEF SInv, Shape, SaturatedRun, OneCounts
<1>6. /\ usage \in Int /\ conf' = conf /\ Len(taken) \in Nat
      /\ Len(taken') = Len(taken) + 1 /\ taken'[Len(taken')] = usage
      /\ \A i \in 1..Len(taken) : taken'[i] = taken[i] /\ taken[i] \in Int
      /\ conf.SaturationThreshold \in Int /\ conf.DownscaleThreshold \in Int
      /\ conf.ConsecutiveSamples \in Int /\ conf.ConsecutiveSamples > 0
      /\ mark \in 0..Len(taken) /\ rs.sat \in Nat /\ rs.down \in Nat
  BY <1>1, Taken, NumbersNamed DEF SInv, Shape
<1>7. CalmRun'
  <2>1. rs'.down <= Len(taken') - mark'
    BY <1>2, <1>6 DEF SInv, CalmRun
  <2>2. ASSUME NEW i \in 1..Len(taken'), i > Len(taken') - rs'.down
        PROVE  taken'[i] < conf'.DownscaleThreshold
    <3>1. usage < conf.DownscaleThreshold /\ rs'.down = rs.down + 1
      BY <1>2, <1>6, <2>2
    <3>2. CASE i = Len(taken')
      BY <1>6, <3>1, <3>2
    <3>3. CASE i \in 1..Len(taken)
      BY <1>6, <2>2, <3>1, <3>3 DEF SInv, CalmRun
    <3> QED
      BY <1>6, <3>2, <3>3
  <2> QED
    BY <2>1, <2>2 DEF CalmRun
<1> QED
  BY <1>3, <1>4, <1>5, <1>7 DEF SInv

\* In the normal phase it does the same to the saturated run.
LEMMA StepCount ==
    ASSUME SInv, NEW usage \in Usage, Count(usage)
    PROVE  SInv'
<1>1. Take(usage)
  BY DEF Count
<1>2. /\ rs.phase = "normal" /\ rs'.phase = "normal" /\ rs'.down = rs.down
      /\ rs'.sat = SaturatedAfter(usage)
      /\ mark' = mark /\ rs.down \in Nat /\ rs.sat \in Nat
  BY DEF Count, SInv, Shape
<1>3. Accepted'
  BY <1>1, Taken DEF SInv, Accepted
<1>4. Shape'
  <2>1. rs' = [phase |-> rs'.phase, sat |-> rs'.sat, down |-> rs'.down,
               history |-> rs'.history, avg |-> rs'.avg,
               deferred |-> rs'.deferred]
    BY DEF Count, SInv, Shape
  <2> QED
    BY <1>1, <1>2, <2>1, Taken DEF SInv, Shape, SaturatedAfter
<1>5. /\ usage \in Int /\ conf' = conf /\ Len(taken) \in Nat
      /\ Len(taken') = Len(taken) + 1 /\ taken'[Len(taken')] = usage
      /\ \A i \in 1..Len(taken) : taken'[i] = taken[i] /\ taken[i] \in Int
      /\ conf.SaturationThreshold \in Int /\ conf.DownscaleThreshold \in Int
      /\ conf.ConsecutiveSamples \in Int /\ conf.ConsecutiveSamples > 0
      /\ mark \in 0..Len(taken) /\ rs.sat \in Nat /\ rs.down \in Nat
  BY <1>1, Taken, NumbersNamed DEF SInv, Shape
<1>6. SaturatedRun'
  <2>1. rs'.sat <= Len(taken') - mark'
    BY <1>2, <1>5 DEF SInv, SaturatedRun, SaturatedAfter
  <2>2. ASSUME NEW i \in 1..Len(taken'), i > Len(taken') - rs'.sat
        PROVE  taken'[i] >= conf'.SaturationThreshold
    <3>1. usage >= conf.SaturationThreshold /\ rs'.sat = rs.sat + 1
      BY <1>2, <1>5, <2>2 DEF SaturatedAfter
    <3>2. CASE i = Len(taken')
      BY <1>5, <3>1, <3>2
    <3>3. CASE i \in 1..Len(taken)
      BY <1>5, <2>2, <3>1, <3>3 DEF SInv, SaturatedRun
    <3> QED
      BY <1>5, <3>2, <3>3
  <2> QED
    BY <2>1, <2>2 DEF SaturatedRun
<1>7. OneCounts'
  BY <1>2 DEF SInv, OneCounts
<1>8. CalmRun'
  BY <1>1, <1>2, Taken DEF SInv, Shape, CalmRun, OneCounts
<1> QED
  BY <1>3, <1>4, <1>6, <1>7, <1>8 DEF SInv

\* A boost starts both runs afresh.
LEMMA StepBoost ==
    ASSUME SInv, NEW usage \in Usage, Boost(usage)
    PROVE  SInv'
<1>1. Take(usage)
  BY DEF Boost
<1>2. /\ rs'.phase = "boosted" /\ rs'.down = 0 /\ rs'.sat = 0
      /\ mark' = Len(taken')
  BY DEF Boost, SInv, Shape
<1>3. Accepted'
  BY <1>1, Taken DEF SInv, Accepted
<1>4. Shape'
  <2>1. rs' = [phase |-> rs'.phase, sat |-> rs'.sat, down |-> rs'.down,
               history |-> rs'.history, avg |-> rs'.avg,
               deferred |-> rs'.deferred]
    BY DEF Boost, SInv, Shape
  <2> QED
    BY <1>1, <1>2, <2>1, Taken DEF SInv, Shape
<1> QED
  BY <1>1, <1>2, <1>3, <1>4, Taken
  DEF SInv, SaturatedRun, CalmRun, OneCounts

\* The other steps of the process take no sample.
LEMMA StepQuiet ==
    ASSUME SInv, Poll \/ PollFails \/ Miss \/ Defer \/ Leave \/ Tick
    PROVE  SInv'
<1>1. /\ conf' = conf /\ taken' = taken /\ mark' = mark
      /\ rs'.phase = rs.phase /\ rs'.sat = rs.sat /\ rs'.down = rs.down
      /\ rs' = [phase |-> rs'.phase, sat |-> rs'.sat, down |-> rs'.down,
                history |-> rs'.history, avg |-> rs'.avg,
                deferred |-> rs'.deferred]
  BY DEF SInv, Shape, Poll, PollFails, Miss, Defer, Leave, Tick
<1> QED
  BY <1>1 DEF SInv, Accepted, Shape, SaturatedRun, CalmRun, OneCounts

LEMMA StepRevert ==
    ASSUME SInv, Revert
    PROVE  SInv'
<1>1. /\ conf' = conf /\ taken' = taken /\ mark' = Len(taken)
      /\ rs'.phase = "normal" /\ rs'.sat = 0 /\ rs'.down = 0
      /\ rs' = [phase |-> rs'.phase, sat |-> rs'.sat, down |-> rs'.down,
                history |-> rs'.history, avg |-> rs'.avg,
                deferred |-> rs'.deferred]
  BY DEF SInv, Shape, Revert, Cleared
<1>2. Len(taken) \in Nat
  BY LenProperties DEF SInv, Shape
<1> QED
  BY <1>1, <1>2 DEF SInv, Accepted, Shape, SaturatedRun, CalmRun, OneCounts

LEMMA StepRestart ==
    ASSUME SInv, Restart
    PROVE  SInv'
<1>1. /\ conf' = conf /\ taken' = << >> /\ mark' = 0
      /\ rs'.phase \in {"normal", "boosted"} /\ rs'.sat = 0 /\ rs'.down = 0
      /\ rs' = [phase |-> rs'.phase, sat |-> rs'.sat, down |-> rs'.down,
                history |-> rs'.history, avg |-> rs'.avg,
                deferred |-> rs'.deferred]
  BY DEF SInv, Shape, Restart, NewState
<1>2. taken' \in Seq(Int) /\ Len(taken') = 0
  BY <1>1, EmptySeq
<1> QED
  BY <1>1, <1>2 DEF SInv, Accepted, Shape, SaturatedRun, CalmRun, OneCounts

\* The counters are runs of samples, always.
LEMMA CountersAreRuns == Spec => []SInv
<1>1. SInv /\ [Next]_vars => SInv'
  <2> SUFFICES ASSUME SInv, [Next]_vars PROVE SInv'
    OBVIOUS
  <2>1. CASE UNCHANGED vars
    BY <2>1 DEF vars, SInv, Accepted, Shape, SaturatedRun, CalmRun, OneCounts
  <2>2. ASSUME NEW usage \in Usage, Observe(usage) \/ Count(usage) \/ Boost(usage)
        PROVE  SInv'
    BY <2>2, StepObserve, StepCount, StepBoost
  <2>3. CASE Poll \/ PollFails \/ Miss \/ Defer \/ Leave \/ Tick
    BY <2>3, StepQuiet
  <2> QED
    BY <2>1, <2>2, <2>3, StepRevert, StepRestart DEF Next
<1> QED
  BY <1>1, SamplesInit, PTL DEF Spec
-------------------------------------------------------------------------------
\* A step that takes a boost decides on the run of saturated samples that the
\* new one completes.
LEMMA BoostOnRun ==
    ASSUME SInv, [Next]_vars, Changes("boosted"), ~Restart
    PROVE  /\ Len(taken') - mark >= conf.ConsecutiveSamples
           /\ \A i \in Recent(conf.ConsecutiveSamples) :
                  taken'[i] >= conf.SaturationThreshold
<1>1. PICK usage \in Usage : Boost(usage)
  BY DEF Changes, Next, vars, Poll, PollFails, Miss, Observe, Count,
         Defer, Leave, Tick, Revert, Cleared, SInv, Shape
<1>2. Take(usage) /\ SaturatedAfter(usage) >= conf.ConsecutiveSamples
  BY <1>1 DEF Boost
<1>3. usage >= conf.SaturationThreshold /\ rs.sat + 1 >= conf.ConsecutiveSamples
  BY <1>2, NumbersNamed DEF SaturatedAfter, SInv
<1>4. /\ usage \in Int /\ conf' = conf /\ Len(taken) \in Nat
      /\ Len(taken') = Len(taken) + 1 /\ taken'[Len(taken')] = usage
      /\ \A i \in 1..Len(taken) : taken'[i] = taken[i] /\ taken[i] \in Int
      /\ conf.SaturationThreshold \in Int /\ conf.DownscaleThreshold \in Int
      /\ conf.ConsecutiveSamples \in Int /\ conf.ConsecutiveSamples > 0
      /\ mark \in 0..Len(taken) /\ rs.sat \in Nat /\ rs.down \in Nat
  BY <1>2, Taken, NumbersNamed DEF SInv, Shape
<1>5. ASSUME NEW i \in Recent(conf.ConsecutiveSamples)
      PROVE  taken'[i] >= conf.SaturationThreshold
  <2>1. i \in 1..Len(taken') /\ i > Len(taken) - rs.sat
    BY <1>3, <1>4, <1>5 DEF Recent, SInv, SaturatedRun
  <2>2. CASE i = Len(taken')
    BY <1>3, <1>4, <2>2
  <2>3. CASE i \in 1..Len(taken)
    BY <1>4, <2>1, <2>3 DEF SInv, SaturatedRun
  <2> QED
    BY <1>4, <2>1, <2>2, <2>3
<1> QED
  BY <1>3, <1>4, <1>5 DEF SInv, SaturatedRun

LEMMA RevertOnRun ==
    ASSUME SInv, [Next]_vars, Changes("normal"), ~Restart
    PROVE  /\ age >= conf.BoostDuration
           /\ Len(taken) - mark >= conf.DownscaleConsecutiveSamples
           /\ \A i \in Recent(conf.DownscaleConsecutiveSamples) :
                  /\ taken[i] < conf.DownscaleThreshold
                  /\ taken[i] < conf.SaturationThreshold
<1>1. Revert
  BY DEF Changes, Next, vars, Poll, PollFails, Miss, Observe, Count,
         Boost, Defer, Leave, Tick, SInv, Shape
<1>2. /\ age >= conf.BoostDuration
      /\ rs.down >= conf.DownscaleConsecutiveSamples
  BY <1>1 DEF Revert, CanDownscale
<1>3. Len(taken) \in Nat /\ Len(taken') = Len(taken)
  BY <1>1, LenProperties DEF SInv, Shape, Revert
<1>4. ASSUME NEW i \in Recent(conf.DownscaleConsecutiveSamples)
      PROVE  /\ i \in 1..Len(taken)
             /\ taken[i] < conf.DownscaleThreshold
  <2>1. /\ conf.DownscaleConsecutiveSamples \in Int
        /\ conf.DownscaleConsecutiveSamples > 0
        /\ mark \in 0..Len(taken) /\ rs.down \in Nat
        /\ rs.down <= Len(taken) - mark
    BY NumbersNamed DEF SInv, Shape, CalmRun
  <2>2. i \in 1..Len(taken) /\ i > Len(taken) - rs.down
    BY <1>2, <1>3, <1>4, <2>1 DEF Recent
  <2> QED
    BY <2>2 DEF SInv, CalmRun
<1>5. ASSUME NEW i \in Recent(conf.DownscaleConsecutiveSamples)
      PROVE  taken[i] < conf.SaturationThreshold
  <2>1. taken[i] \in Int /\ taken[i] < conf.DownscaleThreshold
    BY <1>4, <1>5, ElementOfSeq DEF SInv, Shape
  <2> QED
    BY <2>1, NumbersNamed DEF SInv
<1>6. Len(taken) - mark >= conf.DownscaleConsecutiveSamples
  BY <1>2, LenProperties, NumbersNamed DEF SInv, Shape, CalmRun
<1> QED
  BY <1>2, <1>4, <1>5, <1>6

\* Whatever the accepted configuration, a boost follows consecutive_samples
\* saturated samples of the present process and phase.
THEOREM BoostsAreJustified == Spec => BoostJustified
<1>1. SInv /\ [Next]_vars =>
        [Changes("boosted") /\ ~Restart =>
           /\ Len(taken') - mark >= conf.ConsecutiveSamples
           /\ \A i \in Recent(conf.ConsecutiveSamples) :
                  taken'[i] >= conf.SaturationThreshold]_vars
  BY BoostOnRun
<1> QED
  BY <1>1, CountersAreRuns, PTL DEF Spec, BoostJustified

\* Whatever the accepted configuration, a revert follows
\* downscale_consecutive_samples calm samples, and none of them is saturated.
THEOREM RevertsAreJustified == Spec => RevertJustified
<1>1. SInv /\ [Next]_vars =>
        [Changes("normal") /\ ~Restart =>
           /\ age >= conf.BoostDuration
           /\ Len(taken) - mark >= conf.DownscaleConsecutiveSamples
           /\ \A i \in Recent(conf.DownscaleConsecutiveSamples) :
                  /\ taken[i] < conf.DownscaleThreshold
                  /\ taken[i] < conf.SaturationThreshold]_vars
  BY RevertOnRun
<1> QED
  BY <1>1, CountersAreRuns, PTL DEF Spec, RevertJustified
-------------------------------------------------------------------------------
(* The history, and the average taken of it *)

\* What is kept is a sequence of numbers, and so is what a boost was taken of.
HistoryType ==
    /\ rs.history \in Seq(Int) /\ before \in Seq(Int)
    /\ rs.deferred \in BOOLEAN /\ deferrals \in Nat

\* s holds the newest elements of t, h of them at most.
Newest(s, t, h) ==
    /\ Len(s) = IF Len(t) > h THEN h ELSE Len(t)
    /\ \A i \in 1..Len(s) : s[i] = t[Len(t) - Len(s) + i]

\* history holds the newest samples of this process, HistorySamples at most.
Window == Newest(rs.history, taken, conf.HistorySamples)

\* In the normal phase the saturated run is as long as it can be, and every
\* sample of it from the consecutive_samples-th on was an attempt refused.
Refusals ==
    rs.phase = "normal" =>
        /\ rs.sat < Len(taken) =>
               taken[Len(taken) - rs.sat] < conf.SaturationThreshold
        /\ refused = IF rs.sat < conf.ConsecutiveSamples THEN 0
                     ELSE rs.sat - conf.ConsecutiveSamples + 1

HInv == HistoryType /\ Window /\ Refusals /\ AverageIsPreBoost

LEMMA HistoryNumbers ==
    ASSUME Accepted
    PROVE  /\ conf.HistorySamples \in Int /\ conf.HistorySamples > 0
           /\ conf.ConsecutiveSamples \in Int /\ conf.ConsecutiveSamples > 0
BY DEF Accepted, Validate, Numbers, Positive

\* The last n elements of a sequence, position by position.
LEMMA SuffixProperties ==
    ASSUME NEW s \in Seq(Int), NEW n \in 1..Len(s)
    PROVE  /\ Suffix(s, n) \in Seq(Int) /\ Len(Suffix(s, n)) = n
           /\ \A i \in 1..n : Suffix(s, n)[i] = s[Len(s) - n + i]
<1>1. Len(s) \in Nat /\ \A i \in 1..Len(s) : s[i] \in Int
  BY LenProperties, ElementOfSeq
<1>2. \A i \in (Len(s) - n + 1)..Len(s) : s[i] \in Int
  BY <1>1
<1> DEFINE m == Len(s) - n + 1
<1>3. m \in Int /\ Len(s) - m + 1 = n /\ m <= Len(s)
  BY <1>1
<1>4. /\ SubSeq(s, m, Len(s)) \in Seq(Int)
      /\ Len(SubSeq(s, m, Len(s))) = n
      /\ \A i \in 1..n : SubSeq(s, m, Len(s))[i] = s[m + i - 1]
  BY <1>1, <1>2, <1>3, SubSeqProperties
<1>5. \A i \in 1..n : m + i - 1 = Len(s) - n + i
  BY <1>1
<1> QED
  BY <1>4, <1>5 DEF Suffix

\* It still does when an element is put at the end of both and s is cut.
LEMMA NewestSlides ==
    ASSUME NEW s \in Seq(Int), NEW t \in Seq(Int), NEW x \in Int,
           NEW h \in Int, h > 0, Newest(s, t, h)
    PROVE  LET longer == Append(s, x)
               next   == IF Len(longer) > h THEN Suffix(longer, h) ELSE longer
           IN  next \in Seq(Int) /\ Newest(next, Append(t, x), h)
<1> DEFINE a == Append(s, x)
           b == Append(t, x)
           k == Len(s)
           n == Len(t)
<1>1. /\ k \in Nat /\ n \in Nat /\ k = IF n > h THEN h ELSE n
      /\ \A i \in 1..k : s[i] = t[n - k + i]
  BY LenProperties DEF Newest
<1>2. /\ a \in Seq(Int) /\ Len(a) = k + 1 /\ a[k + 1] = x
      /\ \A i \in 1..k : a[i] = s[i]
  BY AppendProperties
<1>3. /\ b \in Seq(Int) /\ Len(b) = n + 1 /\ b[n + 1] = x
      /\ \A i \in 1..n : b[i] = t[i]
  BY AppendProperties
<1> HIDE DEF a, b, k, n
<1>4. ASSUME NEW i \in 1..(k + 1) PROVE a[i] = b[n - k + i]
  <2>1. CASE i = k + 1
    <3>1. n - k + i = n + 1
      BY <1>1, <2>1
    <3>2. QED BY <1>2, <1>3, <2>1, <3>1
  <2>2. CASE i \in 1..k
    <3>1. n - k + i \in 1..n
      BY <1>1, <2>2
    <3>2. QED BY <1>1, <1>2, <1>3, <2>2, <3>1
  <2>3. QED BY <1>1, <2>1, <2>2
<1>5. CASE k + 1 > h
  <2>1. k = h /\ h \in 1..Len(a) /\ n + 1 > h
    BY <1>1, <1>2, <1>5
  <2>2. /\ Suffix(a, h) \in Seq(Int) /\ Len(Suffix(a, h)) = h
        /\ \A i \in 1..h : Suffix(a, h)[i] = a[Len(a) - h + i]
    BY <1>2, <2>1, SuffixProperties
  <2>3. ASSUME NEW i \in 1..h PROVE Suffix(a, h)[i] = b[Len(b) - h + i]
    <3>1. k \in Nat /\ n \in Nat /\ k = h /\ Len(a) = k + 1 /\ Len(b) = n + 1
      BY <1>1, <1>2, <1>3, <2>1
    <3>2. Len(a) - h + i = i + 1 /\ i + 1 \in 1..(k + 1)
          /\ n - k + (i + 1) = Len(b) - h + i
      BY <3>1
    <3>3. QED BY <1>4, <2>2, <3>2
  <2>4. Newest(Suffix(a, h), b, h)
    BY <1>3, <2>1, <2>2, <2>3 DEF Newest
  <2>5. QED BY <1>2, <1>5, <2>2, <2>4 DEF a, b
<1>6. CASE ~(k + 1 > h)
  <2>1. k = n /\ ~(n + 1 > h)
    BY <1>1, <1>6
  <2>2. ASSUME NEW i \in 1..Len(a) PROVE a[i] = b[Len(b) - Len(a) + i]
    <3>1. i \in 1..(k + 1) /\ Len(b) - Len(a) + i = n - k + i
      BY <1>1, <1>2, <1>3, <2>1
    <3>2. QED BY <1>4, <3>1
  <2>3. Len(a) = IF Len(b) > h THEN h ELSE Len(b)
    BY <1>1, <1>2, <1>3, <2>1
  <2>4. Newest(a, b, h)
    BY <2>2, <2>3 DEF Newest
  <2>5. QED BY <1>2, <1>6, <2>4 DEF a, b
<1>7. QED BY <1>1, <1>5, <1>6

\* Leaving the newest elements out of one leaves them out of the other.
LEMMA NewestPrefix ==
    ASSUME NEW s \in Seq(Int), NEW t \in Seq(Int), NEW h \in Int, h > 0,
           Newest(s, t, h), NEW m \in 1..Len(s)
    PROVE  LET dropped == IF Len(t) > h THEN Len(t) - h ELSE 0
           IN  SubSeq(s, 1, m) = SubSeq(t, dropped + 1, dropped + m)
<1> DEFINE dropped == IF Len(t) > h THEN Len(t) - h ELSE 0
           usable == dropped + m
<1>1. /\ Len(s) \in Nat /\ Len(t) \in Nat /\ dropped \in Nat
      /\ dropped = Len(t) - Len(s)
  BY LenProperties DEF Newest
<1>2. ASSUME NEW i \in 1..Len(s) PROVE s[i] = t[dropped + i]
  <2>1. Len(t) - Len(s) + i = dropped + i
    BY <1>1
  <2>2. QED BY <2>1 DEF Newest
<1>3. m \in Int /\ m <= Len(s) /\ m >= 1 /\ usable >= dropped + 1
      /\ usable \in Int /\ usable <= Len(t)
      /\ m - 1 + 1 = m /\ usable - (dropped + 1) + 1 = m
  <2> HIDE DEF dropped
  <2>1. m \in Int /\ m <= Len(s) /\ m >= 1
    BY <1>1
  <2> QED
    BY <1>1, <2>1
<1>4. /\ \A i \in 1..m : s[i] \in Int
      /\ \A i \in (dropped + 1)..usable : t[i] \in Int
  <2> HIDE DEF dropped, usable
  <2>1. ASSUME NEW i \in 1..m PROVE i \in 1..Len(s)
    BY <1>1, <1>3
  <2>2. ASSUME NEW i \in (dropped + 1)..usable PROVE i \in 1..Len(t)
    BY <1>1, <1>3
  <2> QED
    BY <2>1, <2>2, ElementOfSeq
<1> DEFINE a == SubSeq(s, 1, m)
           b == SubSeq(t, dropped + 1, usable)
<1>5. /\ a \in Seq(Int) /\ Len(a) = (IF 1 <= m THEN m - 1 + 1 ELSE 0)
      /\ \A i \in 1..(m - 1 + 1) : a[i] = s[1 + i - 1]
  BY <1>3, <1>4, SubSeqProperties
<1>6. /\ b \in Seq(Int)
      /\ Len(b) = (IF dropped + 1 <= usable THEN usable - (dropped + 1) + 1 ELSE 0)
      /\ \A i \in 1..(usable - (dropped + 1) + 1) :
            b[i] = t[(dropped + 1) + i - 1]
  <2> DEFINE first == dropped + 1
  <2>1. first \in Int /\ \A i \in first..usable : t[i] \in Int
    BY <1>1, <1>4
  <2> HIDE DEF first
  <2>2. /\ SubSeq(t, first, usable) \in Seq(Int)
        /\ Len(SubSeq(t, first, usable))
             = (IF first <= usable THEN usable - first + 1 ELSE 0)
        /\ \A i \in 1..(usable - first + 1) :
              SubSeq(t, first, usable)[i] = t[first + i - 1]
    BY <2>1, SubSeqProperties
  <2>3. QED BY <2>2 DEF first
<1> HIDE DEF a, b
<1>7. Len(a) = m /\ Len(b) = m
  BY <1>3, <1>5, <1>6
<1>8. ASSUME NEW i \in 1..m PROVE a[i] = b[i]
  <2>1. /\ 1 + i - 1 = i /\ (dropped + 1) + i - 1 = dropped + i
        /\ i \in 1..Len(s)
    BY <1>1, <1>3
  <2>2. QED BY <1>1, <1>3, <1>2, <1>5, <1>6, <2>1
<1>9. a = b
  BY <1>5, <1>6, <1>7, <1>8, SeqEqual
<1>10. QED BY <1>9 DEF a, b
\* addHistory keeps the newest samples.
LEMMA WindowSlides ==
    ASSUME SInv, HistoryType, Window, NEW usage \in Usage, Take(usage),
           rs'.history = addHistory(rs.history, usage)
    PROVE  rs'.history \in Seq(Int) /\ Window'
<1>1. /\ usage \in Int /\ conf' = conf /\ taken' = Append(taken, usage)
      /\ taken \in Seq(Int) /\ rs.history \in Seq(Int)
      /\ Newest(rs.history, taken, conf.HistorySamples)
  BY Taken DEF SInv, Shape, HistoryType, Window, Take
<1>2. conf.HistorySamples \in Int /\ conf.HistorySamples > 0
  BY HistoryNumbers DEF SInv
<1>3. QED BY <1>1, <1>2, NewestSlides DEF addHistory, Window

\* The average over the newest samples is the one over all that were taken.
LEMMA AverageOfNewest ==
    ASSUME Accepted, NEW history \in Seq(Int), NEW all \in Seq(Int),
           Newest(history, all, conf.HistorySamples)
    PROVE  computePreBoostAvg(history) =
             AverageOver(all, Dropped(all), Len(all) - conf.ConsecutiveSamples)
<1>1. PICK c \in Int : c = conf.ConsecutiveSamples /\ c > 0
  BY HistoryNumbers
<1>2. PICK h \in Int : h = conf.HistorySamples /\ h > 0
  BY HistoryNumbers
<1>3. Len(all) \in Nat /\ Len(history) \in Nat
      /\ Len(history) = IF Len(all) > h THEN h ELSE Len(all)
  BY <1>2, LenProperties DEF Newest
<1>4. PICK usable \in Int : usable = Len(all) - c /\ usable <= Len(all)
  BY <1>1, <1>3
<1>5. PICK dropped \in Int : dropped = IF Len(all) > h THEN Len(all) - h ELSE 0
  BY <1>2, <1>3
<1>6. PICK m \in Int : m = Len(history) - c /\ m = usable - dropped
  <2>1. Len(history) - c = usable - dropped /\ usable - dropped \in Int
    BY <1>3, <1>4, <1>5
  <2>2. QED BY <2>1, Zenon
<1>7. CASE m <= 0
  <2>1. computePreBoostAvg(history) = <<50, 1>> /\ usable <= dropped
    BY <1>1, <1>6, <1>7 DEF computePreBoostAvg
  <2>2. QED BY <1>1, <1>2, <1>4, <1>5, <2>1 DEF AverageOver, Dropped
<1>8. CASE m > 0
  <2>1. ~(usable <= dropped)
    BY <1>6, <1>8
  <2>2. Newest(history, all, h) /\ h \in Int /\ h > 0
    BY <1>2
  <2>3. SubSeq(history, 1, m) = SubSeq(all, dropped + 1, dropped + m)
    <3>1. m \in 1..Len(history)
      <4>1. c > 0 /\ Len(history) \in Nat /\ m = Len(history) - c
        BY <1>1, <1>3, <1>6
      <4>2. QED BY <1>8, <4>1
    <3>2. SubSeq(history, 1, m)
            = SubSeq(all, (IF Len(all) > h THEN Len(all) - h ELSE 0) + 1,
                          (IF Len(all) > h THEN Len(all) - h ELSE 0) + m)
      BY <2>2, <3>1, NewestPrefix
    <3>3. QED BY <1>5, <3>2
  <2>4. computePreBoostAvg(history) = <<Sum(SubSeq(history, 1, m)), m>>
    BY <1>1, <1>6, <1>8 DEF computePreBoostAvg
  <2>5. computePreBoostAvg(history)
          = <<Sum(SubSeq(all, dropped + 1, usable)), usable - dropped>>
    <3>1. dropped + m = usable
      BY <1>6
    <3>2. QED BY <1>6, <2>3, <2>4, <3>1
  <2>6. QED BY <1>1, <1>2, <1>4, <1>5, <2>1, <2>5 DEF AverageOver, Dropped
<1>9. QED BY <1>6, <1>7, <1>8

LEMMA HistoryInit == Init => HInv
<1> SUFFICES ASSUME Init PROVE HInv
  OBVIOUS
<1>1. /\ rs.history = << >> /\ taken = << >> /\ before = << >>
      /\ rs.deferred = FALSE /\ deferrals = 0 /\ rs.phase = "normal"
  BY DEF Init, NewState
<1>2. HistoryType
  BY <1>1, EmptySeq DEF HistoryType
<1>3. conf.HistorySamples \in Int /\ conf.HistorySamples > 0
  BY SamplesInit, HistoryNumbers DEF SInv
<1>4. Window
  BY <1>1, <1>3, EmptySeq DEF Window, Newest
<1>5. Refusals
  BY <1>1, SamplesInit, HistoryNumbers, EmptySeq
  DEF Refusals, Init, NewState, SInv
<1> QED
  BY <1>1, <1>2, <1>4, <1>5 DEF HInv, AverageIsPreBoost

\* The sample that completes a boost ends a run of saturated samples which has
\* consecutive_samples of them and one more for every attempt refused.
LEMMA OnsetOfBoost ==
    ASSUME SInv, Refusals, NEW usage \in Usage, Boost(usage)
    PROVE  \E onset \in 0..Len(taken') :
              /\ SaturatedFrom(taken', onset)
              /\ onset + refused = Len(taken') - conf.ConsecutiveSamples
<1>1. Take(usage) /\ SaturatedAfter(usage) >= conf.ConsecutiveSamples
      /\ rs.phase = "normal"
  BY DEF Boost
<1>2. usage >= conf.SaturationThreshold /\ rs.sat + 1 >= conf.ConsecutiveSamples
  BY <1>1, NumbersNamed DEF SaturatedAfter, SInv
<1>3. /\ usage \in Int /\ conf' = conf /\ Len(taken) \in Nat
      /\ Len(taken') = Len(taken) + 1 /\ taken'[Len(taken')] = usage
      /\ \A i \in 1..Len(taken) : taken'[i] = taken[i] /\ taken[i] \in Int
      /\ conf.SaturationThreshold \in Int
      /\ conf.ConsecutiveSamples \in Int /\ conf.ConsecutiveSamples > 0
      /\ mark \in 0..Len(taken) /\ rs.sat \in Nat
      /\ rs.sat <= Len(taken) - mark
  BY <1>1, Taken, NumbersNamed DEF SInv, Shape, SaturatedRun
<1>4. PICK onset \in 0..Len(taken) : onset = Len(taken) - rs.sat
  BY <1>3
<1>5. onset > 0 => taken'[onset] < conf.SaturationThreshold
  <2>1. SUFFICES ASSUME onset > 0
                 PROVE  taken'[onset] < conf.SaturationThreshold
    OBVIOUS
  <2>2. taken[onset] < conf.SaturationThreshold
    BY <1>1, <1>3, <1>4, <2>1 DEF Refusals
  <2>3. onset \in 1..Len(taken)
    BY <1>3, <1>4, <2>1
  <2>4. QED BY <1>3, <2>2, <2>3
<1>6. ASSUME NEW i \in 1..Len(taken'), i > onset
      PROVE  taken'[i] >= conf.SaturationThreshold
  <2>1. CASE i = Len(taken')
    BY <1>2, <1>3, <2>1
  <2>2. CASE i \in 1..Len(taken)
    BY <1>3, <1>4, <1>6, <2>2 DEF SInv, SaturatedRun
  <2>3. QED BY <1>3, <2>1, <2>2
<1>7. SaturatedFrom(taken', onset)
  BY <1>3, <1>5, <1>6 DEF SaturatedFrom
<1>8. onset + refused = Len(taken') - conf.ConsecutiveSamples
  <2>1. PICK c \in Int : c = conf.ConsecutiveSamples /\ c > 0
    BY <1>3
  <2>2. PICK n \in Nat : n = Len(taken)
    BY <1>3
  <2>3. PICK k \in Nat : k = rs.sat
    BY <1>3
  <2>4. refused = (IF k < c THEN 0 ELSE k - c + 1) /\ k + 1 >= c
    BY <1>1, <1>2, <2>1, <2>3 DEF Refusals
  <2>5. refused = k - c + 1
    <3>1. CASE k < c
      <4>1. k - c + 1 = 0
        BY <2>1, <2>4, <3>1
      <4>2. QED BY <2>4, <3>1, <4>1
    <3>2. CASE ~(k < c)
      BY <2>4, <3>2
    <3>3. QED BY <3>1, <3>2
  <2>6. onset = n - k /\ Len(taken') = n + 1
    BY <1>3, <1>4, <2>2, <2>3
  <2>7. (n - k) + (k - c + 1) = (n + 1) - c
    BY <2>1
  <2>8. QED BY <2>1, <2>5, <2>6, <2>7
<1>9. onset \in 0..Len(taken')
  BY <1>3, <1>4
<1>10. QED BY <1>7, <1>8, <1>9

\* A boost takes the average of what was taken up to its own sample.
LEMMA HistoryBoost ==
    ASSUME SInv, SInv', HInv, NEW usage \in Usage, Boost(usage)
    PROVE  HInv'
<1>1. Take(usage) /\ conf' = conf
  BY DEF Boost, Take
<1>2. /\ rs'.history = addHistory(rs.history, usage) /\ before' = taken'
      /\ rs'.avg = computePreBoostAvg(rs'.history)
      /\ rs'.deferred = FALSE /\ deferrals' = 0
  BY DEF Boost, SInv, Shape
<1>3. rs'.history \in Seq(Int) /\ Window'
  BY <1>1, <1>2, WindowSlides DEF HInv
<1>4. HistoryType'
  BY <1>2, <1>3 DEF HistoryType, SInv, Shape
<1>5. AverageIsPreBoost'
  <2>1. /\ Accepted /\ taken' \in Seq(Int)
        /\ Newest(rs'.history, taken', conf.HistorySamples)
    BY <1>1, <1>3 DEF SInv, Shape, Window
  <2>2. rs'.avg = AverageOver(taken', Dropped(taken'),
                              Len(taken') - conf.ConsecutiveSamples)
    BY <1>1, <1>2, <1>3, <2>1, AverageOfNewest DEF Dropped
  <2>3. PICK onset \in 0..Len(taken') :
           /\ SaturatedFrom(taken', onset)
           /\ onset + refused = Len(taken') - conf.ConsecutiveSamples
    BY OnsetOfBoost DEF HInv
  <2>4. refused' = refused
    BY DEF Boost
  <2>5. QED
    BY <1>1, <1>2, <2>2, <2>3, <2>4
    DEF AverageIsPreBoost, SaturatedFrom, AverageOver, Dropped
<1>6. Refusals'
  BY DEF Refusals, Boost, SInv, Shape
<1> QED
  BY <1>3, <1>4, <1>5, <1>6 DEF HInv
LEMMA HistorySample ==
    ASSUME SInv, SInv', HInv, NEW usage \in Usage, Observe(usage) \/ Count(usage)
    PROVE  HInv'
<1>1. /\ Take(usage) /\ conf' = conf /\ before' = before
      /\ rs'.history = addHistory(rs.history, usage)
  BY DEF Observe, Count, Take, SInv, Shape
<1>2. rs'.history \in Seq(Int) /\ Window'
  BY <1>1, WindowSlides DEF HInv
<1>3. rs'.deferred \in BOOLEAN /\ deferrals' \in Nat
  BY DEF Observe, Count, SInv, Shape, HInv, HistoryType
<1>4. HistoryType'
  BY <1>1, <1>2, <1>3 DEF HInv, HistoryType
<1>5. rs'.phase = rs.phase /\ (rs.phase = "boosted" => rs'.avg = rs.avg)
  BY DEF Observe, Count, SInv, Shape
<1>6. AverageIsPreBoost'
  <2>1. rs.phase = "boosted" => refused' = refused
    BY DEF Observe, Count
  <2>2. QED
    BY <1>1, <1>5, <2>1
    DEF HInv, AverageIsPreBoost, SaturatedFrom, AverageOver, Dropped
<1>7. Refusals'
  <2>1. CASE Observe(usage)
    BY <2>1, <1>5 DEF Refusals, Observe
  <2>2. CASE Count(usage)
    <3>1. /\ rs'.sat = SaturatedAfter(usage) /\ rs.phase = "normal"
          /\ refused' = IF rs'.sat >= conf.ConsecutiveSamples
                        THEN refused + 1 ELSE 0
      BY <2>2 DEF Count, SInv, Shape
    <3>2. /\ usage \in Int /\ Len(taken) \in Nat
          /\ Len(taken') = Len(taken) + 1 /\ taken'[Len(taken')] = usage
          /\ \A i \in 1..Len(taken) : taken'[i] = taken[i] /\ taken[i] \in Int
          /\ conf.SaturationThreshold \in Int
          /\ conf.ConsecutiveSamples \in Int /\ conf.ConsecutiveSamples > 0
          /\ mark \in 0..Len(taken) /\ rs.sat \in Nat
          /\ rs.sat <= Len(taken) - mark
      BY <1>1, Taken, NumbersNamed DEF SInv, Shape, SaturatedRun
    <3>3. CASE usage >= conf.SaturationThreshold
      <4>1. rs'.sat = rs.sat + 1
        BY <3>1, <3>3 DEF SaturatedAfter
      <4>2. refused' = IF rs'.sat < conf.ConsecutiveSamples THEN 0
                       ELSE rs'.sat - conf.ConsecutiveSamples + 1
        <5>1. PICK c \in Int : c = conf.ConsecutiveSamples /\ c > 0
          BY <3>2
        <5>2. PICK k \in Nat : k = rs.sat
          BY <3>2
        <5>3. refused = IF k < c THEN 0 ELSE k - c + 1
          BY <3>1, <5>1, <5>2 DEF HInv, Refusals
        <5>4. rs'.sat = k + 1
             /\ refused' = IF k + 1 >= c THEN refused + 1 ELSE 0
          BY <3>1, <4>1, <5>1, <5>2
        <5>5. refused' = IF k + 1 < c THEN 0 ELSE (k + 1) - c + 1
          BY <5>1, <5>2, <5>3, <5>4
        <5>6. QED BY <5>1, <5>4, <5>5
      <4>3. ASSUME rs'.sat < Len(taken')
            PROVE  taken'[Len(taken') - rs'.sat] < conf.SaturationThreshold
        <5>1. /\ Len(taken') - rs'.sat = Len(taken) - rs.sat
              /\ Len(taken) - rs.sat \in 1..Len(taken) /\ rs.sat < Len(taken)
          <6>1. PICK n \in Nat : n = Len(taken)
            BY <3>2
          <6>2. PICK k \in Nat : k = rs.sat
            BY <3>2
          <6>3. Len(taken') = n + 1 /\ rs'.sat = k + 1 /\ k + 1 < n + 1
            BY <3>2, <4>1, <4>3, <6>1, <6>2
          <6>4. (n + 1) - (k + 1) = n - k /\ n - k \in 1..n /\ k < n
            BY <6>3
          <6>5. QED BY <6>1, <6>2, <6>3, <6>4
        <5>2. taken[Len(taken) - rs.sat] < conf.SaturationThreshold
          BY <3>1, <5>1 DEF HInv, Refusals
        <5>3. QED BY <3>2, <5>1, <5>2
      <4>4. QED BY <1>1, <4>2, <4>3 DEF Refusals
    <3>4. CASE ~(usage >= conf.SaturationThreshold)
      <4>1. rs'.sat = 0
        BY <3>1, <3>4 DEF SaturatedAfter
      <4>2. usage < conf.SaturationThreshold
            /\ Len(taken') - rs'.sat = Len(taken')
        BY <3>2, <3>4, <4>1
      <4>3. rs'.sat < conf.ConsecutiveSamples /\ refused' = 0
        BY <3>1, <3>2, <4>1
      <4>4. QED BY <1>1, <3>2, <4>2, <4>3 DEF Refusals
    <3>5. QED BY <3>3, <3>4
  <2>3. QED BY <2>1, <2>2
<1> QED
  BY <1>2, <1>4, <1>6, <1>7 DEF HInv

LEMMA HistoryQuiet ==
    ASSUME SInv, HInv, Poll \/ PollFails \/ Miss \/ Defer \/ Leave \/ Tick
    PROVE  HInv'
<1>1. /\ conf' = conf /\ taken' = taken /\ before' = before
      /\ rs'.phase = rs.phase /\ rs'.avg = rs.avg /\ rs'.history = rs.history
      /\ rs'.sat = rs.sat /\ refused' = refused
      /\ rs'.deferred \in BOOLEAN /\ deferrals' \in Nat
  <2>1. CASE Poll \/ PollFails \/ Miss \/ Leave \/ Tick
    BY <2>1 DEF HInv, HistoryType, Poll, PollFails, Miss, Leave, Tick
  <2>2. CASE Defer
    BY <2>2 DEF SInv, Shape, HInv, HistoryType, Defer
  <2> QED
    BY <2>1, <2>2
<1> QED
  BY <1>1 DEF HInv, HistoryType, Window, Refusals, AverageIsPreBoost,
              SaturatedFrom, AverageOver, Dropped

LEMMA HistoryEnd ==
    ASSUME SInv, HInv, Revert \/ Restart
    PROVE  HInv'
<1>1. before' = << >> /\ conf' = conf /\ deferrals' = 0 /\ refused' = 0
      /\ rs'.deferred = FALSE /\ rs'.sat = 0
  BY DEF Revert, Restart, Cleared, NewState, SInv, Shape
<1>2. CASE Revert
  <2>1. rs'.history = rs.history /\ taken' = taken
    BY <1>2 DEF Revert, Cleared, SInv, Shape
  <2>2. Refusals'
    <3>1. /\ rs.down >= conf.DownscaleConsecutiveSamples
          /\ conf.DownscaleConsecutiveSamples \in Int
          /\ conf.DownscaleConsecutiveSamples > 0
          /\ conf.ConsecutiveSamples \in Int /\ conf.ConsecutiveSamples > 0
          /\ conf.DownscaleThreshold \in Int /\ conf.SaturationThreshold \in Int
          /\ conf.DownscaleThreshold < conf.SaturationThreshold
          /\ rs.down \in Nat /\ Len(taken) \in Nat
      BY <1>2, NumbersNamed, LenProperties DEF Revert, CanDownscale, SInv, Shape
    <3>2. ASSUME 0 < Len(taken)
          PROVE  taken[Len(taken)] < conf.SaturationThreshold
      <4>1. Len(taken) \in 1..Len(taken) /\ Len(taken) > Len(taken) - rs.down
        BY <3>1, <3>2
      <4>2. /\ taken[Len(taken)] < conf.DownscaleThreshold
            /\ taken[Len(taken)] \in Int
        BY <4>1, ElementOfSeq DEF SInv, Shape, CalmRun
      <4>3. QED BY <3>1, <4>2
    <3>3. Len(taken) - 0 = Len(taken)
      BY <3>1
    <3>4. QED BY <1>1, <2>1, <3>1, <3>2, <3>3 DEF Refusals
  <2> QED
    BY <1>1, <2>1, <2>2, EmptySeq
    DEF HInv, HistoryType, Window, AverageIsPreBoost
<1>3. CASE Restart
  <2>1. rs'.history = << >> /\ taken' = << >>
    BY <1>3 DEF Restart, NewState
  <2>2. conf.HistorySamples \in Int /\ conf.HistorySamples > 0
    BY HistoryNumbers DEF SInv
  <2>3. << >> \in Seq(Int) /\ Len(<< >>) = 0
    BY EmptySeq
  <2>4. Newest(<< >>, << >>, conf.HistorySamples)
    BY <2>2, <2>3 DEF Newest
  <2>5. conf.ConsecutiveSamples \in Int /\ conf.ConsecutiveSamples > 0
    BY HistoryNumbers DEF SInv
  <2>6. Refusals'
    BY <1>1, <2>1, <2>3, <2>5 DEF Refusals
  <2> QED
    BY <1>1, <2>1, <2>3, <2>4, <2>6
    DEF HInv, HistoryType, Window, AverageIsPreBoost
<1> QED
  BY <1>2, <1>3

LEMMA HistoryAlways == Spec => []HInv
<1>1. SInv /\ SInv' /\ HInv /\ [Next]_vars => HInv'
  <2> SUFFICES ASSUME SInv, SInv', HInv, [Next]_vars PROVE HInv'
    OBVIOUS
  <2>1. CASE UNCHANGED vars
    BY <2>1 DEF vars, HInv, HistoryType, Window, Refusals, AverageIsPreBoost,
                SaturatedFrom, AverageOver, Dropped
  <2>2. ASSUME NEW usage \in Usage, Observe(usage) \/ Count(usage) \/ Boost(usage)
        PROVE  HInv'
    BY <2>2, HistorySample, HistoryBoost
  <2> QED
    BY <2>1, <2>2, HistoryQuiet, HistoryEnd DEF Next
<1> QED
  BY <1>1, HistoryInit, CountersAreRuns, PTL DEF Spec

\* For every history_samples and consecutive_samples that validate accepts,
\* and however the window has slid, been kept over a revert or been refilled
\* after a restart, the average a revert is judged by is over what the window
\* holds from before the saturated run and one sample of the run for every
\* attempt in it that was refused.
THEOREM AverageLeavesOutBoost == Spec => []AverageIsPreBoost
<1>1. HInv => AverageIsPreBoost
  BY DEF HInv
<1> QED
  BY <1>1, HistoryAlways, PTL
-------------------------------------------------------------------------------
(* Deferrals *)

\* Nothing was logged yet unless the flag says so.
Logged == deferrals \in 0..1 /\ (~rs.deferred => deferrals = 0)

LEMMA LoggedStep ==
    ASSUME SInv, HInv, Logged, [Next]_vars
    PROVE  Logged'
<1>1. rs.deferred \in BOOLEAN
  BY DEF HInv, HistoryType
<1>2. ASSUME NEW usage \in Usage, Observe(usage) \/ Count(usage) \/ Boost(usage)
      PROVE  Logged'
  <2>1. CASE Observe(usage)
    <3>1. \/ rs'.deferred = rs.deferred /\ deferrals' = deferrals
          \/ deferrals' = 0
      BY <1>1, <2>1 DEF Observe, SInv, Shape
    <3> QED
      BY <3>1 DEF Logged
  <2>2. CASE Count(usage)
    BY <2>2 DEF Count, SInv, Shape, Logged
  <2>3. CASE Boost(usage)
    BY <2>3 DEF Boost, Logged
  <2> QED
    BY <1>2, <2>1, <2>2, <2>3
<1>3. CASE Poll \/ PollFails \/ Miss \/ Leave \/ Tick \/ UNCHANGED vars
  BY <1>3 DEF Poll, PollFails, Miss, Leave, Tick, vars, Logged
<1>4. CASE Defer
  BY <1>1, <1>4 DEF Defer, SInv, Shape, Logged
<1>5. CASE Revert \/ Restart
  BY <1>5 DEF Revert, Restart, Logged
<1> QED
  BY <1>2, <1>3, <1>4, <1>5 DEF Next

\* However long a boost is retained and however often its poll is repeated,
\* one line is logged until usage climbs above the downscale threshold again.
THEOREM LoggedOnce == Spec => []DeferralLoggedOnce
<1>1. Init => Logged
  BY DEF Init, Logged
<1>2. Logged => DeferralLoggedOnce
  BY DEF Logged, DeferralLoggedOnce
<1>3. SInv /\ HInv /\ Logged /\ [Next]_vars => Logged'
  BY LoggedStep
<1> QED
  BY <1>1, <1>2, <1>3, CountersAreRuns, HistoryAlways, PTL DEF Spec
===============================================================================

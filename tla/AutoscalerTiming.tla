---------------------------- MODULE AutoscalerTiming ----------------------------
(***************************************************************************)
(* A boost lasts boost_duration: the ages in memory and in the rows never  *)
(* run ahead of the time since the service raised the resource, wherever   *)
(* the record would be acted on.                                           *)
(***************************************************************************)
EXTENDS AutoscalerProofs

USE DEF world, local, hist

\* What the stored time stamp drops at most (time.RFC3339 keeps seconds).
Slack == TicksPerSecond - 1

\* A boost that is in force and would be taken back is no older than it seems.
\* The record of a boost that changed nothing, or that was overwritten by hand,
\* may be older than the resource's last raise; no revert it leads to shows.
Timely(q) ==
    /\ /\ rs[q].phase = "boosted"
       /\ alloc[q] = rs[q].boosted /\ rs[q].boosted # rs[q].orig
       => rs[q].age <= held[q] + Slack
    /\ /\ q \notin unsaved /\ db[q] # NoRow
       /\ alloc[q] = db[q].boosted /\ db[q].boosted # db[q].orig
       => db[q].age <= held[q] + Slack

Reverting == {"expire", "restore", "untag", "settle"}

\* What the steps in progress know of the ages: the row about to be saved takes
\* its age from a boost of this very run, only boosts that are due are reverted,
\* and a revert on its way writes the value that was recorded.
Due ==
    /\ pc = "save" => rs[job.res].age <= held[job.res]
    /\ pc \in Reverting => \A q \in todo : rs[q].age >= BoostDuration
    /\ pc = "restore" => job.res \in todo
    /\ pc = "restore" /\ job.res \notin edited \cup forgotten =>
         alloc[job.res] = rs[job.res].boosted /\ job.to = rs[job.res].orig
    /\ pc \in {"down", "boot"} => unsaved = {}

Timing == Due /\ \A q \in Res \ forgotten : Timely(q)
-------------------------------------------------------------------------------
(* The ages of one resource *)

\* The record of a settled resource leads back to the value it has, so no age
\* matters. (Stated of the state after a step.)
LEMMA SettledIsTimely ==
    ASSUME TypeInv', Control', Keep', NEW q \in Res, q \notin forgotten',
           Settled(q)'
    PROVE  Timely(q)'
<1>1. /\ rs'[q].phase = "boosted" => rs'[q].boosted > 0
      /\ db'[q] # NoRow => db'[q].boosted > 0
  BY DEF Control, Positive
<1>2. alloc'[q] > 0 => alloc'[q] = Effective(q, base'[q])
  BY DEF Settled, Effective
<1>3. Sure(q)'
  BY DEF Keep
<1>4. QED BY <1>1, <1>2, <1>3 DEF Sure, Timely

\* The resource is left alone; its record may be cleared, or marked unsaved.
SameClock(q) ==
    /\ alloc'[q] = alloc[q] /\ held'[q] = held[q]
    /\ rs'[q].phase = "boosted" =>
         SameState(q) /\ rs'[q].age = rs[q].age
    /\ db'[q] # NoRow => db'[q] = db[q]
    /\ q \in unsaved => q \in unsaved'

LEMMA SameIsTimely ==
    ASSUME NEW q, Timely(q), SameClock(q)
    PROVE  Timely(q)'
BY DEF Timely, SameClock, SameState

LEMMA AllSameTimely ==
    ASSUME \A q \in Res \ forgotten : Timely(q),
           forgotten \subseteq forgotten', \A q \in Res : SameClock(q)
    PROVE  \A q \in Res \ forgotten' : Timely(q)'
BY SameIsTimely

\* A boost ends on a resource that is settled; its row may survive the deletion.
LEMMA EndIsTimely ==
    ASSUME TypeInv, TypeInv', Control', Keep',
           \A q \in Res \ forgotten : Timely(q),
           NEW r \in Res, NEW reply, Delete(r, reply),
           \A q \in Res \ {r} : rs'[q] = rs[q],
           UNCHANGED <<alloc, base, held, forgotten>>, unsaved' = unsaved \ {r},
           r \notin forgotten => Settled(r)
    PROVE  \A q \in Res \ forgotten' : Timely(q)'
<1>1. SUFFICES ASSUME NEW q \in Res, q \notin forgotten' PROVE Timely(q)'
  OBVIOUS
<1>2. CASE q = r
  BY <1>1, <1>2, SettledIsTimely DEF Settled
<1>3. CASE q # r
  <2>1. db'[q] = db[q]
    BY <1>3 DEF Delete, TypeInv, TypeOK
  <2>2. QED BY <1>1, <1>3, <2>1, SameIsTimely DEF SameClock, SameState
<1>4. QED BY <1>2, <1>3

\* Only one resource's value changes, and to the administrator's.
LEMMA UndoIsTimely ==
    ASSUME TypeInv', Control', Keep', \A q \in Res \ forgotten : Timely(q),
           NEW r \in Res, \A q \in Res \ {r} : alloc'[q] = alloc[q],
           UNCHANGED <<db, rs, held, unsaved>>, forgotten \subseteq forgotten',
           r \notin forgotten' => Settled(r)'
    PROVE  \A q \in Res \ forgotten' : Timely(q)'
<1>1. SUFFICES ASSUME NEW q \in Res, q \notin forgotten' PROVE Timely(q)'
  OBVIOUS
<1>2. CASE q = r
  BY <1>1, <1>2, SettledIsTimely
<1>3. CASE q # r
  BY <1>1, <1>3, SameIsTimely DEF SameClock, SameState
<1>4. QED BY <1>2, <1>3

\* What is lost with the process is at risk from then on, or settled.
LEMMA LoseIsTimely ==
    ASSUME TypeInv, TypeInv', Control', Keep, Keep', Timing,
           LoseMemory, UNCHANGED <<world, db, held>>
    PROVE  \A q \in Res \ forgotten' : Timely(q)'
<1>1. SUFFICES ASSUME NEW q \in Res, q \notin forgotten' PROVE Timely(q)'
  OBVIOUS
<1>2. q \notin forgotten /\ rs'[q].phase # "boosted" /\ UNCHANGED <<alloc, base>>
  BY <1>1 DEF LoseMemory, NewState
<1>3. CASE q \in unsaved
  <2>1. alloc[q] # rs[q].boosted /\ ~RowKnows(q)
    BY <1>1, <1>3 DEF LoseMemory, RowKnows, Timing, Due
  <2>2. Settled(q)
    BY <1>2, <2>1 DEF Keep, Kept, MemoryKnows
  <2>3. QED BY <1>1, <1>2, <2>2, SettledIsTimely DEF Settled
<1>4. CASE q \notin unsaved
  BY <1>2, <1>4, SameIsTimely DEF SameClock, Timing
<1>5. QED BY <1>3, <1>4

\* Time passes for the records and for the resource alike.
LEMMA TickIsTimely ==
    ASSUME TypeInv, Timing, Tick
    PROVE  \A q \in Res \ forgotten' : Timely(q)'
<1>1. SUFFICES ASSUME NEW q \in Res, q \notin forgotten PROVE Timely(q)'
  BY DEF Tick
<1>2. Timely(q) /\ UNCHANGED <<alloc, unsaved>>
  BY <1>1 DEF Timing, Tick
<1>3. /\ held'[q] = Count(held[q], BoostDuration)
      /\ rs'[q].phase = "boosted" =>
           SameState(q) /\ rs'[q].age = Count(rs[q].age, BoostDuration)
  BY DEF TypeInv, TypeOK, ResourceState, Tick, SameState
<1>4. db'[q] # NoRow =>
         /\ db[q] # NoRow /\ db[q] \in BoostRecord
         /\ db'[q] = [db[q] EXCEPT !.age = Count(@, BoostDuration)]
  BY DEF TypeInv, TypeOK, Tick
<1>5. db'[q] # NoRow => /\ db'[q].boosted = db[q].boosted /\ db'[q].orig = db[q].orig
                        /\ db'[q].age = Count(db[q].age, BoostDuration)
  BY <1>4 DEF BoostRecord
<1>6. ASSUME NEW a \in Ages, a <= held[q] + Slack
      PROVE  Count(a, BoostDuration) <= held'[q] + Slack
  <2>1. held[q] \in Ages
    BY DEF TypeInv, TypeOK
  <2>2. QED BY <1>3, <1>6, <2>1, MonitorAssumption DEF Count, Ages, Slack
<1>7. rs[q].age \in Ages /\ (db[q] \in BoostRecord => db[q].age \in Ages)
  BY DEF TypeInv, TypeOK, ResourceState, BoostRecord
<1>8. QED BY <1>2, <1>3, <1>4, <1>5, <1>6, <1>7 DEF Timely, SameState
-------------------------------------------------------------------------------
(* Every step *)

LEMMA TimingInit == Init => Timing
BY MonitorAssumption DEF Init, Timing, Due, Timely, Reverting, NewState, Ages, Slack

\* Start-up.
LEMMA TimingStart ==
    ASSUME TypeInv, Timing
    PROVE  /\ \A reply : Start(reply) => Timing'
           /\ \A r \in Res : Resume(r) => Timing'
           /\ \A r \in Res : \A reply : Discard(r, reply) => Timing'
           /\ \A r \in Res : PassOver(r) => Timing'
           /\ StartLoop => Timing'
<1> USE DEF Timing
<1>1. ASSUME NEW reply, Start(reply) PROVE Timing'
  BY <1>1, AllSameTimely DEF Start, Due, Reverting, SameClock, SameState
<1>2. ASSUME NEW r \in Res, Resume(r) PROVE Timing'
  <2>1. /\ rs'[r].phase = "boosted" /\ rs'[r].orig = db[r].orig
        /\ rs'[r].boosted = db[r].boosted /\ rs'[r].age = db[r].age
        /\ \A q \in Res \ {r} : rs'[q] = rs[q]
    BY <1>2 DEF Resume, TypeInv, TypeOK, ResourceState
  <2>2. pc = "boot" /\ unsaved = {} /\ db[r] # NoRow
        /\ UNCHANGED <<alloc, db, held, pc, unsaved, forgotten>>
    BY <1>2 DEF Resume, Due, TypeInv, StepInHand
  <2>3. ASSUME NEW q \in Res, q \notin forgotten' PROVE Timely(q)'
    <3>1. CASE q = r
      BY <2>1, <2>2, <2>3, <3>1 DEF Timely
    <3>2. CASE q # r
      BY <2>1, <2>2, <2>3, <3>2, SameIsTimely DEF SameClock, SameState
    <3>3. QED BY <3>1, <3>2
  <2>4. QED BY <2>2, <2>3 DEF Due, Reverting
<1>3. ASSUME NEW r \in Res, NEW reply, Discard(r, reply) PROVE Timing'
  <2>1. pc = "boot" /\ UNCHANGED <<alloc, rs, pc, hist>>
        /\ \A q \in Res : db'[q] # NoRow => db'[q] = db[q]
    BY <1>3 DEF Discard, Delete, TypeInv, TypeOK
  <2>2. QED BY <2>1, AllSameTimely DEF Due, Reverting, SameClock, SameState
<1>4. ASSUME NEW r \in Res, PassOver(r) PROVE Timing'
  BY <1>4, AllSameTimely DEF PassOver, Due, Reverting, SameClock, SameState
<1>5. ASSUME StartLoop PROVE Timing'
  BY <1>5, AllSameTimely DEF StartLoop, Due, Reverting, SameClock, SameState
<1>6. QED BY <1>1, <1>2, <1>3, <1>4, <1>5

\* Sampling changes no age, and leads to no step that uses one.
LEMMA TimingQuiet ==
    ASSUME Timing, UNCHANGED <<alloc, db, held, unsaved, forgotten>>,
           \A q \in Res : SameState(q) /\ rs'[q].age = rs[q].age,
           pc' \in {"idle", "poll", "config", "apply"}
    PROVE  Timing'
BY AllSameTimely DEF Timing, Due, Reverting, SameClock

LEMMA TimingSample ==
    ASSUME TypeInv, Timing
    PROVE  /\ \A load \in NodeLoads : Poll(load) => Timing'
           /\ \A v \in VMs : ReadStatus(v) => Timing'
           /\ \A v \in VMs : StatusFails(v) => Timing'
           /\ Sample \/ ConfigFails => Timing'
           /\ \A r \in Res : SkipSample(r) => Timing'
           /\ \A r \in Res : \A usage : ObserveBoosted(r, usage) => Timing'
           /\ \A r \in Res : \A usage : CountSample(r, usage) => Timing'
           /\ \A r \in Res : \A usage : StartBoost(r, usage) => Timing'
<1>1. ASSUME \/ \E load \in NodeLoads : Poll(load)
             \/ \E v \in VMs : ReadStatus(v) \/ StatusFails(v)
             \/ Sample \/ ConfigFails
             \/ \E r \in Res : SkipSample(r)
      PROVE  Timing'
  BY <1>1, TimingQuiet DEF Poll, ReadStatus, StatusFails, Sample, ConfigFails,
     SkipSample, Finish, SameState
<1>2. ASSUME NEW r \in Res, NEW usage, ObserveBoosted(r, usage) PROVE Timing'
  <2>1. \A q \in Res : SameState(q) /\ rs'[q].age = rs[q].age
    BY <1>2 DEF ObserveBoosted, SameState, TypeInv, TypeOK, ResourceState
  <2>2. QED BY <1>2, <2>1, TimingQuiet DEF ObserveBoosted, Finish
<1>3. ASSUME NEW r \in Res, NEW usage, CountSample(r, usage) PROVE Timing'
  <2>1. \A q \in Res : SameState(q) /\ rs'[q].age = rs[q].age
    BY <1>3 DEF CountSample, SameState, TypeInv, TypeOK, ResourceState
  <2>2. QED BY <1>3, <2>1, TimingQuiet DEF CountSample, Finish
<1>4. ASSUME NEW r \in Res, NEW usage, StartBoost(r, usage) PROVE Timing'
  <2>1. \A q \in Res : SameState(q) /\ rs'[q].age = rs[q].age
    BY <1>4 DEF StartBoost, SameState, TypeInv, TypeOK, ResourceState
  <2>2. QED BY <1>4, <2>1, TimingQuiet DEF StartBoost
<1>5. QED BY <1>1, <1>2, <1>3, <1>4

\* triggerBoost: the age of a new boost starts with it, and its row gains no
\* more than the dropped fraction of a second.
LEMMA TimingBoost ==
    ASSUME TypeInv, Timing
    PROVE  /\ \A reply : Apply(reply) => Timing'
           /\ ApplyFails => Timing'
           /\ \A reply : \A gained \in 0..TicksPerSecond - 1 :
                 Save(reply, gained) => Timing'
           /\ \A reply : Tag(reply) => Timing'
<1> USE DEF Timing
<1>1. ASSUME NEW reply, Apply(reply) PROVE Timing'
  <2>0. PICK r \in Res : r = job.res
    BY <1>1, InHand DEF Apply, TypeInv
  <2>1. /\ pc = "apply" /\ db' = db
        /\ alloc' = [alloc EXCEPT ![r] = job.to]
        /\ held' = [held EXCEPT ![r] = 0]
        /\ forgotten \subseteq forgotten' /\ unsaved \subseteq unsaved'
    BY <1>1, <2>0 DEF Apply
  <2>2. \A q \in Res \ {r} : rs'[q] = rs[q]
    BY <1>1, <2>0 DEF Apply, TypeInv, TypeOK
  <2>3. ASSUME NEW q \in Res, q \notin forgotten', q # r PROVE Timely(q)'
    BY <2>1, <2>2, <2>3, SameIsTimely DEF SameClock, SameState, TypeInv, TypeOK
  <2>4. CASE reply = "ok"
    <3>1. /\ rs'[r].age = 0 /\ held'[r] = 0 /\ pc' = "save" /\ job' = job
          /\ r \in unsaved'
      <4>1. rs' = [rs EXCEPT ![r] = [NewState EXCEPT !.phase = "boosted",
                                                     !.orig = job.from,
                                                     !.boosted = job.to]]
        BY <1>1, <2>0, <2>4 DEF Apply
      <4>2. rs'[r].age = 0
        BY <4>1 DEF TypeInv, TypeOK, NewState
      <4>3. QED BY <1>1, <2>0, <2>1, <2>4, <4>2 DEF Apply, TypeInv, TypeOK
    <3>2. Timely(r)'
      <4>1. rs'[r].age <= held'[r] + Slack
        BY <3>1, MonitorAssumption DEF Slack
      <4>2. QED BY <3>1, <4>1 DEF Timely
    <3>3. QED BY <2>0, <2>3, <3>1, <3>2 DEF Due, Reverting
  <2>5. CASE reply # "ok"
    <3>1. r \in forgotten' /\ pc' = "poll"
      BY <1>1, <2>0, <2>5 DEF Apply, Finish
    <3>2. QED BY <2>3, <3>1 DEF Due, Reverting
  <2>6. QED BY <2>4, <2>5
<1>2. ASSUME ApplyFails PROVE Timing'
  BY <1>2, TimingQuiet DEF ApplyFails, Finish, SameState
<1>3. ASSUME NEW reply, NEW gained \in 0..TicksPerSecond - 1, Save(reply, gained)
      PROVE  Timing'
  <2> DEFINE r == job.res
  <2>1. /\ r \in Res /\ pc = "save" /\ pc' = "tag" /\ rs[r].age <= held[r]
        /\ UNCHANGED <<alloc, rs, held, forgotten>>
    BY <1>3, InHand DEF Save, TypeInv, Due
  <2>2. CASE reply = "ok"
    <3>1. /\ unsaved' = unsaved \ {r}
          /\ db'[r] = [orig |-> rs[r].orig, boosted |-> rs[r].boosted,
                       age |-> IF rs[r].age + gained < BoostDuration
                               THEN rs[r].age + gained ELSE BoostDuration]
          /\ \A q \in Res \ {r} : db'[q] = db[q]
      BY <1>3, <2>1, <2>2 DEF Save, TypeInv, TypeOK
    <3>2. rs[r].age \in Ages /\ held[r] \in Ages
      BY <2>1 DEF TypeInv, TypeOK, ResourceState
    <3>3. db'[r].age <= held[r] + Slack
      BY <2>1, <3>1, <3>2, MonitorAssumption DEF Ages, Slack
    <3>4. ASSUME NEW q \in Res, q \notin forgotten' PROVE Timely(q)'
      <4>1. CASE q = r
        BY <2>1, <3>3, <3>4, <4>1 DEF Timely
      <4>2. CASE q # r
        BY <2>1, <3>1, <3>4, <4>2, SameIsTimely DEF SameClock, SameState
      <4>3. QED BY <4>1, <4>2
    <3>5. QED BY <2>1, <3>4 DEF Due, Reverting
  <2>3. CASE reply # "ok"
    BY <1>3, <2>1, <2>3, AllSameTimely DEF Save, Due, Reverting, SameClock, SameState
  <2>4. QED BY <2>2, <2>3
<1>4. ASSUME NEW reply, Tag(reply) PROVE Timing'
  BY <1>4, TimingQuiet DEF Tag, Finish, SameState
<1>5. QED BY <1>1, <1>2, <1>3, <1>4

\* checkExpiredBoosts and revertBoost: a boost is picked when it is due.
LEMMA TimingRevert ==
    ASSUME TypeInv, TypeInv', Control, Control', Fresh, Keep, Keep', Timing
    PROVE  /\ BeginExpire => Timing'
           /\ \A r \in Res : RevertUnread(r) => Timing'
           /\ \A r \in Res : \A reply : Adopt(r, reply) => Timing'
           /\ \A r \in Res : StartRevert(r) => Timing'
           /\ \A reply : Restore(reply) => Timing'
           /\ RestoreFails => Timing'
           /\ \A reply : Untag(reply) => Timing'
           /\ \A reply : Settle(reply) => Timing'
           /\ EndExpire => Timing'
<1> USE DEF Timing
<1>1. ASSUME BeginExpire PROVE Timing'
  BY <1>1, AllSameTimely DEF BeginExpire, CanDownscale, Due, Reverting, SameClock,
     SameState
<1>2. ASSUME NEW r \in Res, RevertUnread(r) PROVE Timing'
  BY <1>2, AllSameTimely DEF RevertUnread, Due, Reverting, SameClock, SameState
<1>3. ASSUME NEW r \in Res, NEW reply, Adopt(r, reply) PROVE Timing'
  <2>1. /\ pc = "expire" /\ pc' = pc /\ Delete(r, reply) /\ todo' = todo \ {r}
        /\ unsaved' = unsaved \ {r} /\ UNCHANGED <<alloc, base, held, forgotten>>
        /\ \A q \in Res \ {r} : rs'[q] = rs[q]
    BY <1>3 DEF Adopt, TypeInv, TypeOK
  <2>2. r \notin forgotten => Settled(r)
    BY <1>3 DEF Adopt, Keep, Kept, MemoryKnows, RowKnows
  <2>3. \A q \in Res \ forgotten' : Timely(q)'
    BY <2>1, <2>2, EndIsTimely
  <2>4. QED BY <2>1, <2>3 DEF Due, Reverting, TypeInv, TypeOK
<1>4. ASSUME NEW r \in Res, StartRevert(r) PROVE Timing'
  BY <1>4, AllSameTimely DEF StartRevert, Ready, Due, Reverting, SameClock, SameState
<1>5. ASSUME NEW reply, Restore(reply) PROVE Timing'
  <2>0. PICK r \in Res : r = job.res
    BY <1>5, InHand DEF Restore, TypeInv
  <2>1. /\ pc = "restore" /\ UNCHANGED <<base, db, rs, held, unsaved>>
        /\ alloc' = [alloc EXCEPT ![r] = job.to]
        /\ forgotten' = forgotten \cup (edited \cap {r})
    BY <1>5, <2>0 DEF Restore
  <2>2. /\ alloc'[r] = job.to
        /\ \A q \in Res \ {r} : alloc'[q] = alloc[q]
    BY <2>1 DEF TypeInv, TypeOK
  <2>3. ASSUME r \notin forgotten' PROVE Settled(r)'
    <3>1. job.to = Effective(r, base[r]) /\ base[r] \in Nat
      BY <2>0, <2>1, <2>3 DEF Fresh, TypeInv, TypeOK
    <3>2. QED BY <2>1, <2>2, <3>1, EffectiveTwice DEF Settled
  <2>4. \A q \in Res \ forgotten' : Timely(q)'
    BY <2>1, <2>2, <2>3, UndoIsTimely
  <2>5. pc' \in {"untag", "expire"} /\ todo' \subseteq todo
    BY <1>5 DEF Restore, Finish
  <2>6. QED BY <2>1, <2>4, <2>5 DEF Due, Reverting
<1>6. ASSUME RestoreFails PROVE Timing'
  BY <1>6, AllSameTimely DEF RestoreFails, Finish, Due, Reverting, SameClock, SameState
<1>7. ASSUME NEW reply, Untag(reply) PROVE Timing'
  BY <1>7, AllSameTimely DEF Untag, Due, Reverting, SameClock, SameState
<1>8. ASSUME NEW reply, Settle(reply) PROVE Timing'
  <2> DEFINE r == job.res
  <2>1. /\ r \in Res /\ pc = "settle" /\ pc' = "expire" /\ Delete(r, reply)
        /\ todo' = todo \ {r} /\ unsaved' = unsaved \ {r}
        /\ UNCHANGED <<alloc, base, held, forgotten>>
        /\ \A q \in Res \ {r} : rs'[q] = rs[q]
    BY <1>8, InHand DEF Settle, Finish, TypeInv, TypeOK
  <2>2. r \notin forgotten => Settled(r)
    BY <2>1 DEF Fresh
  <2>3. \A q \in Res \ forgotten' : Timely(q)'
    BY <2>1, <2>2, EndIsTimely
  <2>4. QED BY <2>1, <2>3 DEF Due, Reverting, TypeInv, TypeOK
<1>9. ASSUME EndExpire PROVE Timing'
  BY <1>9, AllSameTimely DEF EndExpire, Due, Reverting, SameClock, SameState
<1>10. QED BY <1>1, <1>2, <1>3, <1>4, <1>5, <1>6, <1>7, <1>8, <1>9

\* Shutdown.
LEMMA TimingStop ==
    ASSUME TypeInv, TypeInv', Control, Control', Fresh, Keep, Keep', Timing
    PROVE  /\ Signal => Timing'
           /\ LoopExit => Timing'
           /\ \A r \in Res : \A reply : StopRevert(r, reply) => Timing'
           /\ \A reply : Drop(reply) => Timing'
           /\ Exit => Timing'
<1> USE DEF Timing
<1>1. ASSUME Signal PROVE Timing'
  BY <1>1, AllSameTimely DEF Signal, Due, Reverting, SameClock, SameState
<1>2. ASSUME LoopExit PROVE Timing'
  BY <1>2, AllSameTimely DEF LoopExit, Due, Reverting, SameClock, SameState
<1>3. ASSUME NEW r \in Res, NEW reply, StopRevert(r, reply) PROVE Timing'
  <2>1. /\ pc = "stop" /\ r \in todo /\ pc' \in {"stop", "drop"}
        /\ UNCHANGED <<base, db, rs, held, unsaved>> /\ forgotten \subseteq forgotten'
    BY <1>3 DEF StopRevert, Ready
  <2>2. \A q \in Res \ forgotten' : Timely(q)'
    <3>1. CASE reply = "error"
      BY <1>3, <2>1, <3>1, AllSameTimely DEF StopRevert, SameClock, SameState
    <3>2. CASE reply # "error"
      <4>1. /\ alloc' = [alloc EXCEPT ![r] = rs[r].orig]
            /\ alloc[r] # rs[r].boosted => r \in forgotten'
        BY <1>3, <3>2 DEF StopRevert
      <4>2. alloc'[r] = rs[r].orig /\ \A q \in Res \ {r} : alloc'[q] = alloc[q]
        BY <4>1 DEF TypeInv, TypeOK
      <4>3. ASSUME r \notin forgotten' PROVE Settled(r)'
        <5>1. rs[r].phase = "boosted" /\ alloc[r] = rs[r].boosted
          BY <2>1, <4>1, <4>3 DEF Control, PhasesMatch, Boosted
        <5>2. rs[r].orig = Effective(r, base[r]) /\ base[r] \in Nat
          BY <2>1, <4>3, <5>1, KnownBoost DEF TypeInv, TypeOK
        <5>3. QED BY <2>1, <4>2, <5>2, EffectiveTwice DEF Settled
      <4>4. QED BY <2>1, <4>2, <4>3, UndoIsTimely
    <3>3. QED BY <3>1, <3>2
  <2>3. QED BY <2>1, <2>2 DEF Due, Reverting
<1>4. ASSUME NEW reply, Drop(reply) PROVE Timing'
  <2> DEFINE r == job.res
  <2>1. /\ r \in Res /\ pc = "drop" /\ pc' = "stop" /\ Delete(r, reply)
        /\ unsaved' = unsaved \ {r} /\ UNCHANGED <<alloc, base, held, forgotten>>
        /\ \A q \in Res \ {r} : rs'[q] = rs[q]
    BY <1>4, InHand DEF Drop, Finish, TypeInv, TypeOK
  <2>2. r \notin forgotten => Settled(r)
    BY <2>1 DEF Fresh
  <2>3. \A q \in Res \ forgotten' : Timely(q)'
    BY <2>1, <2>2, EndIsTimely
  <2>4. QED BY <2>1, <2>3 DEF Due, Reverting
<1>5. ASSUME Exit PROVE Timing'
  BY <1>5, LoseIsTimely DEF Exit, LoseMemory, Due, Reverting
<1>6. QED BY <1>1, <1>2, <1>3, <1>4, <1>5

\* The environment.
LEMMA TimingEnvironment ==
    ASSUME TypeInv, TypeInv', Control, Control', Keep, Keep', Timing
    PROVE  /\ Crash => Timing'
           /\ Tick => Timing'
           /\ \A r \in Res : \A x : AdminSet(r, x) => Timing'
           /\ \A v \in VMs : AdminRetag(v) => Timing'
           /\ \A v \in VMs : AdminPower(v) => Timing'
<1> USE DEF Timing
<1>1. ASSUME Crash PROVE Timing'
  BY <1>1, LoseIsTimely DEF Crash, LoseMemory, Due, Reverting
<1>2. ASSUME Tick PROVE Timing'
  <2>1. UNCHANGED <<alloc, pc, todo, job, edited, unsaved, forgotten>>
    BY <1>2 DEF Tick
  <2>2. \A q \in Res : /\ rs'[q].phase = rs[q].phase /\ rs'[q].orig = rs[q].orig
                       /\ rs'[q].boosted = rs[q].boosted
                       /\ rs'[q].age = IF rs[q].phase = "boosted"
                                       THEN Count(rs[q].age, BoostDuration)
                                       ELSE rs[q].age
    BY <1>2 DEF Tick, TypeInv, TypeOK, ResourceState
  <2>3. \A q \in Res : held'[q] = Count(held[q], BoostDuration)
    BY <1>2 DEF Tick
  <2>4. \A q \in Res : rs[q].age \in Ages /\ held[q] \in Ages
    BY DEF TypeInv, TypeOK, ResourceState
  <2>5. \A q \in Res : rs[q].age >= BoostDuration => rs'[q].age >= BoostDuration
    BY <2>2, <2>4, MonitorAssumption DEF Count, Ages
  <2>6. pc = "save" => job.res \in Res /\ rs[job.res].phase = "boosted"
    BY InHand DEF TypeInv, Control, PhasesMatch, Boosted
  <2>7. pc = "save" => rs'[job.res].age <= held'[job.res]
    BY <2>2, <2>3, <2>4, <2>6, MonitorAssumption DEF Due, Count, Ages
  <2>8. pc = "restore" => job.res \in Res
    BY InHand DEF TypeInv
  <2>9. Due'
    BY <2>1, <2>2, <2>5, <2>7, <2>8 DEF Due, Reverting, TypeInv, TypeOK
  <2>10. QED BY <1>2, <2>9, TickIsTimely
<1>3. ASSUME NEW r \in Res, NEW x, AdminSet(r, x) PROVE Timing'
  <2>1. /\ alloc' = [alloc EXCEPT ![r] = x] /\ base' = [base EXCEPT ![r] = x]
        /\ UNCHANGED <<db, rs, pc, todo, cfg, job, held, unsaved>>
        /\ edited' = IF cfg # NoCfg /\ cfg.vm = r[1] THEN edited \cup {r} ELSE edited
        /\ forgotten' \in {forgotten \cup {r}, forgotten \ {r}}
    BY <1>3 DEF AdminSet
  <2>2. alloc'[r] = x /\ base'[r] = x /\ \A q \in Res \ {r} : alloc'[q] = alloc[q]
    BY <2>1 DEF TypeInv, TypeOK
  <2>3. ASSUME NEW q \in Res, q \notin forgotten' PROVE Timely(q)'
    <3>1. CASE q = r
      BY <2>2, <2>3, <3>1, SettledIsTimely DEF Settled
    <3>2. CASE q # r
      BY <2>1, <2>2, <2>3, <3>2, SameIsTimely DEF SameClock, SameState
    <3>3. QED BY <3>1, <3>2
  <2>4. ASSUME pc = "restore", job.res \notin edited' \cup forgotten'
        PROVE  alloc'[job.res] = alloc[job.res] /\ job.res \notin edited \cup forgotten
    <3>1. job.res # r /\ job.res \in Res
      BY <2>1, <2>4, InHand DEF TypeInv, StepInHand
    <3>2. QED BY <2>1, <2>2, <2>4, <3>1
  <2>5. Due'
    BY <2>1, <2>4 DEF Due, Reverting
  <2>6. QED BY <2>3, <2>5
<1>4. ASSUME NEW v \in VMs, AdminRetag(v) PROVE Timing'
  BY <1>4, AllSameTimely DEF AdminRetag, Due, Reverting, SameClock, SameState
<1>5. ASSUME NEW v \in VMs, AdminPower(v) PROVE Timing'
  BY <1>5, AllSameTimely DEF AdminPower, Due, Reverting, SameClock, SameState
<1>6. QED BY <1>1, <1>2, <1>3, <1>4, <1>5

LEMMA TimingStep ==
    ASSUME TypeInv, Control, Fresh, Keep, TypeInv', Control', Keep',
           Timing, [Next]_vars
    PROVE  Timing'
<1>1. todo \subseteq Res /\ \A r \in Res : r[1] \in VMs
  BY DEF TypeInv, TypeOK, Res
<1>2. CASE Service
  BY <1>1, <1>2, TimingStart, TimingSample, TimingBoost, TimingRevert, TimingStop
     DEF Service, Steps
<1>3. CASE Tick \/ Environment
  BY <1>3, TimingStop, TimingEnvironment DEF Environment
<1>4. CASE UNCHANGED vars
  BY <1>4, AllSameTimely DEF vars, Timing, Due, Reverting, SameClock, SameState
<1>5. QED BY <1>2, <1>3, <1>4 DEF Next
-------------------------------------------------------------------------------
(* The theorem *)

LEMMA TimingAlways == Spec => []Timing
<1>1. TypeInv /\ Control /\ Fresh /\ Keep /\ TypeInv' /\ Control' /\ Keep'
        /\ Timing /\ [Next]_vars => Timing'
  BY TimingStep
<1>2. QED BY <1>1, TimingInit, Induction, PTL DEF Spec

\* A step that writes a value on behalf of a revert is the answer to the
\* request, and the boost it takes back was due.
LEMMA RevertIsDue ==
    ASSUME TypeInv, Control, Timing, [Next]_vars, NEW r \in Res, r \notin forgotten',
           pc = "restore", pc' # pc, alloc'[r] # alloc[r]
    PROVE  held[r] + TicksPerSecond - 1 >= BoostDuration
<1>1. PICK reply : Restore(reply)
  <2>1. CASE Service
    BY <2>1 DEF Service, Steps, Start, Apply, Tag, Save, Untag, Settle, Drop,
       Discard, Adopt, StopRevert, ApplyFails, RestoreFails, PassOver,
       StatusFails, Sample, ConfigFails, RevertUnread, Resume, ReadStatus, SkipSample, StartRevert,
       ObserveBoosted, CountSample, StartBoost, Evaluating, Poll, StartLoop,
       BeginExpire, EndExpire, LoopExit, Exit
  <2>2. CASE Tick \/ Environment \/ UNCHANGED vars
    BY <2>2 DEF Tick, Environment, Signal, Crash, AdminSet, AdminRetag,
       AdminPower, vars
  <2>3. QED BY <2>1, <2>2 DEF Next
<1>2. /\ r = job.res /\ alloc'[r] = job.to
      /\ r \notin edited /\ r \notin forgotten
  BY <1>1 DEF Restore, TypeInv, TypeOK
<1>3. rs[r].age >= BoostDuration /\ alloc[r] = rs[r].boosted /\ job.to = rs[r].orig
  BY <1>2 DEF Timing, Due, Reverting
<1>4. rs[r].phase = "boosted"
  BY <1>2 DEF Control, PhasesMatch, Boosted, Timing, Due
<1>5. rs[r].age <= held[r] + Slack
  BY <1>2, <1>3, <1>4 DEF Timing, Timely
<1>6. rs[r].age \in Ages /\ held[r] \in Ages
  BY DEF TypeInv, TypeOK, ResourceState
<1>7. QED BY <1>3, <1>5, <1>6, MonitorAssumption DEF Ages, Slack

\* No boost is cut short while the service runs: for every boost_duration,
\* every resolution of the stored time stamp and any interleaving of polls,
\* edits, failing calls, crashes and restarts, a revert that changes a
\* container comes at least boost_duration after the raise it takes back, less
\* the fraction of a second a restart loses.
THEOREM InTime == Spec => RevertsInTime
<1>1. TypeInv /\ Control /\ Timing /\ [Next]_vars =>
        [\A r \in Res \ forgotten' :
           pc = "restore" /\ pc' # pc /\ alloc'[r] # alloc[r]
             => held[r] + TicksPerSecond - 1 >= BoostDuration]_vars
  BY RevertIsDue
<1>2. QED BY <1>1, Induction, TimingAlways, PTL DEF RevertsInTime, Spec
===============================================================================

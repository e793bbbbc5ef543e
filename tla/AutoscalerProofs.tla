--------------------------- MODULE AutoscalerProofs ---------------------------
(***************************************************************************)
(* Theorems about Autoscaler, for every value of its constants.            *)
(***************************************************************************)
EXTENDS AutoscalerProperties, TLAPS

\* ComputeBoost answers a natural or no boost, and a boost of a positive
\* amount is positive.
LEMMA BoostValue ==
    ASSUME NEW kind, NEW current \in Nat, NEW saturated, NEW totalAlloc
    PROVE  LET value == ComputeBoost(kind, current, saturated, totalAlloc)
           IN  value # NoBoost =>
                 value \in Nat /\ (current > 0 => value > 0)
<1>1. ASSUME NEW f \in Nat, f > 100
      PROVE  /\ applyFactor(kind, current, f) \in Nat
             /\ current > 0 => applyFactor(kind, current, f) > 0
  <2>1. current * f \in Nat
    OBVIOUS
  <2>2. current > 0 => current * f > 100
    BY <1>1
  <2>3. QED BY <2>1, <2>2 DEF applyFactor
<1>2. QED BY <1>1, ScalingAssumption DEF ComputeBoost
-------------------------------------------------------------------------------
(* Type correctness *)

USE DEF world, local, hist

LEMMA NewStateType == NewState \in ResourceState
BY MonitorAssumption DEF NewState, ResourceState, Ages

LEMMA CountType ==
    ASSUME NEW limit \in Nat, NEW n \in 0..limit
    PROVE  Count(n, limit) \in 0..limit
BY DEF Count

LEMMA EffectiveType ==
    ASSUME NEW r, NEW x \in Nat
    PROVE  Effective(r, x) \in Nat
BY MonitorAssumption DEF Effective

LEMMA MeasuredType ==
    ASSUME NEW c \in ContainerConfig, NEW r \in Res
    PROVE  Measured(c, r) \in Nat
BY DEF Measured, ContainerConfig, Res

LEMMA ReadConfigType ==
    ASSUME TypeOK, NEW v \in VMs, NEW cpus \in Nat
    PROVE  ReadConfig(v, cpus) \in ContainerConfig
BY DEF TypeOK, ReadConfig, ContainerConfig, Res

\* The two ways a group of variables changes keep their types.
LEMMA FinishType ==
    ASSUME TypeOK, NEW r \in Res, NEW loop \in PCs, Finish(r, loop)
    PROVE  /\ pc' \in PCs /\ todo' \subseteq Res
           /\ cfg' \in ContainerConfig \cup {NoCfg}
           /\ job' \in Job \cup {NoJob} /\ edited' \subseteq Res
BY DEF TypeOK, Finish

LEMMA LoseMemoryType ==
    ASSUME TypeOK, LoseMemory, UNCHANGED <<world, db, held>>
    PROVE  TypeOK'
BY NewStateType DEF TypeOK, LoseMemory, PCs

LEMMA DeleteType ==
    ASSUME TypeOK, NEW r \in Res, NEW reply, Delete(r, reply)
    PROVE  db' \in [Res -> BoostRecord \cup {NoRow}]
BY DEF TypeOK, Delete

\* Writing tags keeps them a set of the two tags that are told apart.
LEMMA WriteTagsType ==
    ASSUME TypeOK, NEW v \in VMs, NEW list \in SUBSET Tags, NEW reply,
           WriteTags(v, list, reply)
    PROVE  tags' \in [VMs -> SUBSET Tags]
BY DEF TypeOK, WriteTags

\* A step in hand has a job and a configuration.
LEMMA InHand ==
    ASSUME TypeOK, StepInHand
    PROVE  /\ pc \in {"apply", "save", "tag", "restore", "untag", "settle"} =>
                job \in Job /\ job.res \in Res /\ job.from \in Nat /\ job.to \in Nat
                /\ cfg \in ContainerConfig /\ cfg.vm \in VMs
                /\ cfg.tags \in SUBSET Tags
           /\ pc = "drop" =>
                job \in Job /\ job.res \in Res
BY DEF TypeOK, StepInHand, Job, ContainerConfig

TypeInv == TypeOK /\ StepInHand

LEMMA TypeInit == Init => TypeInv
<1>1. SUFFICES ASSUME Init PROVE TypeInv
  OBVIOUS
<1>2. /\ db \in [Res -> BoostRecord \cup {NoRow}]
      /\ tags \in [VMs -> SUBSET Tags]
  BY <1>1 DEF Init
<1>3. /\ rs \in [Res -> ResourceState]
      /\ held \in [Res -> Ages]
  BY <1>1, NewStateType, MonitorAssumption DEF Init, Ages
<1>4. TypeOK
  BY <1>1, <1>2, <1>3, EnvironmentAssumption DEF Init, TypeOK, PCs
<1>5. StepInHand
  BY <1>1 DEF Init, StepInHand
<1>6. QED BY <1>4, <1>5 DEF TypeInv

\* Start-up, polling and sampling.
LEMMA TypeSample ==
    ASSUME TypeInv
    PROVE  /\ \A reply : Start(reply) => TypeInv'
           /\ \A r \in Res : Resume(r) => TypeInv'
           /\ \A r \in Res : \A reply : Discard(r, reply) => TypeInv'
           /\ \A r \in Res : PassOver(r) => TypeInv'
           /\ StartLoop => TypeInv'
           /\ \A load \in NodeLoads : Poll(load) => TypeInv'
           /\ \A v \in VMs : ReadStatus(v) => TypeInv'
           /\ \A v \in VMs : StatusFails(v) => TypeInv'
           /\ Sample => TypeInv'
           /\ ConfigFails => TypeInv'
           /\ \A r \in Res : SkipSample(r) => TypeInv'
           /\ \A r \in Res : \A usage : ObserveBoosted(r, usage) => TypeInv'
           /\ \A r \in Res : \A usage : CountSample(r, usage) => TypeInv'
           /\ \A r \in Res : \A usage : StartBoost(r, usage) => TypeInv'
<1> USE DEF TypeInv
<1>1. ASSUME NEW reply, Start(reply) PROVE TypeInv'
  BY <1>1 DEF Start, TypeOK, StepInHand, PCs
<1>2. ASSUME NEW r \in Res, Resume(r) PROVE TypeInv'
  <2>1. db[r] \in BoostRecord
    BY <1>2 DEF TypeOK, StepInHand, Resume
  <2>2. rs' \in [Res -> ResourceState]
    <3>1. rs[r] \in ResourceState
      BY DEF TypeOK
    <3>2. [rs[r] EXCEPT !.phase = "boosted", !.orig = db[r].orig,
                        !.boosted = db[r].boosted, !.age = db[r].age]
             \in ResourceState
      BY <2>1, <3>1 DEF ResourceState, BoostRecord
    <3>3. QED BY <1>2, <3>2 DEF TypeOK, Resume
  <2>3. QED BY <1>2, <2>2 DEF Resume, TypeOK, StepInHand, PCs
<1>3. ASSUME NEW r \in Res, NEW reply, Discard(r, reply) PROVE TypeInv'
  <2>1. db' \in [Res -> BoostRecord \cup {NoRow}]
    BY <1>3, DeleteType DEF Discard
  <2>2. TypeOK'
    BY <1>3, <2>1 DEF Discard, TypeOK
  <2>3. StepInHand'
    BY <1>3 DEF Discard, Delete, StepInHand, TypeOK
  <2>4. QED BY <2>2, <2>3
<1>4. ASSUME NEW r \in Res, PassOver(r) PROVE TypeInv'
  BY <1>4 DEF PassOver, TypeOK, StepInHand, PCs
<1>5. ASSUME StartLoop PROVE TypeInv'
  BY <1>5 DEF StartLoop, TypeOK, StepInHand, PCs
<1>6. ASSUME NEW load \in NodeLoads, Poll(load) PROVE TypeInv'
  BY <1>6, EnvironmentAssumption DEF Poll, Listed, TypeOK, StepInHand, PCs
<1>7. ASSUME NEW v \in VMs, ReadStatus(v) PROVE TypeInv'
  <2>1. Effective(<<v, "cpu">>, alloc[<<v, "cpu">>]) \in Nat
    BY <1>7, EffectiveType DEF TypeOK, Res, Kinds
  <2>2. cfg' \in ContainerConfig /\ cfg' # NoCfg /\ pc' = "config"
    BY <1>7, <2>1 DEF ReadStatus, ContainerConfig, NoCfg
  <2>3. TypeOK'
    BY <1>7, <2>2 DEF ReadStatus, TypeOK, PCs
  <2>4. QED BY <2>2, <2>3 DEF StepInHand
<1>8. ASSUME NEW v \in VMs, StatusFails(v) PROVE TypeInv'
  BY <1>8 DEF StatusFails, TypeOK, StepInHand, PCs
<1>9. ASSUME NEW r \in Res, SkipSample(r) PROVE TypeInv'
  <2>1. Finish(r, "poll")
    BY <1>9 DEF SkipSample
  <2>2. TypeOK'
    BY <1>9, <2>1, FinishType DEF SkipSample, TypeOK, PCs
  <2>3. QED BY <2>1, <2>2 DEF Finish, StepInHand
<1>10. ASSUME NEW r \in Res, NEW usage, ObserveBoosted(r, usage) PROVE TypeInv'
  <2>1. Finish(r, "poll")
    BY <1>10 DEF ObserveBoosted
  <2>2. rs' \in [Res -> ResourceState]
    BY <1>10, CountType, MonitorAssumption DEF ObserveBoosted, TypeOK, ResourceState
  <2>3. TypeOK'
    BY <1>10, <2>1, <2>2, FinishType DEF ObserveBoosted, TypeOK, PCs
  <2>4. QED BY <2>1, <2>3 DEF Finish, StepInHand
<1>11. ASSUME NEW r \in Res, NEW usage, CountSample(r, usage) PROVE TypeInv'
  <2>1. Finish(r, "poll")
    BY <1>11 DEF CountSample
  <2>2. SaturatedAfter(r, usage) \in 0..ConsecutiveSamples
    BY CountType, MonitorAssumption DEF SaturatedAfter, TypeOK, ResourceState
  <2>3. rs' \in [Res -> ResourceState]
    BY <1>11, <2>2 DEF CountSample, TypeOK, ResourceState
  <2>4. TypeOK'
    BY <1>11, <2>1, <2>3, FinishType DEF CountSample, TypeOK, PCs
  <2>5. QED BY <2>1, <2>4 DEF Finish, StepInHand
<1>12. ASSUME NEW r \in Res, NEW usage, StartBoost(r, usage) PROVE TypeInv'
  <2>1. cfg # NoCfg /\ cfg \in ContainerConfig /\ cfg.vm = r[1]
    BY <1>12 DEF StartBoost, Evaluating, Ready, TypeOK
  <2>2. Current(r) \in Nat
    BY <1>12, <2>1, MeasuredType DEF Current
  <2>3. PICK value \in Outcomes(r) \ {NoBoost} :
           job' = [res |-> r, from |-> Current(r), to |-> value]
    BY <1>12 DEF StartBoost
  <2>4. value \in Nat
    BY <2>2, <2>3, BoostValue DEF Outcomes
  <2>5. job' \in Job
    BY <2>2, <2>3, <2>4 DEF Job
  <2>6. rs' \in [Res -> ResourceState]
    BY <1>12, MonitorAssumption DEF StartBoost, TypeOK, ResourceState
  <2>7. TypeOK'
    BY <1>12, <2>5, <2>6 DEF StartBoost, TypeOK, PCs
  <2>8. job'.res = r /\ job' # NoJob
    BY <2>3 DEF NoJob
  <2>9. QED BY <1>12, <2>1, <2>7, <2>8 DEF StartBoost, StepInHand
<1>13. ASSUME Sample PROVE TypeInv'
  <2>1. cfg \in ContainerConfig /\ cfg.vm \in VMs /\ cfg.cpus \in Nat
    BY <1>13 DEF Sample, TypeOK, StepInHand, ContainerConfig
  <2>2. cfg' \in ContainerConfig /\ cfg' # NoCfg /\ pc' = "poll"
    BY <1>13, <2>1, ReadConfigType DEF Sample, ReadConfig, NoCfg
  <2>3. TypeOK'
    BY <1>13, <2>2 DEF Sample, TypeOK, PCs
  <2>4. QED BY <2>2, <2>3 DEF StepInHand
<1>14. ASSUME ConfigFails PROVE TypeInv'
  BY <1>14 DEF ConfigFails, TypeOK, StepInHand, PCs
<1>15. QED BY <1>1, <1>2, <1>3, <1>4, <1>5, <1>6, <1>7, <1>8, <1>9, <1>10,
              <1>11, <1>12, <1>13, <1>14

\* triggerBoost, from the request it sends.
LEMMA TypeBoost ==
    ASSUME TypeInv
    PROVE  /\ \A reply : Apply(reply) => TypeInv'
           /\ ApplyFails => TypeInv'
           /\ \A reply, gained : Save(reply, gained) => TypeInv'
           /\ \A reply : Tag(reply) => TypeInv'
<1> USE DEF TypeInv
<1>1. ASSUME NEW reply, Apply(reply) PROVE TypeInv'
  <2> DEFINE r == job.res
  <2>1. /\ r \in Res /\ job.to \in Nat /\ job.from \in Nat
        /\ pc = "apply" /\ alloc' \in [Res -> Nat] /\ held' \in [Res -> Ages]
    BY <1>1, InHand, MonitorAssumption DEF Apply, TypeOK, Ages
  <2>2. CASE reply = "ok"
    <3>1. [NewState EXCEPT !.phase = "boosted", !.orig = job.from,
                           !.boosted = job.to] \in ResourceState
      BY <2>1, NewStateType DEF ResourceState
    <3>2. rs' \in [Res -> ResourceState]
      BY <1>1, <2>2, <3>1 DEF Apply, TypeOK
    <3>3. TypeOK'
      BY <1>1, <2>1, <2>2, <3>2 DEF Apply, TypeOK, PCs
    <3>4. QED BY <1>1, <2>1, <2>2, <3>3 DEF Apply, StepInHand
  <2>3. CASE reply # "ok"
    <3>1. Finish(r, "poll")
      BY <1>1, <2>3 DEF Apply
    <3>2. TypeOK'
      BY <1>1, <2>1, <2>3, <3>1, FinishType DEF Apply, TypeOK, PCs
    <3>3. QED BY <3>1, <3>2 DEF Finish, StepInHand
  <2>4. QED BY <2>2, <2>3
<1>2. ASSUME ApplyFails PROVE TypeInv'
  <2>1. job.res \in Res /\ Finish(job.res, "poll")
    BY <1>2, InHand DEF ApplyFails
  <2>2. TypeOK'
    BY <1>2, <2>1, FinishType DEF ApplyFails, TypeOK, PCs
  <2>3. QED BY <2>1, <2>2 DEF Finish, StepInHand
<1>3. ASSUME NEW reply, NEW gained, Save(reply, gained) PROVE TypeInv'
  <2> DEFINE r == job.res
             age == rs[r].age + gained
             row == [orig |-> rs[r].orig, boosted |-> rs[r].boosted,
                     age |-> IF age < BoostDuration THEN age ELSE BoostDuration]
  <2>1. r \in Res /\ rs[r] \in ResourceState /\ gained \in Nat
    BY <1>3, InHand, MonitorAssumption DEF Save, TypeOK
  <2>2. row \in BoostRecord
    BY <2>1, MonitorAssumption DEF ResourceState, BoostRecord, Ages
  <2>3. db' = [db EXCEPT ![r] = row] \/ db' = db
    BY <1>3 DEF Save
  <2>4. unsaved' \subseteq Res /\ UNCHANGED <<world, rs, local, stopping, held,
                                              edited, forgotten>>
    BY <1>3 DEF Save, TypeOK
  <2>5. pc = "save" /\ pc' = "tag"
    BY <1>3 DEF Save
  <2> HIDE DEF row
  <2>6. db' \in [Res -> BoostRecord \cup {NoRow}]
    BY <2>2, <2>3 DEF TypeOK
  <2>7. TypeOK'
    BY <2>4, <2>5, <2>6 DEF TypeOK, PCs
  <2>8. QED BY <2>4, <2>5, <2>7 DEF StepInHand
<1>4. ASSUME NEW reply, Tag(reply) PROVE TypeInv'
  <2>1. /\ job.res \in Res /\ cfg.vm \in VMs
        /\ cfg.tags \cup {boostedTag} \in SUBSET Tags
        /\ Finish(job.res, "poll")
    BY <1>4, InHand DEF Tag, Tags
  <2>2. tags' \in [VMs -> SUBSET Tags]
    BY <1>4, <2>1, WriteTagsType DEF Tag, TypeOK
  <2>3. TypeOK'
    BY <1>4, <2>1, <2>2, FinishType DEF Tag, TypeOK, PCs
  <2>4. QED BY <2>1, <2>3 DEF Finish, StepInHand
<1>5. QED BY <1>1, <1>2, <1>3, <1>4

\* checkExpiredBoosts and revertBoost.
LEMMA TypeRevert ==
    ASSUME TypeInv
    PROVE  /\ BeginExpire => TypeInv'
           /\ \A r \in Res : RevertUnread(r) => TypeInv'
           /\ \A r \in Res : \A reply : Adopt(r, reply) => TypeInv'
           /\ \A r \in Res : StartRevert(r) => TypeInv'
           /\ \A reply : Restore(reply) => TypeInv'
           /\ RestoreFails => TypeInv'
           /\ \A reply : Untag(reply) => TypeInv'
           /\ \A reply : Settle(reply) => TypeInv'
           /\ EndExpire => TypeInv'
<1> USE DEF TypeInv
<1>1. ASSUME BeginExpire PROVE TypeInv'
  BY <1>1 DEF BeginExpire, Boosted, TypeOK, StepInHand, PCs
<1>2. ASSUME NEW r \in Res, RevertUnread(r) PROVE TypeInv'
  BY <1>2 DEF RevertUnread, TypeOK, StepInHand, PCs
<1>3. ASSUME NEW r \in Res, NEW reply, Adopt(r, reply) PROVE TypeInv'
  <2>1. [Cleared(rs[r]) EXCEPT !.orig = alloc[r]] \in ResourceState
    BY NewStateType DEF Cleared, TypeOK, ResourceState
  <2>2. rs' \in [Res -> ResourceState]
    BY <1>3, <2>1 DEF Adopt, TypeOK
  <2>3. db' \in [Res -> BoostRecord \cup {NoRow}]
    BY <1>3, DeleteType DEF Adopt
  <2>4. TypeOK'
    BY <1>3, <2>2, <2>3 DEF Adopt, TypeOK
  <2>5. QED BY <1>3, <2>4 DEF Adopt, StepInHand
<1>4. ASSUME NEW r \in Res, StartRevert(r) PROVE TypeInv'
  <2>1. r[1] \in VMs /\ cfg' = ReadConfig(r[1], 0) /\ cfg' \in ContainerConfig
    BY <1>4, ReadConfigType DEF StartRevert, Res
  <2>2. job' \in Job /\ job'.res = r
    BY <1>4 DEF StartRevert, TypeOK, ResourceState, Job
  <2>3. cfg'.vm = r[1] /\ cfg' # NoCfg /\ job' # NoJob
    BY <1>4, <2>1 DEF StartRevert, ReadConfig, NoCfg, NoJob
  <2>4. TypeOK'
    BY <1>4, <2>1, <2>2 DEF StartRevert, TypeOK, PCs
  <2>5. QED BY <1>4, <2>2, <2>3, <2>4 DEF StartRevert, StepInHand
<1>5. ASSUME NEW reply, Restore(reply) PROVE TypeInv'
  <2>1. job.res \in Res /\ alloc' \in [Res -> Nat] /\ pc = "restore"
    BY <1>5, InHand DEF Restore, TypeOK
  <2>2. CASE reply = "ok"
    <3>1. TypeOK'
      BY <1>5, <2>1, <2>2 DEF Restore, TypeOK, PCs
    <3>2. QED BY <1>5, <2>1, <2>2, <3>1 DEF Restore, StepInHand
  <2>3. CASE reply # "ok"
    <3>1. Finish(job.res, "expire")
      BY <1>5, <2>3 DEF Restore
    <3>2. TypeOK'
      BY <1>5, <2>1, <3>1, FinishType DEF Restore, TypeOK, PCs
    <3>3. QED BY <3>1, <3>2 DEF Finish, StepInHand
  <2>4. QED BY <2>2, <2>3
<1>6. ASSUME RestoreFails PROVE TypeInv'
  <2>1. job.res \in Res /\ Finish(job.res, "expire")
    BY <1>6, InHand DEF RestoreFails
  <2>2. TypeOK'
    BY <1>6, <2>1, FinishType DEF RestoreFails, TypeOK, PCs
  <2>3. QED BY <2>1, <2>2 DEF Finish, StepInHand
<1>7. ASSUME NEW reply, Untag(reply) PROVE TypeInv'
  <2>1. cfg.vm \in VMs /\ cfg.tags \ {boostedTag} \in SUBSET Tags
    BY <1>7, InHand DEF Untag
  <2>2. tags' \in [VMs -> SUBSET Tags]
    BY <1>7, <2>1, WriteTagsType DEF Untag
  <2>3. TypeOK'
    BY <1>7, <2>2 DEF Untag, TypeOK, PCs
  <2>4. QED BY <1>7, <2>3 DEF Untag, StepInHand
<1>8. ASSUME NEW reply, Settle(reply) PROVE TypeInv'
  <2>1. job.res \in Res /\ Finish(job.res, "expire")
    BY <1>8, InHand DEF Settle
  <2>2. Cleared(rs[job.res]) \in ResourceState
    BY <2>1, NewStateType DEF Cleared, TypeOK, ResourceState
  <2>3. rs' \in [Res -> ResourceState]
    BY <1>8, <2>1, <2>2 DEF Settle, TypeOK
  <2>4. db' \in [Res -> BoostRecord \cup {NoRow}]
    BY <1>8, <2>1, DeleteType DEF Settle
  <2>5. TypeOK'
    BY <1>8, <2>1, <2>3, <2>4, FinishType DEF Settle, TypeOK, PCs
  <2>6. QED BY <2>1, <2>5 DEF Finish, StepInHand
<1>9. ASSUME EndExpire PROVE TypeInv'
  BY <1>9 DEF EndExpire, TypeOK, StepInHand, PCs
<1>10. QED BY <1>1, <1>2, <1>3, <1>4, <1>5, <1>6, <1>7, <1>8, <1>9

\* Shutdown.
LEMMA TypeStop ==
    ASSUME TypeInv
    PROVE  /\ Signal => TypeInv'
           /\ LoopExit => TypeInv'
           /\ \A r \in Res : \A reply : StopRevert(r, reply) => TypeInv'
           /\ \A reply : Drop(reply) => TypeInv'
           /\ Exit => TypeInv'
<1> USE DEF TypeInv
<1>1. ASSUME Signal PROVE TypeInv'
  BY <1>1 DEF Signal, TypeOK, StepInHand, PCs
<1>2. ASSUME LoopExit PROVE TypeInv'
  BY <1>2 DEF LoopExit, Boosted, TypeOK, StepInHand, PCs
<1>3. ASSUME NEW r \in Res, NEW reply, StopRevert(r, reply) PROVE TypeInv'
  <2>1. rs[r].orig \in Nat /\ rs[r].boosted \in Nat
    BY DEF TypeOK, ResourceState
  <2>2. alloc' \in [Res -> Nat] /\ forgotten' \subseteq Res
    BY <1>3, <2>1 DEF StopRevert, TypeOK
  <2>3. CASE reply = "ok"
    <3>1. job' \in Job /\ job' # NoJob
      BY <1>3, <2>1, <2>3 DEF StopRevert, Job, NoJob
    <3>2. TypeOK'
      BY <1>3, <2>2, <2>3, <3>1 DEF StopRevert, TypeOK, PCs
    <3>3. QED BY <1>3, <2>3, <3>1, <3>2 DEF StopRevert, StepInHand
  <2>4. CASE reply # "ok"
    <3>1. TypeOK'
      BY <1>3, <2>2, <2>4 DEF StopRevert, TypeOK, PCs
    <3>2. QED BY <1>3, <2>4, <3>1 DEF StopRevert, StepInHand
  <2>5. QED BY <2>3, <2>4
<1>4. ASSUME NEW reply, Drop(reply) PROVE TypeInv'
  <2>1. job.res \in Res /\ Finish(job.res, "stop")
    BY <1>4, InHand DEF Drop
  <2>2. rs' \in [Res -> ResourceState]
    <3>1. rs' = [rs EXCEPT ![job.res].phase = "normal"]
      BY <1>4 DEF Drop
    <3>2. \A s \in ResourceState : [s EXCEPT !.phase = "normal"] \in ResourceState
      BY DEF ResourceState
    <3>3. rs \in [Res -> ResourceState]
      BY DEF TypeOK
    <3>4. QED BY <2>1, <3>1, <3>2, <3>3
  <2>3. db' \in [Res -> BoostRecord \cup {NoRow}]
    BY <1>4, <2>1, DeleteType DEF Drop
  <2>4. TypeOK'
    BY <1>4, <2>1, <2>2, <2>3, FinishType DEF Drop, TypeOK, PCs
  <2>5. QED BY <2>1, <2>4 DEF Finish, StepInHand
<1>5. ASSUME Exit PROVE TypeInv'
  <2>1. LoseMemory /\ UNCHANGED <<world, db, held>>
    BY <1>5 DEF Exit
  <2>2. QED BY <2>1, LoseMemoryType DEF LoseMemory, StepInHand
<1>6. QED BY <1>1, <1>2, <1>3, <1>4, <1>5

\* The environment.
LEMMA TypeEnvironment ==
    ASSUME TypeInv
    PROVE  /\ Crash => TypeInv'
           /\ Tick => TypeInv'
           /\ \A r \in Res : \A x \in AdminValues[r[2]] : AdminSet(r, x) => TypeInv'
           /\ \A v \in VMs : AdminRetag(v) => TypeInv'
           /\ \A v \in VMs : AdminPower(v) => TypeInv'
<1> USE DEF TypeInv
<1>1. ASSUME Crash PROVE TypeInv'
  <2>1. LoseMemory /\ UNCHANGED <<world, db, held>>
    BY <1>1 DEF Crash
  <2>2. QED BY <2>1, LoseMemoryType DEF LoseMemory, StepInHand
<1>2. ASSUME Tick PROVE TypeInv'
  <2>1. \A n \in Ages : Count(n, BoostDuration) \in Ages
    BY CountType, MonitorAssumption DEF Ages
  <2>2. held' \in [Res -> Ages]
    BY <1>2, <2>1 DEF Tick, TypeOK
  <2>3. rs' \in [Res -> ResourceState]
    <3>1. rs' = [r \in Res |-> IF rs[r].phase = "boosted"
                               THEN [rs[r] EXCEPT !.age = Count(@, BoostDuration)]
                               ELSE rs[r]]
      BY <1>2 DEF Tick
    <3>2. \A s \in ResourceState :
             [s EXCEPT !.age = Count(@, BoostDuration)] \in ResourceState
      BY <2>1 DEF ResourceState
    <3>3. rs \in [Res -> ResourceState]
      BY DEF TypeOK
    <3>4. QED BY <3>1, <3>2, <3>3
  <2>4. \A r \in Res : db[r] # NoRow =>
           [db[r] EXCEPT !.age = Count(@, BoostDuration)] \in BoostRecord
    BY <2>1 DEF TypeOK, BoostRecord
  <2>5. db' \in [Res -> BoostRecord \cup {NoRow}]
    BY <1>2, <2>4 DEF Tick
  <2>6. TypeOK'
    BY <1>2, <2>2, <2>3, <2>5 DEF Tick, TypeOK
  <2>7. \A r \in Res : db[r] # NoRow => db'[r] # NoRow
    <3>1. \A row \in BoostRecord : row # NoRow
      BY DEF BoostRecord, NoRow
    <3>2. QED BY <1>2, <2>4, <3>1 DEF Tick
  <2>8. QED BY <1>2, <2>6, <2>7 DEF Tick, TypeOK, StepInHand
<1>3. ASSUME NEW r \in Res, NEW x \in AdminValues[r[2]], AdminSet(r, x)
      PROVE  TypeInv'
  <2>1. x \in Nat
    BY EnvironmentAssumption DEF Res
  <2>2. alloc' \in [Res -> Nat] /\ base' \in [Res -> Nat]
    BY <1>3, <2>1 DEF AdminSet, TypeOK
  <2>3. edited' \subseteq Res /\ forgotten' \subseteq Res
    BY <1>3 DEF AdminSet, TypeOK
  <2>4. TypeOK'
    BY <1>3, <2>2, <2>3 DEF AdminSet, TypeOK
  <2>5. QED BY <1>3, <2>4 DEF AdminSet, StepInHand
<1>4. ASSUME NEW v \in VMs, AdminRetag(v) PROVE TypeInv'
  <2>1. tags' \in [VMs -> SUBSET Tags]
    BY <1>4 DEF AdminRetag, TypeOK, Tags
  <2>2. TypeOK'
    BY <1>4, <2>1 DEF AdminRetag, TypeOK
  <2>3. QED BY <1>4, <2>2 DEF AdminRetag, StepInHand
<1>5. ASSUME NEW v \in VMs, AdminPower(v) PROVE TypeInv'
  BY <1>5 DEF AdminPower, TypeOK, StepInHand
<1>6. QED BY <1>1, <1>2, <1>3, <1>4, <1>5

LEMMA TypeStep == TypeInv /\ [Next]_vars => TypeInv'
<1>1. SUFFICES ASSUME TypeInv, [Next]_vars PROVE TypeInv'
  OBVIOUS
<1>2. todo \subseteq Res /\ \A r \in Res : r[1] \in VMs
  BY <1>1 DEF TypeInv, TypeOK, Res
<1>3. CASE Service
  BY <1>1, <1>2, <1>3, TypeSample, TypeBoost, TypeRevert, TypeStop
     DEF Service, Steps
<1>4. CASE Tick \/ Environment
  BY <1>1, <1>4, TypeStop, TypeEnvironment DEF Environment
<1>5. CASE UNCHANGED vars
  BY <1>1, <1>5 DEF vars, TypeInv, TypeOK, StepInHand
<1>6. QED BY <1>1, <1>3, <1>4, <1>5 DEF Next

\* Every variable keeps its type, for any containers, thresholds, durations
\* and administrator, and whichever calls fail: the counters stay within
\* their limits, and no step uses a configuration or a boost it has not got.
THEOREM TypeCorrect == Spec => []TypeOK
<1>1. TypeInv => TypeOK
  BY DEF TypeInv
<1>2. QED BY TypeInit, TypeStep, <1>1, PTL DEF Spec
-------------------------------------------------------------------------------
(* Control: phases, positive amounts, rows that match *)

Control == PhasesMatch /\ Positive /\ PersistedMatchesMemory

LEMMA ControlInit == Init => Control
BY MonitorAssumption DEF Init, Control, PhasesMatch, Positive,
   PersistedMatchesMemory, Boosted, NewState

LEMMA ControlLose ==
    ASSUME TypeInv, Control, LoseMemory, UNCHANGED db
    PROVE  Control'
BY DEF TypeInv, TypeOK, LoseMemory, NewState, Control, PhasesMatch, Positive,
       PersistedMatchesMemory, Boosted

\* Neither the records nor the phases change.
LEMMA ControlSame ==
    ASSUME TypeInv, Control, UNCHANGED <<db, rs>>, unsaved \subseteq unsaved'
    PROVE  /\ Boosted' = Boosted /\ PersistedMatchesMemory'
           /\ \A r \in Res : rs'[r].phase = "boosted" => rs'[r].boosted > 0
           /\ \A r \in Res : db'[r] # NoRow => db'[r].boosted > 0
BY DEF Control, Positive, PersistedMatchesMemory, Boosted

LEMMA ControlSample ==
    ASSUME TypeInv, Control
    PROVE  /\ \A reply : Start(reply) => Control'
           /\ \A r \in Res : Resume(r) => Control'
           /\ \A r \in Res : \A reply : Discard(r, reply) => Control'
           /\ \A r \in Res : PassOver(r) => Control'
           /\ StartLoop => Control'
           /\ \A load \in NodeLoads : Poll(load) => Control'
           /\ \A v \in VMs : ReadStatus(v) => Control'
           /\ \A v \in VMs : StatusFails(v) => Control'
           /\ Sample => Control'
           /\ ConfigFails => Control'
           /\ \A r \in Res : SkipSample(r) => Control'
           /\ \A r \in Res : \A usage : ObserveBoosted(r, usage) => Control'
           /\ \A r \in Res : \A usage : CountSample(r, usage) => Control'
           /\ \A r \in Res : \A usage : StartBoost(r, usage) => Control'
<1> USE DEF Control
<1>1. ASSUME NEW reply, Start(reply) PROVE Control'
  BY <1>1, ControlSame DEF Start, PhasesMatch, Positive
<1>2. ASSUME NEW r \in Res, Resume(r) PROVE Control'
  <2>1. /\ rs'[r].phase = "boosted" /\ rs'[r].boosted = db[r].boosted
        /\ rs'[r].orig = db[r].orig /\ db[r] # NoRow
        /\ \A q \in Res \ {r} : rs'[q] = rs[q]
    BY <1>2 DEF TypeInv, TypeOK, StepInHand, Resume, ResourceState
  <2>2. Boosted' = Boosted \cup {r}
    BY <2>1 DEF Boosted
  <2>3. PersistedMatchesMemory'
    BY <1>2, <2>1, <2>2 DEF Resume, PersistedMatchesMemory
  <2>4. QED BY <1>2, <2>1, <2>2, <2>3 DEF Resume, PhasesMatch, Positive
<1>3. ASSUME NEW r \in Res, NEW reply, Discard(r, reply) PROVE Control'
  <2>1. \A q \in Res : db'[q] = db[q] \/ (q = r /\ db'[q] = NoRow)
    BY <1>3 DEF TypeInv, TypeOK, Discard, Delete
  <2>2. r \notin Boosted /\ Boosted' = Boosted
    BY <1>3 DEF Discard, PhasesMatch, Boosted
  <2>3. PersistedMatchesMemory'
    BY <1>3, <2>1, <2>2 DEF Discard, PersistedMatchesMemory, Boosted
  <2>4. QED BY <1>3, <2>1, <2>2, <2>3 DEF Discard, PhasesMatch, Positive
<1>4. ASSUME NEW r \in Res, PassOver(r) PROVE Control'
  BY <1>4, ControlSame DEF PassOver, PhasesMatch, Positive
<1>5. ASSUME StartLoop PROVE Control'
  BY <1>5, ControlSame DEF StartLoop, PhasesMatch, Positive
<1>6. ASSUME NEW load \in NodeLoads, Poll(load) PROVE Control'
  BY <1>6, ControlSame DEF Poll, PhasesMatch, Positive
<1>7. ASSUME NEW v \in VMs, ReadStatus(v) PROVE Control'
  BY <1>7, ControlSame DEF ReadStatus, PhasesMatch, Positive
<1>8. ASSUME NEW v \in VMs, StatusFails(v) PROVE Control'
  BY <1>8, ControlSame DEF StatusFails, PhasesMatch, Positive
<1>9. ASSUME NEW r \in Res, SkipSample(r) PROVE Control'
  BY <1>9, ControlSame DEF SkipSample, Finish, PhasesMatch, Positive
<1>10. ASSUME NEW r \in Res, NEW usage, ObserveBoosted(r, usage) PROVE Control'
  <2>1. \A q \in Res : /\ rs'[q].phase = rs[q].phase /\ rs'[q].orig = rs[q].orig
                       /\ rs'[q].boosted = rs[q].boosted
    BY <1>10 DEF TypeInv, TypeOK, ObserveBoosted, ResourceState
  <2>2. Boosted' = Boosted
    BY <2>1 DEF Boosted
  <2>3. PersistedMatchesMemory'
    BY <1>10, <2>1, <2>2 DEF ObserveBoosted, PersistedMatchesMemory, Boosted
  <2>4. QED BY <1>10, <2>1, <2>3 DEF ObserveBoosted, Finish, PhasesMatch, Positive
<1>11. ASSUME NEW r \in Res, NEW usage, CountSample(r, usage) PROVE Control'
  <2>1. \A q \in Res : /\ rs'[q].phase = rs[q].phase /\ rs'[q].orig = rs[q].orig
                       /\ rs'[q].boosted = rs[q].boosted
    BY <1>11 DEF TypeInv, TypeOK, CountSample, ResourceState
  <2>2. Boosted' = Boosted
    BY <2>1 DEF Boosted
  <2>3. PersistedMatchesMemory'
    BY <1>11, <2>1, <2>2 DEF CountSample, PersistedMatchesMemory, Boosted
  <2>4. QED BY <1>11, <2>1, <2>3 DEF CountSample, Finish, PhasesMatch, Positive
<1>12. ASSUME NEW r \in Res, NEW usage, StartBoost(r, usage) PROVE Control'
  <2>1. \A q \in Res : /\ rs'[q].phase = rs[q].phase /\ rs'[q].orig = rs[q].orig
                       /\ rs'[q].boosted = rs[q].boosted
    BY <1>12 DEF TypeInv, TypeOK, StartBoost, ResourceState
  <2>2. Boosted' = Boosted /\ r \notin Boosted
    BY <1>12, <2>1 DEF Boosted, StartBoost
  <2>3. PersistedMatchesMemory'
    BY <1>12, <2>1, <2>2 DEF StartBoost, PersistedMatchesMemory, Boosted
  <2>4. job'.res = r /\ job'.to > 0
    <3>1. PICK value \in Outcomes(r) \ {NoBoost} :
             job' = [res |-> r, from |-> Current(r), to |-> value]
      BY <1>12 DEF StartBoost
    <3>2. cfg # NoCfg /\ cfg \in ContainerConfig
      BY <1>12 DEF StartBoost, Evaluating, TypeInv, TypeOK
    <3>3. Current(r) \in Nat /\ Current(r) > 0
      BY <1>12, <3>2, MeasuredType DEF StartBoost, Measurable, Current
    <3>4. QED BY <3>1, <3>3, BoostValue DEF Outcomes
  <2>5. QED BY <1>12, <2>1, <2>2, <2>3, <2>4 DEF StartBoost, PhasesMatch, Positive
<1>13. ASSUME Sample PROVE Control'
  BY <1>13, ControlSame DEF Sample, PhasesMatch, Positive
<1>14. ASSUME ConfigFails PROVE Control'
  BY <1>14, ControlSame DEF ConfigFails, PhasesMatch, Positive
<1>15. QED BY <1>1, <1>2, <1>3, <1>4, <1>5, <1>6, <1>7, <1>8, <1>9, <1>10,
              <1>11, <1>12, <1>13, <1>14

LEMMA ControlBoost ==
    ASSUME TypeInv, Control
    PROVE  /\ \A reply : Apply(reply) => Control'
           /\ ApplyFails => Control'
           /\ \A reply, gained : Save(reply, gained) => Control'
           /\ \A reply : Tag(reply) => Control'
<1> USE DEF Control
<1>1. ASSUME NEW reply, Apply(reply) PROVE Control'
  <2> DEFINE r == job.res
  <2>1. r \in Res /\ pc = "apply" /\ job.to > 0
    BY <1>1, InHand DEF Apply, Positive, TypeInv
  <2>2. CASE reply = "ok"
    <3>1. /\ rs'[r].phase = "boosted" /\ rs'[r].boosted = job.to
          /\ \A q \in Res \ {r} : rs'[q] = rs[q]
      <4>1. rs' = [rs EXCEPT ![r] = [NewState EXCEPT !.phase = "boosted",
                                                     !.orig = job.from,
                                                     !.boosted = job.to]]
        BY <1>1, <2>2 DEF Apply
      <4>2. [NewState EXCEPT !.phase = "boosted", !.orig = job.from,
                             !.boosted = job.to].boosted = job.to
        BY DEF NewState
      <4>3. [NewState EXCEPT !.phase = "boosted", !.orig = job.from,
                             !.boosted = job.to].phase = "boosted"
        BY DEF NewState
      <4>4. QED BY <2>1, <4>1, <4>2, <4>3 DEF TypeInv, TypeOK
    <3>2. Boosted' = Boosted \cup {r}
      BY <2>1, <3>1 DEF Boosted
    <3>3. PersistedMatchesMemory'
      <4>1. db' = db /\ unsaved' = unsaved \cup {r}
        BY <1>1, <2>2 DEF Apply
      <4>2. QED BY <3>1, <3>2, <4>1 DEF PersistedMatchesMemory, Boosted
    <3>4. QED BY <1>1, <2>1, <2>2, <3>1, <3>2, <3>3
                 DEF Apply, PhasesMatch, Positive
  <2>3. CASE reply # "ok"
    BY <1>1, <2>1, <2>3, ControlSame DEF Apply, Finish, PhasesMatch, Positive
  <2>4. QED BY <2>2, <2>3
<1>2. ASSUME ApplyFails PROVE Control'
  BY <1>2, ControlSame DEF ApplyFails, Finish, PhasesMatch, Positive
<1>3. ASSUME NEW reply, NEW gained, Save(reply, gained) PROVE Control'
  <2> DEFINE r == job.res
  <2>1. r \in Res /\ pc = "save" /\ pc' = "tag" /\ UNCHANGED <<rs, todo, cfg, job>>
    BY <1>3, InHand DEF Save, TypeInv
  <2>2. r \in Boosted /\ Boosted' = Boosted /\ rs[r].boosted > 0
    BY <2>1 DEF PhasesMatch, Positive, Boosted
  <2>3. CASE reply = "ok"
    <3>1. /\ db'[r].orig = rs[r].orig /\ db'[r].boosted = rs[r].boosted
          /\ db'[r] # NoRow
          /\ \A q \in Res \ {r} : db'[q] = db[q]
          /\ unsaved' = unsaved \ {r}
      BY <1>3, <2>1, <2>3 DEF Save, TypeInv, TypeOK, NoRow
    <3>2. PersistedMatchesMemory'
      BY <2>1, <2>2, <3>1 DEF PersistedMatchesMemory, Boosted
    <3>3. QED BY <2>1, <2>2, <3>1, <3>2 DEF PhasesMatch, Positive
  <2>4. CASE reply # "ok"
    BY <1>3, <2>1, <2>4, ControlSame DEF Save, PhasesMatch, Positive
  <2>5. QED BY <2>3, <2>4
<1>4. ASSUME NEW reply, Tag(reply) PROVE Control'
  BY <1>4, ControlSame DEF Tag, Finish, PhasesMatch, Positive
<1>5. QED BY <1>1, <1>2, <1>3, <1>4

\* A boost ends: its row may or may not go with it.
LEMMA ControlEnd ==
    ASSUME TypeInv, Control, NEW r \in Res, NEW reply, Delete(r, reply),
           rs' \in [Res -> ResourceState], rs'[r].phase = "normal",
           \A q \in Res \ {r} : rs'[q] = rs[q],
           unsaved' = unsaved \ {r}
    PROVE  /\ Boosted' = Boosted \ {r} /\ PersistedMatchesMemory'
           /\ \A q \in Res : rs'[q].phase = "boosted" => rs'[q].boosted > 0
           /\ \A q \in Res : db'[q] # NoRow => db'[q].boosted > 0
<1>1. Boosted' = Boosted \ {r}
  BY DEF Boosted
<1>2. \A q \in Res : db'[q] = db[q] \/ (q = r /\ db'[q] = NoRow)
  BY DEF TypeInv, TypeOK, Delete
<1>3. PersistedMatchesMemory'
  BY <1>1, <1>2 DEF Control, PersistedMatchesMemory, Boosted
<1>4. QED BY <1>1, <1>2, <1>3 DEF Control, Positive

LEMMA ControlRevert ==
    ASSUME TypeInv, TypeInv', Control
    PROVE  /\ BeginExpire => Control'
           /\ \A r \in Res : RevertUnread(r) => Control'
           /\ \A r \in Res : \A reply : Adopt(r, reply) => Control'
           /\ \A r \in Res : StartRevert(r) => Control'
           /\ \A reply : Restore(reply) => Control'
           /\ RestoreFails => Control'
           /\ \A reply : Untag(reply) => Control'
           /\ \A reply : Settle(reply) => Control'
           /\ EndExpire => Control'
<1> USE DEF Control
<1>1. ASSUME BeginExpire PROVE Control'
  BY <1>1, ControlSame DEF BeginExpire, PhasesMatch, Positive
<1>2. ASSUME NEW r \in Res, RevertUnread(r) PROVE Control'
  BY <1>2, ControlSame DEF RevertUnread, PhasesMatch, Positive
<1>3. ASSUME NEW r \in Res, NEW reply, Adopt(r, reply) PROVE Control'
  <2>1. /\ rs' \in [Res -> ResourceState] /\ rs'[r].phase = "normal"
        /\ \A q \in Res \ {r} : rs'[q] = rs[q]
        /\ unsaved' = unsaved \ {r} /\ Delete(r, reply)
    BY <1>3 DEF Adopt, Cleared, NewState, TypeInv, TypeOK
  <2>2. QED BY <1>3, <2>1, ControlEnd DEF Adopt, PhasesMatch, Positive
<1>4. ASSUME NEW r \in Res, StartRevert(r) PROVE Control'
  BY <1>4, ControlSame DEF StartRevert, PhasesMatch, Positive
<1>5. ASSUME NEW reply, Restore(reply) PROVE Control'
  BY <1>5, ControlSame DEF Restore, Finish, PhasesMatch, Positive
<1>6. ASSUME RestoreFails PROVE Control'
  BY <1>6, ControlSame DEF RestoreFails, Finish, PhasesMatch, Positive
<1>7. ASSUME NEW reply, Untag(reply) PROVE Control'
  BY <1>7, ControlSame DEF Untag, PhasesMatch, Positive
<1>8. ASSUME NEW reply, Settle(reply) PROVE Control'
  <2> DEFINE r == job.res
  <2>1. /\ r \in Res
        /\ rs' \in [Res -> ResourceState] /\ rs'[r].phase = "normal"
        /\ \A q \in Res \ {r} : rs'[q] = rs[q]
        /\ unsaved' = unsaved \ {r} /\ Delete(r, reply)
    BY <1>8, InHand DEF Settle, Cleared, NewState, TypeInv, TypeOK
  <2>2. QED BY <1>8, <2>1, ControlEnd DEF Settle, Finish, PhasesMatch, Positive
<1>9. ASSUME EndExpire PROVE Control'
  BY <1>9, ControlSame DEF EndExpire, PhasesMatch, Positive
<1>10. QED BY <1>1, <1>2, <1>3, <1>4, <1>5, <1>6, <1>7, <1>8, <1>9

LEMMA ControlStop ==
    ASSUME TypeInv, TypeInv', Control
    PROVE  /\ Signal => Control'
           /\ LoopExit => Control'
           /\ \A r \in Res : \A reply : StopRevert(r, reply) => Control'
           /\ \A reply : Drop(reply) => Control'
           /\ Exit => Control'
<1> USE DEF Control
<1>1. ASSUME Signal PROVE Control'
  BY <1>1, ControlSame DEF Signal, PhasesMatch, Positive
<1>2. ASSUME LoopExit PROVE Control'
  BY <1>2, ControlSame DEF LoopExit, PhasesMatch, Positive
<1>3. ASSUME NEW r \in Res, NEW reply, StopRevert(r, reply) PROVE Control'
  BY <1>3, ControlSame DEF StopRevert, PhasesMatch, Positive
<1>4. ASSUME NEW reply, Drop(reply) PROVE Control'
  <2> DEFINE r == job.res
  <2>1. /\ r \in Res
        /\ rs' \in [Res -> ResourceState] /\ rs'[r].phase = "normal"
        /\ \A q \in Res \ {r} : rs'[q] = rs[q]
        /\ unsaved' = unsaved \ {r} /\ Delete(r, reply)
    BY <1>4, InHand DEF Drop, TypeInv, TypeOK, ResourceState
  <2>2. QED BY <1>4, <2>1, ControlEnd DEF Drop, Finish, PhasesMatch, Positive
<1>5. ASSUME Exit PROVE Control'
  BY <1>5, ControlLose DEF Exit
<1>6. QED BY <1>1, <1>2, <1>3, <1>4, <1>5

LEMMA ControlEnvironment ==
    ASSUME TypeInv, TypeInv', Control
    PROVE  /\ Crash => Control'
           /\ Tick => Control'
           /\ \A r \in Res : \A x : AdminSet(r, x) => Control'
           /\ \A v \in VMs : AdminRetag(v) => Control'
           /\ \A v \in VMs : AdminPower(v) => Control'
<1> USE DEF Control
<1>1. ASSUME Crash PROVE Control'
  BY <1>1, ControlLose DEF Crash
<1>2. ASSUME Tick PROVE Control'
  <2>1. \A q \in Res : /\ rs'[q].phase = rs[q].phase /\ rs'[q].orig = rs[q].orig
                       /\ rs'[q].boosted = rs[q].boosted
    BY <1>2 DEF Tick, TypeInv, TypeOK, ResourceState
  <2>2. \A q \in Res : /\ db'[q] = NoRow <=> db[q] = NoRow
                       /\ db[q] # NoRow => /\ db'[q].orig = db[q].orig
                                           /\ db'[q].boosted = db[q].boosted
    <3>1. ASSUME NEW q \in Res, db[q] # NoRow
          PROVE  /\ db'[q] # NoRow /\ db'[q].orig = db[q].orig
                 /\ db'[q].boosted = db[q].boosted
      <4>1. db[q] \in BoostRecord
        BY <3>1 DEF TypeInv, TypeOK
      <4>2. db'[q] = [db[q] EXCEPT !.age = Count(@, BoostDuration)]
        BY <1>2, <3>1 DEF Tick
      <4>3. QED BY <4>1, <4>2 DEF BoostRecord, NoRow
    <3>2. QED BY <1>2, <3>1 DEF Tick
  <2>3. Boosted' = Boosted
    BY <2>1 DEF Boosted
  <2>4. PersistedMatchesMemory'
    BY <1>2, <2>1, <2>2, <2>3 DEF Tick, PersistedMatchesMemory, Boosted
  <2>5. QED BY <1>2, <2>1, <2>2, <2>3, <2>4 DEF Tick, PhasesMatch, Positive
<1>3. ASSUME NEW r \in Res, NEW x, AdminSet(r, x) PROVE Control'
  BY <1>3, ControlSame DEF AdminSet, PhasesMatch, Positive
<1>4. ASSUME NEW v \in VMs, AdminRetag(v) PROVE Control'
  BY <1>4, ControlSame DEF AdminRetag, PhasesMatch, Positive
<1>5. ASSUME NEW v \in VMs, AdminPower(v) PROVE Control'
  BY <1>5, ControlSame DEF AdminPower, PhasesMatch, Positive
<1>6. QED BY <1>1, <1>2, <1>3, <1>4, <1>5

LEMMA ControlStep == TypeInv /\ Control /\ [Next]_vars => Control'
<1>1. SUFFICES ASSUME TypeInv, Control, [Next]_vars PROVE Control'
  OBVIOUS
<1>2. todo \subseteq Res /\ \A r \in Res : r[1] \in VMs
  BY <1>1 DEF TypeInv, TypeOK, Res
<1>3. TypeInv'
  BY <1>1, TypeStep
<1>4. CASE Service
  BY <1>1, <1>2, <1>3, <1>4, ControlSample, ControlBoost, ControlRevert,
     ControlStop DEF Service, Steps
<1>5. CASE Tick \/ Environment
  BY <1>1, <1>3, <1>5, ControlStop, ControlEnvironment DEF Environment
<1>6. CASE UNCHANGED vars
  BY <1>1, <1>6 DEF vars, Control, PhasesMatch, Positive,
                   PersistedMatchesMemory, Boosted
<1>7. QED BY <1>1, <1>4, <1>5, <1>6 DEF Next
-------------------------------------------------------------------------------
(* The baseline is kept *)

\* The two promises about one resource.
Kept(q) == Settled(q) \/ MemoryKnows(q) \/ RowKnows(q)

Sure(q) ==
    /\ rs[q].phase = "boosted" /\ rs[q].boosted = Effective(q, base[q])
         => rs[q].orig = Effective(q, base[q])
    /\ db[q] # NoRow /\ db[q].boosted = Effective(q, base[q])
         => db[q].orig = Effective(q, base[q])

Keep == \A q \in Res \ forgotten : Kept(q) /\ Sure(q)

SameState(q) == /\ rs'[q].phase = rs[q].phase
                /\ rs'[q].orig = rs[q].orig
                /\ rs'[q].boosted = rs[q].boosted

SameRow(q) == db'[q] # NoRow => /\ db[q] # NoRow
                                /\ db'[q].orig = db[q].orig
                                /\ db'[q].boosted = db[q].boosted

LEMMA KeepParts == Keep <=> Unambiguous /\ BaselineKept
BY DEF Keep, Kept, Sure, Unambiguous, BaselineKept

LEMMA EffectiveTwice ==
    ASSUME NEW r, NEW x \in Nat
    PROVE  Effective(r, Effective(r, x)) = Effective(r, x)
BY DEF Effective

\* A step that leaves the resource alone, or ends a boost that is undone.
LEMMA KeepOne ==
    ASSUME NEW q \in Res, Kept(q), Sure(q),
           alloc'[q] = alloc[q], base'[q] = base[q],
           rs'[q].phase = "boosted" => SameState(q), SameRow(q),
           MemoryKnows(q) \/ RowKnows(q)
             => Settled(q) \/ MemoryKnows(q)' \/ RowKnows(q)'
    PROVE  Kept(q)' /\ Sure(q)'
<1>1. Kept(q)'
  BY DEF Kept, Settled
<1>2. Sure(q)'
  BY DEF Sure, SameState, SameRow
<1>3. QED BY <1>1, <1>2

\* While the process runs its loops, only the records matter.
LEMMA KeepOneRunning ==
    ASSUME NEW q \in Res, Kept(q), Sure(q), pc \notin {"down", "boot"},
           alloc'[q] = alloc[q], base'[q] = base[q],
           SameState(q), SameRow(q)
    PROVE  Kept(q)' /\ Sure(q)'
<1>1. ~RowKnows(q)
  BY DEF RowKnows
<1>2. MemoryKnows(q) => MemoryKnows(q)'
  BY DEF MemoryKnows, SameState
<1>3. QED BY <1>1, <1>2, KeepOne DEF SameState

LEMMA KeepSame ==
    ASSUME Keep, pc \notin {"down", "boot"}, UNCHANGED <<alloc, base, db>>,
           forgotten \subseteq forgotten', \A q \in Res : SameState(q)
    PROVE  Keep'
<1>1. ASSUME NEW q \in Res \ forgotten' PROVE Kept(q)' /\ Sure(q)'
  BY KeepOneRunning DEF Keep, SameRow
<1>2. QED BY <1>1 DEF Keep

\* A boost that is in force and known leads back to the baseline.
LEMMA KnownBoost ==
    ASSUME TypeInv, Control, Keep, NEW r \in Res \ forgotten,
           rs[r].phase = "boosted", alloc[r] = rs[r].boosted
    PROVE  rs[r].orig = Effective(r, base[r])
<1>1. ~RowKnows(r)
  BY DEF RowKnows, Control, PhasesMatch, Boosted
<1>2. rs[r].boosted > 0
  BY DEF Control, Positive
<1>3. CASE Settled(r)
  <2>1. Effective(r, alloc[r]) = alloc[r]
    BY <1>2 DEF Effective
  <2>2. QED BY <1>3, <2>1 DEF Settled, Keep, Sure
<1>4. CASE MemoryKnows(r)
  BY <1>4 DEF MemoryKnows
<1>5. QED BY <1>1, <1>3, <1>4 DEF Keep, Kept

\* So does the row of one that start-up finds in force.
LEMMA KnownRow ==
    ASSUME TypeInv, Control, Keep, NEW r \in Res \ forgotten,
           pc = "boot", r \in todo, alloc[r] = db[r].boosted
    PROVE  db[r].orig = Effective(r, base[r])
<1>1. ~MemoryKnows(r)
  BY DEF MemoryKnows, Control, PhasesMatch, Boosted
<1>2. db[r] # NoRow /\ db[r].boosted > 0
  BY DEF Control, Positive, TypeInv, StepInHand
<1>3. CASE Settled(r)
  <2>1. Effective(r, alloc[r]) = alloc[r]
    BY <1>2 DEF Effective
  <2>2. QED BY <1>2, <1>3, <2>1 DEF Settled, Keep, Sure
<1>4. CASE RowKnows(r)
  BY <1>4 DEF RowKnows
<1>5. QED BY <1>1, <1>3, <1>4 DEF Keep, Kept

LEMMA KeepLose ==
    ASSUME TypeInv, Control, Keep, LoseMemory, UNCHANGED <<world, db>>
    PROVE  Keep'
<1>1. ASSUME NEW q \in Res \ forgotten' PROVE Kept(q)' /\ Sure(q)'
  <2>1. q \notin forgotten /\ rs'[q].phase # "boosted" /\ pc' = "down"
    BY DEF LoseMemory, NewState
  <2>2. ASSUME MemoryKnows(q) PROVE RowKnows(q)'
    <3>1. q \notin unsaved /\ q \in Boosted
      BY <2>2 DEF LoseMemory, MemoryKnows, Boosted
    <3>2. QED BY <2>1, <2>2, <3>1
              DEF Control, PersistedMatchesMemory, MemoryKnows, RowKnows
  <2>3. RowKnows(q) => RowKnows(q)'
    BY <2>1 DEF RowKnows
  <2>4. SameRow(q)
    BY DEF SameRow
  <2>5. QED BY <2>1, <2>2, <2>3, <2>4, KeepOne DEF Keep
<1>2. QED BY <1>1 DEF Keep

LEMMA KeepSample ==
    ASSUME TypeInv, Control, Keep
    PROVE  /\ \A reply : Start(reply) => Keep'
           /\ \A r \in Res : Resume(r) => Keep'
           /\ \A r \in Res : \A reply : Discard(r, reply) => Keep'
           /\ \A r \in Res : PassOver(r) => Keep'
           /\ StartLoop => Keep'
           /\ \A load \in NodeLoads : Poll(load) => Keep'
           /\ \A v \in VMs : ReadStatus(v) => Keep'
           /\ \A v \in VMs : StatusFails(v) => Keep'
           /\ Sample => Keep'
           /\ ConfigFails => Keep'
           /\ \A r \in Res : SkipSample(r) => Keep'
           /\ \A r \in Res : \A usage : ObserveBoosted(r, usage) => Keep'
           /\ \A r \in Res : \A usage : CountSample(r, usage) => Keep'
           /\ \A r \in Res : \A usage : StartBoost(r, usage) => Keep'
<1>1. ASSUME NEW reply, Start(reply) PROVE Keep'
  <2>1. ASSUME NEW q \in Res \ forgotten' PROVE Kept(q)' /\ Sure(q)'
    <3>1. q \notin forgotten /\ UNCHANGED <<alloc, base, db, rs>>
      BY <1>1 DEF Start
    <3>2. MemoryKnows(q) => MemoryKnows(q)'
      BY <3>1 DEF MemoryKnows
    <3>3. RowKnows(q) => RowKnows(q)'
      BY <1>1, <3>1 DEF Start, RowKnows
    <3>4. QED BY <3>1, <3>2, <3>3, KeepOne DEF Keep, SameState, SameRow
  <2>2. QED BY <2>1 DEF Keep
<1>2. ASSUME NEW r \in Res, Resume(r) PROVE Keep'
  <2>1. /\ rs'[r].phase = "boosted" /\ rs'[r].boosted = db[r].boosted
        /\ rs'[r].orig = db[r].orig
        /\ \A q \in Res \ {r} : rs'[q] = rs[q]
    BY <1>2 DEF TypeInv, TypeOK, Resume, ResourceState
  <2>2. pc = "boot" /\ r \in todo /\ alloc[r] = db[r].boosted
        /\ UNCHANGED <<alloc, base, db, pc, forgotten>> /\ todo' = todo \ {r}
    BY <1>2 DEF Resume
  <2>3. ASSUME NEW q \in Res \ forgotten' PROVE Kept(q)' /\ Sure(q)'
    <3>1. q \in Res \ forgotten
      BY <2>2
    <3>2. CASE q = r
      <4>1. db[r].orig = Effective(r, base[r])
        BY <2>2, <3>1, <3>2, KnownRow
      <4>2. MemoryKnows(q)'
        BY <2>1, <2>2, <3>2, <4>1 DEF MemoryKnows
      <4>3. Sure(q)'
        BY <2>1, <2>2, <3>2, <4>1 DEF Sure
      <4>4. QED BY <4>2, <4>3 DEF Kept
    <3>3. CASE q # r
      <4>1. SameState(q) /\ SameRow(q)
        BY <2>1, <2>2, <3>3 DEF SameState, SameRow
      <4>2. MemoryKnows(q) => MemoryKnows(q)'
        BY <2>2, <4>1 DEF MemoryKnows, SameState
      <4>3. RowKnows(q) => RowKnows(q)'
        BY <2>2, <3>3 DEF RowKnows
      <4>4. QED BY <2>2, <3>1, <4>1, <4>2, <4>3, KeepOne DEF Keep
    <3>4. QED BY <3>2, <3>3
  <2>4. QED BY <2>3 DEF Keep
<1>3. ASSUME NEW r \in Res, NEW reply, Discard(r, reply) PROVE Keep'
  <2>1. pc = "boot" /\ alloc[r] # db[r].boosted
        /\ UNCHANGED <<alloc, base, rs, pc, forgotten>> /\ todo' = todo \ {r}
    BY <1>3 DEF Discard
  <2>2. \A q \in Res : db'[q] = db[q] \/ (q = r /\ db'[q] = NoRow)
    BY <1>3 DEF TypeInv, TypeOK, Discard, Delete
  <2>3. ASSUME NEW q \in Res \ forgotten' PROVE Kept(q)' /\ Sure(q)'
    <3>1. SameState(q) /\ SameRow(q)
      BY <2>1, <2>2 DEF SameState, SameRow
    <3>2. MemoryKnows(q) => MemoryKnows(q)'
      BY <2>1 DEF MemoryKnows
    <3>3. RowKnows(q) => RowKnows(q)'
      BY <2>1, <2>2 DEF RowKnows
    <3>4. QED BY <2>1, <3>1, <3>2, <3>3, KeepOne DEF Keep
  <2>4. QED BY <2>3 DEF Keep
<1>4. ASSUME NEW r \in Res, PassOver(r) PROVE Keep'
  <2>1. pc = "boot" /\ UNCHANGED <<alloc, base, db, rs, pc>> /\ todo' = todo \ {r}
        /\ forgotten \subseteq forgotten'
        /\ (alloc[r] = db[r].boosted => r \in forgotten')
    BY <1>4 DEF PassOver
  <2>2. ASSUME NEW q \in Res \ forgotten' PROVE Kept(q)' /\ Sure(q)'
    <3>1. q \notin forgotten /\ SameState(q) /\ SameRow(q)
      BY <2>1 DEF SameState, SameRow
    <3>2. MemoryKnows(q) => MemoryKnows(q)'
      BY <2>1 DEF MemoryKnows
    <3>3. RowKnows(q) => RowKnows(q)'
      BY <2>1 DEF RowKnows
    <3>4. QED BY <2>1, <3>1, <3>2, <3>3, KeepOne DEF Keep
  <2>3. QED BY <2>2 DEF Keep
<1>5. ASSUME StartLoop PROVE Keep'
  <2>1. ASSUME NEW q \in Res \ forgotten' PROVE Kept(q)' /\ Sure(q)'
    <3>1. q \notin forgotten /\ UNCHANGED <<alloc, base, db, rs>> /\ ~RowKnows(q)
      BY <1>5 DEF StartLoop, RowKnows
    <3>2. MemoryKnows(q) => MemoryKnows(q)'
      BY <3>1 DEF MemoryKnows
    <3>3. QED BY <3>1, <3>2, KeepOne DEF Keep, SameState, SameRow
  <2>2. QED BY <2>1 DEF Keep
<1>6. ASSUME NEW load \in NodeLoads, Poll(load) PROVE Keep'
  BY <1>6, KeepSame DEF Poll, SameState
<1>7. ASSUME NEW v \in VMs, ReadStatus(v) PROVE Keep'
  BY <1>7, KeepSame DEF ReadStatus, SameState
<1>8. ASSUME NEW v \in VMs, StatusFails(v) PROVE Keep'
  BY <1>8, KeepSame DEF StatusFails, SameState
<1>9. ASSUME NEW r \in Res, SkipSample(r) PROVE Keep'
  BY <1>9, KeepSame DEF SkipSample, Evaluating, SameState
<1>10. ASSUME NEW r \in Res, NEW usage, ObserveBoosted(r, usage) PROVE Keep'
  <2>1. \A q \in Res : SameState(q)
    BY <1>10 DEF TypeInv, TypeOK, ObserveBoosted, ResourceState, SameState
  <2>2. QED BY <1>10, <2>1, KeepSame DEF ObserveBoosted, Evaluating
<1>11. ASSUME NEW r \in Res, NEW usage, CountSample(r, usage) PROVE Keep'
  <2>1. \A q \in Res : SameState(q)
    BY <1>11 DEF TypeInv, TypeOK, CountSample, ResourceState, SameState
  <2>2. QED BY <1>11, <2>1, KeepSame DEF CountSample, Evaluating
<1>12. ASSUME NEW r \in Res, NEW usage, StartBoost(r, usage) PROVE Keep'
  <2>1. \A q \in Res : SameState(q)
    BY <1>12 DEF TypeInv, TypeOK, StartBoost, ResourceState, SameState
  <2>2. QED BY <1>12, <2>1, KeepSame DEF StartBoost, Evaluating
<1>13. ASSUME Sample PROVE Keep'
  BY <1>13, KeepSame DEF Sample, SameState
<1>14. ASSUME ConfigFails PROVE Keep'
  BY <1>14, KeepSame DEF ConfigFails, SameState
<1>15. QED BY <1>1, <1>2, <1>3, <1>4, <1>5, <1>6, <1>7, <1>8, <1>9, <1>10,
              <1>11, <1>12, <1>13, <1>14

LEMMA KeepBoost ==
    ASSUME TypeInv, Control, Fresh, Keep
    PROVE  /\ \A reply : Apply(reply) => Keep'
           /\ ApplyFails => Keep'
           /\ \A reply, gained : Save(reply, gained) => Keep'
           /\ \A reply : Tag(reply) => Keep'
<1>1. ASSUME NEW reply, Apply(reply) PROVE Keep'
  <2> DEFINE r == job.res
  <2>1. /\ r \in Res /\ pc = "apply" /\ UNCHANGED <<base, db>>
        /\ alloc' = [alloc EXCEPT ![r] = job.to]
    BY <1>1, InHand DEF Apply, TypeInv
  <2>2. alloc'[r] = job.to /\ \A q \in Res \ {r} : alloc'[q] = alloc[q]
    BY <2>1 DEF TypeInv, TypeOK
  <2>3. CASE reply = "ok"
    <3>1. /\ rs' = [rs EXCEPT ![r] = [NewState EXCEPT !.phase = "boosted",
                                                      !.orig = job.from,
                                                      !.boosted = job.to]]
          /\ forgotten' = forgotten \cup (edited \cap {r})
      BY <1>1, <2>3 DEF Apply
    <3>2. rs'[r].orig = job.from /\ rs'[r].boosted = job.to
          /\ rs'[r].phase = "boosted"
      BY <2>1, <3>1 DEF TypeInv, TypeOK, NewState
    <3>3. ASSUME NEW q \in Res \ forgotten' PROVE Kept(q)' /\ Sure(q)'
      <4>1. q \in Res \ forgotten
        BY <3>1
      <4>2. CASE q = r
        <5>1. r \notin edited /\ job.from = Effective(r, alloc[r])
          BY <2>1, <3>1, <4>2 DEF Fresh
        <5>2. Settled(r)
          BY <2>1, <4>1, <4>2 DEF Keep, Kept, MemoryKnows, RowKnows, Control,
                                  PhasesMatch, Boosted
        <5>3. MemoryKnows(q)'
          BY <2>1, <2>2, <3>2, <4>2, <5>1, <5>2 DEF MemoryKnows, Settled
        <5>4. Sure(q)'
          BY <2>1, <3>2, <4>1, <4>2, <5>1, <5>2 DEF Keep, Sure, Settled
        <5>5. QED BY <5>3, <5>4 DEF Kept
      <4>3. CASE q # r
        <5>1. SameState(q) /\ SameRow(q)
          BY <2>1, <3>1, <4>3 DEF SameState, SameRow, TypeInv, TypeOK
        <5>2. QED BY <2>1, <2>2, <4>1, <4>3, <5>1, KeepOneRunning DEF Keep
      <4>4. QED BY <4>2, <4>3
    <3>4. QED BY <3>3 DEF Keep
  <2>4. CASE reply # "ok"
    <3>1. rs' = rs /\ forgotten' = forgotten \cup {r}
      BY <1>1, <2>4 DEF Apply
    <3>2. ASSUME NEW q \in Res \ forgotten' PROVE Kept(q)' /\ Sure(q)'
      BY <2>1, <2>2, <3>1, KeepOneRunning DEF Keep, SameState, SameRow
    <3>3. QED BY <3>2 DEF Keep
  <2>5. QED BY <2>3, <2>4
<1>2. ASSUME ApplyFails PROVE Keep'
  BY <1>2, KeepSame DEF ApplyFails, SameState
<1>3. ASSUME NEW reply, NEW gained, Save(reply, gained) PROVE Keep'
  <2> DEFINE r == job.res
  <2>1. /\ r \in Res /\ pc = "save" /\ pc' = "tag"
        /\ UNCHANGED <<alloc, base, rs, forgotten>>
    BY <1>3, InHand DEF Save, TypeInv
  <2>2. CASE reply = "ok"
    <3>1. /\ db'[r].orig = rs[r].orig /\ db'[r].boosted = rs[r].boosted
          /\ \A q \in Res \ {r} : db'[q] = db[q]
      BY <1>3, <2>1, <2>2 DEF Save, TypeInv, TypeOK
    <3>2. r \in Boosted
      BY <2>1 DEF Control, PhasesMatch
    <3>3. ASSUME NEW q \in Res \ forgotten' PROVE Kept(q)' /\ Sure(q)'
      <4>1. Kept(q)'
        BY <2>1 DEF Keep, Kept, RowKnows, Settled, MemoryKnows
      <4>2. Sure(q)'
        BY <2>1, <3>1, <3>2 DEF Keep, Sure, Boosted
      <4>3. QED BY <4>1, <4>2
    <3>4. QED BY <3>3 DEF Keep
  <2>3. CASE reply # "ok"
    BY <1>3, <2>1, <2>3, KeepSame DEF Save, SameState
  <2>4. QED BY <2>2, <2>3
<1>4. ASSUME NEW reply, Tag(reply) PROVE Keep'
  BY <1>4, KeepSame DEF Tag, SameState
<1>5. QED BY <1>1, <1>2, <1>3, <1>4

\* A boost ends on a resource that is settled.
LEMMA KeepEnd ==
    ASSUME TypeInv, Keep, NEW r \in Res, NEW reply, Delete(r, reply),
           pc \notin {"down", "boot"}, rs'[r].phase = "normal",
           \A q \in Res \ {r} : rs'[q] = rs[q],
           UNCHANGED <<alloc, base, forgotten>>,
           r \notin forgotten => Settled(r)
    PROVE  Keep'
<1>1. \A q \in Res : db'[q] = db[q] \/ (q = r /\ db'[q] = NoRow)
  BY DEF TypeInv, TypeOK, Delete
<1>2. ASSUME NEW q \in Res \ forgotten' PROVE Kept(q)' /\ Sure(q)'
  <2>1. q \in Res \ forgotten /\ SameRow(q) /\ ~RowKnows(q)
    BY <1>1 DEF SameRow, RowKnows
  <2>2. CASE q = r
    BY <2>1, <2>2, KeepOne DEF Keep
  <2>3. CASE q # r
    BY <2>1, <2>3, KeepOneRunning DEF Keep, SameState
  <2>4. QED BY <2>2, <2>3
<1>3. QED BY <1>2 DEF Keep

LEMMA KeepRevert ==
    ASSUME TypeInv, TypeInv', Control, Fresh, Keep
    PROVE  /\ BeginExpire => Keep'
           /\ \A r \in Res : RevertUnread(r) => Keep'
           /\ \A r \in Res : \A reply : Adopt(r, reply) => Keep'
           /\ \A r \in Res : StartRevert(r) => Keep'
           /\ \A reply : Restore(reply) => Keep'
           /\ RestoreFails => Keep'
           /\ \A reply : Untag(reply) => Keep'
           /\ \A reply : Settle(reply) => Keep'
           /\ EndExpire => Keep'
<1>1. ASSUME BeginExpire PROVE Keep'
  BY <1>1, KeepSame DEF BeginExpire, SameState
<1>2. ASSUME NEW r \in Res, RevertUnread(r) PROVE Keep'
  BY <1>2, KeepSame DEF RevertUnread, SameState
<1>3. ASSUME NEW r \in Res, NEW reply, Adopt(r, reply) PROVE Keep'
  <2>1. /\ rs'[r].phase = "normal" /\ \A q \in Res \ {r} : rs'[q] = rs[q]
    BY <1>3 DEF Adopt, Cleared, NewState, TypeInv, TypeOK
  <2>2. r \notin forgotten => Settled(r)
    BY <1>3 DEF Adopt, Keep, Kept, MemoryKnows, RowKnows
  <2>3. QED BY <1>3, <2>1, <2>2, KeepEnd DEF Adopt
<1>4. ASSUME NEW r \in Res, StartRevert(r) PROVE Keep'
  BY <1>4, KeepSame DEF StartRevert, SameState
<1>5. ASSUME NEW reply, Restore(reply) PROVE Keep'
  <2> DEFINE r == job.res
  <2>1. /\ r \in Res /\ pc = "restore" /\ UNCHANGED <<base, db, rs>>
        /\ alloc' = [alloc EXCEPT ![r] = job.to]
        /\ forgotten' = forgotten \cup (edited \cap {r})
    BY <1>5, InHand DEF Restore, TypeInv
  <2>2. alloc'[r] = job.to /\ \A q \in Res \ {r} : alloc'[q] = alloc[q]
    BY <2>1 DEF TypeInv, TypeOK
  <2>3. ASSUME NEW q \in Res \ forgotten' PROVE Kept(q)' /\ Sure(q)'
    <3>1. q \in Res \ forgotten
      BY <2>1
    <3>2. CASE q = r
      <4>1. job.to = Effective(r, base[r]) /\ base[r] \in Nat
        BY <2>1, <3>1, <3>2 DEF Fresh, TypeInv, TypeOK
      <4>2. Settled(q)'
        BY <2>1, <2>2, <3>2, <4>1, EffectiveTwice DEF Settled
      <4>3. Sure(q)'
        BY <2>1, <3>1 DEF Keep, Sure
      <4>4. QED BY <4>2, <4>3 DEF Kept
    <3>3. CASE q # r
      BY <2>1, <2>2, <3>1, <3>3, KeepOneRunning DEF Keep, SameState, SameRow
    <3>4. QED BY <3>2, <3>3
  <2>4. QED BY <2>3 DEF Keep
<1>6. ASSUME RestoreFails PROVE Keep'
  BY <1>6, KeepSame DEF RestoreFails, SameState
<1>7. ASSUME NEW reply, Untag(reply) PROVE Keep'
  BY <1>7, KeepSame DEF Untag, SameState
<1>8. ASSUME NEW reply, Settle(reply) PROVE Keep'
  <2> DEFINE r == job.res
  <2>1. /\ r \in Res /\ pc = "settle" /\ rs'[r].phase = "normal"
        /\ \A q \in Res \ {r} : rs'[q] = rs[q]
        /\ Delete(r, reply) /\ UNCHANGED <<alloc, base, forgotten>>
    BY <1>8, InHand DEF Settle, Cleared, NewState, TypeInv, TypeOK
  <2>2. r \notin forgotten => Settled(r)
    BY <2>1 DEF Fresh
  <2>3. QED BY <2>1, <2>2, KeepEnd
<1>9. ASSUME EndExpire PROVE Keep'
  BY <1>9, KeepSame DEF EndExpire, SameState
<1>10. QED BY <1>1, <1>2, <1>3, <1>4, <1>5, <1>6, <1>7, <1>8, <1>9

LEMMA KeepStop ==
    ASSUME TypeInv, TypeInv', Control, Fresh, Keep
    PROVE  /\ Signal => Keep'
           /\ LoopExit => Keep'
           /\ \A r \in Res : \A reply : StopRevert(r, reply) => Keep'
           /\ \A reply : Drop(reply) => Keep'
           /\ Exit => Keep'
<1>1. ASSUME Signal PROVE Keep'
  BY <1>1, KeepSame DEF Signal, SameState
<1>2. ASSUME LoopExit PROVE Keep'
  BY <1>2, KeepSame DEF LoopExit, SameState
<1>3. ASSUME NEW r \in Res, NEW reply, StopRevert(r, reply) PROVE Keep'
  <2>1. /\ pc = "stop" /\ r \in todo /\ UNCHANGED <<base, db, rs>>
        /\ forgotten \subseteq forgotten'
    BY <1>3 DEF StopRevert, Ready
  <2>2. CASE reply = "error"
    BY <1>3, <2>1, <2>2, KeepSame DEF StopRevert, SameState
  <2>3. CASE reply # "error"
    <3>1. /\ alloc' = [alloc EXCEPT ![r] = rs[r].orig]
          /\ alloc[r] # rs[r].boosted => r \in forgotten'
      BY <1>3, <2>3 DEF StopRevert
    <3>2. alloc'[r] = rs[r].orig /\ \A q \in Res \ {r} : alloc'[q] = alloc[q]
      BY <3>1 DEF TypeInv, TypeOK
    <3>3. ASSUME NEW q \in Res \ forgotten' PROVE Kept(q)' /\ Sure(q)'
      <4>1. q \in Res \ forgotten
        BY <2>1
      <4>2. CASE q = r
        <5>1. rs[r].phase = "boosted" /\ alloc[r] = rs[r].boosted
          BY <2>1, <3>1, <4>2 DEF Control, PhasesMatch, Boosted
        <5>2. rs[r].orig = Effective(r, base[r]) /\ base[r] \in Nat
          BY <4>1, <4>2, <5>1, KnownBoost DEF TypeInv, TypeOK
        <5>3. Settled(q)'
          BY <2>1, <3>2, <4>2, <5>2, EffectiveTwice DEF Settled
        <5>4. Sure(q)'
          BY <2>1, <4>1 DEF Keep, Sure
        <5>5. QED BY <5>3, <5>4 DEF Kept
      <4>3. CASE q # r
        BY <2>1, <3>2, <4>1, <4>3, KeepOneRunning DEF Keep, SameState, SameRow
      <4>4. QED BY <4>2, <4>3
    <3>4. QED BY <3>3 DEF Keep
  <2>4. QED BY <2>2, <2>3
<1>4. ASSUME NEW reply, Drop(reply) PROVE Keep'
  <2> DEFINE r == job.res
  <2>1. /\ r \in Res /\ pc = "drop" /\ rs'[r].phase = "normal"
        /\ \A q \in Res \ {r} : rs'[q] = rs[q]
        /\ Delete(r, reply) /\ UNCHANGED <<alloc, base, forgotten>>
    BY <1>4, InHand DEF Drop, TypeInv, TypeOK, ResourceState
  <2>2. r \notin forgotten => Settled(r)
    BY <2>1 DEF Fresh
  <2>3. QED BY <2>1, <2>2, KeepEnd
<1>5. ASSUME Exit PROVE Keep'
  BY <1>5, KeepLose DEF Exit
<1>6. QED BY <1>1, <1>2, <1>3, <1>4, <1>5

LEMMA KeepEnvironment ==
    ASSUME TypeInv, TypeInv', Control, Keep
    PROVE  /\ Crash => Keep'
           /\ Tick => Keep'
           /\ \A r \in Res : \A x : AdminSet(r, x) => Keep'
           /\ \A v \in VMs : AdminRetag(v) => Keep'
           /\ \A v \in VMs : AdminPower(v) => Keep'
<1>1. ASSUME Crash PROVE Keep'
  BY <1>1, KeepLose DEF Crash
<1>2. ASSUME Tick PROVE Keep'
  <2>1. ASSUME NEW q \in Res \ forgotten' PROVE Kept(q)' /\ Sure(q)'
    <3>1. q \in Res \ forgotten /\ UNCHANGED <<alloc, base, pc, todo>>
      BY <1>2 DEF Tick
    <3>2. SameState(q)
      BY <1>2 DEF Tick, TypeInv, TypeOK, ResourceState, SameState
    <3>3. db[q] # NoRow => /\ db'[q] # NoRow /\ db'[q].orig = db[q].orig
                           /\ db'[q].boosted = db[q].boosted
      <4>1. SUFFICES ASSUME db[q] # NoRow
                     PROVE  /\ db'[q] # NoRow /\ db'[q].orig = db[q].orig
                            /\ db'[q].boosted = db[q].boosted
        OBVIOUS
      <4>2. db[q] \in BoostRecord
        BY <4>1 DEF TypeInv, TypeOK
      <4>3. db'[q] = [db[q] EXCEPT !.age = Count(@, BoostDuration)]
        BY <1>2, <4>1 DEF Tick
      <4>4. QED BY <4>2, <4>3 DEF BoostRecord, NoRow
    <3>4. db[q] = NoRow => db'[q] = NoRow
      BY <1>2 DEF Tick
    <3>5. MemoryKnows(q) => MemoryKnows(q)'
      BY <3>1, <3>2 DEF MemoryKnows, SameState
    <3>6. RowKnows(q) => RowKnows(q)'
      BY <3>1, <3>3 DEF RowKnows
    <3>7. QED BY <3>1, <3>2, <3>3, <3>4, <3>5, <3>6, KeepOne DEF Keep, SameRow
  <2>2. QED BY <2>1 DEF Keep
<1>3. ASSUME NEW r \in Res, NEW x, AdminSet(r, x) PROVE Keep'
  <2>1. /\ alloc' = [alloc EXCEPT ![r] = x] /\ base' = [base EXCEPT ![r] = x]
        /\ UNCHANGED <<db, rs, pc, todo>>
        /\ forgotten' = IF Aliased(r, x) THEN forgotten \cup {r}
                                         ELSE forgotten \ {r}
    BY <1>3 DEF AdminSet
  <2>2. alloc'[r] = x /\ base'[r] = x
        /\ \A q \in Res \ {r} : alloc'[q] = alloc[q] /\ base'[q] = base[q]
    BY <2>1 DEF TypeInv, TypeOK
  <2>3. ASSUME NEW q \in Res \ forgotten' PROVE Kept(q)' /\ Sure(q)'
    <3>1. CASE q = r
      <4>1. ~Aliased(r, x)
        BY <2>1, <3>1
      <4>2. Settled(q)'
        BY <2>2, <3>1 DEF Settled
      <4>3. Sure(q)'
        BY <2>1, <2>2, <3>1, <4>1 DEF Sure, Aliased
      <4>4. QED BY <4>2, <4>3 DEF Kept
    <3>2. CASE q # r
      <4>1. q \in Res \ forgotten
        BY <2>1, <3>2
      <4>2. MemoryKnows(q) => MemoryKnows(q)'
        BY <2>1, <2>2, <3>2 DEF MemoryKnows
      <4>3. RowKnows(q) => RowKnows(q)'
        BY <2>1, <2>2, <3>2 DEF RowKnows
      <4>4. QED BY <2>1, <2>2, <3>2, <4>1, <4>2, <4>3, KeepOne
                DEF Keep, SameState, SameRow
    <3>3. QED BY <3>1, <3>2
  <2>4. QED BY <2>3 DEF Keep
<1>4. ASSUME NEW v \in VMs, AdminRetag(v) PROVE Keep'
  BY <1>4 DEF AdminRetag, Keep, Kept, Sure, Settled, MemoryKnows, RowKnows
<1>5. ASSUME NEW v \in VMs, AdminPower(v) PROVE Keep'
  BY <1>5 DEF AdminPower, Keep, Kept, Sure, Settled, MemoryKnows, RowKnows
<1>6. QED BY <1>1, <1>2, <1>3, <1>4, <1>5

LEMMA KeepStep == TypeInv /\ Control /\ Fresh /\ Keep /\ [Next]_vars => Keep'
<1>1. SUFFICES ASSUME TypeInv, Control, Fresh, Keep, [Next]_vars PROVE Keep'
  OBVIOUS
<1>2. todo \subseteq Res /\ \A r \in Res : r[1] \in VMs
  BY <1>1 DEF TypeInv, TypeOK, Res
<1>3. TypeInv'
  BY <1>1, TypeStep
<1>4. CASE Service
  BY <1>1, <1>2, <1>3, <1>4, KeepSample, KeepBoost, KeepRevert, KeepStop
     DEF Service, Steps
<1>5. CASE Tick \/ Environment
  BY <1>1, <1>3, <1>5, KeepStop, KeepEnvironment DEF Environment
<1>6. CASE UNCHANGED vars
  BY <1>1, <1>6 DEF vars, Keep, Kept, Sure, Settled, MemoryKnows, RowKnows
<1>7. QED BY <1>1, <1>4, <1>5, <1>6 DEF Next
-------------------------------------------------------------------------------
(* What was read is what is there *)

Using == {"config", "poll", "apply", "save", "tag", "restore", "untag", "settle", "drop"}

LEMMA FreshUnused == pc' \notin Using => Fresh'
BY DEF Using, Fresh

\* A step that changes nothing Fresh speaks of.
LEMMA FreshStay ==
    ASSUME Fresh, UNCHANGED <<alloc, base, cfg, job, edited>>, todo' \subseteq todo,
           forgotten \subseteq forgotten',
           pc' = pc \/ <<pc, pc'>> \in {<<"save", "tag">>, <<"untag", "settle">>}
    PROVE  Fresh'
BY DEF Fresh, Settled

\* The step for a resource is over; only that resource may have changed.
LEMMA FreshFinish ==
    ASSUME TypeInv, Fresh, NEW r \in Res, Finish(r, "poll"),
           pc \in {"poll", "apply", "tag"}, pc # "poll" => job.res = r,
           \A q \in Res \ {r} : alloc'[q] = alloc[q]
    PROVE  Fresh'
<1>1. pc' = "poll" /\ todo' = todo \ {r} /\ todo \subseteq Res
  BY DEF Finish, TypeInv, TypeOK
<1>2. CASE r[2] = "cpu"
  <2>1. cfg' = cfg /\ edited' = edited
    BY <1>2 DEF Finish
  <2>2. ASSUME NEW q \in todo' \ edited', q[1] = cfg'.vm, cfg' # NoCfg
        PROVE  Measured(cfg', q) = Effective(q, alloc'[q])
    <3>1. q \in todo \ edited /\ q # r /\ alloc'[q] = alloc[q] /\ q[1] = cfg.vm
      BY <1>1, <2>1, <2>2
    <3>2. Measured(cfg, q) = Effective(q, alloc[q])
      BY <2>1, <2>2, <3>1 DEF Fresh
    <3>3. QED BY <2>1, <3>1, <3>2
  <2>3. QED BY <1>1, <2>2 DEF Fresh
<1>3. CASE r[2] # "cpu"
  BY <1>1, <1>3 DEF Finish, Fresh
<1>4. QED BY <1>2, <1>3

LEMMA FreshSample ==
    ASSUME TypeInv, Control, Fresh
    PROVE  /\ \A reply : Start(reply) => Fresh'
           /\ \A r \in Res : Resume(r) => Fresh'
           /\ \A r \in Res : \A reply : Discard(r, reply) => Fresh'
           /\ \A r \in Res : PassOver(r) => Fresh'
           /\ StartLoop => Fresh'
           /\ \A load \in NodeLoads : Poll(load) => Fresh'
           /\ \A v \in VMs : ReadStatus(v) => Fresh'
           /\ \A v \in VMs : StatusFails(v) => Fresh'
           /\ Sample => Fresh'
           /\ ConfigFails => Fresh'
           /\ \A r \in Res : SkipSample(r) => Fresh'
           /\ \A r \in Res : \A usage : ObserveBoosted(r, usage) => Fresh'
           /\ \A r \in Res : \A usage : CountSample(r, usage) => Fresh'
           /\ \A r \in Res : \A usage : StartBoost(r, usage) => Fresh'
<1>1. ASSUME NEW reply, Start(reply) PROVE Fresh'
  BY <1>1, FreshUnused DEF Start, Using
<1>2. ASSUME NEW r \in Res, Resume(r) PROVE Fresh'
  BY <1>2, FreshUnused DEF Resume, Using
<1>3. ASSUME NEW r \in Res, NEW reply, Discard(r, reply) PROVE Fresh'
  BY <1>3, FreshUnused DEF Discard, Using
<1>4. ASSUME NEW r \in Res, PassOver(r) PROVE Fresh'
  BY <1>4, FreshUnused DEF PassOver, Using
<1>5. ASSUME StartLoop PROVE Fresh'
  BY <1>5, FreshUnused DEF StartLoop, Using
<1>6. ASSUME NEW load \in NodeLoads, Poll(load) PROVE Fresh'
  BY <1>6 DEF Poll, Control, PhasesMatch, Fresh
<1>7. ASSUME NEW v \in VMs, ReadStatus(v) PROVE Fresh'
  BY <1>7 DEF ReadStatus, Fresh
<1>8. ASSUME NEW v \in VMs, StatusFails(v) PROVE Fresh'
  <2>1. UNCHANGED <<alloc, base, cfg, job, edited, pc>> /\ todo' \subseteq todo
        /\ forgotten \subseteq forgotten'
    BY <1>8 DEF StatusFails
  <2>2. QED BY <2>1, FreshStay
<1>9. ASSUME NEW r \in Res, SkipSample(r) PROVE Fresh'
  BY <1>9, FreshFinish DEF SkipSample, Evaluating
<1>10. ASSUME NEW r \in Res, NEW usage, ObserveBoosted(r, usage) PROVE Fresh'
  BY <1>10, FreshFinish DEF ObserveBoosted, Evaluating
<1>11. ASSUME NEW r \in Res, NEW usage, CountSample(r, usage) PROVE Fresh'
  BY <1>11, FreshFinish DEF CountSample, Evaluating
<1>12. ASSUME NEW r \in Res, NEW usage, StartBoost(r, usage) PROVE Fresh'
  <2>1. /\ pc = "poll" /\ pc' = "apply" /\ cfg # NoCfg
        /\ r \in todo /\ r[1] = cfg.vm
        /\ UNCHANGED <<alloc, base, cfg, todo, edited, forgotten>>
    BY <1>12 DEF StartBoost, Evaluating, Ready
  <2>2. job'.res = r /\ job'.from = Current(r)
    BY <1>12 DEF StartBoost
  <2>3. r \notin edited => Current(r) = Effective(r, alloc[r])
    BY <2>1 DEF Fresh, Current
  <2>4. Current(r)' = Current(r)
    BY <2>1 DEF Current
  <2>5. \A q \in todo \ edited : q[1] = cfg.vm =>
          Measured(cfg, q) = Effective(q, alloc[q])
    BY <2>1 DEF Fresh
  <2>6. QED BY <2>1, <2>2, <2>3, <2>5 DEF Fresh
<1>13. ASSUME Sample PROVE Fresh'
  <2>1. /\ pc = "config" /\ pc' = "poll" /\ alloc' = alloc
        /\ todo' = todo /\ todo \subseteq Res /\ cfg.vm \in VMs
        /\ cfg' = ReadConfig(cfg.vm, cfg.cpus)
        /\ edited' = {q \in edited : Measured(cfg', q) # Effective(q, alloc[q])}
    BY <1>13 DEF Sample, TypeInv, TypeOK, StepInHand, ContainerConfig
  <2>2. ASSUME NEW q \in todo' \ edited', q[1] = cfg'.vm
        PROVE  Measured(cfg', q) = Effective(q, alloc'[q])
    <3>1. CASE q \in edited
      BY <2>1, <2>2, <3>1
    <3>2. CASE q \notin edited
      <4>1. /\ q = <<cfg.vm, q[2]>> /\ q[2] \in Kinds
            /\ cfg'.cpus = cfg.cpus /\ cfg'.val[q[2]] = alloc[q]
        BY <2>1, <2>2 DEF ReadConfig, Res
      <4>2. q[2] = "cpu" => cfg.cpus = Effective(q, alloc[q])
        BY <2>1, <3>2, <4>1 DEF Fresh
      <4>3. QED BY <2>1, <4>1, <4>2 DEF Measured, Effective
    <3>3. QED BY <3>1, <3>2
  <2>3. QED BY <2>1, <2>2 DEF Fresh
<1>14. ASSUME ConfigFails PROVE Fresh'
  BY <1>14 DEF ConfigFails, Fresh
<1>15. QED BY <1>1, <1>2, <1>3, <1>4, <1>5, <1>6, <1>7, <1>8, <1>9, <1>10,
              <1>11, <1>12, <1>13, <1>14

LEMMA FreshBoost ==
    ASSUME TypeInv, Control, Fresh
    PROVE  /\ \A reply : Apply(reply) => Fresh'
           /\ ApplyFails => Fresh'
           /\ \A reply, gained : Save(reply, gained) => Fresh'
           /\ \A reply : Tag(reply) => Fresh'
<1>1. ASSUME NEW reply, Apply(reply) PROVE Fresh'
  <2>1. /\ job.res \in Res /\ pc = "apply"
        /\ \A q \in Res \ {job.res} : alloc'[q] = alloc[q]
    BY <1>1, InHand DEF Apply, TypeInv, TypeOK
  <2>2. CASE reply = "ok"
    <3>1. pc' = "save" /\ UNCHANGED <<todo, cfg, job, edited>>
      BY <1>1, <2>2 DEF Apply
    <3>2. QED BY <2>1, <3>1 DEF Fresh, TypeInv, TypeOK
  <2>3. CASE reply # "ok"
    BY <1>1, <2>1, <2>3, FreshFinish DEF Apply
  <2>4. QED BY <2>2, <2>3
<1>2. ASSUME ApplyFails PROVE Fresh'
  BY <1>2, InHand, FreshFinish DEF ApplyFails, TypeInv
<1>3. ASSUME NEW reply, NEW gained, Save(reply, gained) PROVE Fresh'
  BY <1>3, FreshStay DEF Save
<1>4. ASSUME NEW reply, Tag(reply) PROVE Fresh'
  BY <1>4, InHand, FreshFinish DEF Tag, TypeInv
<1>5. QED BY <1>1, <1>2, <1>3, <1>4

LEMMA FreshRevert ==
    ASSUME TypeInv, Control, Fresh, Keep
    PROVE  /\ BeginExpire => Fresh'
           /\ \A r \in Res : RevertUnread(r) => Fresh'
           /\ \A r \in Res : \A reply : Adopt(r, reply) => Fresh'
           /\ \A r \in Res : StartRevert(r) => Fresh'
           /\ \A reply : Restore(reply) => Fresh'
           /\ RestoreFails => Fresh'
           /\ \A reply : Untag(reply) => Fresh'
           /\ \A reply : Settle(reply) => Fresh'
           /\ EndExpire => Fresh'
<1>1. ASSUME BeginExpire PROVE Fresh'
  BY <1>1, FreshUnused DEF BeginExpire, Using
<1>2. ASSUME NEW r \in Res, RevertUnread(r) PROVE Fresh'
  BY <1>2, FreshUnused DEF RevertUnread, Using
<1>3. ASSUME NEW r \in Res, NEW reply, Adopt(r, reply) PROVE Fresh'
  BY <1>3, FreshUnused DEF Adopt, Using
<1>4. ASSUME NEW r \in Res, StartRevert(r) PROVE Fresh'
  <2>1. /\ pc = "expire" /\ r \in todo /\ alloc[r] = rs[r].boosted
        /\ pc' = "restore" /\ job'.res = r /\ job'.to = rs[r].orig
        /\ UNCHANGED <<base, forgotten>>
    BY <1>4 DEF StartRevert, Ready
  <2>2. rs[r].phase = "boosted"
    BY <2>1 DEF Control, PhasesMatch, Boosted
  <2>3. r \notin forgotten => rs[r].orig = Effective(r, base[r])
    BY <2>1, <2>2, KnownBoost
  <2>4. QED BY <2>1, <2>3 DEF Fresh
<1>5. ASSUME NEW reply, Restore(reply) PROVE Fresh'
  <2> DEFINE r == job.res
  <2>1. CASE reply = "ok"
    <3>1. /\ r \in Res /\ pc = "restore" /\ pc' = "untag"
          /\ UNCHANGED <<base, job>>
          /\ alloc' = [alloc EXCEPT ![r] = job.to]
          /\ forgotten' = forgotten \cup (edited \cap {r})
      BY <1>5, <2>1, InHand DEF Restore, TypeInv
    <3>2. alloc'[r] = job.to /\ base[r] \in Nat
      BY <3>1 DEF TypeInv, TypeOK
    <3>3. ASSUME r \notin forgotten' PROVE Settled(r)'
      <4>1. job.to = Effective(r, base[r])
        BY <3>1, <3>3 DEF Fresh
      <4>2. Effective(r, job.to) = Effective(r, base[r])
        BY <3>2, <4>1, EffectiveTwice
      <4>3. QED BY <3>1, <3>2, <4>2 DEF Settled
    <3>4. job'.res = r /\ (r \notin forgotten' => Settled(job.res)')
      BY <3>1, <3>3 DEF Settled
    <3>5. QED BY <3>1, <3>4 DEF Fresh
  <2>2. CASE reply # "ok"
    BY <1>5, <2>2, FreshUnused DEF Restore, Finish, Using
  <2>3. QED BY <2>1, <2>2
<1>6. ASSUME RestoreFails PROVE Fresh'
  BY <1>6, FreshUnused DEF RestoreFails, Finish, Using
<1>7. ASSUME NEW reply, Untag(reply) PROVE Fresh'
  BY <1>7, FreshStay DEF Untag
<1>8. ASSUME NEW reply, Settle(reply) PROVE Fresh'
  BY <1>8, FreshUnused DEF Settle, Finish, Using
<1>9. ASSUME EndExpire PROVE Fresh'
  BY <1>9, FreshUnused DEF EndExpire, Using
<1>10. QED BY <1>1, <1>2, <1>3, <1>4, <1>5, <1>6, <1>7, <1>8, <1>9

LEMMA FreshStop ==
    ASSUME TypeInv, Control, Fresh, Keep
    PROVE  /\ Signal => Fresh'
           /\ LoopExit => Fresh'
           /\ \A r \in Res : \A reply : StopRevert(r, reply) => Fresh'
           /\ \A reply : Drop(reply) => Fresh'
           /\ Exit => Fresh'
<1>1. ASSUME Signal PROVE Fresh'
  <2>1. UNCHANGED <<alloc, base, cfg, job, edited, pc>> /\ todo' \subseteq todo
        /\ forgotten \subseteq forgotten'
    BY <1>1 DEF Signal
  <2>2. QED BY <2>1, FreshStay
<1>2. ASSUME LoopExit PROVE Fresh'
  BY <1>2, FreshUnused DEF LoopExit, Using
<1>3. ASSUME NEW r \in Res, NEW reply, StopRevert(r, reply) PROVE Fresh'
  <2>1. CASE reply = "ok"
    <3>1. /\ pc = "stop" /\ pc' = "drop" /\ r \in todo /\ job'.res = r
          /\ base' = base /\ alloc' = [alloc EXCEPT ![r] = rs[r].orig]
          /\ forgotten \subseteq forgotten'
          /\ (alloc[r] # rs[r].boosted => r \in forgotten')
      BY <1>3, <2>1 DEF StopRevert, Ready
    <3>2. alloc'[r] = rs[r].orig /\ base[r] \in Nat
      BY <3>1 DEF TypeInv, TypeOK
    <3>3. ASSUME r \notin forgotten' PROVE Settled(r)'
      <4>1. rs[r].phase = "boosted"
        BY <3>1 DEF Control, PhasesMatch, Boosted
      <4>2. rs[r].orig = Effective(r, base[r])
        BY <3>1, <3>3, <4>1, KnownBoost
      <4>3. Effective(r, rs[r].orig) = Effective(r, base[r])
        BY <3>2, <4>2, EffectiveTwice
      <4>4. QED BY <3>1, <3>2, <4>3 DEF Settled
    <3>4. QED BY <3>1, <3>3 DEF Fresh, Settled
  <2>2. CASE reply # "ok"
    BY <1>3, <2>2, FreshUnused DEF StopRevert, Using
  <2>3. QED BY <2>1, <2>2
<1>4. ASSUME NEW reply, Drop(reply) PROVE Fresh'
  BY <1>4, FreshUnused DEF Drop, Finish, Using
<1>5. ASSUME Exit PROVE Fresh'
  BY <1>5, FreshUnused DEF Exit, LoseMemory, Using
<1>6. QED BY <1>1, <1>2, <1>3, <1>4, <1>5

LEMMA FreshEnvironment ==
    ASSUME TypeInv, Control, Fresh
    PROVE  /\ Crash => Fresh'
           /\ Tick => Fresh'
           /\ \A r \in Res : \A x : AdminSet(r, x) => Fresh'
           /\ \A v \in VMs : AdminRetag(v) => Fresh'
           /\ \A v \in VMs : AdminPower(v) => Fresh'
<1>1. ASSUME Crash PROVE Fresh'
  BY <1>1, FreshUnused DEF Crash, LoseMemory, Using
<1>2. ASSUME Tick PROVE Fresh'
  <2>1. UNCHANGED <<alloc, base, cfg, job, edited, pc>> /\ todo' \subseteq todo
        /\ forgotten \subseteq forgotten'
    BY <1>2 DEF Tick
  <2>2. QED BY <2>1, FreshStay
<1>3. ASSUME NEW r \in Res, NEW x, AdminSet(r, x) PROVE Fresh'
  <2>1. /\ alloc' = [alloc EXCEPT ![r] = x] /\ base' = [base EXCEPT ![r] = x]
        /\ UNCHANGED <<pc, todo, cfg, job>>
        /\ edited \subseteq edited'
        /\ (cfg # NoCfg /\ cfg.vm = r[1] => r \in edited')
        /\ forgotten \subseteq forgotten' \cup {r}
    BY <1>3 DEF AdminSet
  <2>2. alloc'[r] = x /\ base'[r] = x
        /\ \A q \in Res \ {r} : alloc'[q] = alloc[q] /\ base'[q] = base[q]
    BY <2>1 DEF TypeInv, TypeOK
  <2>3. Settled(r)' /\ \A q \in Res \ {r} : Settled(q) => Settled(q)'
    BY <2>2 DEF Settled
  <2>4. pc \in {"apply", "save", "tag", "restore", "untag", "settle"} =>
          job.res \in Res /\ cfg # NoCfg /\ cfg.vm = job.res[1]
    BY InHand DEF TypeInv, StepInHand
  <2>5. pc = "drop" => job.res \in Res
    BY InHand DEF TypeInv
  <2>6. pc \in Using /\ cfg # NoCfg =>
          \A q \in todo \ edited' : q[1] = cfg.vm => alloc'[q] = alloc[q]
    BY <2>1, <2>2 DEF TypeInv, TypeOK
  <2>7. pc = "poll" /\ cfg # NoCfg =>
          \A q \in todo \ edited' :
              q[1] = cfg.vm => Measured(cfg, q) = Effective(q, alloc'[q])
    BY <2>1, <2>6 DEF Fresh, Using
  <2>8. pc \in {"apply", "save", "tag"} =>
          \A q \in todo \ (edited' \cup {job.res}) :
              q[1] = cfg.vm => Measured(cfg, q) = Effective(q, alloc'[q])
    BY <2>1, <2>4, <2>6 DEF Fresh, Using
  <2>9. pc = "apply" /\ job.res \notin edited' =>
          job.from = Effective(job.res, alloc'[job.res])
    BY <2>1, <2>2, <2>4 DEF Fresh
  <2>10. pc = "restore" /\ job.res \notin edited' \cup forgotten' =>
          job.to = Effective(job.res, base'[job.res])
    BY <2>1, <2>2, <2>4 DEF Fresh
  <2>11. pc \in {"untag", "settle", "drop"} /\ job.res \notin forgotten' =>
          Effective(job.res, alloc'[job.res]) = Effective(job.res, base'[job.res])
    BY <2>1, <2>2, <2>3, <2>4, <2>5 DEF Fresh, Settled
  <2>12. pc = "config" /\ <<cfg.vm, "cpu">> \notin edited' =>
          cfg.cpus = Effective(<<cfg.vm, "cpu">>, alloc'[<<cfg.vm, "cpu">>])
    <3>1. SUFFICES ASSUME pc = "config", <<cfg.vm, "cpu">> \notin edited'
                   PROVE  alloc'[<<cfg.vm, "cpu">>] = alloc[<<cfg.vm, "cpu">>]
      BY <2>1 DEF Fresh
    <3>2. cfg # NoCfg /\ cfg.vm \in VMs
      BY <3>1 DEF TypeInv, TypeOK, StepInHand, ContainerConfig
    <3>3. <<cfg.vm, "cpu">> \in Res
      BY <3>2 DEF Res, Kinds
    <3>4. <<cfg.vm, "cpu">> # r
      BY <2>1, <3>1, <3>2
    <3>5. QED BY <2>2, <3>3, <3>4
  <2>13. QED BY <2>1, <2>7, <2>8, <2>9, <2>10, <2>11, <2>12 DEF Fresh, Settled
<1>4. ASSUME NEW v \in VMs, AdminRetag(v) PROVE Fresh'
  <2>1. UNCHANGED <<alloc, base, cfg, job, edited, pc>> /\ todo' \subseteq todo
        /\ forgotten \subseteq forgotten'
    BY <1>4 DEF AdminRetag
  <2>2. QED BY <2>1, FreshStay
<1>5. ASSUME NEW v \in VMs, AdminPower(v) PROVE Fresh'
  <2>1. UNCHANGED <<alloc, base, cfg, job, edited, pc>> /\ todo' \subseteq todo
        /\ forgotten \subseteq forgotten'
    BY <1>5 DEF AdminPower
  <2>2. QED BY <2>1, FreshStay
<1>6. QED BY <1>1, <1>2, <1>3, <1>4, <1>5

LEMMA FreshStep == TypeInv /\ Control /\ Fresh /\ Keep /\ [Next]_vars => Fresh'
<1>1. SUFFICES ASSUME TypeInv, Control, Fresh, Keep, [Next]_vars PROVE Fresh'
  OBVIOUS
<1>2. todo \subseteq Res /\ \A r \in Res : r[1] \in VMs
  BY <1>1 DEF TypeInv, TypeOK, Res
<1>3. CASE Service
  BY <1>1, <1>2, <1>3, FreshSample, FreshBoost, FreshRevert, FreshStop
     DEF Service, Steps
<1>4. CASE Tick \/ Environment
  BY <1>1, <1>4, FreshStop, FreshEnvironment DEF Environment
<1>5. CASE UNCHANGED vars
  BY <1>1, <1>5 DEF vars, Fresh, Settled
<1>6. QED BY <1>1, <1>3, <1>4, <1>5 DEF Next
-------------------------------------------------------------------------------
(* The theorems *)

LEMMA KeepInit == Init => Fresh /\ Keep
BY DEF Init, Fresh, Keep, Kept, Sure, Settled, NewState

\* The inductive invariant that explains the baseline holds of every reachable
\* state: it is IInv of the runs, grouped by what each part rests on.
LEMMA Induction == Spec => [](TypeInv /\ Control /\ Fresh /\ Keep)
<1>1. Init => TypeInv /\ Control /\ Fresh /\ Keep
  BY TypeInit, ControlInit, KeepInit
<1>2. TypeInv /\ Control /\ Fresh /\ Keep /\ [Next]_vars
        => TypeInv' /\ Control' /\ Fresh' /\ Keep'
  BY TypeStep, ControlStep, KeepStep, FreshStep
<1>3. QED BY <1>1, <1>2, PTL DEF Spec

\* The whole inductive invariant, for every value of the constants.
THEOREM Inductive == Spec => []IInv
<1>1. TypeInv /\ Control /\ Fresh /\ Keep => IInv
  BY KeepParts DEF TypeInv, Control, IInv
<1>2. QED BY <1>1, Induction, PTL

\* No boost is ever lost track of: for any number of containers, any
\* thresholds, factors and durations and any administrator, and through every
\* interleaving of edits, failing calls, crashes and restarts, a container
\* whose resource was not put at risk by one of the named events is at the
\* administrator's value, or the process, or the database while there is no
\* process, holds the boost that is in force and the value to go back to.
THEOREM Baseline == Spec => []BaselineKept
<1>1. IInv => BaselineKept
  BY DEF IInv
<1>2. QED BY <1>1, Inductive, PTL

\* A boost that SaveBoost acknowledged has, for as long as it lasts, a row
\* with its own original and boosted value, whatever rows failed deletions
\* left behind: the process may be killed at any moment and the next one finds
\* what it needs.
THEOREM Persisted == Spec => []PersistedMatchesMemory
<1>1. IInv => PersistedMatchesMemory
  BY DEF IInv
<1>2. QED BY <1>1, Inductive, PTL
===============================================================================

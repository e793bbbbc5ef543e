---------------------------- MODULE AutoscalerFleet ----------------------------
(***************************************************************************)
(* What holds for any number of containers while calls succeed: a boosted  *)
(* container carries its tag, a regular stop leaves no boost behind, and a *)
(* boost overshoots the memory of the node by no more than it started      *)
(* from.                                                                   *)
(***************************************************************************)
EXTENDS AutoscalerRefinement, FiniteSetTheorems, WellFoundedInduction

USE DEF world, local, hist

\* The requests to Proxmox and the deletions succeed, and nothing kills the
\* process; saving and loading the records may still fail.
CallsSucceed == Faults \subseteq {"save", "load"}
-------------------------------------------------------------------------------
(* The arithmetic of a boost *)

\* The factors exceed one, so no rounding takes a boost below the value it
\* starts from.
LEMMA BoostIsNoLess ==
    ASSUME NEW kind, NEW current \in Nat, NEW value \in Boosts(kind, current)
    PROVE  value \in Nat /\ current <= value
<1>1. PICK f \in {PrimaryBoostFactor, FallbackBoostFactor} :
          value = applyFactor(kind, current, f)
  BY DEF Boosts
<1>2. PICK g \in Nat : g > 0 /\ f = 100 + g
  <2>1. f - 100 \in Nat /\ f - 100 > 0 /\ f = 100 + (f - 100)
    BY ScalingAssumption
  <2> QED
    BY <2>1
<1>3. current * g \in Nat /\ current * f = 100 * current + current * g
  BY <1>2
<1> QED
  BY <1>1, <1>3 DEF applyFactor
-------------------------------------------------------------------------------
(* A regular stop leaves nothing behind *)

\* Every row is of a boost in memory, every boost can be taken back, and
\* RevertAllBoosts gets to all of them.
Clean ==
    /\ \A r \in Res : db[r] # NoRow => r \in Boosted
    /\ \A r \in Boosted : rs[r].orig <= MaxValue
    /\ pc = "apply" => job.from <= job.to
    /\ pc = "boot" => todo = {} /\ Boosted = {}
    /\ pc \in {"stop", "drop"} => stopping /\ Boosted \subseteq todo

\* The records are those of before.
SameRecords == \A q \in Res : SameState(q) /\ (db'[q] # NoRow => db[q] # NoRow)

LEMMA CleanRecords ==
    ASSUME TypeInv, Clean, SameRecords
    PROVE  /\ Boosted' = Boosted
           /\ \A r \in Res : db'[r] # NoRow => r \in Boosted'
           /\ \A r \in Boosted' : rs'[r].orig <= MaxValue
<1>1. Boosted' = Boosted
  BY DEF SameRecords, SameState, Boosted
<1> QED
  BY <1>1 DEF SameRecords, SameState, Clean, Boosted

LEMMA CleanSame ==
    ASSUME TypeInv, Clean, SameRecords,
           pc' \notin {"apply", "boot", "stop", "drop"}
             \/ (pc' = pc /\ job' = job /\ todo' = todo /\ stopping' \in {stopping, TRUE})
    PROVE  Clean'
BY CleanRecords DEF Clean

LEMMA CleanUnchanged ==
    ASSUME UNCHANGED <<rs, db>>
    PROVE  SameRecords
BY DEF SameRecords, SameState

\* The end of the boost of r, with its row.
LEMMA CleanEnd ==
    ASSUME TypeInv, Clean, NEW r \in Res,
           rs' \in [Res -> ResourceState], rs'[r].phase = "normal",
           \A q \in Res \ {r} : rs'[q] = rs[q],
           Delete(r, "ok")
    PROVE  /\ Boosted' = Boosted \ {r}
           /\ \A q \in Res : db'[q] # NoRow => q \in Boosted'
           /\ \A q \in Boosted' : rs'[q].orig <= MaxValue
<1>1. Boosted' = Boosted \ {r}
  BY DEF Boosted
<1>2. db'[r] = NoRow /\ \A q \in Res \ {r} : db'[q] = db[q]
  BY DEF Delete, TypeInv, TypeOK
<1> QED
  BY <1>1, <1>2 DEF Clean, Boosted

LEMMA DeleteSucceeds ==
    ASSUME CallsSucceed, NEW reply \in DbReplies("delete")
    PROVE  reply = "ok"
BY DEF DbReplies, CallsSucceed

\* Start-up finds no row.
LEMMA CleanStart ==
    ASSUME TypeInv, Control, Clean
    PROVE  /\ \A reply : Start(reply) => Clean'
           /\ \A r \in todo : ~Resume(r) /\ ~PassOver(r)
           /\ \A r \in todo : \A reply : ~Discard(r, reply)
<1>1. ASSUME NEW reply, Start(reply) PROVE Clean'
  <2>1. Boosted = {} /\ \A r \in Res : db[r] = NoRow
    BY <1>1 DEF Start, Control, PhasesMatch, Clean
  <2>2. Boosted' = {} /\ todo' = {} /\ pc' = "boot" /\ db' = db
    BY <1>1, <2>1 DEF Start, Boosted
  <2> QED
    BY <2>1, <2>2 DEF Clean
<1> QED
  BY <1>1 DEF Resume, PassOver, Discard, Clean

\* Polling and boosting.
LEMMA CleanBoost ==
    ASSUME TypeInv, TypeInv', Control, Clean
    PROVE  /\ \A load \in NodeLoads : Poll(load) => Clean'
           /\ \A v \in VMs : ReadStatus(v) \/ StatusFails(v) => Clean'
           /\ Sample \/ ConfigFails => Clean'
           /\ \A r \in Res : SkipSample(r) => Clean'
           /\ \A r \in Res : \A usage : ObserveBoosted(r, usage) => Clean'
           /\ \A r \in Res : \A usage : CountSample(r, usage) => Clean'
           /\ \A r \in Res : \A usage : StartBoost(r, usage) => Clean'
           /\ \A reply : Apply(reply) => Clean'
           /\ ApplyFails => Clean'
           /\ \A reply, gained : Save(reply, gained) => Clean'
           /\ \A reply : Tag(reply) => Clean'
<1>1. ASSUME NEW load \in NodeLoads, Poll(load) PROVE Clean'
  BY <1>1, CleanSame, CleanUnchanged DEF Poll
<1>2. ASSUME Sample \/ ConfigFails \/ \E v \in VMs : ReadStatus(v) \/ StatusFails(v)
      PROVE  Clean'
  BY <1>2, CleanSame, CleanUnchanged DEF Sample, ConfigFails, ReadStatus, StatusFails
<1>3. ASSUME NEW r \in Res, SkipSample(r) PROVE Clean'
  BY <1>3, CleanSame, CleanUnchanged DEF SkipSample, Finish
<1>4. ASSUME NEW r \in Res, NEW usage, ObserveBoosted(r, usage) \/ CountSample(r, usage)
      PROVE  Clean'
  <2>1. SameRecords
    BY <1>4 DEF ObserveBoosted, CountSample, SameRecords, SameState, TypeInv,
                TypeOK, ResourceState
  <2> QED
    BY <1>4, <2>1, CleanSame DEF ObserveBoosted, CountSample, Finish
<1>5. ASSUME NEW r \in Res, NEW usage, StartBoost(r, usage) PROVE Clean'
  <2>1. SameRecords /\ pc' = "apply"
    BY <1>5 DEF StartBoost, SameRecords, SameState, TypeInv, TypeOK, ResourceState
  <2>2. cfg \in ContainerConfig
    BY <1>5 DEF StartBoost, Evaluating, TypeInv, TypeOK
  <2>3. Current(r) \in Nat
    BY <2>2, MeasuredType DEF Current
  <2>4. PICK value \in Outcomes(r) \ {NoBoost} :
           job' = [res |-> r, from |-> Current(r), to |-> value]
    BY <1>5 DEF StartBoost
  <2>5. Current(r) <= value
    BY <2>3, <2>4, BoostIsRaise, BoostIsNoLess DEF Outcomes
  <2> QED
    BY <2>1, <2>4, <2>5, CleanRecords DEF Clean
<1>6. ASSUME NEW reply, Apply(reply) PROVE Clean'
  <2>1. PICK r \in Res : r = job.res
    BY <1>6, InHand DEF Apply, TypeInv
  <2>2. job.from \in Nat /\ job.to \in Nat /\ job.from <= job.to /\ pc = "apply"
    BY <1>6, InHand DEF Apply, TypeInv, Clean
  <2>3. CASE reply = "ok"
    <3>1. job.to <= MaxValue
      BY <1>6, <2>2, <2>3, EnvironmentAssumption DEF Apply, PutReplies, StopReplies
    <3>2. /\ rs' = [rs EXCEPT ![r] = [NewState EXCEPT !.phase = "boosted",
                                                     !.orig = job.from,
                                                     !.boosted = job.to]]
          /\ db' = db /\ pc' = "save"
      BY <1>6, <2>1, <2>3 DEF Apply
    <3>3. /\ rs'[r].phase = "boosted" /\ rs'[r].orig = job.from
          /\ \A q \in Res \ {r} : rs'[q] = rs[q]
      BY <3>2 DEF TypeInv, TypeOK, NewState
    <3>4. Boosted' = Boosted \cup {r}
      BY <3>3 DEF Boosted
    <3>5. job.from <= MaxValue
      BY <2>2, <3>1, EnvironmentAssumption
    <3> QED
      BY <3>2, <3>3, <3>4, <3>5 DEF Clean, Boosted
  <2>4. CASE reply # "ok"
    BY <1>6, <2>4, CleanSame, CleanUnchanged DEF Apply, Finish
  <2> QED
    BY <2>3, <2>4
<1>7. ASSUME ApplyFails PROVE Clean'
  BY <1>7, CleanSame, CleanUnchanged DEF ApplyFails, Finish
<1>8. ASSUME NEW reply, NEW gained, Save(reply, gained) PROVE Clean'
  <2>1. job.res \in Boosted /\ rs' = rs /\ pc' = "tag"
    BY <1>8 DEF Save, Control, PhasesMatch
  <2>2. \A q \in Res \ {job.res} : db'[q] = db[q]
    BY <1>8 DEF Save, TypeInv, TypeOK
  <2> QED
    BY <2>1, <2>2 DEF Clean, Boosted
<1>9. ASSUME NEW reply, Tag(reply) PROVE Clean'
  BY <1>9, CleanSame, CleanUnchanged DEF Tag, Finish
<1> QED
  BY <1>1, <1>2, <1>3, <1>4, <1>5, <1>6, <1>7, <1>8, <1>9

\* Reverting and stopping.
LEMMA CleanRevert ==
    ASSUME CallsSucceed, TypeInv, TypeInv', Control, Clean
    PROVE  /\ StartLoop \/ BeginExpire \/ EndExpire \/ RestoreFails => Clean'
           /\ \A r \in Res : RevertUnread(r) \/ StartRevert(r) => Clean'
           /\ \A reply : Restore(reply) \/ Untag(reply) => Clean'
           /\ \A r \in Res : \A reply : Adopt(r, reply) => Clean'
           /\ \A reply : Settle(reply) => Clean'
<1>1. ASSUME StartLoop \/ BeginExpire \/ EndExpire \/ RestoreFails PROVE Clean'
  BY <1>1, CleanSame, CleanUnchanged DEF StartLoop, BeginExpire, EndExpire,
     RestoreFails, Finish
<1>2. ASSUME NEW r \in Res, RevertUnread(r) \/ StartRevert(r) PROVE Clean'
  BY <1>2, CleanSame, CleanUnchanged DEF RevertUnread, StartRevert
<1>3. ASSUME NEW reply, Restore(reply) \/ Untag(reply) PROVE Clean'
  BY <1>3, CleanSame, CleanUnchanged DEF Restore, Untag, Finish
<1>4. ASSUME NEW r \in Res, NEW reply, Adopt(r, reply) PROVE Clean'
  <2>1. /\ rs' \in [Res -> ResourceState] /\ rs'[r].phase = "normal"
        /\ \A q \in Res \ {r} : rs'[q] = rs[q]
        /\ Delete(r, "ok") /\ pc' = "expire"
    BY <1>4, DeleteSucceeds DEF Adopt, Cleared, NewState, TypeInv, TypeOK
  <2> QED
    BY <2>1, CleanEnd DEF Clean
<1>5. ASSUME NEW reply, Settle(reply) PROVE Clean'
  <2>1. /\ job.res \in Res
        /\ rs' \in [Res -> ResourceState] /\ rs'[job.res].phase = "normal"
        /\ \A q \in Res \ {job.res} : rs'[q] = rs[q]
        /\ Delete(job.res, "ok") /\ pc' = "expire"
    BY <1>5, InHand, DeleteSucceeds DEF Settle, Finish, Cleared, NewState,
       TypeInv, TypeOK
  <2> QED
    BY <2>1, CleanEnd DEF Clean
<1> QED
  BY <1>1, <1>2, <1>3, <1>4, <1>5

LEMMA CleanStop ==
    ASSUME CallsSucceed, TypeInv, TypeInv', Control, Clean
    PROVE  /\ LoopExit => Clean'
           /\ \A r \in todo : \A reply : StopRevert(r, reply) => Clean'
           /\ \A reply : Drop(reply) => Clean'
           /\ Exit => Clean'
<1>1. ASSUME LoopExit PROVE Clean'
  <2>1. SameRecords /\ pc' = "stop" /\ todo' = Boosted /\ stopping' = stopping /\ stopping
    BY <1>1, CleanUnchanged DEF LoopExit
  <2> QED
    BY <2>1, CleanRecords DEF Clean
<1>2. ASSUME NEW r \in todo, NEW reply, StopRevert(r, reply) PROVE Clean'
  <2>1. r \in Boosted /\ rs[r].orig <= MaxValue /\ rs[r].orig \in Nat
    BY <1>2 DEF StopRevert, Control, PhasesMatch, Clean, Boosted, TypeInv, TypeOK,
                ResourceState
  <2>2. reply = "ok"
    BY <1>2, <2>1, EnvironmentAssumption DEF StopRevert, StopReplies, CallsSucceed
  <2>3. SameRecords /\ pc = "stop" /\ pc' = "drop" /\ todo' = todo /\ stopping' = stopping
    BY <1>2, <2>2, CleanUnchanged DEF StopRevert
  <2> QED
    BY <2>3, CleanRecords DEF Clean
<1>3. ASSUME NEW reply, Drop(reply) PROVE Clean'
  <2>1. /\ job.res \in Res
        /\ rs' \in [Res -> ResourceState] /\ rs'[job.res].phase = "normal"
        /\ \A q \in Res \ {job.res} : rs'[q] = rs[q]
        /\ Delete(job.res, "ok") /\ pc = "drop" /\ pc' = "stop"
        /\ todo' = todo \ {job.res} /\ stopping' = stopping
    BY <1>3, InHand, DeleteSucceeds DEF Drop, Finish, TypeInv, TypeOK, ResourceState
  <2> QED
    BY <2>1, CleanEnd DEF Clean
<1>4. ASSUME Exit PROVE Clean'
  <2>1. Boosted = {} /\ \A r \in Res : db[r] = NoRow
    BY <1>4 DEF Exit, Clean
  <2>2. Boosted' = {} /\ db' = db /\ pc' = "down"
    BY <1>4 DEF Exit, LoseMemory, Boosted, NewState
  <2> QED
    BY <2>1, <2>2 DEF Clean
<1> QED
  BY <1>1, <1>2, <1>3, <1>4

LEMMA CleanTick ==
    ASSUME TypeInv, Clean, Tick
    PROVE  Clean'
<1>1. SameRecords
  BY DEF Tick, SameRecords, SameState, TypeInv, TypeOK, ResourceState
<1> QED
  BY <1>1, CleanSame DEF Tick

LEMMA CleanEnvironment ==
    ASSUME CallsSucceed, TypeInv, Clean
    PROVE  /\ Signal => Clean'
           /\ ~Crash
           /\ \A r \in Res : \A x \in AdminValues[r[2]] : AdminSet(r, x) => Clean'
           /\ \A v \in VMs : AdminRetag(v) \/ AdminPower(v) => Clean'
           /\ UNCHANGED vars => Clean'
<1>1. ~Crash
  BY DEF Crash, CallsSucceed
<1>2. ASSUME \/ Signal \/ UNCHANGED vars
             \/ \E r \in Res : \E x : AdminSet(r, x)
             \/ \E v \in VMs : AdminRetag(v) \/ AdminPower(v)
      PROVE  Clean'
  BY <1>2, CleanSame, CleanUnchanged DEF Signal, AdminSet, AdminRetag,
     AdminPower, vars
<1> QED
  BY <1>1, <1>2

LEMMA CleanStep ==
    ASSUME CallsSucceed, TypeInv, Control, Clean, [Next]_vars
    PROVE  Clean'
<1>1. todo \subseteq Res /\ \A r \in Res : r[1] \in VMs
  BY DEF TypeInv, TypeOK, Res
<1>2. TypeInv'
  BY TypeStep
<1>3. CASE Service
  BY <1>1, <1>2, <1>3, CleanStart, CleanBoost, CleanRevert, CleanStop
     DEF Service, Steps
<1>4. CASE Tick \/ Environment \/ UNCHANGED vars
  BY <1>4, CleanTick, CleanEnvironment DEF Environment
<1> QED
  BY <1>3, <1>4 DEF Next
-------------------------------------------------------------------------------
(* A boosted container carries its tag *)

\* Containers run short of one resource only.
OneIsScarce(kind) == \A k \in Kinds \ {kind} : "saturated" \notin Zones[k]

Working == {"apply", "save", "tag", "restore", "untag", "settle"}

OneKind(kind) ==
    /\ \A r \in Boosted : r[2] = kind
    /\ pc \in Working => job.res[2] = kind

\* The tag of the container whose configuration is in hand goes away under the
\* daemon only, and only while the boost that it marks ends.
Marked ==
    /\ pc \in {"poll", "apply", "save", "tag"} /\ cfg # NoCfg =>
         (boostedTag \in cfg.tags => boostedTag \in tags[cfg.vm])
    /\ \A r \in Boosted : \/ stopping
                          \/ boostedTag \in tags[r[1]]
                          \/ pc \in {"save", "tag", "settle"} /\ r = job.res

\* Evaluating a sample changes counters, never a phase.
LEMMA PhasesStay ==
    ASSUME TypeInv, NEW r \in Res, NEW usage,
           \/ ObserveBoosted(r, usage) \/ CountSample(r, usage)
           \/ StartBoost(r, usage)
    PROVE  \A q \in Res : rs'[q].phase = rs[q].phase
<1>1. CASE ObserveBoosted(r, usage)
  BY <1>1 DEF ObserveBoosted, TypeInv, TypeOK, ResourceState
<1>2. CASE CountSample(r, usage)
  BY <1>2 DEF CountSample, TypeInv, TypeOK, ResourceState
<1>3. CASE StartBoost(r, usage)
  BY <1>3 DEF StartBoost, TypeInv, TypeOK, ResourceState
<1> QED
  BY <1>1, <1>2, <1>3

LEMMA OneKindStep ==
    ASSUME NEW kind \in Kinds, OneIsScarce(kind), TypeInv, Control, Clean,
           OneKind(kind), [Next]_vars
    PROVE  OneKind(kind)'
<1>1. todo \subseteq Res /\ \A r \in Res : r[2] \in Kinds
  BY DEF TypeInv, TypeOK, Res
\* Phases stay as they are, or end, and no boost is begun.
<1>2. ASSUME \A q \in Res : rs'[q].phase = "boosted" => rs[q].phase = "boosted",
             pc' \notin Working \/ (pc \in Working /\ job' = job)
      PROVE  OneKind(kind)'
  BY <1>2 DEF OneKind, Boosted
<1>3. ASSUME NEW r \in todo, NEW usage \in Zones[r[2]], StartBoost(r, usage)
      PROVE  OneKind(kind)'
  <2>1. usage = "saturated"
    BY <1>3, MonitorAssumption DEF StartBoost, SaturatedAfter
  <2>2. r[2] = kind
    BY <1>1, <2>1 DEF OneIsScarce
  <2>3. job'.res = r
    BY <1>3 DEF StartBoost
  <2>4. \A q \in Res : rs'[q].phase = rs[q].phase
    BY <1>1, <1>3, PhasesStay
  <2> QED
    BY <2>2, <2>3, <2>4 DEF OneKind, Boosted
<1>4. ASSUME NEW reply, Apply(reply) PROVE OneKind(kind)'
  <2>1. job.res \in Res /\ job.res[2] = kind /\ pc = "apply"
    BY <1>4, InHand DEF Apply, TypeInv, OneKind, Working
  <2>2. \A q \in Res \ {job.res} : rs'[q] = rs[q]
    BY <1>4 DEF Apply, TypeInv, TypeOK
  <2>3. pc' \in Working => job' = job
    BY <1>4 DEF Apply, Finish, Working
  <2> QED
    BY <2>1, <2>2, <2>3 DEF OneKind, Boosted, Working
<1>5. CASE \E reply \in Replies :
             \/ Start(reply) \/ Tag(reply) \/ Restore(reply) \/ Untag(reply)
             \/ \E gained \in 0..TicksPerSecond - 1 : Save(reply, gained)
             \/ \E r \in todo : Discard(r, reply) \/ StopRevert(r, reply)
  <2>1. rs' = rs
    BY <1>5 DEF Start, Tag, Restore, Untag, Save, Discard, StopRevert
  <2>2. pc' \notin Working \/ (pc \in Working /\ job' = job)
    <3>1. CASE \E reply \in Replies : Tag(reply) \/ Restore(reply)
      BY <3>1 DEF Tag, Restore, Finish, Working
    <3>2. CASE \E reply \in Replies :
                  \/ Untag(reply)
                  \/ \E gained \in 0..TicksPerSecond - 1 : Save(reply, gained)
      BY <3>2 DEF Untag, Save, Working
    <3>3. CASE \E reply \in Replies :
                  \/ Start(reply)
                  \/ \E r \in todo : Discard(r, reply) \/ StopRevert(r, reply)
      BY <3>3 DEF Start, Discard, StopRevert, Working
    <3> QED
      BY <1>5, <3>1, <3>2, <3>3
  <2> QED
    BY <1>2, <2>1, <2>2
<1>6. CASE \E r \in todo : \/ PassOver(r) \/ StatusFails(r[1]) \/ RevertUnread(r)
                           \/ ReadStatus(r[1]) \/ SkipSample(r)
  BY <1>2, <1>6 DEF PassOver, StatusFails, RevertUnread, ReadStatus, SkipSample,
     Evaluating, Finish, Working
<1>7. CASE \/ Sample \/ ConfigFails
           \/ ApplyFails \/ RestoreFails \/ StartLoop \/ BeginExpire
           \/ EndExpire \/ LoopExit \/ \E load \in NodeLoads : Poll(load)
  BY <1>2, <1>7 DEF Sample, ConfigFails, ApplyFails, RestoreFails, StartLoop, BeginExpire,
     EndExpire, LoopExit, Poll, Finish, Working
<1>8. CASE Exit \/ Crash
  BY <1>2, <1>8 DEF Exit, Crash, LoseMemory, NewState, Working
<1>9. ASSUME NEW r \in todo, NEW usage,
             ObserveBoosted(r, usage) \/ CountSample(r, usage)
      PROVE  OneKind(kind)'
  <2>1. \A q \in Res : rs'[q].phase = rs[q].phase
    BY <1>1, <1>9, PhasesStay
  <2>2. Finish(r, "poll")
    BY <1>9 DEF ObserveBoosted, CountSample
  <2>3. pc' \notin Working
    BY <2>2 DEF Finish, Working
  <2> QED
    BY <1>2, <2>1, <2>3
<1>10. ASSUME NEW r \in Res, rs'[r].phase = "normal",
              \A q \in Res \ {r} : rs'[q] = rs[q], pc' \notin Working
       PROVE  OneKind(kind)'
  BY <1>2, <1>10
<1>11. ASSUME NEW reply, Settle(reply) \/ Drop(reply) PROVE OneKind(kind)'
  <2>1. /\ job.res \in Res /\ rs'[job.res].phase = "normal"
        /\ \A q \in Res \ {job.res} : rs'[q] = rs[q]
    BY <1>11, InHand DEF Settle, Drop, Cleared, NewState, TypeInv, TypeOK,
       ResourceState
  <2>2. pc' \in {"expire", "stop"}
    BY <1>11 DEF Settle, Drop, Finish
  <2> QED
    BY <1>10, <2>1, <2>2 DEF Working
<1>12. ASSUME NEW r \in todo, NEW reply, Adopt(r, reply) PROVE OneKind(kind)'
  <2>1. /\ r \in Res /\ rs'[r].phase = "normal" /\ pc' = "expire"
        /\ \A q \in Res \ {r} : rs'[q] = rs[q]
    BY <1>1, <1>12 DEF Adopt, Cleared, NewState, TypeInv, TypeOK
  <2> QED
    BY <1>10, <2>1 DEF Working
<1>13. ASSUME NEW r \in todo, StartRevert(r) PROVE OneKind(kind)'
  <2>1. r \in Boosted /\ job'.res = r /\ rs' = rs
    BY <1>13 DEF StartRevert, Control, PhasesMatch
  <2> QED
    BY <2>1 DEF OneKind, Boosted
<1>14. CASE \E r \in todo : Resume(r)
  BY <1>14 DEF Resume, Clean
<1>15. CASE Tick
  <2>1. \A q \in Res : rs'[q].phase = rs[q].phase
    BY <1>15 DEF Tick, TypeInv, TypeOK, ResourceState
  <2> QED
    BY <1>2, <1>15, <2>1 DEF Tick, Working
<1>16. CASE \/ Signal \/ UNCHANGED vars
            \/ \E r \in Res : \E x \in AdminValues[r[2]] : AdminSet(r, x)
            \/ \E v \in VMs : AdminRetag(v) \/ AdminPower(v)
  BY <1>2, <1>16 DEF Signal, AdminSet, AdminRetag, AdminPower, vars, Working
<1> QED
  BY <1>3, <1>4, <1>5, <1>6, <1>7, <1>8, <1>9, <1>10, <1>11, <1>12,
     <1>13, <1>14, <1>15, <1>16
     DEF Next, Service, Steps, Environment

\* No container loses its tag, no boost is begun and none is left unfinished.
LEMMA MarkedSame ==
    ASSUME TypeInv, Marked,
           \A r \in Res : rs'[r].phase = "boosted" => rs[r].phase = "boosted",
           \A v \in VMs : boostedTag \in tags[v] => boostedTag \in tags'[v],
           stopping => stopping',
           pc \in {"save", "tag", "settle"} =>
             pc' \in {"save", "tag", "settle"} /\ job' = job,
           \/ pc' \notin {"poll", "apply", "save", "tag"}
           \/ cfg' = NoCfg
           \/ pc \in {"poll", "apply", "save", "tag"} /\ cfg' = cfg
    PROVE  Marked'
<1>1. \A r \in Boosted' : r \in Boosted /\ r[1] \in VMs
  BY DEF Boosted, Res
<1>2. cfg # NoCfg => cfg.vm \in VMs
  BY DEF TypeInv, TypeOK, ContainerConfig
<1> QED
  BY <1>1, <1>2 DEF Marked

\* Writing the list with the tag, or without it, changes one container.
LEMMA TagsWritten ==
    ASSUME TypeInv, NEW v \in VMs, NEW list, NEW reply, WriteTags(v, list, reply)
    PROVE  /\ \A w \in VMs \ {v} : tags'[w] = tags[w]
           /\ reply # "error" => tags'[v] = list
           /\ boostedTag \in list =>
                \A w \in VMs : boostedTag \in tags[w] => boostedTag \in tags'[w]
BY DEF WriteTags, TypeInv, TypeOK

LEMMA MarkedTag ==
    ASSUME CallsSucceed, TypeInv, Marked, NEW reply, Tag(reply)
    PROVE  Marked'
<1>1. PICK r \in Res : r = job.res
  BY InHand DEF TypeInv, Tag
<1>2. /\ pc = "tag" /\ pc' = "poll" /\ rs' = rs /\ stopping' = stopping
      /\ cfg # NoCfg /\ cfg.vm = r[1] /\ r[1] \in VMs /\ cfg' \in {cfg, NoCfg}
  BY <1>1, InHand DEF TypeInv, StepInHand, Tag, Finish
<1>3. \A w \in VMs : boostedTag \in tags[w] => boostedTag \in tags'[w]
  BY <1>2, TagsWritten DEF Tag
<1>4. ~stopping => boostedTag \in tags'[r[1]]
  <2>1. CASE boostedTag \in cfg.tags
    BY <1>2, <1>3, <2>1 DEF Marked
  <2>2. CASE boostedTag \notin cfg.tags /\ ~stopping
    <3>1. WriteTags(cfg.vm, cfg.tags \cup {boostedTag}, reply)
      BY <2>2 DEF Tag
    <3>2. reply # "error"
      BY <2>2, <3>1, EnvironmentAssumption DEF WriteTags, PutReplies,
         StopReplies, CallsSucceed
    <3> QED
      BY <1>2, <3>1, <3>2, TagsWritten
  <2> QED
    BY <2>1, <2>2
<1> QED
  BY <1>1, <1>2, <1>3, <1>4 DEF Marked, Boosted, Res

LEMMA MarkedUntag ==
    ASSUME NEW kind, OneKind(kind), TypeInv, Marked, NEW reply, Untag(reply)
    PROVE  Marked'
<1>1. PICK r \in Res : r = job.res
  BY InHand DEF TypeInv, Untag
<1>2. /\ pc = "untag" /\ pc' = "settle" /\ job' = job /\ rs' = rs
      /\ stopping' = stopping /\ cfg.vm = r[1] /\ r[1] \in VMs
  BY <1>1, InHand DEF TypeInv, StepInHand, Untag
<1>3. \A w \in VMs \ {r[1]} : tags'[w] = tags[w]
  BY <1>2, TagsWritten DEF Untag
<1>4. ASSUME NEW q \in Boosted, q # r PROVE q[1] \in VMs \ {r[1]}
  BY <1>1, <1>2, <1>4 DEF OneKind, Working, Boosted, Res
<1> QED
  BY <1>1, <1>2, <1>3, <1>4 DEF Marked, Boosted

LEMMA MarkedBoost ==
    ASSUME TypeInv, Marked, NEW reply, Apply(reply)
    PROVE  Marked'
<1>1. PICK r \in Res : r = job.res
  BY InHand DEF TypeInv, Apply
<1>2. /\ pc = "apply" /\ tags' = tags /\ stopping' = stopping
      /\ pc' \in {"save", "poll"} /\ cfg' \in {cfg, NoCfg}
      /\ pc' = "save" => job' = job
      /\ pc' = "poll" => rs' = rs
  BY DEF Apply, Finish
<1>3. \A q \in Res \ {r} : rs'[q] = rs[q]
  BY <1>1 DEF Apply, TypeInv, TypeOK
<1> QED
  BY <1>1, <1>2, <1>3 DEF Marked, Boosted

\* Ends of a boost: of the one in hand, or of one that nothing is done about.
LEMMA MarkedEnd ==
    ASSUME TypeInv, Marked, NEW r \in Res, rs'[r].phase = "normal",
           \A q \in Res \ {r} : rs'[q] = rs[q],
           pc' \notin {"poll", "apply", "save", "tag"},
           tags' = tags, stopping' = stopping,
           pc \in {"save", "tag", "settle"} => r = job.res
    PROVE  Marked'
BY DEF Marked, Boosted

LEMMA MarkedStep ==
    ASSUME NEW kind, CallsSucceed, ExcludeTag # boostedTag,
           TypeInv, Control, Clean, OneKind(kind), Marked, [Next]_vars
    PROVE  Marked'
<1>1. todo \subseteq Res
  BY DEF TypeInv, TypeOK
<1>2. ASSUME NEW reply, Apply(reply) \/ Tag(reply) \/ Untag(reply)
      PROVE  Marked'
  BY <1>2, MarkedBoost, MarkedTag, MarkedUntag
<1>3. ASSUME NEW reply,
             \/ Start(reply) \/ Restore(reply)
             \/ \E gained \in 0..TicksPerSecond - 1 : Save(reply, gained)
             \/ \E r \in todo : Discard(r, reply) \/ StopRevert(r, reply)
      PROVE  Marked'
  <2>1. rs' = rs /\ tags' = tags /\ stopping' = stopping
    BY <1>3 DEF Start, Restore, Save, Discard, StopRevert
  <2>2. /\ pc \notin {"tag", "settle"} /\ (pc = "save" => pc' = "tag" /\ job' = job)
        /\ pc' \notin {"poll", "apply", "save"}
        /\ pc' = "tag" => pc = "save" /\ cfg' = cfg
    BY <1>3 DEF Start, Restore, Save, Discard, StopRevert, Finish
  <2> QED
    BY <2>1, <2>2, MarkedSame
<1>4. CASE \E r \in todo : \/ PassOver(r) \/ StatusFails(r[1]) \/ RevertUnread(r)
                           \/ SkipSample(r) \/ StartRevert(r)
  BY <1>4, MarkedSame DEF PassOver, StatusFails, RevertUnread, SkipSample,
     StartRevert, Evaluating, Finish
<1>5. CASE \/ ConfigFails \/ ApplyFails \/ RestoreFails \/ StartLoop
           \/ BeginExpire \/ EndExpire \/ LoopExit
  BY <1>5, MarkedSame DEF ConfigFails, ApplyFails, RestoreFails, StartLoop, BeginExpire,
     EndExpire, LoopExit, Finish
<1>6. CASE \E load \in NodeLoads : Poll(load)
  <2>1. cfg' = NoCfg
    BY <1>6 DEF Poll, Control, PhasesMatch
  <2> QED
    BY <1>6, <2>1, MarkedSame DEF Poll
<1>7. CASE Sample \/ \E r \in todo : ReadStatus(r[1])
  <2>1. /\ rs' = rs /\ tags' = tags /\ stopping' = stopping
        /\ pc \notin {"save", "tag", "settle"}
    BY <1>7 DEF Sample, ReadStatus
  <2>2. CASE Sample
    <3>1. pc' = "poll" /\ cfg' = ReadConfig(cfg.vm, cfg.cpus)
      BY <2>2 DEF Sample
    <3>2. cfg'.vm = cfg.vm /\ cfg'.tags = tags[cfg.vm]
      BY <3>1 DEF ReadConfig
    <3> QED
      BY <2>1, <3>1, <3>2 DEF Marked, Boosted
  <2>3. CASE \E r \in todo : ReadStatus(r[1])
    BY <2>1, <2>3 DEF ReadStatus, Marked, Boosted
  <2> QED
    BY <1>7, <2>2, <2>3
<1>8. ASSUME NEW r \in todo, NEW usage,
             \/ ObserveBoosted(r, usage) \/ CountSample(r, usage)
             \/ StartBoost(r, usage)
      PROVE  Marked'
  <2>1. \A q \in Res : rs'[q].phase = rs[q].phase
    BY <1>1, <1>8, PhasesStay
  <2>2. /\ pc = "poll" /\ tags' = tags /\ stopping' = stopping
        /\ cfg' = NoCfg \/ cfg' = cfg
    BY <1>8 DEF ObserveBoosted, CountSample, StartBoost, Evaluating, Finish
  <2> QED
    BY <2>1, <2>2, MarkedSame
<1>9. ASSUME NEW r \in todo, NEW reply, Adopt(r, reply) PROVE Marked'
  <2>1. r \in Res /\ rs'[r].phase = "normal" /\ \A q \in Res \ {r} : rs'[q] = rs[q]
    BY <1>1, <1>9 DEF Adopt, Cleared, NewState, TypeInv, TypeOK
  <2> QED
    BY <1>9, <2>1, MarkedEnd DEF Adopt
<1>10. ASSUME NEW reply, Settle(reply) \/ Drop(reply) PROVE Marked'
  <2>1. /\ job.res \in Res /\ rs'[job.res].phase = "normal"
        /\ \A q \in Res \ {job.res} : rs'[q] = rs[q]
    BY <1>10, InHand DEF Settle, Drop, Cleared, NewState, TypeInv, TypeOK,
       ResourceState
  <2> QED
    BY <1>10, <2>1, MarkedEnd DEF Settle, Drop, Finish
<1>11. CASE Exit \/ Crash
  <2>1. pc' = "down" /\ Boosted' = {}
    BY <1>11 DEF Exit, Crash, LoseMemory, NewState, Boosted
  <2> QED
    BY <2>1 DEF Marked
<1>12. CASE \E r \in todo : Resume(r)
  BY <1>12 DEF Resume, Clean
<1>13. CASE Tick
  <2>1. \A q \in Res : rs'[q].phase = rs[q].phase
    BY <1>13 DEF Tick, TypeInv, TypeOK, ResourceState
  <2> QED
    BY <1>13, <2>1, MarkedSame DEF Tick
<1>14. CASE \/ Signal \/ UNCHANGED vars
            \/ \E r \in Res : \E x \in AdminValues[r[2]] : AdminSet(r, x)
            \/ \E v \in VMs : AdminPower(v)
  BY <1>14, MarkedSame DEF Signal, AdminSet, AdminPower, vars
<1>15. ASSUME NEW v \in VMs, AdminRetag(v) PROVE Marked'
  <2>1. \A w \in VMs : boostedTag \in tags[w] => boostedTag \in tags'[w]
    BY <1>15 DEF AdminRetag, TypeInv, TypeOK
  <2> QED
    BY <1>15, <2>1, MarkedSame DEF AdminRetag
<1> QED
  BY <1>2, <1>3, <1>4, <1>5, <1>6, <1>7, <1>8, <1>9, <1>10, <1>11, <1>12, <1>13,
     <1>14, <1>15 DEF Next, Service, Steps, Environment
-------------------------------------------------------------------------------
(* The theorems on stopping and on tags *)

LEMMA CleanAlways ==
    ASSUME CallsSucceed
    PROVE  Spec => []Clean
<1>1. Init => Clean
  BY DEF Init, Clean, Boosted, NewState
<1>2. Known /\ Clean /\ [Next]_vars => Clean'
  BY CleanStep DEF Known
<1> QED
  BY <1>1, <1>2, KnownAlways, PTL DEF Spec

\* RevertAllBoosts misses no boost the process knows of, in whatever step the
\* signal comes: in a poll, after a boost was applied and before it is recorded,
\* in the revert of another one. A boost that the node has carried out and whose
\* answer the signal cuts off is marked in forgotten, and exempt.
THEOREM StopsClean ==
    ASSUME CallsSucceed
    PROVE  Spec => []NothingLeft
<1>1. Known /\ Clean => NothingLeft
  BY DEF Known, Control, PhasesMatch, Clean, Keep, Kept, MemoryKnows, RowKnows,
         Boosted, NothingLeft
<1> QED
  BY <1>1, KnownAlways, CleanAlways, PTL

\* For any number of containers, any schedule of boosts, reverts, edits,
\* retagging and restarts: a container whose resource is boosted carries the
\* tag between polls, when requests succeed, only one resource is ever scarce
\* and the exclusion tag is another one. Without any of the three it may not.
THEOREM TagFollowsBoost ==
    ASSUME NEW kind \in Kinds, OneIsScarce(kind), CallsSucceed,
           ExcludeTag # boostedTag
    PROVE  Spec => []BoostIsTagged
<1>1. Init => OneKind(kind) /\ Marked
  BY DEF Init, OneKind, Marked, Working, Boosted, NewState
<1>2. Known /\ Clean /\ OneKind(kind) /\ [Next]_vars => OneKind(kind)'
  BY OneKindStep DEF Known
<1>3. Known /\ Clean /\ OneKind(kind) /\ Marked /\ [Next]_vars => Marked'
  BY MarkedStep DEF Known
<1>4. Marked => BoostIsTagged
  BY DEF Marked, BoostIsTagged
<1> QED
  BY <1>1, <1>2, <1>3, <1>4, KnownAlways, CleanAlways, PTL DEF Spec
-------------------------------------------------------------------------------
(* Sums over the containers *)

LEMMA NatMin ==
    ASSUME NEW T \in SUBSET Nat, T # {}
    PROVE  \E n \in T : \A m \in T : n <= m
<1> DEFINE less == {p \in Nat \X Nat : p[1] < p[2]}
<1>1. IsWellFoundedOn(less, Nat)
  BY NatLessThanWellFounded DEF OpToRel
<1> HIDE DEF less
<1>2. PICK n \in T : \A m \in T : ~ (<<m, n>> \in less)
  BY <1>1, WFMin
<1>3. ASSUME NEW m \in T PROVE n <= m
  <2>1. m \in Nat /\ n \in Nat /\ ~(m < n)
    BY <1>2 DEF less
  <2> QED
    BY <2>1
<1> QED
  BY <1>3

\* A family of subsets that has every set whose parts with one element less it
\* has, has them all.
LEMMA SubsetInduction ==
    ASSUME NEW S, IsFiniteSet(S), NEW G,
           \A s \in SUBSET S : (\A v \in s : s \ {v} \in G) => s \in G
    PROVE  \A s \in SUBSET S : s \in G
<1> DEFINE sizes == {n \in Nat : \E s \in SUBSET S : s \notin G /\ Cardinality(s) = n}
<1>1. \A s \in SUBSET S : IsFiniteSet(s) /\ Cardinality(s) \in Nat
  BY FS_Subset, FS_CardinalityType
<1>2. SUFFICES ASSUME sizes # {} PROVE FALSE
  BY <1>1
<1>3. PICK n \in sizes : \A m \in sizes : n <= m
  <2> HIDE DEF sizes
  <2>1. sizes \in SUBSET Nat
    BY DEF sizes
  <2> QED
    BY <1>2, <2>1, NatMin
<1>4. PICK s \in SUBSET S : s \notin G /\ Cardinality(s) = n
  OBVIOUS
<1>5. ASSUME NEW v \in s PROVE s \ {v} \in G
  <2>1. s \ {v} \in SUBSET S /\ Cardinality(s \ {v}) = n - 1 /\ n \in Nat
    BY <1>1, <1>4, FS_RemoveElement
  <2>2. Cardinality(s \ {v}) \in Nat /\ ~(n <= n - 1)
    BY <1>1, <2>1
  <2>3. n - 1 \notin sizes
    BY <1>3, <2>2
  <2> QED
    BY <2>1, <2>2, <2>3
<1> QED
  BY <1>4, <1>5

\* The recursion that MapThenSumSet unfolds to.
Partial(a, g, s) == IF s = {} THEN 0
                    ELSE LET v == CHOOSE v \in s : TRUE
                         IN  a[<<v, "memory">>] + g[s \ {v}]

IsSum(a, g, S) == g = [s \in SUBSET S |-> Partial(a, g, s)]

LEMMA MemoryIsSum ==
    /\ MemoryOf(running) = (CHOOSE g : IsSum(alloc, g, running))[running]
    /\ MemoryOf(running)' = (CHOOSE g : IsSum(alloc', g, running'))[running']
BY DEF MemoryOf, MapThenSumSet, MapThenFoldSet, IsSum, Partial

LEMMA PartialStep ==
    ASSUME NEW S, NEW s \in SUBSET S, s # {}
    PROVE  \E v \in s : /\ v \in S /\ s \ {v} \in SUBSET S
                        /\ \A a, g : Partial(a, g, s) = a[<<v, "memory">>] + g[s \ {v}]
<1>1. (CHOOSE w \in s : TRUE) \in s
  OBVIOUS
<1> QED
  BY <1>1 DEF Partial

LEMMA SumExists ==
    ASSUME NEW a, NEW S, IsFiniteSet(S)
    PROVE  \E g : IsSum(a, g, S)
<1> DEFINE upTo(g, n) == \A s \in SUBSET S :
                           Cardinality(s) <= n => g[s] = Partial(a, g, s)
           missing == {n \in Nat : \A g : g = [s \in SUBSET S |-> g[s]] => ~upTo(g, n)}
<1>1. \A s \in SUBSET S : /\ IsFiniteSet(s) /\ Cardinality(s) \in Nat
                          /\ Cardinality(s) <= Cardinality(S)
  BY FS_Subset, FS_CardinalityType
<1>2. missing = {}
  <2>1. SUFFICES ASSUME missing # {} PROVE FALSE
    OBVIOUS
  <2>2. PICK n \in missing : n \in Nat /\ \A m \in missing : n <= m
    <3> HIDE DEF missing
    <3>1. missing \in SUBSET Nat
      BY DEF missing
    <3> QED
      BY <2>1, <3>1, NatMin
  <2>3. PICK g : n # 0 => upTo(g, n - 1)
    <3>1. CASE n = 0
      BY <3>1
    <3>2. CASE n # 0
      <4>1. n - 1 \in Nat /\ ~(n <= n - 1)
        BY <3>2
      <4>2. n - 1 \notin missing
        BY <2>2, <4>1
      <4> QED
        BY <4>1, <4>2
    <3> QED
      BY <3>1, <3>2
  <2> DEFINE h == [s \in SUBSET S |-> Partial(a, g, s)]
  <2> HIDE DEF upTo, missing
  <2>4. ASSUME NEW s \in SUBSET S, Cardinality(s) <= n
        PROVE  h[s] = Partial(a, h, s)
    <3>1. CASE s = {}
      BY <3>1 DEF Partial
    <3>2. CASE s # {}
      <4>1. PICK v \in s : /\ v \in S /\ s \ {v} \in SUBSET S
                           /\ \A b, f : Partial(b, f, s)
                                          = b[<<v, "memory">>] + f[s \ {v}]
        <5> HIDE DEF h
        <5> QED
          BY <3>2, PartialStep
      <4>2. Cardinality(s \ {v}) = Cardinality(s) - 1
        BY <1>1, FS_RemoveElement
      <4>3. n # 0 /\ Cardinality(s \ {v}) <= n - 1
        BY <1>1, <2>2, <2>4, <4>1, <4>2
      <4>4. h[s \ {v}] = g[s \ {v}]
        BY <2>3, <4>1, <4>3 DEF upTo
      <4> QED
        BY <4>1, <4>4
    <3> QED
      BY <3>1, <3>2
  <2>5. h = [s \in SUBSET S |-> h[s]] /\ upTo(h, n)
    BY <2>4 DEF upTo
  <2> QED
    BY <2>2, <2>5 DEF missing
<1>3. Cardinality(S) \notin missing /\ Cardinality(S) \in Nat
  BY <1>2, FS_CardinalityType
<1>4. PICK g : g = [s \in SUBSET S |-> g[s]] /\ upTo(g, Cardinality(S))
  BY <1>3
<1>5. g = [s \in SUBSET S |-> Partial(a, g, s)]
  BY <1>1, <1>4
<1> QED
  BY <1>5 DEF IsSum

LEMMA SumIsNatural ==
    ASSUME NEW a, NEW S, IsFiniteSet(S), \A v \in S : a[<<v, "memory">>] \in Nat,
           NEW g, IsSum(a, g, S)
    PROVE  \A s \in SUBSET S : g[s] \in Nat
<1> DEFINE G == {s \in SUBSET S : g[s] \in Nat}
<1>1. ASSUME NEW s \in SUBSET S, \A v \in s : s \ {v} \in G
      PROVE  s \in G
  <2>1. g[s] = Partial(a, g, s)
    BY DEF IsSum
  <2>2. CASE s = {}
    BY <2>1, <2>2 DEF Partial
  <2>3. CASE s # {}
    <3>1. PICK v \in s : /\ v \in S /\ s \ {v} \in SUBSET S
                         /\ \A b, f : Partial(b, f, s) = b[<<v, "memory">>] + f[s \ {v}]
      BY <2>3, PartialStep
    <3>2. g[s] = a[<<v, "memory">>] + g[s \ {v}]
      BY <2>1, <3>1
    <3>3. g[s \ {v}] \in Nat
      BY <1>1
    <3> QED
      BY <3>1, <3>2, <3>3
  <2> QED
    BY <2>2, <2>3
<1>2. \A s \in SUBSET S : s \in G
  <2> HIDE DEF G
  <2> QED
    BY <1>1, SubsetInduction
<1> QED
  BY <1>2

\* The amounts differ by d, at u only.
OneMore(a, b, S, u, d) ==
    /\ d \in Int
    /\ \A v \in S : a[<<v, "memory">>] \in Nat /\ b[<<v, "memory">>] \in Nat
    /\ \A v \in S \ {u} : b[<<v, "memory">>] = a[<<v, "memory">>]
    /\ u \in S => b[<<u, "memory">>] = a[<<u, "memory">>] + d

\* Then the sums that u is in differ by d.
LEMMA SumChanges ==
    ASSUME NEW a, NEW b, NEW S, IsFiniteSet(S), NEW u, NEW d,
           OneMore(a, b, S, u, d),
           NEW g, IsSum(a, g, S), NEW h, IsSum(b, h, S)
    PROVE  \A s \in SUBSET S : h[s] = g[s] + (IF u \in s THEN d ELSE 0)
<1> DEFINE G == {s \in SUBSET S : h[s] = g[s] + (IF u \in s THEN d ELSE 0)}
<1>1. \A s \in SUBSET S : g[s] \in Nat /\ h[s] \in Nat
  BY SumIsNatural DEF OneMore
<1>2. ASSUME NEW s \in SUBSET S, \A v \in s : s \ {v} \in G
      PROVE  s \in G
  <2>1. g[s] = Partial(a, g, s) /\ h[s] = Partial(b, h, s)
    BY DEF IsSum
  <2>2. CASE s = {}
    BY <2>1, <2>2 DEF Partial
  <2>3. CASE s # {}
    <3>1. PICK v \in s : /\ v \in S /\ s \ {v} \in SUBSET S
                         /\ \A c, f : Partial(c, f, s) = c[<<v, "memory">>] + f[s \ {v}]
      BY <2>3, PartialStep
    <3>2. /\ g[s] = a[<<v, "memory">>] + g[s \ {v}]
          /\ h[s] = b[<<v, "memory">>] + h[s \ {v}]
      BY <2>1, <3>1
    <3>3. h[s \ {v}] = g[s \ {v}] + (IF u \in s \ {v} THEN d ELSE 0)
      BY <1>2, <3>1
    <3>4. CASE v = u
      <4>1. h[s \ {v}] = g[s \ {v}] /\ b[<<v, "memory">>] = a[<<v, "memory">>] + d
        BY <1>1, <3>1, <3>3, <3>4 DEF OneMore
      <4> QED
        BY <1>1, <3>1, <3>2, <3>4, <4>1 DEF OneMore
    <3>5. CASE v # u
      <4>1. /\ b[<<v, "memory">>] = a[<<v, "memory">>]
            /\ u \in s \ {v} <=> u \in s
        BY <3>1, <3>5 DEF OneMore
      <4> QED
        BY <1>1, <3>1, <3>2, <3>3, <4>1 DEF OneMore
    <3> QED
      BY <3>4, <3>5
  <2> QED
    BY <2>2, <2>3
<1>3. \A s \in SUBSET S : s \in G
  <2> HIDE DEF G
  <2> QED
    BY <1>2, SubsetInduction
<1> QED
  BY <1>3
-------------------------------------------------------------------------------
(* A boost overshoots the node by no more than it started from *)

\* Every configuration can be read, and nobody else resizes, starts or stops a
\* container.
OnlyBoosts == "error" \notin Faults /\ AdminActs \cap {"resize", "power"} = {}

\* The boost in hand fits the memory that is configured now, not only the
\* memory that was configured when it was computed.
Room ==
    /\ edited = {}
    /\ pc = "apply" /\ job.res[2] = "memory" =>
         Fits(job.to, job.from, MemoryOf(running))

LEMMA RoomElsewhere ==
    ASSUME Room, edited' \subseteq edited, pc' # "apply"
    PROVE  Room'
BY DEF Room

LEMMA RoomStays ==
    ASSUME Room, UNCHANGED <<alloc, running, pc, job, edited>>
    PROVE  Room'
<1>1. MemoryOf(running)' = MemoryOf(running)
  BY MemoryIsSum
<1> QED
  BY <1>1 DEF Room, Fits

LEMMA RoomStartBoost ==
    ASSUME OnlyBoosts, TypeInv, Room, NEW r \in todo, NEW usage, StartBoost(r, usage)
    PROVE  Room'
<1>1. PICK value \in Outcomes(r) \ {NoBoost} :
          job' = [res |-> r, from |-> Current(r), to |-> value]
  BY DEF StartBoost
<1>2. UNCHANGED <<alloc, running, edited>>
  BY DEF StartBoost
<1>3. MemoryOf(running)' = MemoryOf(running)
  BY <1>2, MemoryIsSum
<1>4. ASSUME r[2] = "memory"
      PROVE  Fits(value, Current(r), MemoryOf(running))
  <2>1. value = ComputeBoost(r[2], Current(r), short, MemoryOf(running))
    BY <1>1, <1>4 DEF Outcomes, OnlyBoosts
  <2> QED
    BY <1>1, <1>4, <2>1 DEF ComputeBoost
<1> QED
  BY <1>1, <1>2, <1>3, <1>4 DEF Room, Fits

LEMMA RoomStep ==
    ASSUME OnlyBoosts, TypeInv, Room, [Next]_vars
    PROVE  Room'
<1>1. CASE \E reply \in Replies :
             \/ Apply(reply) \/ Tag(reply) \/ Restore(reply) \/ Settle(reply)
             \/ Drop(reply)
  BY <1>1, RoomElsewhere DEF Apply, Tag, Restore, Settle, Drop, Finish
<1>2. CASE \E reply \in Replies :
             \/ Start(reply) \/ Untag(reply)
             \/ \E gained \in 0..TicksPerSecond - 1 : Save(reply, gained)
             \/ \E r \in todo : \/ Discard(r, reply) \/ Adopt(r, reply)
                                \/ StopRevert(r, reply)
  BY <1>2, RoomElsewhere DEF Start, Untag, Save, Discard, Adopt, StopRevert
<1>3. CASE \E r \in todo : \/ PassOver(r) \/ StatusFails(r[1]) \/ RevertUnread(r)
                           \/ Resume(r) \/ ReadStatus(r[1]) \/ SkipSample(r)
                           \/ StartRevert(r)
  BY <1>3, RoomElsewhere DEF PassOver, StatusFails, RevertUnread, Resume,
     ReadStatus, SkipSample, StartRevert, Evaluating, Finish
<1>4. ASSUME NEW r \in todo, NEW usage,
             ObserveBoosted(r, usage) \/ CountSample(r, usage)
      PROVE  Room'
  BY <1>4, RoomElsewhere DEF ObserveBoosted, CountSample, Finish
<1>5. ASSUME NEW r \in todo, NEW usage, StartBoost(r, usage) PROVE Room'
  BY <1>5, RoomStartBoost
<1>6. CASE \/ Sample \/ ConfigFails
           \/ ApplyFails \/ RestoreFails \/ StartLoop \/ BeginExpire
           \/ EndExpire \/ LoopExit \/ \E load \in NodeLoads : Poll(load)
  BY <1>6, RoomElsewhere DEF Sample, ConfigFails, ApplyFails, RestoreFails, StartLoop, BeginExpire,
     EndExpire, LoopExit, Poll, Finish
<1>7. CASE Exit \/ Crash
  BY <1>7, RoomElsewhere DEF Exit, Crash, LoseMemory
<1>8. CASE Tick \/ Signal \/ UNCHANGED vars \/ \E v \in VMs : AdminRetag(v)
  BY <1>8, RoomStays DEF Tick, Signal, AdminRetag, vars
<1>9. CASE \/ \E r \in Res : \E x \in AdminValues[r[2]] : AdminSet(r, x)
           \/ \E v \in VMs : AdminPower(v)
  BY <1>9 DEF AdminSet, AdminPower, OnlyBoosts
<1> QED
  BY <1>1, <1>2, <1>3, <1>4, <1>5, <1>6, <1>7, <1>8, <1>9
     DEF Next, Service, Steps, Environment

\* What the request of a memory boost does to the sum.
LEMMA ApplyAdds ==
    ASSUME TypeInv, NEW v \in VMs, NEW to \in Nat,
           alloc' = [alloc EXCEPT ![<<v, "memory">>] = to], running' = running
    PROVE  /\ MemoryOf(running) \in Nat
           /\ MemoryOf(running)' =
                MemoryOf(running)
                  + (IF v \in running THEN to - alloc[<<v, "memory">>] ELSE 0)
<1> DEFINE d == to - alloc[<<v, "memory">>]
<1>1. IsFiniteSet(running)
  BY EnvironmentAssumption, FS_Subset DEF TypeInv, TypeOK
<1>2. \A w \in running : /\ <<w, "memory">> \in Res
                         /\ alloc[<<w, "memory">>] \in Nat
                         /\ alloc'[<<w, "memory">>] \in Nat
  BY DEF TypeInv, TypeOK, Res, Kinds
<1>3. /\ \A w \in running \ {v} : alloc'[<<w, "memory">>] = alloc[<<w, "memory">>]
      /\ alloc'[<<v, "memory">>] = alloc[<<v, "memory">>] + d
      /\ d \in Int
  BY DEF TypeInv, TypeOK, Res, Kinds
<1>4. PICK g : g = CHOOSE f : IsSum(alloc, f, running)
  OBVIOUS
<1>5. PICK h : h = CHOOSE f : IsSum(alloc', f, running)
  OBVIOUS
<1>6. IsSum(alloc, g, running) /\ IsSum(alloc', h, running)
  BY <1>1, <1>4, <1>5, SumExists
<1>7. MemoryOf(running) = g[running] /\ MemoryOf(running)' = h[running]
  BY <1>4, <1>5, MemoryIsSum
<1>8. g[running] \in Nat
  BY <1>1, <1>2, <1>6, SumIsNatural
<1>9. h[running] = g[running] + (IF v \in running THEN d ELSE 0)
  <2> HIDE DEF d
  <2>1. OneMore(alloc, alloc', running, v, d)
    BY <1>2, <1>3 DEF OneMore
  <2>2. \A s \in SUBSET running : h[s] = g[s] + (IF v \in s THEN d ELSE 0)
    BY <1>1, <1>6, <2>1, SumChanges
  <2> QED
    BY <2>2
<1> QED
  BY <1>7, <1>8, <1>9

LEMMA ApplyFits ==
    ASSUME Known, Room, NEW v \in VMs, NEW reply, Apply(reply),
           job.res = <<v, "memory">>
    PROVE  MemoryOf(running)' <= HostMem + job.from
<1>1. /\ pc = "apply" /\ running' = running
      /\ alloc' = [alloc EXCEPT ![<<v, "memory">>] = job.to]
  BY DEF Apply
<1>2. job.from \in Nat /\ job.to \in Nat
  BY <1>1, InHand DEF Known, TypeInv
<1>3. job.from = alloc[<<v, "memory">>]
  BY <1>1 DEF Known, Fresh, Room, Effective
<1>4. job.from <= job.to
  BY <1>1, <1>2, BoostIsNoLess DEF Known, RaiseInHand
<1>5. job.to - job.from <= HostMem - MemoryOf(running) + job.from
  BY <1>1 DEF Room, Fits
<1>6. /\ MemoryOf(running) \in Nat
      /\ MemoryOf(running)' =
           MemoryOf(running) + (IF v \in running THEN job.to - job.from ELSE 0)
  BY <1>1, <1>2, <1>3, ApplyAdds DEF Known
<1> QED
  BY <1>2, <1>4, <1>5, <1>6, ScalingAssumption

\* While a boost is being applied nothing else writes to a container.
LEMMA OvershootStep ==
    ASSUME OnlyBoosts, Known, Room, [Next]_vars, NEW v \in VMs,
           pc = "apply", job.res = <<v, "memory">>, alloc' # alloc
    PROVE  MemoryOf(running)' <= HostMem + job.from
<1>1. PICK reply : Apply(reply)
  <2>1. CASE Service
    BY <2>1 DEF Service, Steps, Start, Tag, Save, Restore, Untag, Settle, Drop,
       Discard, Adopt, StopRevert, ApplyFails, RestoreFails, PassOver,
       StatusFails, Sample, ConfigFails, RevertUnread, Resume, ReadStatus,
       SkipSample, StartRevert, ObserveBoosted, CountSample, StartBoost, Evaluating, Poll, StartLoop,
       BeginExpire, EndExpire, LoopExit, Exit
  <2>2. CASE Tick \/ Environment \/ UNCHANGED vars
    BY <2>2 DEF Tick, Environment, Signal, Crash, AdminSet, AdminRetag,
       AdminPower, OnlyBoosts, vars
  <2> QED
    BY <2>1, <2>2 DEF Next
<1> QED
  BY <1>1, ApplyFits

\* For any number of containers, any factors and any node: however many boosts
\* are applied on the strength of one node status, none commits more memory to
\* the running containers than the node has and the container had before.
THEOREM Overshoot ==
    ASSUME OnlyBoosts
    PROVE  Spec => OvershootBounded
<1>1. Init => Room
  BY DEF Init, Room
<1>2. Known /\ Room /\ [Next]_vars => Room'
  BY RoomStep DEF Known
<1>3. Known /\ Room /\ [Next]_vars
        => \A v \in VMs : pc = "apply" /\ job.res = <<v, "memory">> /\ alloc' # alloc
             => MemoryOf(running)' <= HostMem + job.from
  BY OvershootStep
<1> QED
  BY <1>1, <1>2, <1>3, KnownAlways, PTL DEF Spec, OvershootBounded
===============================================================================

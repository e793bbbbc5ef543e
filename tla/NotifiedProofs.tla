---------------------------- MODULE NotifiedProofs ----------------------------
(***************************************************************************)
(* The daemon with its alerts is still the daemon, so what is proved of    *)
(* Autoscaler holds beside any number of alerts; what the alerts say is    *)
(* true; and each goes to every enabled backend once: for every value of   *)
(* the constants.                                                          *)
(***************************************************************************)
EXTENDS NotifiedAutoscaler, AutoscalerRefinement, AutoscalerTiming,
        SequenceTheorems

USE DEF world, local, hist

\* Alerts only watch: a step of the whole is a step of the daemon or leaves it
\* as it was.
LEMMA AlertsWatch == NSpec => Spec
<1>1. NInit => Init
  BY DEF NInit
<1>2. [NNext]_nvars => [Next]_vars
  <2>1. AnnounceBoost \/ AnnounceRevert \/ Unannounced \/ EndOfProcess => Service
    BY DEF AnnounceBoost, AnnounceRevert, Unannounced, EndOfProcess, Service, Steps
  <2>2. NCrash => Next
    BY DEF NCrash, Next, Environment
  <2>3. Elsewhere => Next
    BY DEF Elsewhere, Next
  <2>4. ASSUME NEW s \in Slots, Notify(s) PROVE UNCHANGED vars
    BY <2>4 DEF Notify
  <2>5. UNCHANGED nvars => UNCHANGED vars
    BY DEF nvars
  <2>6. Service => Next
    BY DEF Next
  <2> QED
    BY <2>1, <2>2, <2>3, <2>4, <2>5, <2>6 DEF NNext, NService
<1> QED
  BY <1>1, <1>2, PTL DEF NSpec, Spec
-------------------------------------------------------------------------------
(* Every record, in memory or on disk, is of one boost *)

Backed(q) ==
    /\ rs[q].phase = "boosted" => rs[q].boosted \in Boosts(q[2], rs[q].orig)
    /\ db[q] # NoRow => db[q].boosted \in Boosts(q[2], db[q].orig)

RecordsAreBoosts == \A q \in Res : Backed(q)

\* Records that stay as they are, or disappear.
LEMMA RecordsStay ==
    ASSUME RecordsAreBoosts,
           \A q \in Res : /\ rs'[q].phase = "boosted" => SameState(q)
                          /\ SameRow(q)
    PROVE  RecordsAreBoosts'
BY DEF RecordsAreBoosts, Backed, SameState, SameRow

LEMMA RecordsUnchanged ==
    ASSUME RecordsAreBoosts, UNCHANGED <<rs, db>>
    PROVE  RecordsAreBoosts'
BY DEF RecordsAreBoosts, Backed

LEMMA DeleteRow ==
    ASSUME TypeInv, NEW r \in Res, NEW reply, Delete(r, reply)
    PROVE  \A q \in Res : SameRow(q)
BY DEF Delete, SameRow, TypeInv, TypeOK

LEMMA RecordsApply ==
    ASSUME TypeInv, RaiseInHand, RecordsAreBoosts, NEW reply, Apply(reply)
    PROVE  RecordsAreBoosts'
<1> DEFINE r == job.res
<1>1. r \in Res /\ pc = "apply" /\ db' = db
  BY InHand DEF TypeInv, Apply
<1>2. CASE rs' = rs
  BY <1>1, <1>2, RecordsUnchanged
<1>3. CASE rs' = [rs EXCEPT ![r] = [NewState EXCEPT !.phase = "boosted",
                                                   !.orig = job.from,
                                                   !.boosted = job.to]]
  <2>1. rs'[r].orig = job.from /\ rs'[r].boosted = job.to
    BY <1>1, <1>3 DEF NewState, TypeInv, TypeOK
  <2>2. rs'[r].boosted \in Boosts(r[2], rs'[r].orig)
    BY <1>1, <2>1 DEF RaiseInHand
  <2>3. \A q \in Res \ {r} : rs'[q] = rs[q]
    BY <1>3 DEF TypeInv, TypeOK
  <2> QED
    BY <1>1, <2>2, <2>3 DEF RecordsAreBoosts, Backed
<1> QED
  BY <1>2, <1>3 DEF Apply

LEMMA RecordsSave ==
    ASSUME TypeInv, Control, RecordsAreBoosts, NEW reply, NEW gained, Save(reply, gained)
    PROVE  RecordsAreBoosts'
<1> DEFINE r == job.res
<1>1. r \in Res /\ rs' = rs /\ rs[r].phase = "boosted"
  BY InHand DEF TypeInv, Save, Control, PhasesMatch, Boosted
<1>2. CASE db' = db
  BY <1>1, <1>2, RecordsUnchanged
<1>3. CASE db' # db
  <2>1. /\ db'[r].orig = rs[r].orig /\ db'[r].boosted = rs[r].boosted
        /\ \A q \in Res \ {r} : db'[q] = db[q]
    BY <1>1, <1>3 DEF Save, TypeInv, TypeOK
  <2> QED
    BY <1>1, <2>1 DEF RecordsAreBoosts, Backed
<1> QED
  BY <1>2, <1>3

LEMMA RecordsResume ==
    ASSUME TypeInv, RecordsAreBoosts, NEW r \in todo, Resume(r)
    PROVE  RecordsAreBoosts'
<1>1. r \in Res /\ db[r] # NoRow /\ db' = db
  BY DEF Resume, TypeInv, TypeOK, StepInHand
<1>2. /\ rs'[r].orig = db[r].orig /\ rs'[r].boosted = db[r].boosted
      /\ \A q \in Res \ {r} : rs'[q] = rs[q]
  BY <1>1 DEF Resume, TypeInv, TypeOK, ResourceState
<1> QED
  BY <1>1, <1>2 DEF RecordsAreBoosts, Backed

LEMMA RecordsTick ==
    ASSUME TypeInv, RecordsAreBoosts, Tick
    PROVE  RecordsAreBoosts'
<1>1. ASSUME NEW q \in Res PROVE SameState(q)
  BY DEF Tick, TypeInv, TypeOK, ResourceState, SameState
<1>2. ASSUME NEW q \in Res PROVE SameRow(q)
  <2>1. CASE db[q] = NoRow
    BY <2>1 DEF Tick, SameRow
  <2>2. CASE db[q] # NoRow
    <3>1. db[q] \in BoostRecord /\ db'[q] = [db[q] EXCEPT !.age = Count(@, BoostDuration)]
      BY <2>2 DEF Tick, TypeInv, TypeOK
    <3> QED
      BY <2>2, <3>1 DEF BoostRecord, SameRow
  <2> QED
    BY <2>1, <2>2
<1> QED
  BY <1>1, <1>2, RecordsStay

\* The other steps that change a record end it, or change its counters only.
LEMMA RecordsEnd ==
    ASSUME TypeInv, RecordsAreBoosts, NEW reply, NEW r \in Res,
           Delete(r, reply),
           \A q \in Res : rs'[q].phase = "boosted" => SameState(q)
    PROVE  RecordsAreBoosts'
BY DeleteRow, RecordsStay

LEMMA RecordsStep ==
    ASSUME TypeInv, Control, RaiseInHand, RecordsAreBoosts, [Next]_vars
    PROVE  RecordsAreBoosts'
<1> USE DEF TypeInv, TypeOK
<1>1. ASSUME NEW reply \in Replies,
             Apply(reply) \/ \E gained \in 0..TicksPerSecond - 1 : Save(reply, gained)
      PROVE  RecordsAreBoosts'
  BY <1>1, RecordsApply, RecordsSave
<1>2. ASSUME NEW r \in todo, Resume(r) PROVE RecordsAreBoosts'
  BY <1>2, RecordsResume
<1>3. ASSUME NEW r \in todo, NEW reply \in Replies, Discard(r, reply)
      PROVE  RecordsAreBoosts'
  <2>1. \A q \in Res : SameState(q)
    BY <1>3 DEF Discard, SameState
  <2> QED
    BY <1>3, <2>1, RecordsEnd DEF Discard
<1>4. ASSUME NEW r \in todo, NEW reply \in Replies, Adopt(r, reply)
      PROVE  RecordsAreBoosts'
  <2>1. r \in Res /\ Delete(r, reply)
    BY <1>4 DEF Adopt
  <2>2. /\ rs'[r].phase = "normal"
        /\ \A q \in Res \ {r} : rs'[q] = rs[q]
    BY <1>4, <2>1 DEF Adopt, Cleared, NewState
  <2>3. \A q \in Res : rs'[q].phase = "boosted" => SameState(q)
    BY <2>2 DEF SameState
  <2> QED
    BY <2>1, <2>3, RecordsEnd
<1>5. ASSUME NEW reply \in Replies, Settle(reply) \/ Drop(reply)
      PROVE  RecordsAreBoosts'
  <2>1. job.res \in Res /\ Delete(job.res, reply)
    BY <1>5, InHand DEF Settle, Drop
  <2>2. /\ rs'[job.res].phase = "normal"
        /\ \A q \in Res \ {job.res} : rs'[q] = rs[q]
    BY <1>5, <2>1 DEF Settle, Drop, Cleared, NewState, ResourceState
  <2>3. \A q \in Res : rs'[q].phase = "boosted" => SameState(q)
    BY <2>2 DEF SameState
  <2> QED
    BY <2>1, <2>3, RecordsEnd
<1>6. ASSUME NEW r \in todo, NEW usage,
             ObserveBoosted(r, usage) \/ CountSample(r, usage) \/ StartBoost(r, usage)
      PROVE  RecordsAreBoosts'
  <2>1. r \in Res /\ rs[r] \in ResourceState /\ db' = db
    BY <1>6 DEF ObserveBoosted, CountSample, StartBoost
  <2>2. \A q \in Res \ {r} : rs'[q] = rs[q]
    BY <1>6 DEF ObserveBoosted, CountSample, StartBoost
  <2>3. SameState(r)
    BY <1>6, <2>1 DEF ObserveBoosted, CountSample, StartBoost, SameState,
                      ResourceState
  <2> QED
    BY <2>1, <2>2, <2>3, RecordsStay DEF SameState, SameRow
<1>7. CASE \E reply \in Replies : \/ Start(reply) \/ Tag(reply) \/ Restore(reply)
                                  \/ Untag(reply)
                                  \/ \E r \in todo : StopRevert(r, reply)
  BY <1>7, RecordsUnchanged DEF Start, Tag, Restore, Untag, StopRevert
<1>8. CASE \E r \in todo : \/ PassOver(r) \/ StatusFails(r[1]) \/ RevertUnread(r)
                           \/ ReadStatus(r[1]) \/ SkipSample(r) \/ StartRevert(r)
  BY <1>8, RecordsUnchanged DEF PassOver, StatusFails, RevertUnread, ReadStatus,
     SkipSample, StartRevert
<1>9. CASE \/ Sample \/ ConfigFails
           \/ ApplyFails \/ RestoreFails \/ StartLoop \/ BeginExpire
           \/ EndExpire \/ LoopExit \/ \E load \in NodeLoads : Poll(load)
  BY <1>9, RecordsUnchanged DEF Sample, ConfigFails, ApplyFails, RestoreFails, StartLoop,
     BeginExpire, EndExpire, LoopExit, Poll
<1>10. CASE Exit \/ Crash
  <2>1. /\ \A q \in Res : rs'[q].phase = "normal"
        /\ db' = db
    BY <1>10 DEF Exit, Crash, LoseMemory, NewState
  <2> QED
    BY <2>1 DEF RecordsAreBoosts, Backed
<1>11. CASE \/ Signal \/ UNCHANGED vars
            \/ \E r \in Res : \E x \in AdminValues[r[2]] : AdminSet(r, x)
            \/ \E v \in VMs : AdminRetag(v) \/ AdminPower(v)
  BY <1>11, RecordsUnchanged DEF Signal, AdminSet, AdminRetag, AdminPower, vars
<1> QED
  BY <1>1, <1>2, <1>3, <1>4, <1>5, <1>6, <1>7, <1>8, <1>9, <1>10, <1>11,
     RecordsTick DEF Next, Service, Steps, Environment
-------------------------------------------------------------------------------
(* What is announced is what is being done *)

Telling == {"save", "tag", "restore", "untag", "settle"}

MessageInHand ==
    /\ pc \in {"save", "tag"} /\ Untouched =>
         /\ job.from = Effective(job.res, base[job.res])
         /\ job.to = alloc[job.res]
    /\ pc \in {"restore", "untag", "settle"} =>
         job.res \in Boosted /\ job.to = rs[job.res].orig
    /\ pc \in {"untag", "settle"} /\ Untouched =>
         /\ job.to = Effective(job.res, base[job.res])
         /\ job.to = alloc[job.res]

LEMMA NothingToTell ==
    ASSUME pc' \notin Telling
    PROVE  MessageInHand'
BY DEF Telling, MessageInHand

LEMMA MessageStays ==
    ASSUME TypeInv, MessageInHand, pc' = pc, job' = job, rs' = rs,
           forgotten \subseteq forgotten', UNCHANGED <<alloc, base, edited>>
    PROVE  MessageInHand'
BY DEF MessageInHand, Untouched, Boosted

LEMMA MessageApply ==
    ASSUME Known, NEW reply, Apply(reply)
    PROVE  MessageInHand'
<1> DEFINE r == job.res
<1>1. r \in Res /\ pc = "apply" /\ base' = base
  BY InHand DEF Known, TypeInv, Apply
<1>2. CASE reply # "ok"
  <2>1. pc' = "poll"
    BY <1>2 DEF Apply, Finish
  <2> QED
    BY <2>1, NothingToTell DEF Telling
<1>3. CASE reply = "ok"
  <2>1. /\ pc' = "save" /\ job' = job /\ edited' = edited
        /\ forgotten' = forgotten \cup (edited \cap {r})
        /\ alloc' = [alloc EXCEPT ![r] = job.to]
    BY <1>3 DEF Apply
  <2>2. alloc'[r] = job.to
    BY <1>1, <2>1 DEF Known, TypeInv, TypeOK
  <2>3. ASSUME r \notin forgotten \cup edited
        PROVE  job.from = Effective(r, base[r])
    <3>1. Settled(r)
      BY <1>1, <2>3 DEF Known, Control, PhasesMatch, Boosted, Keep, Kept,
                        MemoryKnows, RowKnows
    <3> QED
      BY <1>1, <2>3, <3>1 DEF Known, Fresh, Settled
  <2> QED
    BY <1>1, <2>1, <2>2, <2>3 DEF MessageInHand, Untouched
<1> QED
  BY <1>2, <1>3

LEMMA MessageStartRevert ==
    ASSUME Known, NEW r \in todo, StartRevert(r)
    PROVE  MessageInHand'
<1>1. r \in Res /\ r \in Boosted
  BY DEF Known, TypeInv, TypeOK, Control, PhasesMatch, StartRevert
<1>2. /\ job' = [res |-> r, from |-> rs[r].boosted, to |-> rs[r].orig]
      /\ rs' = rs /\ pc' = "restore"
  BY DEF StartRevert
<1> QED
  BY <1>1, <1>2 DEF MessageInHand, Boosted

LEMMA MessageRestore ==
    ASSUME Known, MessageInHand, NEW reply, Restore(reply)
    PROVE  MessageInHand'
<1> DEFINE r == job.res
<1>1. r \in Res /\ pc = "restore" /\ base' = base /\ rs' = rs
  BY InHand DEF Known, TypeInv, Restore
<1>2. CASE reply # "ok"
  <2>1. pc' = "expire"
    BY <1>2 DEF Restore, Finish
  <2> QED
    BY <2>1, NothingToTell DEF Telling
<1>3. CASE reply = "ok"
  <2>1. /\ pc' = "untag" /\ job' = job /\ edited' = edited
        /\ forgotten' = forgotten \cup (edited \cap {r})
        /\ alloc' = [alloc EXCEPT ![r] = job.to]
    BY <1>3 DEF Restore
  <2>2. alloc'[r] = job.to
    BY <1>1, <2>1 DEF Known, TypeInv, TypeOK
  <2>3. r \notin forgotten \cup edited => job.to = Effective(r, base[r])
    BY <1>1 DEF Known, Fresh
  <2> QED
    BY <1>1, <2>1, <2>2, <2>3 DEF MessageInHand, Untouched, Boosted
<1> QED
  BY <1>2, <1>3

LEMMA MessageAdminSet ==
    ASSUME Known, MessageInHand, NEW r \in Res, NEW x, AdminSet(r, x)
    PROVE  MessageInHand'
<1>1. pc' = pc /\ job' = job /\ rs' = rs
  BY DEF AdminSet
<1>2. CASE pc \notin Telling
  BY <1>1, <1>2, NothingToTell
<1>3. CASE pc \in Telling
  <2>1. job.res \in Res /\ cfg # NoCfg /\ cfg.vm = job.res[1]
    BY <1>3, InHand DEF Telling, Known, TypeInv, StepInHand
  <2>2. CASE r = job.res
    <3>1. ~Untouched'
      BY <1>1, <2>1, <2>2 DEF AdminSet, Untouched
    <3> QED
      BY <1>1, <3>1 DEF MessageInHand, Boosted
  <2>3. CASE r # job.res
    <3>1. alloc'[job.res] = alloc[job.res] /\ base'[job.res] = base[job.res]
      BY <2>1, <2>3 DEF AdminSet, Known, TypeInv, TypeOK
    <3>2. Untouched' => Untouched
      BY <1>1, <2>3 DEF AdminSet, Untouched
    <3> QED
      BY <1>1, <3>1, <3>2 DEF MessageInHand, Boosted
  <2> QED
    BY <2>2, <2>3
<1> QED
  BY <1>2, <1>3

LEMMA MessageTick ==
    ASSUME Known, MessageInHand, Tick
    PROVE  MessageInHand'
<1>1. /\ pc' = pc /\ job' = job
      /\ UNCHANGED <<alloc, base, edited, forgotten>>
  BY DEF Tick
<1>2. \A q \in Res : SameState(q)
  BY DEF Tick, SameState, Known, TypeInv, TypeOK, ResourceState
<1> QED
  BY <1>1, <1>2 DEF MessageInHand, Untouched, Boosted, SameState

LEMMA MessageStep ==
    ASSUME Known, MessageInHand, [Next]_vars
    PROVE  MessageInHand'
<1>1. CASE \/ \E reply \in Replies : Apply(reply) \/ Restore(reply)
           \/ \E r \in todo : StartRevert(r)
  BY <1>1, MessageApply, MessageRestore, MessageStartRevert
<1>2. CASE \E reply \in Replies : \/ Untag(reply)
               \/ \E gained \in 0..TicksPerSecond - 1 : Save(reply, gained)
  BY <1>2 DEF Untag, Save, MessageInHand, Untouched, Boosted
<1>3. CASE \E reply \in Replies : Tag(reply) \/ Settle(reply) \/ Drop(reply)
  BY <1>3, NothingToTell DEF Telling, Tag, Settle, Drop, Finish
<1>4. CASE Sample \/ ConfigFails \/ ApplyFails \/ RestoreFails
  BY <1>4, NothingToTell DEF Telling, Sample, ConfigFails, ApplyFails, RestoreFails, Finish
<1>5. CASE \E reply \in Replies : \/ Start(reply)
               \/ \E r \in todo : \/ Discard(r, reply) \/ Adopt(r, reply)
                                  \/ StopRevert(r, reply)
  BY <1>5, NothingToTell DEF Telling, Start, Discard, Adopt, StopRevert
<1>6. CASE \E r \in todo : \/ PassOver(r) \/ StatusFails(r[1]) \/ RevertUnread(r)
                           \/ Resume(r) \/ ReadStatus(r[1]) \/ SkipSample(r)
  BY <1>6, NothingToTell DEF Telling, PassOver, StatusFails, RevertUnread,
     Resume, ReadStatus, SkipSample, Evaluating, Finish
<1>7. CASE \E r \in todo : \E usage : \/ ObserveBoosted(r, usage)
                                      \/ CountSample(r, usage)
                                      \/ StartBoost(r, usage)
  BY <1>7, NothingToTell DEF Telling, ObserveBoosted, CountSample, StartBoost,
     Finish
<1>8. CASE \/ StartLoop \/ BeginExpire \/ EndExpire \/ LoopExit
           \/ \E load \in NodeLoads : Poll(load)
  BY <1>8, NothingToTell DEF Telling, StartLoop, BeginExpire, EndExpire,
     LoopExit, Poll
<1>9. CASE Exit \/ Crash
  BY <1>9, NothingToTell DEF Telling, Exit, Crash, LoseMemory
<1>10. CASE \/ Signal \/ UNCHANGED vars
            \/ \E v \in VMs : AdminRetag(v) \/ AdminPower(v)
  BY <1>10, MessageStays DEF Known, Signal, AdminRetag, AdminPower, vars
<1>11. CASE \E r \in Res : \E x \in AdminValues[r[2]] : AdminSet(r, x)
  BY <1>11, MessageAdminSet
<1> QED
  BY <1>1, <1>2, <1>3, <1>4, <1>5, <1>6, <1>7, <1>8, <1>9, <1>10, <1>11,
     MessageTick DEF Next, Service, Steps, Environment
-------------------------------------------------------------------------------
(* The theorems *)

Told == Known /\ RecordsAreBoosts /\ MessageInHand

LEMMA ToldAlways == Spec => []Told
<1>1. Init => RecordsAreBoosts /\ MessageInHand
  BY DEF Init, RecordsAreBoosts, Backed, MessageInHand, NewState
<1>2. Known /\ RecordsAreBoosts /\ [Next]_vars => RecordsAreBoosts'
  BY RecordsStep DEF Known
<1>3. Known /\ MessageInHand /\ [Next]_vars => MessageInHand'
  BY MessageStep
<1> QED
  BY <1>1, <1>2, <1>3, KnownAlways, PTL DEF Spec, Told

\* What the two alerts say when they are launched.
LEMMA BoostAlertTrue ==
    ASSUME Told, AnnounceBoost, Untouched
    PROVE  /\ BoostAlert.orig = Effective(job.res, base[job.res])
           /\ BoostAlert.boosted = alloc[job.res]
<1>1. pc = "tag"
  BY DEF AnnounceBoost, Tag
<1> QED
  BY <1>1 DEF Told, MessageInHand, BoostAlert

LEMMA RevertAlertTrue ==
    ASSUME Told, AnnounceRevert, Untouched
    PROVE  /\ RevertAlert.orig = Effective(job.res, alloc[job.res])
           /\ RevertAlert.orig = Effective(job.res, base[job.res])
           /\ RevertAlert.boosted \in Boosts(job.res[2], RevertAlert.orig)
<1>1. pc = "settle" /\ job.res \in Res
  BY InHand DEF AnnounceRevert, Settle, Told, Known, TypeInv
<1>2. /\ job.res \in Boosted /\ job.to = rs[job.res].orig
      /\ job.to = Effective(job.res, base[job.res])
      /\ job.to = alloc[job.res]
  BY <1>1 DEF Told, MessageInHand
<1>3. rs[job.res].boosted \in Boosts(job.res[2], rs[job.res].orig)
  BY <1>2 DEF Told, RecordsAreBoosts, Backed, Boosted
<1>4. Effective(job.res, alloc[job.res]) = alloc[job.res]
  <2>1. base[job.res] \in Nat
    BY <1>1 DEF Told, Known, TypeInv, TypeOK
  <2> QED
    BY <1>2, <2>1, EffectiveTwice
<1> QED
  BY <1>2, <1>3, <1>4 DEF RevertAlert

\* Every alert about a resource that nobody interfered with tells the truth,
\* also after restarts in the middle of the boost.
THEOREM TrueAlerts == NSpec => AlertsAreTrue
<1>1. Told => /\ AnnounceBoost /\ Untouched =>
                   /\ BoostAlert.orig = Effective(job.res, base[job.res])
                   /\ BoostAlert.boosted = alloc[job.res]
              /\ AnnounceRevert /\ Untouched =>
                   /\ RevertAlert.orig = Effective(job.res, alloc[job.res])
                   /\ RevertAlert.orig = Effective(job.res, base[job.res])
                   /\ RevertAlert.boosted \in Boosts(job.res[2], RevertAlert.orig)
  BY BoostAlertTrue, RevertAlertTrue
<1> QED
  BY <1>1, AlertsWatch, ToldAlways, PTL DEF AlertsAreTrue

\* The daemon keeps the baseline whatever its alerts do.
THEOREM BaselineBesideAlerts == NSpec => []BaselineKept
BY AlertsWatch, Baseline, PTL

\* Nor do alerts, however many and however slow, make a boost compound, an
\* unboosted value be written or a boost end too soon.
THEOREM PromisesBesideAlerts ==
    NSpec => ImplementsContract /\ []AtMostOneBoost /\ RevertsInTime
BY AlertsWatch, Refinement, OneBoost, InTime, PTL
-------------------------------------------------------------------------------
(* A goroutine calls the backends in their order *)

LEMMA BackendsSeq == Backends \in Seq({"email", "slack"})
<1>1. << >> \in Seq({"email", "slack"})
  OBVIOUS
<1>2. ASSUME NEW b \in {"email", "slack"} PROVE Chosen(b) \in Seq({"email", "slack"})
  <2>1. <<b>> \in Seq({"email", "slack"})
    OBVIOUS
  <2> QED
    BY <1>1, <2>1 DEF Chosen
<1> QED
  BY <1>2 DEF Backends

\* The fan-out has called the first of its backends, each of them once.
InOrder(called) ==
    /\ called \in Seq({"email", "slack"}) /\ Len(called) <= Len(Backends)
    /\ \A i \in 1..Len(called) : called[i] = Backends[i]

\* A slot is free or holds a goroutine at some point of its fan-out.
Flying(g) ==
    g = Free \/ /\ g = [alert |-> g.alert, called |-> g.called, stuck |-> g.stuck]
                /\ InOrder(g.called)

FanOut == /\ DOMAIN flight = Slots /\ flight = [s \in Slots |-> flight[s]]
          /\ \A s \in Slots : Flying(flight[s])

LEMMA NextInOrder ==
    ASSUME NEW called, InOrder(called), Len(called) < Len(Backends)
    PROVE  InOrder(Append(called, Backends[Len(called) + 1]))
<1> DEFINE n == Len(called)
           longer == Append(called, Backends[n + 1])
<1>1. /\ called \in Seq({"email", "slack"}) /\ n \in Nat
      /\ Backends \in Seq({"email", "slack"}) /\ Len(Backends) \in Nat
  BY BackendsSeq DEF InOrder
<1>2. n + 1 \in 1..Len(Backends)
  BY <1>1
<1>3. Backends[n + 1] \in {"email", "slack"}
  BY <1>1, <1>2
<1>4. longer \in Seq({"email", "slack"}) /\ Len(longer) = n + 1
  BY <1>1, <1>3
<1>5. ASSUME NEW i \in 1..(n + 1) PROVE longer[i] = Backends[i]
  BY <1>1, <1>3 DEF InOrder
<1> QED
  BY <1>1, <1>4, <1>5 DEF InOrder

LEMMA FanOutLaunch ==
    ASSUME FanOut, NEW alert, Launch(alert)
    PROVE  FanOut'
<1>1. InOrder(<< >>)
  BY BackendsSeq DEF InOrder
<1>2. Flying(Launched(alert))
  BY <1>1 DEF Flying, Launched
<1>3. CASE UNCHANGED flight
  BY <1>3 DEF FanOut
<1>4. ASSUME NEW s \in Slots, flight' = [flight EXCEPT ![s] = Launched(alert)]
      PROVE  FanOut'
  BY <1>2, <1>4 DEF FanOut
<1> QED
  BY <1>3, <1>4 DEF Launch

LEMMA FanOutProgress ==
    ASSUME FanOut, NEW s \in Slots, Progress(s)
    PROVE  FanOut'
<1> DEFINE g == flight[s]
<1>1. /\ g # Free => /\ g = [alert |-> g.alert, called |-> g.called, stuck |-> g.stuck]
                     /\ InOrder(g.called)
  BY DEF FanOut, Flying
<1>2. ASSUME NEW g2, flight' = [flight EXCEPT ![s] = g2], Flying(g2)
      PROVE  FanOut'
  BY <1>2 DEF FanOut
<1>3. CASE Deliver(s) \/ Fail(s)
  <2>1. g # Free /\ Len(g.called) < Len(Backends)
    BY <1>3 DEF Deliver, Fail, Calling
  <2> DEFINE c2 == Append(g.called, Backends[Len(g.called) + 1])
             g2 == [alert |-> g.alert, called |-> c2, stuck |-> g.stuck]
  <2>2. flight' = [flight EXCEPT ![s] = g2]
    BY <1>1, <1>3, <2>1 DEF Deliver, Fail, NextBackend
  <2>3. InOrder(c2)
    BY <1>1, <2>1, NextInOrder
  <2>4. Flying(g2)
    BY <2>3 DEF Flying
  <2> QED
    BY <1>2, <2>2, <2>4
<1>4. CASE Hang(s)
  <2>1. g # Free
    BY <1>4 DEF Hang, Calling
  <2> DEFINE g2 == [alert |-> g.alert, called |-> g.called, stuck |-> TRUE]
  <2>2. ASSUME NEW b
        PROVE  [g EXCEPT !.stuck = b] = [alert |-> g.alert, called |-> g.called,
                                         stuck |-> b]
    BY <1>1, <2>1
  <2>3. flight' = [flight EXCEPT ![s] = g2]
    BY <1>4, <2>2 DEF Hang
  <2>4. Flying(g2)
    BY <1>1, <2>1 DEF Flying
  <2> QED
    BY <1>2, <2>3, <2>4
<1>5. CASE Return(s)
  <2>1. flight' = [flight EXCEPT ![s] = Free] /\ Flying(Free)
    BY <1>5 DEF Return, Flying
  <2> QED
    BY <1>2, <2>1
<1> QED
  BY <1>3, <1>4, <1>5 DEF Progress

LEMMA FanOutStep ==
    ASSUME FanOut, [NNext]_nvars
    PROVE  FanOut'
<1>1. CASE AnnounceBoost \/ AnnounceRevert
  BY <1>1, FanOutLaunch DEF AnnounceBoost, AnnounceRevert
<1>2. CASE Unannounced \/ Elsewhere \/ UNCHANGED nvars
  <2>1. UNCHANGED flight
    BY <1>2 DEF Unannounced, Elsewhere, nvars
  <2> QED
    BY <2>1 DEF FanOut
<1>3. CASE EndOfProcess \/ NCrash
  BY <1>3 DEF EndOfProcess, NCrash, Vanish, FanOut, Flying
<1>4. ASSUME NEW s \in Slots, Notify(s) PROVE FanOut'
  BY <1>4, FanOutProgress DEF Notify
<1> QED
  BY <1>1, <1>2, <1>3, <1>4 DEF NNext, NService

\* Only a process that ends, or a goroutine that has called them all, frees a
\* slot.
LEMMA DoneBeforeFree ==
    ASSUME FanOut, [NNext]_nvars, NEW s \in Slots,
           flight[s] # Free, flight'[s] = Free, pc' # "down"
    PROVE  flight[s].called = Backends
<1>1. ASSUME NEW alert, Launch(alert) PROVE FALSE
  BY <1>1 DEF Launch, Launched, Free, FanOut
<1>2. ~UNCHANGED flight
  OBVIOUS
<1>3. ~EndOfProcess /\ ~NCrash
  BY DEF EndOfProcess, NCrash, Exit, Crash, LoseMemory
<1>4. PICK q \in Slots : Notify(q)
  BY <1>1, <1>2, <1>3 DEF NNext, NService, AnnounceBoost, AnnounceRevert,
     Unannounced, Elsewhere, nvars
<1>5. /\ q = s
      /\ flight[s] = [alert |-> flight[s].alert, called |-> flight[s].called,
                      stuck |-> flight[s].stuck]
      /\ InOrder(flight[s].called)
  BY <1>4 DEF Notify, Progress, Deliver, Fail, Hang, Return, FanOut, Flying
<1>6. Return(s)
  BY <1>4, <1>5 DEF Notify, Progress, Deliver, Fail, Hang, FanOut, Free
<1>7. Len(flight[s].called) = Len(Backends)
  BY <1>6 DEF Return
<1> QED
  BY <1>5, <1>7, BackendsSeq, SeqEqual DEF InOrder

\* Whatever fails, hangs or ends in between, an alert that is over while the
\* process lives has gone to every enabled backend once, in the order of main.
THEOREM OncePerBackend == NSpec => EachBackendOnce
<1>1. NInit => FanOut
  BY DEF NInit, InitFlights, FanOut, Flying
<1>2. FanOut /\ [NNext]_nvars => FanOut'
  BY FanOutStep
<1>3. FanOut /\ [NNext]_nvars
        => \A s \in Slots :
             flight[s] # Free /\ flight'[s] = Free /\ pc' # "down"
               => flight[s].called = Backends
  BY DoneBeforeFree
<1> QED
  BY <1>1, <1>2, <1>3, PTL DEF NSpec, EachBackendOnce
===============================================================================

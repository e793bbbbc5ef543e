------------------------- MODULE AutoscalerRefinement -------------------------
(***************************************************************************)
(* Autoscaler implements BoostContract, for every value of the constants.  *)
(* The mapping reads the configured value, the value in force and the      *)
(* resources at risk; polls, records and requests are stuttering steps.    *)
(***************************************************************************)
EXTENDS AutoscalerProofs

USE DEF world, local, hist

\* ComputeBoost answers with one of the two factors, or not at all.
LEMMA BoostIsRaise ==
    ASSUME NEW kind, NEW current, NEW saturated, NEW totalAlloc,
           ComputeBoost(kind, current, saturated, totalAlloc) # NoBoost
    PROVE  ComputeBoost(kind, current, saturated, totalAlloc)
               \in Boosts(kind, current)
BY DEF ComputeBoost, Boosts

\* The value being applied is one boost of the value that was read.
RaiseInHand == pc = "apply" => job.to \in Boosts(job.res[2], job.from)

LEMMA RaiseSampled ==
    ASSUME TypeInv, NEW r \in todo, NEW usage, StartBoost(r, usage)
    PROVE  RaiseInHand'
<1>1. PICK value \in Outcomes(r) \ {NoBoost} :
          job' = [res |-> r, from |-> Current(r), to |-> value]
  BY DEF StartBoost
<1>2. value \in Boosts(r[2], Current(r))
  BY <1>1, BoostIsRaise DEF Outcomes
<1>3. QED BY <1>1, <1>2 DEF RaiseInHand

\* No other step begins to apply a boost, or touches one being applied.
LEMMA RaiseStays ==
    ASSUME RaiseInHand, pc' # "apply" \/ (pc' = pc /\ job' = job)
    PROVE  RaiseInHand'
BY DEF RaiseInHand

LEMMA RaiseStep ==
    ASSUME TypeInv, RaiseInHand, [Next]_vars
    PROVE  RaiseInHand'
<1>1. ASSUME NEW r \in todo, NEW usage, StartBoost(r, usage) PROVE RaiseInHand'
  BY <1>1, RaiseSampled
<1>2. CASE Service /\ ~ \E r \in todo : \E usage : StartBoost(r, usage)
  <2>1. CASE \E reply \in Replies :
            \/ Start(reply) \/ Apply(reply) \/ Tag(reply)
            \/ \E gained \in 0..TicksPerSecond - 1 : Save(reply, gained)
            \/ Restore(reply) \/ Untag(reply) \/ Settle(reply) \/ Drop(reply)
    BY <2>1, RaiseStays DEF Start, Apply, Tag, Save, Restore, Untag, Settle,
       Drop, Finish
  <2>2. CASE \E reply \in Replies : \E r \in todo :
            Discard(r, reply) \/ Adopt(r, reply) \/ StopRevert(r, reply)
    BY <2>2, RaiseStays DEF Discard, Adopt, StopRevert
  <2>3. CASE \E r \in todo : PassOver(r) \/ StatusFails(r[1]) \/ RevertUnread(r)
                \/ Resume(r) \/ ReadStatus(r[1]) \/ SkipSample(r) \/ StartRevert(r)
    BY <2>3, RaiseStays DEF PassOver, StatusFails, RevertUnread, Resume,
       ReadStatus, SkipSample, StartRevert, Finish, Evaluating
  <2>4. CASE \E r \in todo : \E usage : ObserveBoosted(r, usage)
                                        \/ CountSample(r, usage)
    BY <2>4, RaiseStays DEF ObserveBoosted, CountSample, Finish
  <2>5. CASE \/ Sample \/ ConfigFails
             \/ ApplyFails \/ RestoreFails \/ StartLoop \/ BeginExpire
             \/ EndExpire \/ LoopExit \/ Exit \/ \E load \in NodeLoads : Poll(load)
    BY <2>5, RaiseStays DEF Sample, ConfigFails, ApplyFails, RestoreFails, StartLoop, BeginExpire,
       EndExpire, LoopExit, Exit, LoseMemory, Poll, Finish
  <2>6. QED BY <1>2, <2>1, <2>2, <2>3, <2>4, <2>5 DEF Service, Steps
<1>3. CASE Tick \/ Environment \/ UNCHANGED vars
  BY <1>3, RaiseStays DEF Tick, Environment, Signal, Crash, LoseMemory,
     AdminSet, AdminRetag, AdminPower, vars
<1>4. QED BY <1>1, <1>2, <1>3 DEF Next
-------------------------------------------------------------------------------
(* Steps the contract sees *)

USE DEF Contract!state, Contract!OnlyValue, Contract!AtConfigured

\* What every reachable state satisfies.
Known == TypeInv /\ Control /\ Fresh /\ Keep /\ RaiseInHand

LEMMA KnownAlways == Spec => []Known
<1>1. Init => RaiseInHand
  BY DEF Init, RaiseInHand
<1>2. TypeInv /\ RaiseInHand /\ [Next]_vars => RaiseInHand'
  BY RaiseStep
<1>3. QED BY <1>1, <1>2, Induction, PTL DEF Spec, Known

\* A boost starts from the configured value, unless its resource is at risk
\* from this step on.
LEMMA ApplyIsBoost ==
    ASSUME Known, NEW reply, Apply(reply)
    PROVE  \E r \in Res : Contract!Boost(r) \/ Contract!Drift(r)
<1> DEFINE r == job.res
<1>1. r \in Res /\ job.from \in Nat /\ job.to \in Nat /\ pc = "apply"
  BY InHand DEF Known, TypeInv, Apply
<1>2. alloc' = [alloc EXCEPT ![r] = job.to] /\ base' = base
  BY DEF Apply
<1>3. alloc \in [Res -> Nat] /\ base \in [Res -> Nat]
  BY DEF Known, TypeInv, TypeOK
<1>4. Contract!OnlyValue(r)
  BY <1>1, <1>2, <1>3
<1>5. forgotten' = forgotten \cup {r}
      \/ (forgotten' = forgotten \cup (edited \cap {r}))
  BY DEF Apply
<1>6. CASE forgotten' = forgotten \cup {r}
  BY <1>1, <1>4, <1>6 DEF Contract!Drift
<1>7. CASE forgotten' = forgotten /\ r \notin forgotten /\ r \notin edited
  <2>1. Settled(r)
    BY <1>1, <1>7 DEF Known, Control, PhasesMatch, Boosted, Keep, Kept,
                      MemoryKnows, RowKnows
  <2>2. job.from = Effective(r, alloc[r])
    BY <1>1, <1>7 DEF Known, Fresh
  <2>3. alloc'[r] \in RaisedTo(r, Effective(r, alloc[r]))
    BY <1>1, <1>2, <1>3, <2>2 DEF Known, RaiseInHand, RaisedTo
  <2>4. QED BY <1>1, <1>4, <1>7, <2>1, <2>3 DEF Contract!Boost, Settled
<1>8. CASE forgotten' = forgotten /\ r \in forgotten
  <2>1. forgotten' = forgotten \cup {r}
    BY <1>8
  <2>2. QED BY <1>6, <2>1
<1>9. QED BY <1>5, <1>6, <1>7, <1>8

\* A revert leads to the configured value, unless its resource is at risk.
LEMMA RestoreIsRevert ==
    ASSUME Known, NEW reply, Restore(reply)
    PROVE  \E r \in Res : Contract!Revert(r) \/ Contract!Drift(r)
<1> DEFINE r == job.res
<1>1. r \in Res /\ job.to \in Nat /\ pc = "restore"
  BY InHand DEF Known, TypeInv, Restore
<1>2. alloc' = [alloc EXCEPT ![r] = job.to] /\ base' = base
  BY DEF Restore
<1>3. Contract!OnlyValue(r) /\ alloc'[r] = job.to
  BY <1>1, <1>2 DEF Known, TypeInv, TypeOK
<1>4. forgotten' = forgotten \cup (edited \cap {r})
  BY DEF Restore
<1>5. CASE r \in forgotten \cup edited
  <2>1. forgotten' = forgotten \cup {r}
    BY <1>4, <1>5
  <2>2. QED BY <1>1, <1>3, <2>1 DEF Contract!Drift
<1>6. CASE r \notin forgotten \cup edited
  <2>1. forgotten' = forgotten
    BY <1>4, <1>6
  <2>2. job.to = Effective(r, base[r])
    BY <1>1, <1>6 DEF Known, Fresh
  <2>3. QED BY <1>1, <1>3, <1>6, <2>1, <2>2 DEF Contract!Revert
<1>7. QED BY <1>5, <1>6

LEMMA StopRevertIsRevert ==
    ASSUME Known, NEW r \in todo, NEW reply, StopRevert(r, reply)
    PROVE  \/ UNCHANGED Contract!state
           \/ \E q \in Res : Contract!Revert(q) \/ Contract!Drift(q)
<1>1. r \in Res /\ pc = "stop" /\ base' = base /\ alloc \in [Res -> Nat]
  BY DEF Known, TypeInv, TypeOK, StopRevert
<1>2. CASE reply = "error"
  BY <1>1, <1>2 DEF StopRevert
<1>3. CASE reply # "error"
  <2>1. /\ alloc' = [alloc EXCEPT ![r] = rs[r].orig]
        /\ forgotten' = IF alloc[r] = rs[r].boosted THEN forgotten
                                                   ELSE forgotten \cup {r}
    BY <1>3 DEF StopRevert
  <2>2. Contract!OnlyValue(r) /\ alloc'[r] = rs[r].orig
    BY <1>1, <2>1
  <2>3. CASE r \in forgotten \/ alloc[r] # rs[r].boosted
    <3>1. forgotten' = forgotten \cup {r}
      BY <2>1, <2>3
    <3>2. QED BY <1>1, <2>2, <3>1 DEF Contract!Drift
  <2>4. CASE r \notin forgotten /\ alloc[r] = rs[r].boosted
    <3>1. rs[r].phase = "boosted"
      BY <1>1 DEF Known, Control, PhasesMatch, Boosted
    <3>2. rs[r].orig = Effective(r, base[r])
      BY <1>1, <2>4, <3>1, KnownBoost DEF Known
    <3>3. QED BY <1>1, <2>1, <2>2, <2>4, <3>2 DEF Contract!Revert
  <2>5. QED BY <2>3, <2>4
<1>4. QED BY <1>2, <1>3

\* What the administrator does is an edit.
LEMMA AdminSetIsEdit ==
    ASSUME Known, NEW r \in Res, NEW x, AdminSet(r, x)
    PROVE  Contract!Edit(r)
<1>1. /\ alloc' = [alloc EXCEPT ![r] = x] /\ base' = [base EXCEPT ![r] = x]
      /\ forgotten' \in {forgotten \cup {r}, forgotten \ {r}}
  BY DEF AdminSet
<1>2. alloc \in [Res -> Nat] /\ base \in [Res -> Nat]
  BY DEF Known, TypeInv, TypeOK
<1>3. QED BY <1>1, <1>2 DEF Contract!Edit

\* Ends, failed loads and rows passed over only add resources at risk.
LEMMA LosesOnly ==
    ASSUME Known, NEW S \in SUBSET Res, forgotten' = forgotten \cup S,
           UNCHANGED <<alloc, base>>
    PROVE  \E T \in SUBSET Res : Contract!Lose(T)
BY DEF Contract!Lose

LEMMA EndsLose ==
    ASSUME Known, LoseMemory, UNCHANGED world
    PROVE  \E S \in SUBSET Res : Contract!Lose(S)
<1>1. {r \in unsaved : alloc[r] = rs[r].boosted} \in SUBSET Res
  BY DEF Known, TypeInv, TypeOK
<1>2. QED BY <1>1, LosesOnly DEF LoseMemory

LEMMA StartLoses ==
    ASSUME Known, NEW reply, Start(reply)
    PROVE  UNCHANGED Contract!state \/ \E S \in SUBSET Res : Contract!Lose(S)
<1>1. CASE UNCHANGED forgotten
  BY <1>1 DEF Start
<1>2. CASE forgotten' = forgotten \cup
              {r \in {q \in Res : db[q] # NoRow} : alloc[r] = db[r].boosted}
  BY <1>2, LosesOnly DEF Start
<1>3. QED BY <1>1, <1>2 DEF Start

LEMMA PassOverLoses ==
    ASSUME Known, NEW r \in todo, PassOver(r)
    PROVE  UNCHANGED Contract!state \/ \E S \in SUBSET Res : Contract!Lose(S)
<1>1. r \in Res
  BY DEF Known, TypeInv, TypeOK
<1>2. CASE forgotten' = forgotten
  BY <1>2 DEF PassOver
<1>3. CASE forgotten' = forgotten \cup {r}
  BY <1>1, <1>3, LosesOnly DEF PassOver
<1>4. QED BY <1>2, <1>3 DEF PassOver
-------------------------------------------------------------------------------
LEMMA ContractStep == Known /\ [Next]_vars => [Contract!Next]_(Contract!state)
<1>1. SUFFICES ASSUME Known, [Next]_vars PROVE [Contract!Next]_(Contract!state)
  OBVIOUS
<1> USE <1>1 DEF Contract!Next
<1>2. CASE \E reply \in Replies : \/ Apply(reply) \/ Restore(reply)
                                  \/ \E r \in todo : StopRevert(r, reply)
  BY <1>2, ApplyIsBoost, RestoreIsRevert, StopRevertIsRevert
<1>3. CASE \/ \E reply \in Replies : Start(reply)
           \/ \E r \in todo : PassOver(r)
  BY <1>3, StartLoses, PassOverLoses
<1>4. CASE Exit \/ Crash
  BY <1>4, EndsLose DEF Exit, Crash
<1>5. CASE \E r \in Res : \E x \in AdminValues[r[2]] : AdminSet(r, x)
  BY <1>5, AdminSetIsEdit
<1>6. CASE \E reply \in Replies :
              \/ Tag(reply) \/ Untag(reply) \/ Settle(reply) \/ Drop(reply)
              \/ \E gained \in 0..TicksPerSecond - 1 : Save(reply, gained)
              \/ \E r \in todo : Discard(r, reply) \/ Adopt(r, reply)
  BY <1>6 DEF Tag, Untag, Settle, Drop, Save, Discard, Adopt
<1>7. CASE \E r \in todo : \/ StatusFails(r[1]) \/ RevertUnread(r) \/ Resume(r)
                           \/ ReadStatus(r[1]) \/ SkipSample(r) \/ StartRevert(r)
  BY <1>7 DEF StatusFails, RevertUnread, Resume, ReadStatus, SkipSample, StartRevert
<1>8. CASE \E r \in todo : \E usage : \/ ObserveBoosted(r, usage)
                                      \/ CountSample(r, usage)
                                      \/ StartBoost(r, usage)
  BY <1>8 DEF ObserveBoosted, CountSample, StartBoost
<1>9. CASE \/ Sample \/ ConfigFails
           \/ ApplyFails \/ RestoreFails \/ StartLoop \/ BeginExpire
           \/ EndExpire \/ LoopExit \/ \E load \in NodeLoads : Poll(load)
  BY <1>9 DEF Sample, ConfigFails, ApplyFails, RestoreFails, StartLoop, BeginExpire, EndExpire,
     LoopExit, Poll
<1>10. CASE Tick \/ Signal \/ \E v \in VMs : AdminRetag(v) \/ AdminPower(v)
  BY <1>10 DEF Tick, Signal, AdminRetag, AdminPower
<1>11. CASE UNCHANGED vars
  BY <1>11 DEF vars
<1>12. QED BY <1>2, <1>3, <1>4, <1>5, <1>6, <1>7, <1>8, <1>9, <1>10, <1>11
           DEF Next, Service, Steps, Environment

\* The daemon implements the contract: seen from the containers alone, all it
\* does is to boost a configured value and to return to exactly that value.
THEOREM Refinement == Spec => ImplementsContract
<1>1. Init => Contract!Init
  BY DEF Init, Contract!Init
<1>2. QED
  BY <1>1, KnownAlways, ContractStep, PTL DEF Spec, ImplementsContract,
     Contract!Spec

\* The contract rules out boosts of boosts, and so does the daemon.
LEMMA OneBoostStep ==
    ASSUME Known, Known', AtMostOneBoost, [Contract!Next]_(Contract!state)
    PROVE  AtMostOneBoost'
<1>1. alloc \in [Res -> Nat] /\ base \in [Res -> Nat]
  BY DEF Known, TypeInv, TypeOK
<1>2. ASSUME NEW q \in Res, Contract!Boost(q) PROVE AtMostOneBoost'
  BY <1>1, <1>2 DEF Contract!Boost, AtMostOneBoost, RaisedTo
<1>3. ASSUME NEW q \in Res, Contract!Revert(q) PROVE AtMostOneBoost'
  BY <1>1, <1>3 DEF Contract!Revert, AtMostOneBoost
<1>4. ASSUME NEW q \in Res, Contract!Edit(q) PROVE AtMostOneBoost'
  <2>1. SUFFICES ASSUME NEW r \in Res \ forgotten'
                 PROVE  alloc'[r] \in {base'[r], Effective(r, base'[r])}
                                        \cup Boosts(r[2], Effective(r, base'[r]))
    BY DEF AtMostOneBoost
  <2>2. CASE r = q
    BY <1>4, <2>2 DEF Contract!Edit
  <2>3. CASE r # q
    BY <1>4, <2>3 DEF Contract!Edit, AtMostOneBoost
  <2>4. QED BY <2>2, <2>3
<1>5. ASSUME NEW q \in Res, Contract!Drift(q) PROVE AtMostOneBoost'
  BY <1>5 DEF Contract!Drift, AtMostOneBoost
<1>6. ASSUME NEW S \in SUBSET Res, Contract!Lose(S) PROVE AtMostOneBoost'
  BY <1>6 DEF Contract!Lose, AtMostOneBoost
<1>7. CASE UNCHANGED Contract!state
  BY <1>7 DEF AtMostOneBoost
<1>8. QED BY <1>2, <1>3, <1>4, <1>5, <1>6, <1>7 DEF Contract!Next

\* Boosts never compound, for any factors, through any interleaving of polls,
\* edits, failures, crashes and restarts.
THEOREM OneBoost == Spec => []AtMostOneBoost
<1>1. Init => AtMostOneBoost
  BY DEF Init, AtMostOneBoost
<1>2. QED
  BY <1>1, KnownAlways, ContractStep, OneBoostStep, PTL DEF Spec
===============================================================================

--------------------------- MODULE VipBurstProofs ---------------------------
(* The safety of advertisement bursts for any instances, VIPs and number   *)
(* of goroutines, and the refinement of AdvBurst.                          *)
EXTENDS VipBurst, FiniteSetTheorems, TLAPS

\* What the proofs use of the constants.
LEMMA Constants ==
    VipInst \in [Vip -> Inst] /\ IsFiniteSet(Vip) /\ NoBurst \notin Burst /\ Repeat \in Nat
BY BurstAssumption

\* The loop counter stays within Repeat because a burst that sleeps, wakes or
\* loops has rounds left.
RoundInv == \A b \in Burst : Runs(b) => round[b] < Repeat

\* Every step keeps the types and the loop counter.
LEMMA TypeStep == TypeOK /\ RoundInv /\ [Next]_vars => (TypeOK /\ RoundInv)'
<1> SUFFICES ASSUME TypeOK, RoundInv, [Next]_vars PROVE (TypeOK /\ RoundInv)'
  OBVIOUS
<1>1. ASSUME NEW i \in Inst, NEW s \in {"MASTER", "BACKUP"}, StateChange(i, s)
      PROVE  (TypeOK /\ RoundInv)'
  <2>1. stale' \in [Burst -> Nat]
    BY <1>1 DEF TypeOK, StateChange
  <2> QED BY <1>1, <2>1 DEF TypeOK, StateChange, RoundInv, Runs
<1>2. ASSUME NEW i \in Inst, armDrop(i), live' = live, queued' = queued \ {i}
      PROVE  (TypeOK /\ RoundInv)'
  BY <1>2 DEF TypeOK, armDrop, Cancel, RoundInv, Runs
<1>3. ASSUME NEW i \in Inst, NEW b \in Burst, arm(i, b), live' = live, queued' = queued \ {i}, Repeat > 0
      PROVE  (TypeOK /\ RoundInv)'
  <2>1. round' \in [Burst -> 0..Repeat] /\ late' \in [Burst -> Nat] /\ stale' \in [Burst -> Nat]
    BY <1>3, Constants DEF TypeOK, arm
  <2>2. cancelled' \in [Burst -> BOOLEAN]
    BY <1>3 DEF TypeOK, arm, Cancel
  <2>3. RoundInv'
    BY <1>3, Constants DEF arm, RoundInv, Runs, TypeOK
  <2> QED BY <1>3, <2>1, <2>2, <2>3 DEF TypeOK, arm
<1>4. ASSUME NEW b \in Burst, SelectDone(b) \/ SelectTimer(b) \/ NextTarget(b)
      PROVE  (TypeOK /\ RoundInv)'
  BY <1>4 DEF TypeOK, SelectDone, SelectTimer, NextTarget, Goto, sched, RoundInv, Runs
<1>5. ASSUME NEW b \in Burst, vipAdvBurstTargets(b) PROVE (TypeOK /\ RoundInv)'
  BY <1>5 DEF TypeOK, vipAdvBurstTargets, VipsOf, Goto, sched, RoundInv, Runs
<1>6. ASSUME NEW b \in Burst, vipAdvSend(b) PROVE (TypeOK /\ RoundInv)'
  <2>1. late' \in [Burst -> Nat] /\ stale' \in [Burst -> Nat]
    BY <1>6 DEF TypeOK, vipAdvSend
  <2> QED BY <1>6, <2>1 DEF TypeOK, vipAdvSend, Goto, sched, RoundInv, Runs
<1>7. ASSUME NEW b \in Burst, RoundEnd(b) PROVE (TypeOK /\ RoundInv)'
  <2>1. round[b] \in 0..Repeat /\ round[b] < Repeat /\ Repeat \in Nat
    BY <1>7, Constants DEF TypeOK, RoundInv, Runs, RoundEnd
  <2>2. round[b] + 1 \in 0..Repeat
    BY <2>1
  <2>3. round' \in [Burst -> 0..Repeat]
    BY <1>7, <2>2 DEF TypeOK, RoundEnd
  <2>4. RoundInv'
    BY <1>7, <2>1 DEF TypeOK, RoundInv, Runs, RoundEnd, Goto
  <2> QED BY <1>7, <2>3, <2>4 DEF TypeOK, RoundEnd, Goto, sched
<1>8. ASSUME NEW b \in Burst, Cleanup(b) PROVE (TypeOK /\ RoundInv)'
  BY <1>8 DEF TypeOK, Cleanup, Goto, RoundInv, Runs
<1>9. CASE UNCHANGED vars
  BY <1>9 DEF TypeOK, vars, sched, RoundInv, Runs
<1> QED BY <1>1, <1>2, <1>3, <1>4, <1>5, <1>6, <1>7, <1>8, <1>9
        DEF Next, Goroutine, vipAdvBurstOnStateLocked

\* The types hold initially.
LEMMA InitType == Init => TypeOK /\ RoundInv
BY Constants DEF Init, TypeOK, RoundInv, Runs

\* Every variable keeps its type, and no burst runs more than Repeat rounds.
THEOREM TypeCorrect == Spec => []TypeOK
BY InitType, TypeStep, PTL DEF Spec

-----------------------------------------------------------------------------
(* The register of bursts                                                  *)

\* A burst is registered exactly while it runs uncancelled (or is about to
\* forget itself), and only for an instance observed, or queued, as master.
ActiveInv ==
    /\ \A b \in Burst : Runs(b) /\ ~cancelled[b] => active[inst[b]] = b
    /\ \A i \in Inst : active[i] # NoBurst
          => /\ inst[active[i]] = i /\ pc[active[i]] # "free" /\ ~cancelled[active[i]]
             /\ live[i] = "MASTER" \/ i \in queued

\* Every step keeps ActiveInv.
LEMMA ActiveStep == TypeOK /\ ActiveInv /\ [Next]_vars => ActiveInv'
<1> SUFFICES ASSUME TypeOK, ActiveInv, [Next]_vars PROVE ActiveInv'
  OBVIOUS
<1> USE Constants
<1>1. ASSUME NEW i \in Inst, NEW s \in {"MASTER", "BACKUP"}, StateChange(i, s) PROVE ActiveInv'
  BY <1>1 DEF TypeOK, StateChange, ActiveInv, Runs
<1>2. ASSUME NEW i \in Inst, armDrop(i), live' = live, queued' = queued \ {i} PROVE ActiveInv'
  <2>1. ASSUME NEW c \in Burst, Runs(c)', ~cancelled'[c] PROVE active'[inst'[c]] = c
    BY <1>2, <2>1 DEF TypeOK, armDrop, Cancel, ActiveInv, Runs
  <2>2. ASSUME NEW j \in Inst, active'[j] # NoBurst
        PROVE  /\ inst'[active'[j]] = j /\ pc'[active'[j]] # "free" /\ ~cancelled'[active'[j]]
               /\ live'[j] = "MASTER" \/ j \in queued'
    <3>1. j # i /\ active'[j] = active[j] /\ active[j] \in Burst /\ active[j] # active[i]
      BY <1>2, <2>2 DEF TypeOK, armDrop, ActiveInv
    <3> QED BY <1>2, <2>2, <3>1 DEF TypeOK, armDrop, Cancel, ActiveInv
  <2> QED BY <2>1, <2>2 DEF ActiveInv
<1>3. ASSUME NEW i \in Inst, NEW b \in Burst, arm(i, b), live' = live, queued' = queued \ {i},
             live[i] = "MASTER"
      PROVE  ActiveInv'
  <2>1. \A j \in Inst : active[j] # b
    BY <1>3 DEF ActiveInv, arm, TypeOK
  <2>2. ASSUME NEW c \in Burst, Runs(c)', ~cancelled'[c] PROVE active'[inst'[c]] = c
    BY <1>3, <2>1, <2>2 DEF TypeOK, arm, Cancel, ActiveInv, Runs
  <2>3. ASSUME NEW j \in Inst, active'[j] # NoBurst
        PROVE  /\ inst'[active'[j]] = j /\ pc'[active'[j]] # "free" /\ ~cancelled'[active'[j]]
               /\ live'[j] = "MASTER" \/ j \in queued'
    <3>1. CASE j = i
      BY <1>3, <3>1 DEF TypeOK, arm, Cancel
    <3>2. CASE j # i
      BY <1>3, <2>1, <2>3, <3>2 DEF TypeOK, arm, Cancel, ActiveInv
    <3> QED BY <3>1, <3>2
  <2> QED BY <2>2, <2>3 DEF ActiveInv
<1>4. ASSUME NEW b \in Burst, SelectDone(b) \/ SelectTimer(b) \/ vipAdvBurstTargets(b) \/ NextTarget(b)
                              \/ vipAdvSend(b) \/ RoundEnd(b)
      PROVE  ActiveInv'
  <2>1. /\ UNCHANGED <<live, queued, active, inst, cancelled>>
        /\ \E l \in {"woken", "loop", "send", "sleep", "cleanup"} : pc' = [pc EXCEPT ![b] = l]
        /\ Runs(b)
    BY <1>4 DEF SelectDone, SelectTimer, vipAdvBurstTargets, NextTarget, vipAdvSend, RoundEnd, Goto, sched, Runs
  <2> QED BY <2>1 DEF ActiveInv, Runs, TypeOK
<1>5. ASSUME NEW b \in Burst, Cleanup(b) PROVE ActiveInv'
  BY <1>5 DEF TypeOK, Cleanup, Goto, ActiveInv, Runs
<1>6. CASE UNCHANGED vars
  BY <1>6 DEF vars, sched, ActiveInv, Runs
<1> QED BY <1>1, <1>2, <1>3, <1>4, <1>5, <1>6 DEF Next, Goroutine, vipAdvBurstOnStateLocked

\* Nothing is registered at the start.
LEMMA InitActive == Init => ActiveInv
BY Constants DEF Init, ActiveInv, Runs

\* A burst nobody cancelled is the one registered for its instance: the deferred
\* function of an older burst never forgets a newer one.
THEOREM NeverOrphaned == Spec => []RunningIsActive
<1>1. ActiveInv => RunningIsActive
  BY DEF ActiveInv, RunningIsActive
<1> QED BY <1>1, InitType, InitActive, TypeStep, ActiveStep, PTL DEF Spec

\* Once the worker has observed that an instance stepped down, all its bursts
\* are cancelled.
THEOREM StepDownCancels == Spec => []SettledQuiet
<1>1. TypeOK /\ ActiveInv => SettledQuiet
  BY Constants DEF ActiveInv, SettledQuiet, TypeOK
<1> QED BY <1>1, InitType, InitActive, TypeStep, ActiveStep, PTL DEF Spec
-----------------------------------------------------------------------------
(* Frames after the end                                                    *)

\* A burst about to send has sent nothing since its cancel, and its context is
\* looked at before the next frame.
LateInv ==
    \A b \in Burst : /\ late[b] <= 1
                     /\ pc[b] = "send" \/ ~cancelled[b] => late[b] = 0

\* Every step keeps LateInv.
LEMMA LateStep == TypeOK /\ LateInv /\ [Next]_vars => LateInv'
<1> SUFFICES ASSUME TypeOK, LateInv, [Next]_vars PROVE LateInv'
  OBVIOUS
<1>1. ASSUME NEW i \in Inst, NEW s \in {"MASTER", "BACKUP"}, StateChange(i, s) PROVE LateInv'
  BY <1>1 DEF StateChange, LateInv
<1>2. ASSUME NEW i \in Inst, armDrop(i) PROVE LateInv'
  BY <1>2 DEF armDrop, Cancel, LateInv, TypeOK
<1>3. ASSUME NEW i \in Inst, NEW b \in Burst, arm(i, b) PROVE LateInv'
  BY <1>3 DEF arm, Cancel, LateInv, TypeOK
<1>4. ASSUME NEW b \in Burst, vipAdvSend(b) PROVE LateInv'
  <2>1. late[b] = 0 /\ pc' = [pc EXCEPT ![b] = "loop"] /\ cancelled' = cancelled
    BY <1>4 DEF vipAdvSend, Goto, LateInv
  <2>2. late'[b] = (IF cancelled[b] THEN 1 ELSE 0) /\ \A c \in Burst \ {b} : late'[c] = late[c]
    BY <1>4, <2>1 DEF vipAdvSend, TypeOK
  <2> QED BY <2>1, <2>2 DEF LateInv, TypeOK
<1>5. ASSUME NEW b \in Burst, SelectDone(b) \/ SelectTimer(b) \/ vipAdvBurstTargets(b) \/ RoundEnd(b) \/ Cleanup(b)
      PROVE  LateInv'
  <2>1. /\ UNCHANGED <<late, cancelled>>
        /\ \E l \in {"woken", "loop", "sleep", "cleanup", "free"} : pc' = [pc EXCEPT ![b] = l]
    BY <1>5 DEF SelectDone, SelectTimer, vipAdvBurstTargets, RoundEnd, Cleanup, Goto
  <2> QED BY <2>1 DEF LateInv, TypeOK
<1>6. ASSUME NEW b \in Burst, NextTarget(b) PROVE LateInv'
  BY <1>6 DEF NextTarget, Goto, LateInv, TypeOK
<1>7. CASE UNCHANGED vars
  BY <1>7 DEF vars, LateInv
<1> QED BY <1>1, <1>2, <1>3, <1>4, <1>5, <1>6, <1>7 DEF Next, Goroutine, vipAdvBurstOnStateLocked

\* A cancelled burst sends at most one frame more: the one whose ctx.Err() check
\* came before the cancel.
THEOREM OneLateFrame == Spec => []AtMostOneLate
<1>1. Init => LateInv
  BY DEF Init, LateInv
<1>2. LateInv => AtMostOneLate
  BY DEF LateInv, AtMostOneLate
<1> QED BY <1>1, <1>2, InitType, TypeStep, LateStep, PTL DEF Spec

\* What was sent since the step-down and what is still to send are targets of
\* one round, resolved while the instance was master.
StaleInv ==
    \A b \in Burst :
        /\ todo[b] \in SUBSET VipsOf(inst[b])
        /\ pc[b] = "free" => todo[b] = {}
        /\ live[inst[b]] = "MASTER" => stale[b] = 0
        /\ stale[b] + Cardinality(todo[b]) <= Cardinality(VipsOf(inst[b]))

\* Cardinalities of sets of VIPs.
LEMMA VipSets ==
    /\ \A i \in Inst : IsFiniteSet(VipsOf(i)) /\ Cardinality(VipsOf(i)) \in Nat
    /\ \A i \in Inst : \A T \in SUBSET VipsOf(i) :
          /\ IsFiniteSet(T) /\ Cardinality(T) \in Nat /\ Cardinality(T) <= Cardinality(VipsOf(i))
          /\ \A v \in T : Cardinality(T \ {v}) = Cardinality(T) - 1
<1>1. \A i \in Inst : IsFiniteSet(VipsOf(i)) /\ Cardinality(VipsOf(i)) \in Nat
  BY Constants, FS_Subset, FS_CardinalityType DEF VipsOf
<1>2. ASSUME NEW i \in Inst, NEW T \in SUBSET VipsOf(i)
      PROVE  IsFiniteSet(T) /\ Cardinality(T) \in Nat /\ Cardinality(T) <= Cardinality(VipsOf(i))
  BY <1>1, <1>2, FS_Subset, FS_CardinalityType
<1>3. ASSUME NEW i \in Inst, NEW T \in SUBSET VipsOf(i), NEW v \in T
      PROVE  Cardinality(T \ {v}) = Cardinality(T) - 1
  BY <1>2, <1>3, FS_RemoveElement
<1> QED BY <1>1, <1>2, <1>3

\* Every step keeps StaleInv.
LEMMA StaleStep == TypeOK /\ StaleInv /\ [Next]_vars => StaleInv'
<1> SUFFICES ASSUME TypeOK, StaleInv, [Next]_vars, NEW c \in Burst PROVE StaleInv!(c)'
  BY DEF StaleInv
<1>0. /\ inst \in [Burst -> Inst] /\ todo \in [Burst -> SUBSET Vip] /\ stale \in [Burst -> Nat]
      /\ live \in [Inst -> {"MASTER", "BACKUP"}]
      /\ pc \in [Burst -> {"free", "sleep", "woken", "loop", "send", "cleanup"}]
  BY DEF TypeOK
<1>1. /\ Cardinality(VipsOf(inst[c])) \in Nat /\ Cardinality(todo[c]) \in Nat
      /\ Cardinality(todo[c]) <= Cardinality(VipsOf(inst[c]))
  BY <1>0, VipSets DEF StaleInv
<1>2. ASSUME NEW i \in Inst, NEW s \in {"MASTER", "BACKUP"}, StateChange(i, s) PROVE StaleInv!(c)'
  <2>1. UNCHANGED <<todo, inst, pc>> /\ live' = [live EXCEPT ![i] = s]
        /\ stale'[c] = IF inst[c] = i THEN 0 ELSE stale[c]
    BY <1>2 DEF StateChange
  <2> QED BY <1>0, <1>1, <2>1 DEF StaleInv
<1>3. ASSUME NEW i \in Inst, armDrop(i), live' = live PROVE StaleInv!(c)'
  BY <1>3 DEF armDrop, StaleInv
<1>4. ASSUME NEW i \in Inst, NEW b \in Burst, arm(i, b), live' = live PROVE StaleInv!(c)'
  <2>1. CASE c = b
    <3>1. todo'[c] = {} /\ inst'[c] = i /\ stale'[c] = 0
      BY <1>0, <1>4, <2>1 DEF arm, StaleInv
    <3>2. Cardinality({}) = 0 /\ Cardinality(VipsOf(i)) \in Nat
      BY FS_EmptySet, VipSets
    <3> QED BY <3>1, <3>2
  <2>2. CASE c # b
    BY <1>0, <1>4, <2>2 DEF arm, StaleInv
  <2> QED BY <2>1, <2>2
<1>5. ASSUME NEW b \in Burst, SelectDone(b) \/ SelectTimer(b) \/ NextTarget(b) \/ RoundEnd(b) PROVE StaleInv!(c)'
  <2>1. /\ UNCHANGED <<live, inst, todo, stale>>
        /\ \E l \in {"woken", "send", "sleep", "cleanup"} : pc' = [pc EXCEPT ![b] = l]
    BY <1>5 DEF SelectDone, SelectTimer, NextTarget, RoundEnd, Goto, sched
  <2> QED BY <1>0, <2>1 DEF StaleInv
<1>6. ASSUME NEW b \in Burst, vipAdvBurstTargets(b) PROVE StaleInv!(c)'
  <2>1. UNCHANGED <<live, inst, stale>> /\ pc[b] # "free"
    BY <1>6 DEF vipAdvBurstTargets, sched
  <2>2. CASE todo' = todo /\ pc' = [pc EXCEPT ![b] = "cleanup"]
    BY <1>0, <2>1, <2>2 DEF StaleInv
  <2>3. CASE /\ live[inst[b]] = "MASTER" /\ pc' = [pc EXCEPT ![b] = "loop"]
             /\ \E T \in SUBSET VipsOf(inst[b]) : todo' = [todo EXCEPT ![b] = T]
    <3>1. CASE c = b
      <4>1. stale[c] = 0 /\ todo'[c] \in SUBSET VipsOf(inst[c])
        BY <1>0, <2>3, <3>1 DEF StaleInv
      <4>2. Cardinality(todo'[c]) \in Nat /\ Cardinality(todo'[c]) <= Cardinality(VipsOf(inst[c]))
        BY <1>0, <4>1, VipSets
      <4> QED BY <1>0, <1>1, <2>1, <2>3, <3>1, <4>1, <4>2
    <3>2. CASE c # b
      BY <1>0, <2>1, <2>3, <3>2 DEF StaleInv
    <3> QED BY <3>1, <3>2
  <2> QED BY <1>6, <2>2, <2>3 DEF vipAdvBurstTargets, Goto
<1>7. ASSUME NEW b \in Burst, vipAdvSend(b) PROVE StaleInv!(c)'
  <2>1. CASE c = b
    <3>1. PICK v \in todo[b] : todo' = [todo EXCEPT ![b] = @ \ {v}]
      BY <1>7 DEF vipAdvSend
    <3>2. /\ todo'[c] = todo[c] \ {v} /\ v \in todo[c] /\ UNCHANGED <<live, inst>>
          /\ stale'[c] = (IF live[inst[c]] # "MASTER" THEN stale[c] + 1 ELSE stale[c])
          /\ pc'[c] = "loop"
      BY <1>0, <1>7, <2>1, <3>1 DEF vipAdvSend, Goto, sched
    <3>3. Cardinality(todo'[c]) = Cardinality(todo[c]) - 1
      BY <1>0, <3>2, VipSets DEF StaleInv
    <3>4. /\ stale[c] + Cardinality(todo[c]) <= Cardinality(VipsOf(inst[c]))
          /\ todo[c] \in SUBSET VipsOf(inst[c]) /\ stale[c] \in Nat
          /\ live[inst[c]] = "MASTER" => stale[c] = 0
      BY <1>0 DEF StaleInv
    <3>5. stale'[c] + Cardinality(todo'[c]) <= Cardinality(VipsOf(inst[c]))
      BY <1>1, <3>2, <3>3, <3>4
    <3> QED BY <3>2, <3>4, <3>5
  <2>2. CASE c # b
    BY <1>0, <1>7, <2>2 DEF vipAdvSend, Goto, sched, StaleInv
  <2> QED BY <2>1, <2>2
<1>8. ASSUME NEW b \in Burst, Cleanup(b) PROVE StaleInv!(c)'
  <2>1. UNCHANGED <<live, inst, stale>> /\ pc' = [pc EXCEPT ![b] = "free"] /\ todo' = [todo EXCEPT ![b] = {}]
    BY <1>8 DEF Cleanup, Goto
  <2>2. CASE c = b
    <3>1. Cardinality({}) = 0
      BY FS_EmptySet
    <3>2. /\ stale[c] + Cardinality(todo[c]) <= Cardinality(VipsOf(inst[c]))
          /\ stale[c] \in Nat
          /\ live[inst[c]] = "MASTER" => stale[c] = 0
      BY <1>0 DEF StaleInv
    <3>3. todo'[c] = {}
      BY <1>0, <2>1, <2>2
    <3>4. stale[c] + Cardinality(todo'[c]) <= Cardinality(VipsOf(inst[c]))
      BY <1>1, <3>1, <3>2, <3>3
    <3> QED BY <2>1, <3>2, <3>3, <3>4
  <2>3. CASE c # b
    BY <1>0, <2>1, <2>3 DEF StaleInv
  <2> QED BY <2>2, <2>3
<1>9. CASE UNCHANGED vars
  BY <1>9 DEF vars, sched, StaleInv
<1> QED BY <1>2, <1>3, <1>4, <1>5, <1>6, <1>7, <1>8, <1>9 DEF Next, Goroutine, vipAdvBurstOnStateLocked

\* After a step-down a burst sends at most one frame per VIP, before its context
\* is cancelled or not.
THEOREM StaleFramesBounded == Spec => []StaleBounded
<1>1. Init => StaleInv
  <2> SUFFICES ASSUME Init, NEW b \in Burst PROVE StaleInv!(b)
    BY DEF StaleInv
  <2>1. todo[b] = {} /\ stale[b] = 0 /\ inst[b] \in Inst
    BY DEF Init
  <2>2. Cardinality(VipsOf(inst[b])) \in Nat /\ Cardinality({}) = 0
    BY <2>1, VipSets, FS_EmptySet
  <2>3. stale[b] + Cardinality(todo[b]) <= Cardinality(VipsOf(inst[b]))
    BY <2>1, <2>2
  <2> QED BY <2>1, <2>3
<1>2. TypeOK /\ StaleInv => StaleBounded
  <2> SUFFICES ASSUME TypeOK, StaleInv, NEW b \in Burst
               PROVE  stale[b] <= Cardinality(VipsOf(inst[b]))
    BY DEF StaleBounded
  <2>1. inst[b] \in Inst /\ stale[b] \in Nat
    BY DEF TypeOK
  <2>2. /\ stale[b] + Cardinality(todo[b]) <= Cardinality(VipsOf(inst[b]))
        /\ Cardinality(todo[b]) \in Nat /\ Cardinality(VipsOf(inst[b])) \in Nat
    BY <2>1, VipSets DEF StaleInv
  <2> QED BY <2>1, <2>2
<1> QED BY <1>1, <1>2, InitType, TypeStep, StaleStep, PTL DEF Spec

-----------------------------------------------------------------------------
(* The refinement                                                          *)

\* With bursts enabled, the goroutines implement AdvBurst: a pass of the worker
\* is an observation, a deferred function that finds itself registered is an
\* end, and everything else is invisible to the scheduler.
THEOREM BurstRefinement == Repeat > 0 => (Spec => ImplementsAdvBurst)
<1> SUFFICES ASSUME Repeat > 0 PROVE Spec => Abs!Spec
  BY DEF ImplementsAdvBurst
<1>1. Init => Abs!Init
  BY DEF Init, Abs!Init
<1>2. TypeOK /\ [Next]_vars => [Abs!Next]_(Abs!vars)
  <2> SUFFICES ASSUME TypeOK, [Next]_vars PROVE [Abs!Next]_(Abs!vars)
    OBVIOUS
  <2>1. ASSUME NEW i \in Inst, NEW s \in {"MASTER", "BACKUP"}, StateChange(i, s)
        PROVE  Abs!StateChange(i, s)
    BY <2>1 DEF StateChange, Abs!StateChange
  <2>2. ASSUME NEW i \in Inst, vipAdvBurstOnStateLocked(i) PROVE Abs!Observe(i)
    <3>1. CASE live[i] = "MASTER"
      <4>1. PICK b \in Burst : arm(i, b)
        BY <2>2, <3>1 DEF vipAdvBurstOnStateLocked
      <4>2. active' = [active EXCEPT ![i] = b] /\ b # NoBurst
        BY <4>1, Constants DEF arm
      <4> QED BY <2>2, <3>1, <4>2 DEF vipAdvBurstOnStateLocked, Abs!Observe, TypeOK
    <3>2. CASE live[i] # "MASTER"
      <4>1. active' = [active EXCEPT ![i] = NoBurst]
        BY <2>2, <3>2 DEF vipAdvBurstOnStateLocked, armDrop
      <4> QED BY <2>2, <3>2, <4>1 DEF vipAdvBurstOnStateLocked, Abs!Observe, TypeOK
    <3> QED BY <3>1, <3>2
  <2>3. ASSUME NEW b \in Burst, Cleanup(b) PROVE Abs!End(inst[b]) \/ UNCHANGED Abs!vars
    <3>1. CASE active[inst[b]] = b
      BY <2>3, <3>1, Constants DEF Cleanup, Abs!End, TypeOK
    <3>2. CASE active[inst[b]] # b
      BY <2>3, <3>2 DEF Cleanup, Abs!vars
    <3> QED BY <3>1, <3>2
  <2>4. ASSUME NEW b \in Burst, SelectDone(b) \/ SelectTimer(b) \/ vipAdvBurstTargets(b)
                                \/ NextTarget(b) \/ vipAdvSend(b) \/ RoundEnd(b)
        PROVE  UNCHANGED Abs!vars
    BY <2>4 DEF SelectDone, SelectTimer, vipAdvBurstTargets, NextTarget, vipAdvSend, RoundEnd, sched, Abs!vars
  <2>5. CASE UNCHANGED vars
    BY <2>5 DEF vars, sched, Abs!vars
  <2>6. \A b \in Burst : inst[b] \in Inst
    BY DEF TypeOK
  <2>7. ASSUME NEW b \in Burst, Goroutine(b) PROVE Abs!Next \/ UNCHANGED Abs!vars
    <3>1. CASE Cleanup(b)
      <4>1. Abs!End(inst[b]) \/ UNCHANGED Abs!vars
        BY <2>3, <3>1
      <4>2. ASSUME Abs!End(inst[b]) PROVE \E i \in Inst : Abs!End(i)
        BY <2>6, <4>2 DEF Abs!End
      <4> QED BY <4>1, <4>2 DEF Abs!Next
    <3>2. CASE ~Cleanup(b)
      BY <2>4, <2>7, <3>2 DEF Goroutine
    <3> QED BY <3>1, <3>2
  <2>8. ASSUME NEW i \in Inst, \/ \E s \in {"MASTER", "BACKUP"} : StateChange(i, s)
                               \/ vipAdvBurstOnStateLocked(i)
        PROVE  Abs!Next
    BY <2>1, <2>2, <2>8 DEF Abs!Next
  <2> QED BY <2>5, <2>7, <2>8 DEF Next
<1> QED BY <1>1, <1>2, InitType, TypeStep, PTL DEF Spec, Abs!Spec
=============================================================================

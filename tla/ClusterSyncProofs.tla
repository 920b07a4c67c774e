------------------------- MODULE ClusterSyncProofs -------------------------
(***************************************************************************)
(* Proofs about ClusterSync, for every set of instances, VIPs and rules,   *)
(* every bound on restarts, and with or without a cloud and its faults.    *)
(***************************************************************************)
EXTENDS ClusterSync, TLAPS

USE DEF MtxFree

PassPc == {"first", "prepare", "create", "apply", "unprepare", "hook"}

\* The worker has an instance in hand exactly while it is in a pass, and holds
\* taken instances only between taking them and going back to wait.
WorkerInv ==
    /\ pc \in PassPc => cur \in Inst
    /\ pc \notin PassPc => cur = NoInst
    /\ pc \in {"unstarted", "idle", "woken", "stopped"} => todo = {}

\* The bounds are natural numbers.
LEMMA Bounds == MaxRestarts \in Nat /\ MaxRef \in Nat
BY ClusterAssumption

\* Rule calls, the sweep and the end of a burst leave the state map, the
\* mailbox and the worker alone.
LEMMA RulesFrame ==
    ASSUME Rules
    PROVE  UNCHANGED <<ciVars, mailbox, workerVars, applied>>
BY DEF Rules, RulesSync, AddRuleVIP, DeleteRuleVIP, AddFwRule, AddFwRuleExists,
       DeleteFwRule, PortFlap, PeerPrepare, BurstEnd, ciVars, mailbox, workerVars

\* The type of the variables AdvRuleVIP changes.
LEMMA AdvRuleVIPType ==
    ASSUME NEW V \in SUBSET Vip, onHost \subseteq Vip, attached \subseteq Vip,
           internal \subseteq Vip, AdvRuleVIP(V)
    PROVE  onHost' \subseteq Vip /\ attached' \subseteq Vip /\ internal' \subseteq Vip
BY DEF AdvRuleVIP, CloudBound

\* The worker's own steps keep WorkerInv, and so does everything else.
LEMMA WorkerInvStep == WorkerInv /\ [Next]_vars => WorkerInv'
<1> SUFFICES ASSUME WorkerInv, [Next]_vars PROVE WorkerInv'
  OBVIOUS
<1> USE ClusterAssumption DEF ciVars, mailbox, workerVars, WorkerInv, PassPc
<1>1. CASE Update \/ CIStateSignal \/ CIDestroy \/ CIStartSync \/ WorkerStop
  BY <1>1 DEF Update, CIStateRecord, CIStateReject, CIStateSignal, CIDestroy,
              CIStartSync, WorkerStop
<1>2. CASE WorkerWake \/ WorkerTake \/ (\E i \in Inst : WorkerNext(i))
           \/ WorkerLoopEnd \/ WorkerHook
  BY <1>2 DEF WorkerWake, WorkerTake, WorkerNext, WorkerLoopEnd, WorkerHook
<1>3. CASE ApplyReadFirst \/ ApplySkipPrepare \/ ApplyPrepareDelete \/ ApplyPrepareCreate
  BY <1>3 DEF ApplyReadFirst, ApplySkipPrepare, ApplyPrepareDelete, ApplyPrepareCreate
<1>4. CASE ApplyRestart \/ ApplyAbandon \/ ApplyLocked \/ ApplyUnprepare
  BY <1>4 DEF ApplyRestart, ApplyAbandon, ApplyLocked, ApplyUnprepare
<1>5. CASE Rules
  BY <1>5, RulesFrame
<1>6. CASE UNCHANGED vars
  BY <1>6 DEF vars
<1> QED
  BY <1>1, <1>2, <1>3, <1>4, <1>5, <1>6 DEF Next, Worker

\* Every step keeps the types.
LEMMA TypeStep == TypeOK /\ WorkerInv /\ [Next]_vars => TypeOK'
<1> SUFFICES ASSUME TypeOK, WorkerInv, [Next]_vars PROVE TypeOK'
  OBVIOUS
<1> USE DEF ciVars, mailbox, workerVars, cloudVars, vipVars, fwVars
<1>1. CASE Update
  <2>1. UpdStates \subseteq States
    BY ClusterAssumption
  <2>2. ASSUME NEW i \in Inst, NEW t \in UpdStates, CIStateRecord(i, t) PROVE TypeOK'
    <3>1. stateStr' \in [Inst -> States] /\ mtxHolder' \in Inst \cup {NoInst}
      BY <2>1, <2>2 DEF CIStateRecord, TypeOK
    <3> QED
      BY <2>2, <3>1 DEF CIStateRecord, TypeOK
  <2>3. ASSUME NEW i \in Inst, CIStateReject(i) PROVE TypeOK'
    BY <2>3 DEF CIStateReject, TypeOK
  <2> QED
    BY <1>1, <2>2, <2>3 DEF Update
<1>2. CASE CIStateSignal \/ CIDestroy \/ CIStartSync \/ WorkerStop
  <2>1. CASE CIStateSignal
    BY <2>1 DEF CIStateSignal, TypeOK
  <2>2. CASE CIDestroy
    BY <2>2 DEF CIDestroy, TypeOK
  <2>3. CASE CIStartSync \/ WorkerStop
    BY <2>3 DEF CIStartSync, WorkerStop, TypeOK, PcStates
  <2> QED
    BY <1>2, <2>1, <2>2, <2>3
<1>3. CASE WorkerWake \/ WorkerTake \/ WorkerLoopEnd
  BY <1>3 DEF WorkerWake, WorkerTake, WorkerLoopEnd, TypeOK, PcStates
<1>4. ASSUME NEW i \in Inst, WorkerNext(i) PROVE TypeOK'
  <2>1. try' \in 0..MaxRestarts
    BY <1>4, Bounds DEF WorkerNext
  <2> QED
    BY <1>4, <2>1 DEF WorkerNext, TypeOK, PcStates
<1>5. CASE WorkerHook
  BY <1>5 DEF WorkerHook, TypeOK, PcStates, WorkerInv, PassPc
<1>6. CASE ApplyReadFirst
  BY <1>6 DEF ApplyReadFirst, TypeOK, PcStates, WorkerInv, PassPc
<1>7. CASE ApplySkipPrepare \/ ApplyPrepareDelete \/ ApplyPrepareCreate
  BY <1>7 DEF ApplySkipPrepare, ApplyPrepareDelete, ApplyPrepareCreate, TypeOK, PcStates
<1>8. CASE ApplyRestart
  <2>1. try' \in 0..MaxRestarts
    <3>1. try \in 0..MaxRestarts /\ try < MaxRestarts /\ try' = try + 1
      BY <1>8 DEF ApplyRestart, TypeOK
    <3> QED
      BY <3>1, Bounds
  <2> QED
    BY <1>8, <2>1 DEF ApplyRestart, TypeOK, PcStates
<1>9. CASE ApplyAbandon \/ ApplyUnprepare
  BY <1>9 DEF ApplyAbandon, ApplyUnprepare, TypeOK, PcStates
<1>10. CASE ApplyLocked
  <2>1. cur \in Inst /\ stateStr[cur] \in States
    BY <1>10 DEF ApplyLocked, TypeOK, WorkerInv, PassPc
  <2>2. onHost' \subseteq Vip /\ attached' \subseteq Vip /\ internal' \subseteq Vip
    BY <1>10, AdvRuleVIPType DEF ApplyLocked, TypeOK, InUse
  <2>3. fwDp' \subseteq Fw /\ fwSync' \subseteq Fw
    BY <1>10 DEF ApplyLocked, Fw2DPCreate, Fw2DPRemove, TypeOK
  <2>4. armed' \subseteq Inst
    BY <1>10, <2>1 DEF ApplyLocked, vipAdvBurstOnStateLocked, TypeOK
  <2>5. applied' \in [Inst -> States] /\ done' \in States
    BY <1>10, <2>1 DEF ApplyLocked, TypeOK
  <2> QED
    BY <1>10, <2>2, <2>3, <2>4, <2>5 DEF ApplyLocked, TypeOK, PcStates
<1>11. CASE Rules
  <2>1. UNCHANGED <<ciVars, mailbox, workerVars, applied>>
    BY <1>11, RulesFrame
  <2>2. CASE RulesSync
    <3>1. onHost' \subseteq Vip /\ attached' \subseteq Vip /\ internal' \subseteq Vip
      BY <2>2, AdvRuleVIPType DEF RulesSync, TypeOK, InUse
    <3> QED
      BY <2>2, <3>1 DEF RulesSync, Fw2DPCreate, TypeOK
  <2>3. ASSUME NEW v \in Vip, AddRuleVIP(v) PROVE TypeOK'
    <3>1. onHost' \subseteq Vip /\ attached' \subseteq Vip /\ internal' \subseteq Vip
      BY <2>3, AdvRuleVIPType DEF AddRuleVIP, TypeOK
    <3>2. vipRef' \in [Vip -> 0..MaxRef]
      <4>1. vipRef \in [Vip -> 0..MaxRef] /\ vipRef[v] < MaxRef
            /\ vipRef' = [vipRef EXCEPT ![v] = vipRef[v] + 1]
        BY <2>3 DEF AddRuleVIP, TypeOK
      <4>2. vipRef[v] + 1 \in 0..MaxRef
        BY <4>1, Bounds
      <4> QED
        BY <4>1, <4>2
    <3> QED
      BY <2>3, <3>1, <3>2 DEF AddRuleVIP, TypeOK
  <2>4. ASSUME NEW v \in Vip, DeleteRuleVIP(v) PROVE TypeOK'
    <3>1. vipRef' \in [Vip -> 0..MaxRef]
      <4>1. vipRef \in [Vip -> 0..MaxRef] /\ vipRef[v] > 0
            /\ vipRef' = [vipRef EXCEPT ![v] = vipRef[v] - 1]
        BY <2>4 DEF DeleteRuleVIP, TypeOK
      <4>2. vipRef[v] - 1 \in 0..MaxRef
        BY <4>1, Bounds
      <4> QED
        BY <4>1, <4>2
    <3> QED
      BY <2>4, <3>1 DEF DeleteRuleVIP, TypeOK
  <2>5. ASSUME NEW f \in Fw, AddFwRule(f) \/ AddFwRuleExists(f) \/ DeleteFwRule(f) PROVE TypeOK'
    BY <2>5 DEF AddFwRule, AddFwRuleExists, DeleteFwRule, Fw2DPCreate, Fw2DPRemove, TypeOK
  <2>6. CASE PortFlap \/ PeerPrepare \/ (\E i \in Inst : BurstEnd(i))
    BY <2>6 DEF PortFlap, PeerPrepare, BurstEnd, TypeOK
  <2> QED
    BY <1>11, <2>2, <2>3, <2>4, <2>5, <2>6 DEF Rules
<1>12. CASE UNCHANGED vars
  BY <1>12 DEF vars, TypeOK
<1> QED
  BY <1>1, <1>2, <1>3, <1>4, <1>5, <1>6, <1>7, <1>8, <1>9, <1>10, <1>11, <1>12
  DEF Next, Worker

\* The types hold initially.
LEMMA InitType == Init => TypeOK /\ WorkerInv
<1> SUFFICES ASSUME Init PROVE TypeOK /\ WorkerInv
  OBVIOUS
<1>1. /\ stateStr \in [Inst -> States] /\ applied \in [Inst -> States]
      /\ lastHooked \in [Inst -> States \cup {""}]
  BY DEF Init, States
<1>2. vipRef \in [Vip -> 0..MaxRef] /\ try \in 0..MaxRestarts
  <2>1. 0 \in 0..MaxRef /\ 0 \in 0..MaxRestarts
    BY Bounds
  <2> QED
    BY <2>1 DEF Init
<1> QED
  BY <1>1, <1>2, ClusterAssumption DEF Init, TypeOK, WorkerInv, PassPc, PcStates, States

\* Every variable of ClusterSync keeps its type in every behaviour, and the
\* worker's program counter, instance in hand and taken set agree.
THEOREM TypeCorrect == Spec => [](TypeOK /\ WorkerInv)
BY InitType, TypeStep, WorkerInvStep, PTL DEF Spec

-----------------------------------------------------------------------------
(* No change is lost                                                       *)

\* i is queued, taken, or in a pass that has not applied it yet.
Pending(i) ==
    \/ i \in syncDirty
    \/ i \in todo
    \/ cur = i /\ pc \in {"first", "prepare", "create", "apply"}

\* What is not applied is pending, and a pass whose first read is out of date
\* has been queued again: that is what ApplyAbandon relies on.
LostInv ==
    /\ \A i \in Inst : applied[i] # stateStr[i] => Pending(i)
    /\ pc \in {"prepare", "create", "apply"} /\ stateStr[cur] # first => cur \in syncDirty

\* Every step keeps LostInv.
LEMMA LostStep == TypeOK /\ WorkerInv /\ LostInv /\ [Next]_vars => LostInv'
<1> SUFFICES ASSUME TypeOK, WorkerInv, LostInv, [Next]_vars PROVE LostInv'
  OBVIOUS
<1> USE DEF ciVars, mailbox, workerVars, LostInv, Pending
<1>1. ASSUME NEW i \in Inst, NEW t \in UpdStates, CIStateRecord(i, t) PROVE LostInv'
  BY <1>1 DEF CIStateRecord, TypeOK, WorkerInv, PassPc
<1>2. CASE (\E i \in Inst : CIStateReject(i)) \/ CIStateSignal \/ CIDestroy
  BY <1>2 DEF CIStateReject, CIStateSignal, CIDestroy
<1>3. CASE CIStartSync \/ WorkerStop \/ WorkerWake \/ WorkerTake \/ WorkerLoopEnd
  BY <1>3 DEF CIStartSync, WorkerStop, WorkerWake, WorkerTake, WorkerLoopEnd, WorkerInv
<1>4. ASSUME NEW i \in Inst, WorkerNext(i) PROVE LostInv'
  BY <1>4 DEF WorkerNext, WorkerInv, PassPc
<1>5. CASE WorkerHook
  BY <1>5 DEF WorkerHook
<1>6. CASE ApplyReadFirst
  BY <1>6 DEF ApplyReadFirst
<1>7. CASE ApplySkipPrepare \/ ApplyPrepareDelete \/ ApplyPrepareCreate
  BY <1>7 DEF ApplySkipPrepare, ApplyPrepareDelete, ApplyPrepareCreate
<1>8. CASE ApplyRestart \/ ApplyUnprepare
  BY <1>8 DEF ApplyRestart, ApplyUnprepare
<1>9. CASE ApplyAbandon
  BY <1>9 DEF ApplyAbandon, PromotedSince
<1>10. CASE ApplyLocked
  BY <1>10 DEF ApplyLocked, TypeOK, WorkerInv, PassPc
<1>11. CASE Rules
  BY <1>11, RulesFrame
<1>12. CASE UNCHANGED vars
  BY <1>12 DEF vars
<1> QED
  BY <1>1, <1>2, <1>3, <1>4, <1>5, <1>6, <1>7, <1>8, <1>9, <1>10, <1>11, <1>12
  DEF Next, Worker, Update

\* The main theorem: whatever BFD, the API and the worker interleave to, an
\* instance for which nothing is pending has its live state applied
\* (CIStateUpdate, ciSyncWorker, RulesApplyClusterState).
THEOREM NoChangeLost == Spec => []SettledApplied
<1>1. Init => LostInv
  BY DEF Init, LostInv
<1>2. LostInv => SettledApplied
  BY DEF LostInv, SettledApplied, Settled, InPass, Pending
<1> QED
  BY <1>1, <1>2, TypeCorrect, LostStep, PTL DEF Spec

\* A queued instance never waits for a wakeup that is not coming
\* (the capacity of syncSig, the order of swap and signal).
THEOREM WakeupNotLost == Spec => []NoLostWakeup
<1>1. Init => NoLostWakeup
  BY DEF Init, NoLostWakeup
<1>2. NoLostWakeup /\ [Next]_vars => NoLostWakeup'
  <2> SUFFICES ASSUME NoLostWakeup, [Next]_vars PROVE NoLostWakeup'
    OBVIOUS
  <2> USE DEF ciVars, mailbox, workerVars, NoLostWakeup
  <2>1. CASE Update
    BY <2>1, ClusterAssumption DEF Update, CIStateRecord, CIStateReject
  <2>2. CASE CIStateSignal \/ CIDestroy \/ CIStartSync \/ WorkerStop
    BY <2>2 DEF CIStateSignal, CIDestroy, CIStartSync, WorkerStop
  <2>3. CASE WorkerWake \/ WorkerTake \/ (\E i \in Inst : WorkerNext(i))
             \/ WorkerLoopEnd \/ WorkerHook
    BY <2>3 DEF WorkerWake, WorkerTake, WorkerNext, WorkerLoopEnd, WorkerHook
  <2>4. CASE ApplyReadFirst \/ ApplySkipPrepare \/ ApplyPrepareDelete \/ ApplyPrepareCreate
    BY <2>4 DEF ApplyReadFirst, ApplySkipPrepare, ApplyPrepareDelete, ApplyPrepareCreate
  <2>5. CASE ApplyRestart \/ ApplyAbandon \/ ApplyLocked \/ ApplyUnprepare
    BY <2>5 DEF ApplyRestart, ApplyAbandon, ApplyLocked, ApplyUnprepare
  <2>6. CASE Rules
    BY <2>6, RulesFrame
  <2>7. CASE UNCHANGED vars
    BY <2>7 DEF vars
  <2> QED
    BY <2>1, <2>2, <2>3, <2>4, <2>5, <2>6, <2>7 DEF Next, Worker
<1> QED
  BY <1>1, <1>2, PTL DEF Spec

-----------------------------------------------------------------------------
(* What follows the state: hook, bursts, VIPs, firewall rules              *)

\* Outside the tail of its own pass, an instance was last hooked with what was
\* last applied to it.
HookInv ==
    /\ \A i \in Inst : ~(cur = i /\ pc \in {"unprepare", "hook"})
          => lastHooked[i] = applied[i] \/ (lastHooked[i] = "" /\ applied[i] = "NOT_DEFINED")
    /\ pc \in {"unprepare", "hook"} => done = applied[cur]

\* Every step keeps HookInv.
LEMMA HookStep == TypeOK /\ WorkerInv /\ HookInv /\ [Next]_vars => HookInv'
<1> SUFFICES ASSUME TypeOK, WorkerInv, HookInv, [Next]_vars PROVE HookInv'
  OBVIOUS
<1> USE DEF ciVars, mailbox, workerVars, HookInv
<1>1. CASE Update \/ CIStateSignal \/ CIDestroy \/ CIStartSync \/ WorkerStop
  BY <1>1 DEF Update, CIStateRecord, CIStateReject, CIStateSignal, CIDestroy,
              CIStartSync, WorkerStop
<1>2. CASE WorkerWake \/ WorkerTake \/ (\E i \in Inst : WorkerNext(i)) \/ WorkerLoopEnd
  BY <1>2 DEF WorkerWake, WorkerTake, WorkerNext, WorkerLoopEnd
<1>3. CASE WorkerHook
  BY <1>3 DEF WorkerHook, TypeOK, WorkerInv, PassPc
<1>4. CASE ApplyReadFirst \/ ApplySkipPrepare \/ ApplyPrepareDelete \/ ApplyPrepareCreate
  BY <1>4 DEF ApplyReadFirst, ApplySkipPrepare, ApplyPrepareDelete, ApplyPrepareCreate
<1>5. CASE ApplyRestart \/ ApplyAbandon \/ ApplyUnprepare
  BY <1>5 DEF ApplyRestart, ApplyAbandon, ApplyUnprepare
<1>6. CASE ApplyLocked
  BY <1>6 DEF ApplyLocked, TypeOK, WorkerInv, PassPc
<1>7. CASE Rules
  BY <1>7, RulesFrame
<1>8. CASE UNCHANGED vars
  BY <1>8 DEF vars
<1> QED
  BY <1>1, <1>2, <1>3, <1>4, <1>5, <1>6, <1>7, <1>8 DEF Next, Worker

\* The ka hook was last told the live state of every instance for which nothing
\* is pending (the lastHooked filter of ciSyncWorker).
THEOREM HookFollows == Spec => []SettledHooked
<1>1. Init => HookInv /\ LostInv
  BY DEF Init, HookInv, LostInv
<1>2. LostInv /\ HookInv /\ TypeOK => SettledHooked
  <2> SUFFICES ASSUME LostInv, HookInv, TypeOK, NEW i \in Inst, Settled(i)
               PROVE  lastHooked[i] = stateStr[i] \/
                      (lastHooked[i] = "" /\ stateStr[i] = "NOT_DEFINED")
    BY DEF SettledHooked
  <2>1. applied[i] = stateStr[i] /\ cur # i
    BY DEF LostInv, Settled, InPass, Pending
  <2> QED
    BY <2>1 DEF HookInv
<1> QED
  BY <1>1, <1>2, TypeCorrect, LostStep, HookStep, PTL DEF Spec

\* The steps that leave the VIPs, the rules and the bursts alone.
Quiet ==
    \/ (\E i \in Inst : CIStateReject(i)) \/ CIStateSignal \/ CIDestroy \/ CIStartSync \/ WorkerStop
    \/ WorkerWake \/ WorkerTake \/ (\E i \in Inst : WorkerNext(i)) \/ WorkerLoopEnd \/ WorkerHook
    \/ ApplyReadFirst \/ ApplySkipPrepare \/ ApplyPrepareDelete \/ ApplyPrepareCreate
    \/ ApplyRestart \/ ApplyAbandon \/ ApplyUnprepare
    \/ UNCHANGED vars

\* What a quiet step, one that applies no state, leaves alone.
LEMMA QuietFrame ==
    ASSUME Quiet
    PROVE  UNCHANGED <<stateStr, applied, vipRef, onHost, fwVars>> /\ armed' = armed
<1> USE DEF ciVars, mailbox, workerVars, cloudVars, vipVars, fwVars
<1>1. CASE (\E i \in Inst : CIStateReject(i)) \/ CIStateSignal \/ CIDestroy \/ CIStartSync \/ WorkerStop
  BY <1>1 DEF CIStateReject, CIStateSignal, CIDestroy, CIStartSync, WorkerStop
<1>2. CASE WorkerWake \/ WorkerTake \/ (\E i \in Inst : WorkerNext(i)) \/ WorkerLoopEnd \/ WorkerHook
  BY <1>2 DEF WorkerWake, WorkerTake, WorkerNext, WorkerLoopEnd, WorkerHook
<1>3. CASE ApplyReadFirst \/ ApplySkipPrepare \/ ApplyPrepareDelete \/ ApplyPrepareCreate
           \/ ApplyRestart \/ ApplyAbandon \/ ApplyUnprepare
  BY <1>3 DEF ApplyReadFirst, ApplySkipPrepare, ApplyPrepareDelete, ApplyPrepareCreate,
              ApplyRestart, ApplyAbandon, ApplyUnprepare
<1>4. CASE UNCHANGED vars
  BY <1>4 DEF vars
<1> QED
  BY <1>1, <1>2, <1>3, <1>4 DEF Quiet

\* A quiet step settles nothing: what was pending stays pending.
LEMMA QuietPending ==
    ASSUME TypeOK, WorkerInv, LostInv, Quiet, NEW i \in Inst, Pending(i)
    PROVE  Pending(i)'
<1> USE DEF ciVars, mailbox, workerVars, Pending
<1>1. CASE (\E j \in Inst : CIStateReject(j)) \/ CIStateSignal \/ CIDestroy \/ CIStartSync \/ WorkerStop
  BY <1>1 DEF CIStateReject, CIStateSignal, CIDestroy, CIStartSync, WorkerStop
<1>2. CASE WorkerWake \/ WorkerTake \/ (\E j \in Inst : WorkerNext(j)) \/ WorkerLoopEnd \/ WorkerHook
  BY <1>2 DEF WorkerWake, WorkerTake, WorkerNext, WorkerLoopEnd, WorkerHook, WorkerInv, PassPc
<1>3. CASE ApplyReadFirst \/ ApplySkipPrepare \/ ApplyPrepareDelete \/ ApplyPrepareCreate
           \/ ApplyRestart \/ ApplyUnprepare
  BY <1>3 DEF ApplyReadFirst, ApplySkipPrepare, ApplyPrepareDelete, ApplyPrepareCreate,
              ApplyRestart, ApplyUnprepare
<1>4. CASE ApplyAbandon
  BY <1>4 DEF ApplyAbandon, PromotedSince, LostInv
<1>5. CASE UNCHANGED vars
  BY <1>5 DEF vars
<1> QED
  BY <1>1, <1>2, <1>3, <1>4, <1>5 DEF Quiet

\* Every step is quiet, applies a state, or belongs to the rules.
LEMMA NextSplit ==
    ASSUME [Next]_vars
    PROVE  \/ Quiet \/ Rules \/ ApplyLocked
           \/ \E i \in Inst, t \in UpdStates : CIStateRecord(i, t)
BY DEF Next, Worker, Update, Quiet

\* A burst is armed only for an instance applied as MASTER.
BurstInv == \A i \in armed : applied[i] = "MASTER"

\* Every step keeps BurstInv.
LEMMA BurstStep == TypeOK /\ WorkerInv /\ BurstInv /\ [Next]_vars => BurstInv'
<1> SUFFICES ASSUME TypeOK, WorkerInv, BurstInv, [Next]_vars PROVE BurstInv'
  OBVIOUS
<1> USE DEF BurstInv
<1>1. CASE Quiet
  BY <1>1, QuietFrame
<1>2. ASSUME NEW i \in Inst, NEW t \in UpdStates, CIStateRecord(i, t) PROVE BurstInv'
  BY <1>2 DEF CIStateRecord
<1>3. CASE ApplyLocked
  BY <1>3 DEF ApplyLocked, vipAdvBurstOnStateLocked, TypeOK, WorkerInv, PassPc
<1>4. CASE Rules
  BY <1>4 DEF Rules, RulesSync, AddRuleVIP, DeleteRuleVIP, AddFwRule, AddFwRuleExists,
              DeleteFwRule, PortFlap, PeerPrepare, BurstEnd
<1> QED
  BY <1>1, <1>2, <1>3, <1>4, NextSplit

\* Once settled, only a master has an advertisement burst running
\* (vipAdvBurstOnStateLocked in rulesApplyStateLocked).
THEOREM BurstFollows == Spec => []BurstOnlyMaster
<1>1. Init => BurstInv /\ LostInv
  BY DEF Init, BurstInv, LostInv
<1>2. BurstInv /\ LostInv /\ TypeOK => BurstOnlyMaster
  BY DEF BurstInv, LostInv, TypeOK, BurstOnlyMaster, Settled, InPass, Pending
<1> QED
  BY <1>1, <1>2, TypeCorrect, LostStep, BurstStep, PTL DEF Spec

\* A VIP on the host is in use; if its instance is neither master nor undefined
\* a pass that takes it off the host is still to come.
VipInv ==
    /\ \A v \in onHost : vipRef[v] > 0
    /\ \A v \in onHost : stateStr[VipInst[v]] \notin {"MASTER", "NOT_DEFINED"}
                         => Pending(VipInst[v])

\* Reference counts are numbers.
LEMMA RefType == TypeOK => vipRef \in [Vip -> Nat]
<1> SUFFICES ASSUME vipRef \in [Vip -> 0..MaxRef] PROVE vipRef \in [Vip -> Nat]
  BY DEF TypeOK
<1>1. \A v \in Vip : vipRef[v] \in Nat
  BY Bounds
<1> QED
  BY <1>1

\* Every step keeps VipInv.
LEMMA VipStep == TypeOK /\ WorkerInv /\ LostInv /\ VipInv /\ [Next]_vars => VipInv'
<1> SUFFICES ASSUME TypeOK, WorkerInv, LostInv, VipInv, [Next]_vars PROVE VipInv'
  OBVIOUS
<1>a. \A v \in onHost : v \in Vip /\ VipInst[v] \in Inst
  BY ClusterAssumption DEF TypeOK
<1>1. CASE Quiet
  BY <1>1, <1>a, QuietFrame, QuietPending DEF VipInv
<1>2. ASSUME NEW i \in Inst, NEW t \in UpdStates, CIStateRecord(i, t) PROVE VipInv'
  BY <1>2, <1>a DEF CIStateRecord, VipInv, Pending, TypeOK, workerVars, vipVars
<1>3. CASE ApplyLocked
  <2>1. /\ cur \in Inst /\ UNCHANGED <<stateStr, syncDirty, todo, cur, vipRef>>
    BY <1>3 DEF ApplyLocked, WorkerInv, PassPc, ciVars, mailbox
  <2>2. PICK bound \in SUBSET ({v \in InUse : VipInst[v] = cur /\ stateStr[VipInst[v]] = "MASTER"}) :
          onHost' = (onHost \ {v \in InUse : VipInst[v] = cur /\
                                 stateStr[VipInst[v]] \notin {"MASTER", "NOT_DEFINED"}}) \cup bound
    BY <1>3 DEF ApplyLocked, AdvRuleVIP, CloudBound
  <2>3. \A v \in onHost' : vipRef'[v] > 0
    BY <2>1, <2>2 DEF VipInv, InUse
  <2>4. ASSUME NEW v \in onHost', stateStr[VipInst[v]] \notin {"MASTER", "NOT_DEFINED"}
        PROVE  Pending(VipInst[v])'
    <3>1. v \in onHost /\ v \in InUse /\ VipInst[v] # cur
      BY <2>2, <2>4, <1>a DEF VipInv, InUse, TypeOK
    <3> QED
      BY <2>1, <2>4, <3>1 DEF VipInv, Pending
  <2> QED
    BY <2>1, <2>3, <2>4 DEF VipInv
<1>4. CASE Rules
  <2>1. UNCHANGED <<stateStr, syncDirty, todo, cur, pc>>
    BY <1>4, RulesFrame DEF ciVars, mailbox, workerVars
  <2>2. CASE RulesSync
    BY <2>1, <2>2 DEF RulesSync, AdvRuleVIP, CloudBound, InUse, VipInv, Pending
  <2>3. ASSUME NEW v \in Vip, AddRuleVIP(v) PROVE VipInv'
    <3>1. vipRef \in [Vip -> Nat] /\ vipRef' = [vipRef EXCEPT ![v] = vipRef[v] + 1]
      BY <2>3, RefType DEF AddRuleVIP
    <3>2. \A w \in Vip : (vipRef[w] > 0 => vipRef'[w] > 0) /\ vipRef'[v] > 0
      BY <3>1
    <3>3. \A w \in onHost' : w \in onHost \/ (w = v /\ stateStr[VipInst[v]] = "MASTER")
      BY <2>3 DEF AddRuleVIP, AdvRuleVIP, CloudBound
    <3> QED
      BY <1>a, <2>1, <3>2, <3>3 DEF VipInv, Pending
  <2>4. ASSUME NEW v \in Vip, DeleteRuleVIP(v) PROVE VipInv'
    <3>1. vipRef \in [Vip -> Nat] /\ vipRef[v] > 0 /\ vipRef' = [vipRef EXCEPT ![v] = vipRef[v] - 1]
      BY <2>4, RefType DEF DeleteRuleVIP
    <3>2. CASE vipRef[v] = 1
      <4>1. onHost' = onHost \ {v}
        BY <2>4, <3>2 DEF DeleteRuleVIP
      <4>2. \A w \in onHost' : vipRef'[w] = vipRef[w]
        BY <3>1, <4>1, <1>a DEF TypeOK
      <4> QED
        BY <2>1, <4>1, <4>2 DEF VipInv, Pending
    <3>3. CASE vipRef[v] # 1
      <4>1. onHost' = onHost
        BY <2>4, <3>3 DEF DeleteRuleVIP
      <4>2. \A w \in Vip : vipRef[w] > 0 => vipRef'[w] > 0
        BY <3>1, <3>3
      <4> QED
        BY <1>a, <2>1, <4>1, <4>2 DEF VipInv, Pending
    <3> QED
      BY <3>2, <3>3
  <2>5. CASE \/ \E f \in Fw : AddFwRule(f) \/ AddFwRuleExists(f) \/ DeleteFwRule(f)
             \/ PortFlap \/ PeerPrepare \/ \E i \in Inst : BurstEnd(i)
    BY <2>1, <2>5 DEF AddFwRule, AddFwRuleExists, DeleteFwRule, PortFlap, PeerPrepare, BurstEnd,
                      VipInv, Pending, vipVars
  <2> QED
    BY <1>4, <2>2, <2>3, <2>4, <2>5 DEF Rules
<1> QED
  BY <1>1, <1>2, <1>3, <1>4, NextSplit

\* Once settled, a node that is neither master nor undefined has no VIP of the
\* instance on the host (AdvRuleVIP against the sweep, rule adds and the worker).
THEOREM StandbyReleases == Spec => []StandbyReleasesVips
<1>1. Init => VipInv /\ LostInv
  BY DEF Init, VipInv, LostInv
<1>2. VipInv => StandbyReleasesVips
  BY DEF VipInv, StandbyReleasesVips, Settled, InPass, Pending
<1> QED
  BY <1>1, <1>2, TypeCorrect, LostStep, VipStep, PTL DEF Spec

\* Without a cloud, a VIP in use whose instance is MASTER is on the host, or a
\* pass over its instance is due.
HoldInv ==
    \A v \in InUse : stateStr[VipInst[v]] = "MASTER" => v \in onHost \/ Pending(VipInst[v])

\* Without a cloud to refuse a VIP, every step keeps HoldInv.
LEMMA HoldStep ==
    ASSUME ~CloudHook, TypeOK, WorkerInv, LostInv, HoldInv, [Next]_vars
    PROVE  HoldInv'
<1>a. \A v \in Vip : VipInst[v] \in Inst
  BY ClusterAssumption
<1>1. CASE Quiet
  BY <1>1, <1>a, QuietFrame, QuietPending DEF HoldInv, InUse
<1>2. ASSUME NEW i \in Inst, NEW t \in UpdStates, CIStateRecord(i, t) PROVE HoldInv'
  BY <1>2, <1>a DEF CIStateRecord, HoldInv, InUse, Pending, TypeOK, workerVars, vipVars
<1>3. CASE ApplyLocked
  <2>1. /\ cur \in Inst /\ UNCHANGED <<stateStr, syncDirty, todo, cur, vipRef>>
    BY <1>3 DEF ApplyLocked, WorkerInv, PassPc, ciVars, mailbox
  <2> DEFINE mine == {v \in InUse : VipInst[v] = cur}
  <2>2. /\ onHost \ {v \in mine : stateStr[VipInst[v]] # "MASTER"} \subseteq onHost'
        /\ {v \in mine : stateStr[VipInst[v]] = "MASTER"} \subseteq onHost'
    BY <1>3 DEF ApplyLocked, AdvRuleVIP, CloudBound
  <2>3. ASSUME NEW v \in InUse, stateStr[VipInst[v]] = "MASTER"
        PROVE  v \in onHost' \/ Pending(VipInst[v])'
    <3>1. CASE VipInst[v] = cur
      BY <2>2, <2>3, <3>1
    <3>2. CASE VipInst[v] # cur
      <4>1. v \in onHost \/ Pending(VipInst[v])
        BY <2>3 DEF HoldInv
      <4> QED
        BY <2>1, <2>2, <3>2, <4>1 DEF Pending
    <3> QED
      BY <3>1, <3>2
  <2> QED
    BY <2>1, <2>3 DEF HoldInv, InUse
<1>4. CASE Rules
  <2>1. UNCHANGED <<stateStr, syncDirty, todo, cur, pc>>
    BY <1>4, RulesFrame DEF ciVars, mailbox, workerVars
  <2>2. CASE RulesSync
    BY <2>1, <2>2 DEF RulesSync, AdvRuleVIP, CloudBound, InUse, HoldInv, Pending
  <2>3. ASSUME NEW v \in Vip, AddRuleVIP(v) PROVE HoldInv'
    <3>1. vipRef \in [Vip -> Nat] /\ vipRef' = [vipRef EXCEPT ![v] = vipRef[v] + 1]
      BY <2>3, RefType DEF AddRuleVIP
    <3>2. \A w \in Vip : w \in InUse' => w \in InUse \/ (w = v /\ vipRef[v] = 0)
      BY <3>1 DEF InUse
    <3>3. vipRef[v] = 0 /\ stateStr[VipInst[v]] = "MASTER" => v \in onHost'
      BY <2>3 DEF AddRuleVIP, AdvRuleVIP, CloudBound
    <3>4. \A w \in onHost : stateStr[VipInst[w]] = "MASTER" => w \in onHost'
      BY <2>3 DEF AddRuleVIP, AdvRuleVIP, CloudBound
    <3> QED
      BY <2>1, <3>2, <3>3, <3>4 DEF HoldInv, Pending, InUse
  <2>4. ASSUME NEW v \in Vip, DeleteRuleVIP(v) PROVE HoldInv'
    <3>1. vipRef \in [Vip -> Nat] /\ vipRef[v] > 0 /\ vipRef' = [vipRef EXCEPT ![v] = vipRef[v] - 1]
      BY <2>4, RefType DEF DeleteRuleVIP
    <3>2. \A w \in InUse' : w \in InUse /\ (w = v => vipRef[v] # 1)
      BY <3>1 DEF InUse
    <3>3. \A w \in onHost : w \in onHost' \/ (w = v /\ vipRef[v] = 1)
      BY <2>4 DEF DeleteRuleVIP
    <3> QED
      BY <2>1, <3>2, <3>3 DEF HoldInv, Pending
  <2>5. CASE \/ \E f \in Fw : AddFwRule(f) \/ AddFwRuleExists(f) \/ DeleteFwRule(f)
             \/ PortFlap \/ PeerPrepare \/ \E i \in Inst : BurstEnd(i)
    BY <2>1, <2>5 DEF AddFwRule, AddFwRuleExists, DeleteFwRule, PortFlap, PeerPrepare, BurstEnd,
                      HoldInv, InUse, Pending, vipVars
  <2> QED
    BY <1>4, <2>2, <2>3, <2>4, <2>5 DEF Rules
<1> QED
  BY <1>1, <1>2, <1>3, <1>4, NextSplit

\* Without a cloud, a settled master has every VIP in use on the host: the pass
\* binds them, the sweep and new rules keep them, and a lost race with the
\* worker is always followed by one more pass (AdvRuleVIP).
THEOREM MasterHolds == Spec => []MasterHoldsVips
<1>1. Init => HoldInv /\ LostInv
  <2>1. Init => \A v \in Vip : stateStr[VipInst[v]] = "NOT_DEFINED"
    BY ClusterAssumption DEF Init
  <2>2. Init => HoldInv
    BY <2>1 DEF HoldInv, InUse
  <2> QED
    BY <2>2 DEF Init, LostInv
<1>2. ~CloudHook /\ TypeOK /\ WorkerInv /\ LostInv /\ HoldInv /\ [Next]_vars => HoldInv'
  BY HoldStep
<1>3. HoldInv => MasterHoldsVips
  BY DEF HoldInv, MasterHoldsVips, Settled, InPass, Pending
<1>4. CloudHook => MasterHoldsVips
  BY DEF MasterHoldsVips
<1>5. CASE CloudHook
  <2>1. MasterHoldsVips
    BY <1>4, <1>5
  <2> QED
    BY <2>1, PTL
<1>6. CASE ~CloudHook
  BY <1>1, <1>2, <1>3, <1>6, TypeCorrect, LostStep, PTL DEF Spec
<1> QED
  BY <1>5, <1>6

\* With their port registered, the OnDefault rules in the datapath are rules of
\* the table, all or none of them once no pass is due for the default instance.
FwInv ==
    /\ portUp /\ fwSync = {} /\ fwDp \subseteq fwRules
    /\ ~Pending(CIDefault) => fwDp = IF stateStr[CIDefault] = "BACKUP" THEN {} ELSE fwRules

\* Every step keeps the firewall invariant while rules are not re-added and
\* ports stay.
LEMMA FwStep ==
    ASSUME ~FwReAdd, ~PortFlaps, TypeOK, WorkerInv, LostInv, FwInv, [Next]_vars
    PROVE  FwInv'
<1>a. CIDefault \in Inst
  BY ClusterAssumption
<1>1. CASE Quiet
  BY <1>1, <1>a, QuietFrame, QuietPending DEF FwInv, fwVars
<1>2. ASSUME NEW i \in Inst, NEW t \in UpdStates, CIStateRecord(i, t) PROVE FwInv'
  BY <1>2, <1>a DEF CIStateRecord, FwInv, Pending, TypeOK, workerVars, fwVars
<1>3. CASE ApplyLocked
  <2>1. UNCHANGED <<stateStr, syncDirty, todo, cur, fwRules, portUp>> /\ pc' = "unprepare"
    BY <1>3 DEF ApplyLocked, ciVars, mailbox
  <2>2. CASE cur = CIDefault
    <3>1. portUp /\ fwSync = {} /\ fwDp \subseteq fwRules
      BY DEF FwInv
    <3>2. CASE stateStr[cur] # "BACKUP"
      <4>1. fwSync' = {} /\ fwDp' = fwRules
        BY <1>3, <2>2, <3>1, <3>2 DEF ApplyLocked, Fw2DPCreate
      <4> QED BY <2>1, <2>2, <3>1, <3>2, <4>1 DEF FwInv
    <3>3. CASE stateStr[cur] = "BACKUP"
      <4>1. fwSync' = {} /\ fwDp' = {}
        BY <1>3, <2>2, <3>1, <3>3 DEF ApplyLocked, Fw2DPRemove
      <4> QED BY <2>1, <2>2, <3>1, <3>3, <4>1 DEF FwInv
    <3> QED BY <3>2, <3>3
  <2>3. CASE cur # CIDefault
    <3>1. UNCHANGED <<fwSync, fwDp>>
      BY <1>3, <2>3 DEF ApplyLocked, fwVars
    <3>2. Pending(CIDefault)' => Pending(CIDefault)
      BY <2>1, <2>3 DEF Pending
    <3>3. Pending(CIDefault) => Pending(CIDefault)'
      BY <1>3, <2>1, <2>3 DEF ApplyLocked, Pending
    <3> QED
      BY <2>1, <3>1, <3>2, <3>3 DEF FwInv
  <2> QED
    BY <2>2, <2>3
<1>4. CASE Rules
  <2>1. UNCHANGED <<stateStr, syncDirty, todo, cur, pc>>
    BY <1>4, RulesFrame DEF ciVars, mailbox, workerVars
  <2>2. CASE RulesSync
    BY <2>1, <2>2 DEF RulesSync, Fw2DPCreate, FwInv, Pending
  <2>3. ASSUME NEW f \in Fw, AddFwRule(f) PROVE FwInv'
    BY <2>1, <2>3 DEF AddFwRule, Fw2DPCreate, FwInv, Pending
  <2>4. ASSUME NEW f \in Fw, DeleteFwRule(f) PROVE FwInv'
    BY <2>1, <2>4 DEF DeleteFwRule, Fw2DPRemove, FwInv, Pending
  <2>5. CASE \/ \E v \in Vip : AddRuleVIP(v) \/ DeleteRuleVIP(v)
             \/ PeerPrepare \/ \E i \in Inst : BurstEnd(i)
    BY <2>1, <2>5 DEF AddRuleVIP, DeleteRuleVIP, PeerPrepare, BurstEnd, FwInv, Pending, fwVars
  <2> QED
    BY <1>4, <2>2, <2>3, <2>4, <2>5 DEF Rules, AddFwRuleExists, PortFlap
<1> QED
  BY <1>1, <1>2, <1>3, <1>4, NextSplit

\* Once settled, OnDefault rules are in the datapath exactly when the default
\* instance is not BACKUP, as long as no rule is added twice and the port the
\* rules name stays (AddFwRule, rulesApplyStateLocked).
THEOREM FirewallFollows == ~FwReAdd /\ ~PortFlaps => (Spec => []FwFollowsState)
<1> SUFFICES ASSUME ~FwReAdd, ~PortFlaps PROVE Spec => []FwFollowsState
  OBVIOUS
<1>1. Init => FwInv /\ LostInv
  BY DEF Init, FwInv, LostInv
<1>2. TypeOK /\ WorkerInv /\ LostInv /\ FwInv /\ [Next]_vars => FwInv'
  BY FwStep
<1>3. FwInv => FwFollowsState
  BY DEF FwInv, FwFollowsState, Settled, InPass, Pending
<1> QED
  BY <1>1, <1>2, <1>3, TypeCorrect, LostStep, PTL DEF Spec
=============================================================================

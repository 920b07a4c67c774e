---------------------------- MODULE ClusterSync ----------------------------
(***************************************************************************)
(* Cluster state of one loxilb node: the state map and sync mailbox of     *)
(* CIStateH (pkg/loxinet/cluster.go), the worker that applies state        *)
(* changes, and what it applies them to (pkg/loxinet/rules.go): the        *)
(* firewall entries that follow the default instance, the VIPs bound on    *)
(* the host, and the cloud network the VIPs are attached to.               *)
(*                                                                         *)
(* mh.mtx is held across steps by one caller only, CIStateUpdate, between  *)
(* recording a change and signalling the worker (mtxHolder).  Every other  *)
(* section under mh.mtx reads no shared state that can change meanwhile    *)
(* and is one step, guarded by MtxFree.                                    *)
(***************************************************************************)
EXTENDS Naturals

CONSTANTS
    Inst,         \* cluster instances
    CIDefault,    \* the default instance, the only one with a cloud network
    NoInst,       \* "no instance"
    UpdStates,    \* states the API and BFD ask for
    Vip,          \* virtual IPs of rules
    VipInst,      \* vipElem.inst of each VIP
    Fw,           \* OnDefault firewall rules
    CloudHook,    \* mh.cloudHook != nil
    CloudFaults,  \* whether calls into the cloud may fail
    MaxRestarts,  \* ciApplyMaxRestarts
    MaxRef,       \* bound on the rules that share a VIP
    FwReAdd,      \* whether an existing OnDefault rule is added again
    PortFlaps     \* whether the port the OnDefault rules name comes and goes

States == {"MASTER", "BACKUP", "FAULT", "STOP", "NOT_DEFINED"}

ASSUME ClusterAssumption ==
    /\ CIDefault \in Inst
    /\ NoInst \notin Inst
    /\ UpdStates \subseteq States
    /\ VipInst \in [Vip -> Inst]
    /\ CloudHook \in BOOLEAN /\ CloudFaults \in BOOLEAN /\ FwReAdd \in BOOLEAN /\ PortFlaps \in BOOLEAN
    /\ MaxRestarts \in Nat /\ MaxRef \in Nat

VARIABLES
    known,       \* keys of ClusterMap
    stateStr,    \* ClusterMap[i].StateStr, "NOT_DEFINED" while i is unknown
    syncDirty,   \* instances queued for the worker
    syncSig,     \* a token is in the channel syncSig (capacity 1)
    syncFin,     \* CIDestroy closed syncFin
    mtxHolder,   \* instance whose CIStateUpdate holds mh.mtx, or NoInst
    pc,          \* where the sync worker is
    todo,        \* rest of the dirty set the worker took
    cur,         \* instance being applied
    first,       \* first state read in this pass
    try,         \* restarts of this pass
    done,        \* state applied by this pass
    lastHooked,  \* last state the ka hook was told per instance, "" if none
    applied,     \* state rulesApplyStateLocked last applied (history)
    cloudPrepared, \* RuleH.cloudPrepared
    eniLive,     \* the network interface VIPs attach to exists
    attached,    \* VIPs assigned to that interface
    vipRef,      \* vipMap[v].ref, 0 when absent
    onHost,      \* VIPs configured on a host link
    internal,    \* VIPs held as llb-rule addresses
    fwRules,     \* OnDefault rules in the firewall table
    fwDp,        \* OnDefault rules programmed in the datapath
    fwSync,      \* OnDefault rules with sync # 0: to be retried by the sweep
    portUp,      \* the port the OnDefault rules name is registered
    armed        \* instances with an advertisement burst in vipAdvRep.active

ciVars     == <<known, stateStr, syncFin>>
mailbox    == <<syncDirty, syncSig, mtxHolder>>
workerVars == <<pc, todo, cur, first, try, done, lastHooked>>
cloudVars  == <<cloudPrepared, eniLive, attached>>
vipVars    == <<vipRef, onHost, internal>>
fwVars     == <<fwRules, fwDp, fwSync, portUp>>
vars == <<ciVars, mailbox, workerVars, applied, cloudVars, vipVars, fwVars, armed>>

PcStates == {"unstarted", "idle", "woken", "loop", "first", "prepare",
             "create", "apply", "unprepare", "hook", "stopped"}

MtxFree == mtxHolder = NoInst

TypeOK ==
    /\ known \subseteq Inst
    /\ stateStr \in [Inst -> States]
    /\ syncDirty \subseteq Inst
    /\ syncSig \in BOOLEAN /\ syncFin \in BOOLEAN
    /\ mtxHolder \in Inst \cup {NoInst}
    /\ pc \in PcStates
    /\ todo \subseteq Inst
    /\ cur \in Inst \cup {NoInst}
    /\ first \in States /\ done \in States
    /\ try \in 0..MaxRestarts
    /\ lastHooked \in [Inst -> States \cup {""}]
    /\ applied \in [Inst -> States]
    /\ cloudPrepared \in BOOLEAN /\ eniLive \in BOOLEAN
    /\ attached \subseteq Vip
    /\ vipRef \in [Vip -> 0..MaxRef]
    /\ onHost \subseteq Vip /\ internal \subseteq Vip
    /\ fwRules \subseteq Fw /\ fwDp \subseteq Fw /\ fwSync \subseteq Fw
    /\ portUp \in BOOLEAN
    /\ armed \subseteq Inst

Init ==
    /\ known = {CIDefault}
    /\ stateStr = [i \in Inst |-> "NOT_DEFINED"]
    /\ syncDirty = {} /\ syncSig = FALSE /\ syncFin = FALSE
    /\ mtxHolder = NoInst
    /\ pc = "unstarted" /\ todo = {} /\ cur = NoInst
    /\ first = "NOT_DEFINED" /\ try = 0 /\ done = "NOT_DEFINED"
    /\ lastHooked = [i \in Inst |-> ""]
    /\ applied = [i \in Inst |-> "NOT_DEFINED"]
    /\ cloudPrepared = FALSE
    /\ eniLive \in BOOLEAN          \* left from an earlier life, or not
    /\ attached = {}
    /\ vipRef = [v \in Vip |-> 0]
    /\ onHost = {} /\ internal = {}
    /\ fwRules = {} /\ fwDp = {} /\ fwSync = {} /\ portUp = TRUE
    /\ armed = {}

-----------------------------------------------------------------------------
(* Recording a change: BFDSessionNotify and NetCIStateMod -> CIStateUpdate *)

\* Mutant: a change that lands while the instance is in a pass is not queued.
CIStateRecordLosing(i, s) ==
    /\ MtxFree
    /\ s \in UpdStates /\ s # stateStr[i]
    /\ known' = known \cup {i}
    /\ stateStr' = [stateStr EXCEPT ![i] = s]
    /\ syncDirty' = IF cur = i THEN syncDirty ELSE syncDirty \cup {i}
    /\ mtxHolder' = i
    /\ UNCHANGED <<syncFin, syncSig, workerVars, applied, cloudVars, vipVars, fwVars, armed>>

\* The state differs: recorded and queued under mx.  mh.mtx stays held.
CIStateRecord(i, s) ==
    /\ MtxFree
    /\ s \in UpdStates /\ s # stateStr[i]
    /\ known' = known \cup {i}
    /\ stateStr' = [stateStr EXCEPT ![i] = s]
    /\ syncDirty' = syncDirty \cup {i}
    /\ mtxHolder' = i
    /\ UNCHANGED <<syncFin, syncSig, workerVars, applied, cloudVars, vipVars, fwVars, armed>>

\* Same state, or a state StateMap does not know: only the entry is created.
CIStateReject(i) ==
    /\ MtxFree
    /\ i \notin known
    /\ known' = known \cup {i}
    /\ UNCHANGED <<stateStr, syncFin, mailbox, workerVars, applied, cloudVars, vipVars, fwVars, armed>>

\* Mutant: syncSig has no buffer, the send is dropped unless the worker waits.
CIStateSignalUnbuffered ==
    /\ ~MtxFree
    /\ syncSig' = (syncSig \/ pc = "idle")
    /\ mtxHolder' = NoInst
    /\ UNCHANGED <<ciVars, syncDirty, workerVars, applied, cloudVars, vipVars, fwVars, armed>>

\* The non-blocking send on syncSig, then mh.mtx is released.
CIStateSignal ==
    /\ ~MtxFree
    /\ syncSig' = TRUE
    /\ mtxHolder' = NoInst
    /\ UNCHANGED <<ciVars, syncDirty, workerVars, applied, cloudVars, vipVars, fwVars, armed>>

CIDestroy ==
    /\ ~syncFin
    /\ syncFin' = TRUE
    /\ UNCHANGED <<known, stateStr, mailbox, workerVars, applied, cloudVars, vipVars, fwVars, armed>>

-----------------------------------------------------------------------------
(* The sync worker: CIStartSync and ciSyncWorker                           *)

CIStartSync ==
    /\ pc = "unstarted"
    /\ pc' = "idle"
    /\ UNCHANGED <<ciVars, mailbox, todo, cur, first, try, done, lastHooked,
                   applied, cloudVars, vipVars, fwVars, armed>>

WorkerStop ==
    /\ pc = "idle" /\ syncFin
    /\ pc' = "stopped"
    /\ UNCHANGED <<ciVars, mailbox, todo, cur, first, try, done, lastHooked,
                   applied, cloudVars, vipVars, fwVars, armed>>

WorkerWake ==
    /\ pc = "idle" /\ syncSig
    /\ syncSig' = FALSE
    /\ pc' = "woken"
    /\ UNCHANGED <<ciVars, syncDirty, mtxHolder, todo, cur, first, try, done,
                   lastHooked, applied, cloudVars, vipVars, fwVars, armed>>

\* The dirty set is taken as a whole under mx.
WorkerTake ==
    /\ pc = "woken"
    /\ todo' = syncDirty
    /\ syncDirty' = {}
    /\ pc' = "loop"
    /\ UNCHANGED <<ciVars, syncSig, mtxHolder, cur, first, try, done,
                   lastHooked, applied, cloudVars, vipVars, fwVars, armed>>

WorkerNext(i) ==
    /\ pc = "loop" /\ i \in todo
    /\ todo' = todo \ {i}
    /\ cur' = i /\ try' = 0
    /\ pc' = "first"
    /\ UNCHANGED <<ciVars, mailbox, first, done, lastHooked, applied,
                   cloudVars, vipVars, fwVars, armed>>

WorkerLoopEnd ==
    /\ pc = "loop" /\ todo = {}
    /\ pc' = "idle" /\ cur' = NoInst
    /\ UNCHANGED <<ciVars, mailbox, todo, first, try, done, lastHooked,
                   applied, cloudVars, vipVars, fwVars, armed>>

\* Mutant: the hook is told of each instance once.
WorkerHookOnce ==
    /\ pc = "hook"
    /\ lastHooked' = [lastHooked EXCEPT ![cur] = IF @ = "" THEN done ELSE @]
    /\ pc' = "loop" /\ cur' = NoInst
    /\ UNCHANGED <<ciVars, mailbox, todo, first, try, done, applied,
                   cloudVars, vipVars, fwVars, armed>>

\* hook is told of a state only if it differs from the last one it was told.
WorkerHook ==
    /\ pc = "hook"
    /\ lastHooked' = [lastHooked EXCEPT ![cur] = done]
    /\ pc' = "loop" /\ cur' = NoInst
    /\ UNCHANGED <<ciVars, mailbox, todo, first, try, done, applied,
                   cloudVars, vipVars, fwVars, armed>>

-----------------------------------------------------------------------------
(* VIPs: AdvRuleVIP, the sweep, and rules that come and go                 *)

\* Which of the VIPs in V end up bound: all of them without a cloud; none
\* without an interface to attach to; any of them when cloud calls may fail.
CloudBound(V) ==
    IF ~CloudHook THEN {V}
    ELSE IF ~eniLive THEN {{}}
    ELSE IF CloudFaults THEN SUBSET V ELSE {V}

\* Mutant: a standby without a cloud interface releases nothing.
AdvRuleVIPNeedsIf(V) ==
    LET master == {v \in V : stateStr[VipInst[v]] = "MASTER"}
        undef  == {v \in V : stateStr[VipInst[v]] = "NOT_DEFINED"}
    IN  \E bound \in CloudBound(master \ onHost) :
          /\ onHost' = (IF eniLive THEN onHost \ (V \ (master \cup undef)) ELSE onHost) \cup bound
          /\ attached' = IF CloudHook THEN attached \cup bound ELSE attached
          /\ internal' = (internal \ master) \cup (undef \ onHost)

\* AdvRuleVIP of every VIP in V, each with the current state of its instance.
\* A VIP that is already on the host is not attached again.
AdvRuleVIP(V) ==
    LET master == {v \in V : stateStr[VipInst[v]] = "MASTER"}
        undef  == {v \in V : stateStr[VipInst[v]] = "NOT_DEFINED"}
    IN  \E bound \in CloudBound(master \ onHost) :
          /\ onHost' = (onHost \ (V \ (master \cup undef))) \cup bound
          /\ attached' = IF CloudHook THEN attached \cup bound ELSE attached
          /\ internal' = (internal \ master) \cup (undef \ onHost)

InUse == {v \in Vip : vipRef[v] > 0}

\* Fw2DP of the rules in F.  Without their port the call fails: the rule is
\* marked for a retry and the datapath is left as it is.
Fw2DPCreate(F) ==
    /\ fwDp' = IF portUp THEN fwDp \cup F ELSE fwDp
    /\ fwSync' = IF portUp THEN fwSync \ F ELSE fwSync \cup F

Fw2DPRemove(F) ==
    /\ fwDp' = IF portUp THEN fwDp \ F ELSE fwDp
    /\ fwSync' = IF portUp THEN fwSync \ F ELSE fwSync \cup F

\* RulesSync, run by the ticker under mh.mtx: the VIP sweep when it is due, and
\* a create for every firewall rule marked for a retry.
RulesSync ==
    /\ MtxFree
    /\ AdvRuleVIP(InUse) \/ UNCHANGED <<onHost, attached, internal>>
    /\ Fw2DPCreate(fwRules \cap fwSync)
    /\ UNCHANGED <<ciVars, mailbox, workerVars, applied, cloudPrepared, eniLive, vipRef,
                   fwRules, portUp, armed>>

\* Mutant: a new VIP is left to the next sweep.
AddRuleVIPLazy(v) ==
    /\ MtxFree
    /\ vipRef[v] < MaxRef
    /\ vipRef' = [vipRef EXCEPT ![v] = @ + 1]
    /\ UNCHANGED <<onHost, internal, attached>>
    /\ UNCHANGED <<ciVars, mailbox, workerVars, applied, cloudPrepared, eniLive, fwVars, armed>>

AddRuleVIP(v) ==
    /\ MtxFree
    /\ vipRef[v] < MaxRef
    /\ vipRef' = [vipRef EXCEPT ![v] = @ + 1]
    /\ \/ vipRef[v] = 0 /\ AdvRuleVIP({v})
       \/ vipRef[v] > 0 /\ UNCHANGED <<onHost, internal, attached>>
    /\ UNCHANGED <<ciVars, mailbox, workerVars, applied, cloudPrepared, eniLive, fwVars, armed>>

\* The last rule of the VIP goes: unbound, and detached if it was on the host.
DeleteRuleVIP(v) ==
    /\ MtxFree
    /\ vipRef[v] > 0
    /\ vipRef' = [vipRef EXCEPT ![v] = @ - 1]
    /\ \/ /\ vipRef[v] = 1
          /\ onHost' = onHost \ {v}
          /\ internal' = internal \ {v}
          /\ \/ attached' = IF v \in onHost THEN attached \ {v} ELSE attached
             \/ CloudFaults /\ attached' = attached
       \/ vipRef[v] > 1 /\ UNCHANGED <<onHost, internal, attached>>
    /\ UNCHANGED <<ciVars, mailbox, workerVars, applied, cloudPrepared, eniLive, fwVars, armed>>

-----------------------------------------------------------------------------
(* OnDefault firewall rules: AddFwRule, DeleteFwRule                       *)

\* Mutant: a new rule is programmed whatever the state.
AddFwRuleAlways(f) ==
    /\ MtxFree
    /\ f \notin fwRules
    /\ fwRules' = fwRules \cup {f}
    /\ Fw2DPCreate({f})
    /\ UNCHANGED <<ciVars, mailbox, workerVars, applied, cloudVars, vipVars, portUp, armed>>

\* A new rule is programmed unless the default instance is BACKUP.
AddFwRule(f) ==
    /\ MtxFree
    /\ f \notin fwRules
    /\ fwRules' = fwRules \cup {f}
    /\ IF stateStr[CIDefault] = "BACKUP" THEN UNCHANGED fwDp /\ fwSync' = fwSync \ {f}
       ELSE Fw2DPCreate({f})
    /\ UNCHANGED <<ciVars, mailbox, workerVars, applied, cloudVars, vipVars, portUp, armed>>

\* An existing rule with another mark: removed and created, then an error.
AddFwRuleExists(f) ==
    /\ FwReAdd
    /\ MtxFree
    /\ f \in fwRules
    /\ Fw2DPCreate({f})
    /\ UNCHANGED <<ciVars, mailbox, workerVars, applied, cloudVars, vipVars, fwRules, portUp, armed>>

DeleteFwRule(f) ==
    /\ MtxFree
    /\ f \in fwRules
    /\ fwRules' = fwRules \ {f}
    /\ Fw2DPRemove({f})
    /\ UNCHANGED <<ciVars, mailbox, workerVars, applied, cloudVars, vipVars, portUp, armed>>

\* The port goes away or comes back.
PortFlap ==
    /\ PortFlaps
    /\ MtxFree
    /\ portUp' = ~portUp
    /\ UNCHANGED <<ciVars, mailbox, workerVars, applied, cloudVars, vipVars, fwRules, fwDp, fwSync, armed>>

-----------------------------------------------------------------------------
(* RulesApplyClusterState, on the sync worker                              *)

Cloud == CloudHook /\ cur = CIDefault

ApplyReadFirst ==
    /\ pc = "first" /\ MtxFree
    /\ first' = stateStr[cur]
    /\ pc' = "prepare"
    /\ UNCHANGED <<ciVars, mailbox, todo, cur, try, done, lastHooked, applied,
                   cloudVars, vipVars, fwVars, armed>>

NeedsPrepare == Cloud /\ first = "MASTER" /\ ~cloudPrepared

ApplySkipPrepare ==
    /\ pc = "prepare" /\ ~NeedsPrepare
    /\ pc' = "apply"
    /\ UNCHANGED <<ciVars, mailbox, todo, cur, first, try, done, lastHooked,
                   applied, cloudVars, vipVars, fwVars, armed>>

\* CloudPrepareVIPNetWork deletes the interface an earlier life or the peer
\* left.  It gives up if that fails, and goes on if it finds none to delete.
ApplyPrepareDelete ==
    /\ pc = "prepare" /\ NeedsPrepare
    /\ \/ eniLive' = FALSE /\ attached' = {} /\ pc' = "create"
       \/ CloudFaults /\ pc' \in {"apply", "create"} /\ UNCHANGED <<eniLive, attached>>
    /\ UNCHANGED <<ciVars, mailbox, todo, cur, first, try, done, lastHooked,
                   applied, cloudPrepared, vipVars, fwVars, armed>>

\* ... and creates the new interface.  It returns an error, or returns nil
\* without an interface, on its failure paths.
ApplyPrepareCreate ==
    /\ pc = "create"
    /\ pc' = "apply"
    /\ \/ eniLive' = TRUE /\ attached' = {} /\ cloudPrepared' = TRUE
       \/ CloudFaults /\ cloudPrepared' \in BOOLEAN /\ UNCHANGED <<eniLive, attached>>
    /\ UNCHANGED <<ciVars, mailbox, todo, cur, first, try, done, lastHooked,
                   applied, vipVars, fwVars, armed>>

\* The peer became master and took the interface: its CloudPrepareVIPNetWork
\* detaches and deletes whatever carries the cluster's tag.
PeerPrepare ==
    /\ CloudHook /\ eniLive
    /\ eniLive' = FALSE /\ attached' = {}
    /\ UNCHANGED <<ciVars, mailbox, workerVars, applied, cloudPrepared, vipVars, fwVars, armed>>

PromotedSince ==
    Cloud /\ stateStr[cur] = "MASTER" /\ first # "MASTER" /\ ~cloudPrepared

ApplyRestart ==
    /\ pc = "apply" /\ MtxFree /\ PromotedSince
    /\ try < MaxRestarts
    /\ try' = try + 1
    /\ pc' = "first"
    /\ UNCHANGED <<ciVars, mailbox, todo, cur, first, done, lastHooked,
                   applied, cloudVars, vipVars, fwVars, armed>>

ApplyAbandon ==
    /\ pc = "apply" /\ MtxFree /\ PromotedSince
    /\ try >= MaxRestarts
    /\ pc' = "loop" /\ cur' = NoInst
    /\ UNCHANGED <<ciVars, mailbox, todo, first, try, done, lastHooked,
                   applied, cloudVars, vipVars, fwVars, armed>>

\* A master starts a fresh burst in the place of the old one, any other state
\* only stops the old one.
vipAdvBurstOnStateLocked(i) ==
    armed' = IF stateStr[i] = "MASTER" THEN armed \cup {i} ELSE armed \ {i}

\* A burst sent its last repeat, or found the instance no longer master.
BurstEnd(i) ==
    /\ i \in armed
    /\ armed' = armed \ {i}
    /\ UNCHANGED <<ciVars, mailbox, workerVars, applied, cloudVars, vipVars, fwVars>>

\* rulesApplyStateLocked
ApplyLocked ==
    /\ pc = "apply" /\ MtxFree /\ ~PromotedSince
    /\ done' = stateStr[cur]
    /\ applied' = [applied EXCEPT ![cur] = stateStr[cur]]
    /\ IF cur # CIDefault THEN UNCHANGED <<fwDp, fwSync>>
       ELSE IF stateStr[cur] # "BACKUP" THEN Fw2DPCreate(fwRules)
       ELSE Fw2DPRemove(fwRules)
    /\ AdvRuleVIP({v \in InUse : VipInst[v] = cur})
    /\ vipAdvBurstOnStateLocked(cur)
    /\ pc' = "unprepare"
    /\ UNCHANGED <<ciVars, mailbox, todo, cur, first, try, lastHooked,
                   cloudPrepared, eniLive, vipRef, fwRules, portUp>>

\* CloudUnPrepareVIPNetWork takes mh.mtx itself.
ApplyUnprepare ==
    /\ pc = "unprepare"
    /\ IF Cloud /\ done = "BACKUP" /\ cloudPrepared
       THEN MtxFree /\ cloudPrepared' = FALSE
       ELSE UNCHANGED cloudPrepared
    /\ pc' = "hook"
    /\ UNCHANGED <<ciVars, mailbox, todo, cur, first, try, done, lastHooked,
                   applied, eniLive, attached, vipVars, fwVars, armed>>

-----------------------------------------------------------------------------
Update == (\E i \in Inst, s \in UpdStates : CIStateRecord(i, s)) \/ (\E i \in Inst : CIStateReject(i))

Worker ==
    \/ WorkerWake \/ WorkerTake \/ (\E i \in Inst : WorkerNext(i))
    \/ WorkerLoopEnd \/ WorkerHook
    \/ ApplyReadFirst \/ ApplySkipPrepare \/ ApplyPrepareDelete \/ ApplyPrepareCreate
    \/ ApplyRestart \/ ApplyAbandon \/ ApplyLocked \/ ApplyUnprepare

Rules ==
    \/ RulesSync
    \/ \E v \in Vip : AddRuleVIP(v) \/ DeleteRuleVIP(v)
    \/ \E f \in Fw : AddFwRule(f) \/ AddFwRuleExists(f) \/ DeleteFwRule(f)
    \/ PortFlap \/ PeerPrepare
    \/ \E i \in Inst : BurstEnd(i)

Next == Update \/ CIStateSignal \/ CIDestroy \/ CIStartSync \/ WorkerStop \/ Worker \/ Rules

Spec == Init /\ [][Next]_vars

\* Goroutines run, and a mutex that is free again and again is acquired in the
\* end (sync.Mutex hands it over to a waiter that has waited for 1 ms).
Fairness ==
    /\ WF_vars(CIStateSignal)
    /\ WF_vars(CIStartSync)
    /\ SF_vars(Worker)

FairSpec == Spec /\ Fairness

-----------------------------------------------------------------------------
(* Properties                                                              *)

\* i is in the worker's hands: taken, or being applied and not yet hooked.
InPass(i) == i \in todo \/ cur = i

\* Nothing is pending for i.
Settled(i) == i \notin syncDirty /\ ~InPass(i)

\* Once nothing is pending for an instance, the state applied to its rules is
\* the live state: CIStateUpdate never loses a change against the worker's
\* swap of the dirty set, and a pass RulesApplyClusterState abandons has been
\* queued again by the change that made it give up.
SettledApplied == \A i \in Inst : Settled(i) => applied[i] = stateStr[i]

\* ... and the ka hook was last told that state, unless the instance never
\* changed: what ciSyncWorker skips as already told is never a newer state.
SettledHooked ==
    \A i \in Inst : Settled(i) => lastHooked[i] = stateStr[i] \/
                                  (lastHooked[i] = "" /\ stateStr[i] = "NOT_DEFINED")

\* A queued instance always has a wakeup on its way to the worker, or the
\* caller that queued it is still about to send one.
NoLostWakeup == syncDirty # {} => syncSig \/ ~MtxFree \/ pc = "woken"

\* Once settled, a node that is not master, in a state other than NOT_DEFINED,
\* holds no VIP of the instance on the host, whatever sweeps and rule adds ran
\* in between.
StandbyReleasesVips ==
    \A v \in Vip : LET i == VipInst[v] IN
        Settled(i) /\ stateStr[i] \notin {"MASTER", "NOT_DEFINED"} => v \notin onHost

\* Without a cloud to refuse it, a settled master holds every VIP in use.
MasterHoldsVips ==
    ~CloudHook =>
    \A v \in InUse : LET i == VipInst[v] IN
        Settled(i) /\ stateStr[i] = "MASTER" => v \in onHost

\* Once settled, the OnDefault rules are in the datapath exactly when the
\* default instance is not BACKUP.
FwFollowsState ==
    Settled(CIDefault) => fwDp = IF stateStr[CIDefault] = "BACKUP" THEN {} ELSE fwRules

\* Once settled, only a master has an advertisement burst running: a burst
\* never outlives the pass that applies the state it was armed for.
BurstOnlyMaster == \A i \in armed : Settled(i) => stateStr[i] = "MASTER"

\* A settled master with its cloud network in place has every VIP on the host
\* attached to that network.
CloudVipAttached ==
    \A v \in onHost :
        /\ VipInst[v] = CIDefault /\ Settled(CIDefault)
        /\ stateStr[CIDefault] = "MASTER" /\ cloudPrepared /\ eniLive
        => v \in attached

\* A state that stays is applied and hooked in the end, unless the node shuts
\* down.
EventuallyApplied ==
    \A i \in Inst, s \in States :
        <>[](stateStr[i] = s /\ ~syncFin)
            => <>[](applied[i] = s /\ (lastHooked[i] = s \/ (s = "NOT_DEFINED" /\ lastHooked[i] = "")))

=============================================================================

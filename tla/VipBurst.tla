----------------------------- MODULE VipBurst -----------------------------
(***************************************************************************)
(* The goroutines that repeat VIP advertisements while an instance is      *)
(* master (pkg/loxinet/vipadv.go): a burst is started and cancelled under  *)
(* mh.mtx, wakes up a few times, resolves its targets under mh.mtx and     *)
(* sends its frames without a lock.                                        *)
(***************************************************************************)
EXTENDS Naturals, FiniteSets

CONSTANTS
    Inst,     \* cluster instances
    Vip,      \* virtual addresses
    VipInst,  \* the instance of each
    Burst,    \* goroutines, used again once they are gone
    NoBurst,
    Repeat    \* opts.VIPAdvRepeat

ASSUME BurstAssumption ==
    /\ VipInst \in [Vip -> Inst] /\ IsFiniteSet(Vip)
    /\ NoBurst \notin Burst
    /\ Repeat \in Nat

VARIABLES
    live,       \* StateStr of each instance
    queued,     \* instances whose change the sync worker has not observed
    active,     \* vipAdvBurstSched.active
    pc,         \* where each goroutine is, "free" when there is none
    inst,       \* its instance
    cancelled,  \* its context is cancelled
    round,      \* its loop counter i
    todo,       \* targets of this round not sent yet
    late,       \* frames sent after the cancel (history)
    stale       \* frames sent since the instance was last master (history)

sched == <<live, queued, active>>
vars == <<sched, pc, inst, cancelled, round, todo, late, stale>>

VipsOf(i) == {v \in Vip : VipInst[v] = i}

TypeOK ==
    /\ live \in [Inst -> {"MASTER", "BACKUP"}]
    /\ queued \subseteq Inst
    /\ active \in [Inst -> Burst \cup {NoBurst}]
    /\ pc \in [Burst -> {"free", "sleep", "woken", "loop", "send", "cleanup"}]
    /\ inst \in [Burst -> Inst]
    /\ cancelled \in [Burst -> BOOLEAN]
    /\ round \in [Burst -> 0..Repeat]
    /\ todo \in [Burst -> SUBSET Vip]
    /\ late \in [Burst -> Nat] /\ stale \in [Burst -> Nat]

Init ==
    /\ live = [i \in Inst |-> "BACKUP"]
    /\ queued = {}
    /\ active = [i \in Inst |-> NoBurst]
    /\ pc = [b \in Burst |-> "free"]
    /\ inst \in [Burst -> Inst]
    /\ cancelled = [b \in Burst |-> FALSE]
    /\ round = [b \in Burst |-> 0]
    /\ todo = [b \in Burst |-> {}]
    /\ late = [b \in Burst |-> 0] /\ stale = [b \in Burst |-> 0]

-----------------------------------------------------------------------------
\* CIStateUpdate under mh.mtx: the change is recorded and queued.
StateChange(i, s) ==
    /\ s # live[i]
    /\ live' = [live EXCEPT ![i] = s]
    /\ queued' = queued \cup {i}
    /\ stale' = [b \in Burst |-> IF inst[b] = i THEN 0 ELSE stale[b]]
    /\ UNCHANGED <<active, pc, inst, cancelled, round, todo, late>>

\* The context of the burst running for i is cancelled.
Cancel(i) == [b \in Burst |-> cancelled[b] \/ (b = active[i])]

\* arm with no run.
armDrop(i) ==
    /\ active' = [active EXCEPT ![i] = NoBurst]
    /\ cancelled' = Cancel(i)
    /\ UNCHANGED <<pc, inst, round, todo, late, stale>>

\* arm: the burst running for i makes room for goroutine b.
arm(i, b) ==
    /\ pc[b] = "free"
    /\ active' = [active EXCEPT ![i] = b]
    /\ cancelled' = [Cancel(i) EXCEPT ![b] = FALSE]
    /\ pc' = [pc EXCEPT ![b] = "sleep"]
    /\ inst' = [inst EXCEPT ![b] = i]
    /\ round' = [round EXCEPT ![b] = 0]
    /\ late' = [late EXCEPT ![b] = 0]
    /\ stale' = [stale EXCEPT ![b] = 0]
    /\ UNCHANGED todo

\* Mutant of vipAdvBurstOnStateLocked: a running burst is taken for the new one.
vipAdvBurstOnStateOnce(i) ==
    /\ queued' = queued \ {i}
    /\ IF live[i] = "MASTER" /\ Repeat > 0 /\ active[i] = NoBurst
       THEN \E b \in Burst : arm(i, b) ELSE armDrop(i)
    /\ UNCHANGED live

\* vipAdvBurstOnStateLocked: the pass of the sync worker over i, under mh.mtx.
vipAdvBurstOnStateLocked(i) ==
    /\ queued' = queued \ {i}
    /\ IF live[i] = "MASTER" /\ Repeat > 0 THEN \E b \in Burst : arm(i, b) ELSE armDrop(i)
    /\ UNCHANGED live

-----------------------------------------------------------------------------
(* The goroutine of a burst                                                *)

Goto(b, l) == pc' = [pc EXCEPT ![b] = l]

\* The select of the loop: both cases may be ready.
SelectDone(b) ==
    /\ pc[b] = "sleep" /\ cancelled[b]
    /\ Goto(b, "cleanup")
    /\ UNCHANGED <<sched, inst, cancelled, round, todo, late, stale>>

SelectTimer(b) ==
    /\ pc[b] = "sleep"
    /\ Goto(b, "woken")
    /\ UNCHANGED <<sched, inst, cancelled, round, todo, late, stale>>

\* Mutant of vipAdvBurstTargets: the state is not looked at.
vipAdvBurstTargetsAlways(b) ==
    /\ pc[b] = "woken"
    /\ \E targets \in SUBSET VipsOf(inst[b]) :
          IF targets = {} THEN Goto(b, "cleanup") /\ UNCHANGED todo
          ELSE Goto(b, "loop") /\ todo' = [todo EXCEPT ![b] = targets]
    /\ UNCHANGED <<sched, inst, cancelled, round, late, stale>>

\* vipAdvBurstTargets under mh.mtx: the VIPs that resolve to an interface now,
\* none once the instance is not master.
vipAdvBurstTargets(b) ==
    /\ pc[b] = "woken"
    /\ \E targets \in SUBSET VipsOf(inst[b]) :
          IF live[inst[b]] # "MASTER" \/ targets = {}
          THEN Goto(b, "cleanup") /\ UNCHANGED todo
          ELSE Goto(b, "loop") /\ todo' = [todo EXCEPT ![b] = targets]
    /\ UNCHANGED <<sched, inst, cancelled, round, late, stale>>

\* ctx.Err() before each frame.
NextTarget(b) ==
    /\ pc[b] = "loop" /\ todo[b] # {}
    /\ Goto(b, IF cancelled[b] THEN "cleanup" ELSE "send")
    /\ UNCHANGED <<sched, inst, cancelled, round, todo, late, stale>>

\* The frame goes out, whatever happened since the check.
vipAdvSend(b) ==
    /\ pc[b] = "send"
    /\ \E v \in todo[b] : todo' = [todo EXCEPT ![b] = @ \ {v}]
    /\ Goto(b, "loop")
    /\ late' = [late EXCEPT ![b] = IF cancelled[b] THEN @ + 1 ELSE @]
    /\ stale' = [stale EXCEPT ![b] = IF live[inst[b]] # "MASTER" THEN @ + 1 ELSE @]
    /\ UNCHANGED <<sched, inst, cancelled, round>>

\* Mutant of RoundEnd: the rounds are not counted.
RoundEndUncounted(b) ==
    /\ pc[b] = "loop" /\ todo[b] = {}
    /\ Goto(b, "sleep")
    /\ UNCHANGED <<sched, inst, cancelled, round, todo, late, stale>>

RoundEnd(b) ==
    /\ pc[b] = "loop" /\ todo[b] = {}
    /\ round' = [round EXCEPT ![b] = @ + 1]
    /\ Goto(b, IF round[b] + 1 < Repeat THEN "sleep" ELSE "cleanup")
    /\ UNCHANGED <<sched, inst, cancelled, todo, late, stale>>

\* Mutant of Cleanup: whatever burst is registered is forgotten.
CleanupAny(b) ==
    /\ pc[b] = "cleanup"
    /\ active' = [active EXCEPT ![inst[b]] = NoBurst]
    /\ Goto(b, "free")
    /\ todo' = [todo EXCEPT ![b] = {}]
    /\ UNCHANGED <<live, queued, inst, cancelled, round, late, stale>>

\* The deferred function: a burst forgets itself, not its successor.
Cleanup(b) ==
    /\ pc[b] = "cleanup"
    /\ active' = IF active[inst[b]] = b THEN [active EXCEPT ![inst[b]] = NoBurst] ELSE active
    /\ Goto(b, "free")
    /\ todo' = [todo EXCEPT ![b] = {}]
    /\ UNCHANGED <<live, queued, inst, cancelled, round, late, stale>>

Goroutine(b) ==
    \/ SelectDone(b) \/ SelectTimer(b) \/ vipAdvBurstTargets(b)
    \/ NextTarget(b) \/ vipAdvSend(b) \/ RoundEnd(b) \/ Cleanup(b)

Next ==
    \/ \E i \in Inst : \/ \E s \in {"MASTER", "BACKUP"} : StateChange(i, s)
                       \/ i \in queued /\ vipAdvBurstOnStateLocked(i)
    \/ \E b \in Burst : Goroutine(b)

Spec == Init /\ [][Next]_vars

\* Goroutines run and timers fire.
Fairness == \A b \in Burst : WF_vars(Goroutine(b))

FairSpec == Spec /\ Fairness

-----------------------------------------------------------------------------
(* Properties                                                              *)

\* The goroutine is past its start and before its deferred function.
Runs(b) == pc[b] \notin {"free", "cleanup"}

\* A burst nobody cancelled is the one registered for its instance, so the
\* next observation finds and cancels it, and no instance has two.
RunningIsActive == \A b \in Burst : Runs(b) /\ ~cancelled[b] => active[inst[b]] = b

\* Once the worker has observed that an instance is not master, every burst of
\* it is cancelled.
SettledQuiet ==
    \A i \in Inst \ queued, b \in Burst :
        live[i] # "MASTER" /\ inst[b] = i /\ Runs(b) => cancelled[b]

\* A cancelled burst sends at most the frame it had checked before.
AtMostOneLate == \A b \in Burst : late[b] <= 1

\* A burst sends at most one frame per VIP after its instance stepped down.
StaleBounded == \A b \in Burst : stale[b] <= Cardinality(VipsOf(inst[b]))

\* Every burst ends.
BurstEnds == \A b \in Burst : pc[b] = "sleep" ~> pc[b] = "free"

\* Seen from the scheduler the goroutines are the bursts of AdvBurst.
Abs == INSTANCE AdvBurst WITH armed <- {i \in Inst : active[i] # NoBurst}

\* The goroutines implement the promise.
ImplementsAdvBurst == Abs!Spec
=============================================================================

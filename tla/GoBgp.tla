------------------------------- MODULE GoBgp -------------------------------
(***************************************************************************)
(* The BGP client of loxilb (pkg/loxinet/gobgpclient.go): the connection   *)
(* to gobgpd, the paths of the VIPs it keeps advertised there with a       *)
(* priority that follows the state of the cluster instance, the export     *)
(* policy of a BACKUP, and the routes learned from peers that it copies to *)
(* the kernel.                                                             *)
(*                                                                         *)
(* Goroutines: connect tasks, the monitor that serves the event channel,   *)
(* the watchers of routes, the house keepers, and calls of the             *)
(* configuration API and of the cluster state, which hold the global lock  *)
(* and so exclude each other.  gbh.mtx excludes rule calls, connect tasks, *)
(* house keepers and the first part of the service of a connection;        *)
(* UpdateCIState does not take it.                                         *)
(*                                                                         *)
(* One cluster instance, the default one: the only one rules refer to.     *)
(***************************************************************************)
EXTENDS Integers, Sequences, FiniteSets, Functions

CONSTANTS Vip,        \* addresses of load-balancer rules
          CiVip,      \* addresses of the cluster instance
          None,       \* no address
          Prefix,     \* destinations learned from peers
          NextHop,    \* next hops of learned routes
          MaxTask,    \* connect tasks, and watchers, told apart
          MaxCount,   \* rules that share an address
          State,      \* states the instance goes through
          Budgets     \* how many rule calls, changes of state and of learned
                      \* routes, and faults (crashes of gobgpd and house
                      \* keeper rounds without it) a run may have

\* bounds are numbers, and a budget says how much of each is left
ASSUME BgpAssumption ==
  /\ MaxTask \in Nat \ {0} /\ MaxCount \in Nat /\ None \notin NextHop \cup Vip \cup CiVip
  /\ Budgets \subseteq [rule : Nat, state : Nat, route : Nat, fault : Nat]

VARIABLES
  daemon,   \* gobgpd: run state, paths of VIPs, export policy, policy the
            \* peers were last sent routes under, best learned routes
  kern,     \* BGP routes in the kernel
  state,    \* gbh.state
  conn,     \* gbh.conn: nil, the connection of gbh.client, or an older one
  open,     \* whether the connection of gbh.client is open
  task,     \* goBgpConnect goroutines: how many have to dial, and how many wait
            \* for an answer with the connection of gbh.client or an older one
  queue,    \* gbh.eventCh
  watch,    \* GetgoBGPRoutesEvents goroutines, counted by what they do: start
            \* or listen on the connection of gbh.client or an older one, or
            \* find their stream broken
  ci,       \* gbh.ciMap[CIDefault]
  has,      \* state of the instance in mh.has
  mon,      \* goBgpMonitor
  upd,      \* the CIStateUpdate that is running
  tick,     \* goBGPTicker
  reqRst, reSync,
  raced,    \* history: a state arrived while a connection was being served
  orphan,   \* history: addresses whose withdrawal failed
  ops       \* calls, changes and faults left

vars == <<daemon, kern, state, conn, open, task, queue, watch, ci, has, mon,
          upd, tick, reqRst, reSync, raced, orphan, ops>>

gbhLink == <<state, conn, open, task, watch>>
gbhData == <<ci, reqRst, reSync>>

HaState == {"master", "backup", "conflict", "undefined"}
Pri == {"high", "low", "zero"}
Event == {<<"down">>} \cup ({"up"} \X {"cur", "old"})
           \cup ({"learn", "withdraw"} \X Prefix \X NextHop)
-----------------------------------------------------------------------------
(* Helpers *)

\* the local preference and MED chosen for a state
Priority(s) == CASE s = "backup" -> "low" [] s = "master" -> "high"
                 [] OTHER -> "zero"

\* whether a request of gbh.client is answered
Reachable == daemon.st = "ready" /\ open

Down == [st |-> "down", paths |-> << >>, policy |-> FALSE, adj |-> FALSE,
         rib |-> [p \in Prefix |-> None]]

\* AdvertiseRoute and DelAdvertiseRoute for a set of addresses: the result is
\* ignored by all callers
AdvertiseRoute(S, pri) ==
  IF Reachable
  THEN [daemon EXCEPT !.paths =
          [w \in DOMAIN @ \cup S |-> IF w \in S THEN pri ELSE @[w]]]
  ELSE daemon

DelAdvertiseRoute(S) ==
  IF Reachable THEN [daemon EXCEPT !.paths = Restrict(@, DOMAIN @ \ S)]
               ELSE daemon

\* resetBGPPolicy without the request for a soft reset
ExportPolicy(low) ==
  IF Reachable THEN [daemon EXCEPT !.policy = low] ELSE daemon

\* mutant: only the address of the instance
TargetsInstance(c) == IF c.vip = None THEN {} ELSE {c.vip}

\* what advertiseAllVIPs goes through: the address of the instance and every
\* key of ci.rules, whatever its count
Targets(c) == DOMAIN c.rules \cup (IF c.vip = None THEN {} ELSE {c.vip})

\* mutant: routes of gobgpd are listed and not installed
AddCurrNothing(rib) == kern

\* AddCurrBgpRoutesToIPRoute, second half: routes are added, never removed
AddCurr(rib) == [p \in Prefix |-> IF rib[p] = None THEN kern[p] ELSE rib[p]]

\* one more goroutine of a kind, up to the bound
More(f, n, x) == IF n < MaxTask THEN [f EXCEPT ![x] = @ + 1] ELSE f
Tasks == task.dial + task.cur + task.old
Watches == watch.start + watch.startOld + watch.on + watch.onOld + watch.cut
Fewer(f, x) == [f EXCEPT ![x] = @ - 1]

\* gbh.client moves to a new connection
Older(e) == IF e = <<"up", "cur">> THEN <<"up", "old">> ELSE e

\* the news that gobgpd is gone, up to the same bound
Lost == IF Tasks + Len(SelectSeq(queue, LAMBDA e : e = <<"down">>)) < MaxTask
        THEN Append(queue, <<"down">>) ELSE queue

Idle == [pc |-> "idle"]
Locked == mon.pc \in {"adv", "policy", "list"} \/ tick.pc # "idle"
-----------------------------------------------------------------------------
(* The environment: gobgpd and its peers *)

\* the process dies with everything it knew; open streams break
DaemonCrash ==
  /\ daemon.st # "down" /\ ops.fault > 0
  /\ daemon' = Down /\ ops' = Fewer(ops, "fault")
  /\ watch' = [watch EXCEPT !.on = 0, !.onOld = 0,
                            !.cut = @ + watch.on + watch.onOld]
  /\ UNCHANGED <<kern, state, conn, open, task, queue, gbhData, has,
                 mon, upd, tick, raced, orphan>>

\* goBgpSpawn starts it again after three seconds, with a configuration file or
\* without one: a connection the monitor serves or is about to serve, and a
\* watcher that starts, find gobgpd gone before
goBgpSpawn ==
  /\ daemon.st = "down" /\ mon.pc = "idle" /\ watch.start + watch.startOld = 0
  /\ \A i \in DOMAIN queue : queue[i][1] # "up"
  /\ \E s \in {"bare", "ready"} : daemon' = [Down EXCEPT !.st = s]
  /\ UNCHANGED <<kern, gbhLink, queue, gbhData, has, mon, upd, tick, raced, orphan, ops>>

\* the operator configures it
BGPGlobalConfigAdd ==
  /\ daemon.st = "bare" /\ open
  /\ daemon' = [daemon EXCEPT !.st = "ready"]
  /\ UNCHANGED <<kern, gbhLink, queue, gbhData, has, mon, upd, tick, raced, orphan, ops>>

\* the best path of a prefix changes; every watcher is told
PeerUpdate(p, n) ==
  /\ daemon.st = "ready" /\ ops.route > 0 /\ daemon.rib[p] # n
  /\ daemon' = [daemon EXCEPT !.rib[p] = n] /\ ops' = Fewer(ops, "route")
  /\ LET e == IF n = None THEN <<"withdraw", p, daemon.rib[p]>>
                          ELSE <<"learn", p, n>>
     IN queue' = queue \o [i \in 1 .. watch.on + watch.onOld |-> e]
  /\ UNCHANGED <<kern, gbhLink, gbhData, has, mon, upd, tick, raced, orphan>>
-----------------------------------------------------------------------------
(* Connect tasks *)

\* a new connection becomes the one of gbh.client.  Timing: the watchers report
\* a broken stream at once, so before the next connection is dialled.
ConnectDial ==
  /\ task.dial > 0 /\ ~Locked /\ watch.cut = 0
  /\ task' = [dial |-> task.dial - 1, cur |-> 1, old |-> task.old + task.cur]
  /\ open' = TRUE /\ conn' = IF conn = "cur" THEN "old" ELSE conn
  /\ queue' = [i \in DOMAIN queue |-> Older(queue[i])]
  /\ watch' = [watch EXCEPT !.start = 0, !.startOld = @ + watch.start,
                            !.on = 0, !.onOld = @ + watch.on]
  /\ UNCHANGED <<daemon, kern, state, gbhData, has, mon, upd, tick, raced, orphan,
                 ops>>

\* GetBgp, a request of gbh.client, answers with an AS number: the monitor is
\* told
ConnectReady(w) ==
  /\ task[w] > 0 /\ ~Locked /\ Reachable
  /\ task' = Fewer(task, w) /\ queue' = Append(queue, <<"up", w>>)
  /\ UNCHANGED <<daemon, kern, state, conn, open, watch, gbhData, has, mon, upd,
                 tick, raced, orphan, ops>>
-----------------------------------------------------------------------------
(* The monitor *)

\* bgpDisconnected: the connection is closed, streams on it break, and a new
\* connect task starts; an older connection may carry any of the older streams
EventDown ==
  /\ mon.pc = "idle" /\ queue # << >> /\ Head(queue) = <<"down">>
  /\ queue' = Tail(queue) /\ state' = "disconnected" /\ conn' = "nil"
  /\ open' = (open /\ conn # "cur")
  /\ CASE conn = "nil" -> UNCHANGED watch
       [] conn = "cur" -> watch' = [watch EXCEPT !.on = 0, !.cut = @ + watch.on]
       [] conn = "old" -> \E n \in 0 .. watch.onOld :
            watch' = [watch EXCEPT !.onOld = @ - n, !.cut = @ + n]
  /\ task' = More(task, Tasks, "dial")
  /\ UNCHANGED <<daemon, kern, gbhData, has, mon, upd, tick, raced, orphan, ops>>

\* bgpConnected: the state changes before the lock is taken
EventUp ==
  /\ mon.pc = "idle" /\ queue # << >> /\ Head(queue)[1] = "up"
  /\ queue' = Tail(queue)
  /\ conn' = Head(queue)[2] /\ state' = "connected"
  /\ mon' = [pc |-> "lock"]
  /\ UNCHANGED <<daemon, kern, open, task, watch, gbhData, has, upd,
                 tick, raced, orphan, ops>>

\* bgpRtRecvd: syncRoute
EventRoute ==
  /\ mon.pc = "idle" /\ queue # << >> /\ Head(queue)[1] \in {"learn", "withdraw"}
  /\ queue' = Tail(queue)
  /\ LET p == Head(queue)[2]  n == Head(queue)[3]
     IN IF Head(queue)[1] = "learn"
        THEN kern' = [kern EXCEPT ![p] = n] /\ UNCHANGED reSync
        ELSE /\ reSync' = TRUE
             /\ kern' = IF kern[p] = n THEN [kern EXCEPT ![p] = None] ELSE kern
  /\ UNCHANGED <<daemon, gbhLink, ci, has, mon, upd, tick, reqRst, raced, orphan, ops>>

\* initBgpClient takes gbh.mtx and reads the state of the instance once
InitLock ==
  /\ mon.pc = "lock" /\ ~Locked
  /\ mon' = IF ci.known
            THEN [pc |-> "adv", pri |-> Priority(ci.hastate),
                  todo |-> Targets(ci)]
            ELSE [pc |-> "list"]
  /\ raced' = (raced /\ ~ci.known)
  /\ UNCHANGED <<daemon, kern, gbhLink, queue, gbhData, has, upd, tick, orphan, ops>>

\* advertiseAllVIPs, one request
InitAdvertise(v) ==
  /\ mon.pc = "adv" /\ v \in mon.todo
  /\ daemon' = AdvertiseRoute({v}, mon.pri)
  /\ mon' = [mon EXCEPT !.todo = @ \ {v}]
  /\ UNCHANGED <<kern, gbhLink, queue, gbhData, has, upd, tick, raced, orphan, ops>>

\* the state is read from mh.has, the policy is set afterwards
InitRead ==
  /\ mon.pc = "adv" /\ mon.todo = {}
  /\ mon' = IF has \in {"master", "backup"}
            THEN [pc |-> "policy", low |-> has = "backup"]
            ELSE [pc |-> "list"]
  /\ UNCHANGED <<daemon, kern, gbhLink, queue, gbhData, has, upd, tick, raced, orphan, ops>>

\* mutant: the policy is set and no soft reset is asked for
InitPolicyNoReset ==
  /\ mon.pc = "policy"
  /\ daemon' = ExportPolicy(mon.low) /\ mon' = [pc |-> "list"]
  /\ UNCHANGED <<kern, gbhLink, queue, gbhData, has, upd, tick, raced, orphan, ops>>

\* resetBGPPolicy
InitPolicy ==
  /\ mon.pc = "policy"
  /\ daemon' = ExportPolicy(mon.low) /\ reqRst' = TRUE
  /\ mon' = [pc |-> "list"]
  /\ UNCHANGED <<kern, gbhLink, queue, ci, reSync, has, upd, tick, raced, orphan, ops>>

\* the routes gobgpd has are copied, the lock is released and a watcher starts
InitList ==
  /\ mon.pc = "list" /\ mon' = Idle
  /\ IF Reachable THEN kern' = AddCurr(daemon.rib) /\ UNCHANGED queue
                  ELSE queue' = Lost /\ UNCHANGED kern
  /\ watch' = More(watch, Watches, "start")
  /\ UNCHANGED <<daemon, state, conn, open, task, gbhData, has, upd, tick, raced,
                 orphan, ops>>
-----------------------------------------------------------------------------
(* Watchers *)

\* WatchEvent fails, on a closed connection or without gobgpd: the goroutine
\* returns and tells nobody.  Older connections may be open or closed.
WatchStart(w) ==
  /\ watch[w] > 0
  /\ \/ /\ daemon.st # "down" /\ (w = "start" => open)
        /\ watch' = [Fewer(watch, w) EXCEPT ![IF w = "start" THEN "on" ELSE "onOld"] = @ + 1]
     \/ /\ daemon.st = "down" \/ w = "startOld" \/ ~open
        /\ watch' = Fewer(watch, w)
  /\ UNCHANGED <<daemon, kern, state, conn, open, task, queue, gbhData, has, mon,
                 upd, tick, raced, orphan, ops>>

\* Recv fails: the monitor is told that the connection is lost
WatchFail ==
  /\ watch.cut > 0 /\ watch' = Fewer(watch, "cut")
  /\ queue' = Lost
  /\ UNCHANGED <<daemon, kern, state, conn, open, task, gbhData, has, mon, upd,
                 tick, raced, orphan, ops>>
-----------------------------------------------------------------------------
(* Rule calls: NetLbRuleAdd and NetLbRuleDel, under the global lock *)

Count(v) == IF v \in DOMAIN ci.rules THEN ci.rules[v] ELSE 0

\* an added or updated rule counts its addresses; the first one is advertised
AddBGPRule(S) ==
  /\ upd.pc = "idle" /\ ~Locked /\ ops.rule > 0
  /\ \A v \in S : Count(v) < MaxCount
  /\ ci' = [ci EXCEPT !.known = TRUE,
              !.rules = [v \in DOMAIN @ \cup S |->
                           IF v \in S THEN Count(v) + 1 ELSE @[v]]]
  /\ daemon' = IF state = "connected"
               THEN AdvertiseRoute({v \in S : Count(v) = 0}, Priority(ci.hastate))
               ELSE daemon
  /\ ops' = Fewer(ops, "rule")
  /\ UNCHANGED <<kern, gbhLink, queue, reqRst, reSync, has, mon, upd, tick, raced, orphan>>

\* mutant: gbh.mtx is not taken
DelBGPRuleUnlocked(S) ==
  /\ upd.pc = "idle" /\ ops.rule > 0 /\ ci.known
  /\ LET gone == {v \in S : Count(v) <= 1}
         less == [v \in DOMAIN ci.rules |->
                    IF v \in S /\ ci.rules[v] > 0 THEN ci.rules[v] - 1
                                                  ELSE ci.rules[v]]
     IN IF state = "connected"
        THEN /\ ci' = [ci EXCEPT !.rules = Restrict(less, DOMAIN less \ gone)]
             /\ daemon' = DelAdvertiseRoute(gone)
             /\ orphan' = IF Reachable THEN orphan \ gone
                                       ELSE orphan \cup (gone \cap DOMAIN daemon.paths)
        ELSE ci' = [ci EXCEPT !.rules = less] /\ UNCHANGED <<daemon, orphan>>
  /\ ops' = Fewer(ops, "rule")
  /\ UNCHANGED <<kern, gbhLink, queue, reqRst, reSync, has, mon, upd, tick, raced>>

\* mutant: the count has no floor
DelBGPRuleNoFloor(S) ==
  /\ upd.pc = "idle" /\ ~Locked /\ ops.rule > 0 /\ ci.known
  /\ LET gone == {v \in S : Count(v) <= 1}
         less == [v \in DOMAIN ci.rules |-> IF v \in S THEN ci.rules[v] - 1
                                                  ELSE ci.rules[v]]
     IN IF state = "connected"
        THEN /\ ci' = [ci EXCEPT !.rules = Restrict(less, DOMAIN less \ gone)]
             /\ daemon' = DelAdvertiseRoute(gone)
             /\ orphan' = IF Reachable THEN orphan \ gone
                                       ELSE orphan \cup (gone \cap DOMAIN daemon.paths)
        ELSE ci' = [ci EXCEPT !.rules = less] /\ UNCHANGED <<daemon, orphan>>
  /\ ops' = Fewer(ops, "rule")
  /\ UNCHANGED <<kern, gbhLink, queue, reqRst, reSync, has, mon, upd, tick, raced>>

\* a deleted rule, also one that did not exist: a count that reaches zero is
\* withdrawn and forgotten, but only while connected
DelBGPRule(S) ==
  /\ upd.pc = "idle" /\ ~Locked /\ ops.rule > 0 /\ ci.known
  /\ LET gone == {v \in S : Count(v) <= 1}
         less == [v \in DOMAIN ci.rules |->
                    IF v \in S /\ ci.rules[v] > 0 THEN ci.rules[v] - 1
                                                  ELSE ci.rules[v]]
     IN IF state = "connected"
        THEN /\ ci' = [ci EXCEPT !.rules = Restrict(less, DOMAIN less \ gone)]
             /\ daemon' = DelAdvertiseRoute(gone)
             /\ orphan' = IF Reachable THEN orphan \ gone
                                       ELSE orphan \cup (gone \cap DOMAIN daemon.paths)
        ELSE ci' = [ci EXCEPT !.rules = less] /\ UNCHANGED <<daemon, orphan>>
  /\ ops' = Fewer(ops, "rule")
  /\ UNCHANGED <<kern, gbhLink, queue, reqRst, reSync, has, mon, upd, tick, raced>>
-----------------------------------------------------------------------------
(* A change of the cluster state, under the global lock but not gbh.mtx *)

CIStateUpdate(s, v) ==
  /\ upd.pc = "idle" /\ ops.state > 0 /\ s # has
  /\ has' = s /\ ops' = Fewer(ops, "state")
  /\ upd' = [pc |-> "set", vip |-> v]
  /\ UNCHANGED <<daemon, kern, gbhLink, queue, gbhData, mon, tick, raced, orphan>>

\* UpdateCIState writes the instance; a new one does not ask for a new policy
UpdateSet ==
  /\ upd.pc = "set"
  /\ LET c == [known |-> TRUE, hastate |-> has, vip |-> upd.vip, rules |-> ci.rules]
     IN /\ ci' = c
        /\ upd' = [pc |-> "adv", todo |-> Targets(c),
                   update |-> ci.known /\ ci.hastate # has]
  /\ raced' = (mon.pc = "adv")
  /\ UNCHANGED <<daemon, kern, gbhLink, queue, reqRst, reSync, has, mon, tick, orphan, ops>>

UpdateAdvertise(v) ==
  /\ upd.pc = "adv" /\ v \in upd.todo
  /\ daemon' = AdvertiseRoute({v}, Priority(ci.hastate))
  /\ upd' = [upd EXCEPT !.todo = @ \ {v}]
  /\ UNCHANGED <<kern, gbhLink, queue, gbhData, has, mon, tick, raced, orphan, ops>>

UpdatePolicy ==
  /\ upd.pc = "adv" /\ upd.todo = {}
  /\ IF upd.update /\ has \in {"master", "backup"}
     THEN daemon' = ExportPolicy(has = "backup") /\ upd' = [pc |-> "flag"]
     ELSE upd' = Idle /\ UNCHANGED daemon
  /\ UNCHANGED <<kern, gbhLink, queue, gbhData, has, mon, tick, raced, orphan, ops>>

UpdateFlag ==
  /\ upd.pc = "flag" /\ upd' = Idle /\ reqRst' = TRUE
  /\ UNCHANGED <<daemon, kern, gbhLink, queue, ci, reSync, has, mon, tick, raced, orphan, ops>>
-----------------------------------------------------------------------------
(* House keepers *)

\* ListPath of a house keeper: a snapshot, or the news that gobgpd is gone
ListPath(fast) ==
  IF Reachable
  THEN /\ tick' = [pc |-> "apply", snap |-> daemon.rib, fast |-> fast]
       /\ UNCHANGED queue
  ELSE /\ tick' = [pc |-> "apply", snap |-> Down.rib, fast |-> fast]
       /\ queue' = Lost

\* attempts while gobgpd is away are bounded
Attempt == /\ Reachable \/ ops.fault > 0
           /\ ops' = IF Reachable THEN ops ELSE Fewer(ops, "fault")

goBGPLazyHouseKeeper ==
  /\ ~Locked /\ Attempt /\ ListPath(FALSE)
  /\ UNCHANGED <<daemon, kern, gbhLink, gbhData, has, mon, upd, raced, orphan>>

\* goBGPHouseKeeper: a requested resync, then a soft reset that has waited
\* long enough
goBGPHouseKeeper ==
  /\ ~Locked
  /\ \/ /\ reSync /\ Attempt /\ ListPath(TRUE)
        /\ UNCHANGED reqRst
     \/ /\ ~reSync /\ reqRst
        /\ reqRst' = FALSE /\ tick' = [pc |-> "reset", fast |-> FALSE]
        /\ UNCHANGED <<queue, ops>>
  /\ UNCHANGED <<daemon, kern, gbhLink, ci, reSync, has, mon, upd, raced, orphan>>

TickApply ==
  /\ tick.pc = "apply" /\ kern' = AddCurr(tick.snap)
  /\ reSync' = (reSync /\ ~tick.fast)
  /\ \/ tick' = Idle /\ UNCHANGED reqRst
     \/ /\ tick.fast /\ reqRst /\ reqRst' = FALSE
        /\ tick' = [pc |-> "reset", fast |-> TRUE]
  /\ UNCHANGED <<daemon, gbhLink, queue, ci, has, mon, upd, raced, orphan, ops>>

\* resetNeighAdj; the routes are copied unless that was done in this round
TickReset ==
  /\ tick.pc = "reset"
  /\ daemon' = IF Reachable THEN [daemon EXCEPT !.adj = daemon.policy] ELSE daemon
  /\ IF tick.fast THEN tick' = Idle /\ UNCHANGED queue ELSE ListPath(FALSE)
  /\ UNCHANGED <<kern, gbhLink, gbhData, has, mon, upd, raced, orphan, ops>>
-----------------------------------------------------------------------------
Init ==
  /\ daemon = Down /\ kern = [p \in Prefix |-> None]
  /\ state = "disconnected" /\ conn = "nil" /\ open = TRUE
  /\ task = [dial |-> 0, cur |-> 1, old |-> 0] /\ queue = << >>
  /\ watch = [start |-> 0, startOld |-> 0, on |-> 0, onOld |-> 0, cut |-> 0]
  /\ ci = [known |-> FALSE, hastate |-> "undefined", vip |-> None, rules |-> << >>]
  /\ has = "undefined" /\ mon = Idle /\ upd = Idle /\ tick = Idle
  /\ reqRst = FALSE /\ reSync = FALSE /\ raced = FALSE /\ orphan = {} /\ ops \in Budgets

Monitor == EventDown \/ EventUp \/ EventRoute \/ InitLock \/ InitRead \/ InitPolicy
             \/ InitList \/ \E v \in Vip \cup CiVip : InitAdvertise(v)
Update == UpdateSet \/ UpdatePolicy \/ UpdateFlag
             \/ \E v \in Vip \cup CiVip : UpdateAdvertise(v)

Next ==
  \/ DaemonCrash \/ goBgpSpawn \/ BGPGlobalConfigAdd
  \/ \E p \in Prefix, n \in NextHop \cup {None} : PeerUpdate(p, n)
  \/ ConnectDial \/ (\E w \in {"cur", "old"} : ConnectReady(w))
  \/ (\E w \in {"start", "startOld"} : WatchStart(w)) \/ WatchFail
  \/ Monitor \/ Update
  \/ \E S \in SUBSET Vip \ {{}} : AddBGPRule(S) \/ DelBGPRule(S)
  \/ \E s \in State, v \in CiVip \cup {None} : CIStateUpdate(s, v)
  \/ goBGPLazyHouseKeeper \/ goBGPHouseKeeper \/ TickApply \/ TickReset

Spec == Init /\ [][Next]_vars

\* gobgpd is started again and configured, goroutines go on, the ticker fires,
\* and who waits for gbh.mtx gets it in the end
FairSpec ==
  /\ Spec
  /\ WF_vars(goBgpSpawn) /\ WF_vars(BGPGlobalConfigAdd)
  /\ SF_vars(ConnectDial) /\ WF_vars(WatchFail)
  /\ \A w \in {"cur", "old"} : SF_vars(ConnectReady(w))
  /\ \A w \in {"start", "startOld"} : WF_vars(WatchStart(w))
  /\ SF_vars(InitLock) /\ WF_vars(Monitor) /\ WF_vars(Update)
  /\ SF_vars(goBGPLazyHouseKeeper) /\ WF_vars(TickApply \/ TickReset)
-----------------------------------------------------------------------------
(* Properties *)

\* Types; rule counts of DelBGPRule do not go below zero.
TypeOK ==
  /\ daemon.st \in {"down", "bare", "ready"}
  /\ DOMAIN daemon.paths \subseteq Vip \cup CiVip /\ Range(daemon.paths) \subseteq Pri
  /\ daemon.policy \in BOOLEAN /\ daemon.adj \in BOOLEAN
  /\ daemon.rib \in [Prefix -> NextHop \cup {None}]
  /\ kern \in [Prefix -> NextHop \cup {None}]
  /\ state \in {"connected", "disconnected"}
  /\ conn \in {"nil", "cur", "old"} /\ open \in BOOLEAN
  /\ task \in [{"dial", "cur", "old"} -> Nat]
  /\ watch \in [{"start", "startOld", "on", "onOld", "cut"} -> Nat]
  /\ Range(queue) \subseteq Event
  /\ ci.hastate \in HaState /\ ci.vip \in CiVip \cup {None}
  /\ DOMAIN ci.rules \subseteq Vip /\ Range(ci.rules) \subseteq 0 .. MaxCount
  /\ has \in HaState
  /\ reqRst \in BOOLEAN /\ reSync \in BOOLEAN /\ raced \in BOOLEAN

\* While gbh.state is disconnected a goBgpConnect goroutine is at work or its
\* answer waits in gbh.eventCh: whatever the order in which watchers, house
\* keepers and the monitor report a lost gobgpd, nobody has to be told again.
ReconnectPending ==
  state = "disconnected" =>
    \/ \E w \in DOMAIN task : task[w] > 0
    \/ \E i \in 1 .. Len(queue) : queue[i][1] = "up"

\* gobgpd advertises no address that loxilb has forgotten: AddBGPRule, DelBGPRule
\* and advertiseAllVIPs leave only paths with a key in ci.rules, the address of
\* an instance, or an address whose withdrawal gobgpd did not answer.
NoStrayPath == DOMAIN daemon.paths \subseteq DOMAIN ci.rules \cup CiVip \cup orphan

Settled ==
  /\ mon.pc = "idle" /\ upd.pc = "idle" /\ \A w \in DOMAIN task : task[w] = 0
  /\ \A i \in 1 .. Len(queue) : queue[i][1] \notin {"up", "down"}

\* Once no event, task or update is under way, every advertised address has the
\* preference of the state ci.hastate that UpdateCIState stored last, unless that
\* state arrived in the middle of the initialisation of a connection.
PriorityRight ==
  Settled /\ ~raced =>
    \A v \in (DOMAIN ci.rules \cup {ci.vip}) \cap DOMAIN daemon.paths :
      daemon.paths[v] = Priority(ci.hastate)

\* The comment of UpdateCIState, "re-advertise with appropriate priority", with no
\* exception for a connection that is being initialised.
AppropriatePriority ==
  Settled => \A v \in (DOMAIN ci.rules \cup {ci.vip}) \cap DOMAIN daemon.paths :
               daemon.paths[v] = Priority(ci.hastate)

\* Peers that were last sent routes under another export policy than the one
\* resetBGPPolicy set get a soft reset: it is asked for or under way once the
\* state of the instance and the connection have settled.
ResetPending ==
  Settled /\ has \in {"master", "backup"} /\ daemon.adj # daemon.policy =>
    reqRst \/ tick.pc = "reset"

AllAdvertised ==
  \A v \in DOMAIN ci.rules : ci.rules[v] > 0 => v \in DOMAIN daemon.paths

\* A lost connection is made again and every address with a rule is advertised
\* again: goBgpConnect, the monitor and initBgpClient do it without help.
Readvertised == (state = "disconnected") ~> AllAdvertised

\* When peers and gobgpd stay as they are every route gobgpd knows is in the
\* kernel, also one learned while the watcher was away: initBgpClient and
\* goBGPLazyHouseKeeper copy what no event brought.
RibInstalled ==
  <>[](\A p \in Prefix : daemon.rib[p] # None => kern[p] = daemon.rib[p])
=============================================================================

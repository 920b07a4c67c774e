---------------------------- MODULE GoBgpProofs ----------------------------
(* Four invariants of the BGP client, for any addresses, routes, budgets   *)
(* and number of connect tasks.                                            *)
EXTENDS GoBgp, TLAPS

\* What the arguments need to know of the shapes of the variables.
IsDaemon(d) ==
  /\ d = [st |-> d.st, paths |-> d.paths, policy |-> d.policy, adj |-> d.adj, rib |-> d.rib]
  /\ d.rib \in [Prefix -> NextHop \cup {None}]

TaskType == [dial : Nat, cur : Nat, old : Nat]
WatchType == [start : Nat, startOld : Nat, on : Nat, onOld : Nat, cut : Nat]

Shapes ==
  /\ IsDaemon(daemon)
  /\ queue \in Seq(Event) /\ conn \in {"nil", "cur", "old"}
  /\ task \in TaskType
  /\ watch \in WatchType

\* Events of gbh.eventCh that were put there stay events.
LEMMA EventLemma ==
  /\ <<"down">> \in Event
  /\ \A w \in {"cur", "old"} : <<"up", w>> \in Event
  /\ \A e \in Event : Older(e) \in Event /\ (Older(e)[1] = "up" <=> e[1] = "up")
BY DEF Event, Older

\* Requests to gobgpd change only the part of it they are about.
LEMMA AdvertiseLemma ==
  ASSUME Shapes, NEW S, NEW pri
  PROVE  /\ IsDaemon(AdvertiseRoute(S, pri))
         /\ DOMAIN AdvertiseRoute(S, pri).paths \subseteq DOMAIN daemon.paths \cup S
<1>1. AdvertiseRoute(S, pri) \in {daemon, [daemon EXCEPT !.paths =
        [w \in DOMAIN @ \cup S |-> IF w \in S THEN pri ELSE @[w]]]}
  BY DEF AdvertiseRoute
<1> QED BY <1>1 DEF Shapes, IsDaemon

\* A withdrawal removes the paths of its addresses if gobgpd answers.
LEMMA WithdrawLemma ==
  ASSUME Shapes, NEW S
  PROVE  /\ IsDaemon(DelAdvertiseRoute(S))
         /\ DOMAIN DelAdvertiseRoute(S).paths =
              IF Reachable THEN DOMAIN daemon.paths \ S ELSE DOMAIN daemon.paths
<1>1. DelAdvertiseRoute(S) =
        IF Reachable THEN [daemon EXCEPT !.paths = [x \in DOMAIN @ \ S |-> @[x]]] ELSE daemon
  BY DEF DelAdvertiseRoute, Restrict
<1> QED BY <1>1 DEF Shapes, IsDaemon

\* The export policy leaves the paths alone.
LEMMA PolicyLemma ==
  ASSUME Shapes, NEW low
  PROVE  IsDaemon(ExportPolicy(low)) /\ ExportPolicy(low).paths = daemon.paths
<1>1. ExportPolicy(low) \in {daemon, [daemon EXCEPT !.policy = low]}
  BY DEF ExportPolicy
<1> QED BY <1>1 DEF Shapes, IsDaemon

\* The report of a lost gobgpd keeps the queue a queue and what waits in it.
LEMMA LostLemma ==
  ASSUME Shapes
  PROVE  /\ Lost \in Seq(Event) /\ Len(Lost) >= Len(queue)
         /\ \A i \in 1 .. Len(queue) : Lost[i] = queue[i]
<1>1. queue \in Seq(Event) /\ <<"down">> \in Event
  BY EventLemma DEF Shapes
<1>2. Lost \in {queue, Append(queue, <<"down">>)}
  BY DEF Lost
<1>3. Append(queue, <<"down">>) \in Seq(Event)
  BY <1>1
<1>4. Len(Append(queue, <<"down">>)) = Len(queue) + 1
      /\ \A i \in 1 .. Len(queue) : Append(queue, <<"down">>)[i] = queue[i]
  BY <1>1
<1>5. CASE Lost = queue
  BY <1>1, <1>5
<1>6. CASE Lost = Append(queue, <<"down">>)
  <2>1. Len(queue) + 1 >= Len(queue)
    BY <1>1
  <2> QED BY <1>3, <1>4, <1>6, <2>1
<1> QED BY <1>2, <1>5, <1>6

\* Taking an event from the queue.
LEMMA TailLemma ==
  ASSUME Shapes, queue # << >>
  PROVE  /\ Head(queue) \in Event /\ Tail(queue) \in Seq(Event)
         /\ Head(queue) = queue[1] /\ Len(Tail(queue)) = Len(queue) - 1
         /\ \A i \in 2 .. Len(queue) : Tail(queue)[i - 1] = queue[i]
<1> DEFINE q == queue
<1>1. q \in Seq(Event) /\ q # << >>
  BY DEF Shapes
<1> HIDE DEF q
<1>2. Head(q) \in Event /\ Tail(q) \in Seq(Event) /\ Head(q) = q[1] /\ Len(Tail(q)) = Len(q) - 1
  BY <1>1
<1>3. \A i \in 2 .. Len(q) : Tail(q)[i - 1] = q[i]
  BY <1>1
<1> QED BY <1>2, <1>3 DEF q

\* Every step keeps the shapes.
LEMMA ShapesStep == Shapes /\ [Next]_vars => Shapes'
<1> SUFFICES ASSUME Shapes, [Next]_vars PROVE Shapes'
  OBVIOUS
<1>a. task \in TaskType /\ watch \in WatchType
  BY DEF Shapes
<1>1. CASE DaemonCrash
  <2>1. IsDaemon(daemon')
    BY <1>1 DEF DaemonCrash, Down, IsDaemon
  <2>2. watch' \in WatchType
    <3>1. watch' = [start |-> watch.start, startOld |-> watch.startOld, on |-> 0, onOld |-> 0,
                    cut |-> watch.cut + watch.on + watch.onOld]
      BY <1>1, <1>a DEF DaemonCrash, WatchType
    <3>2. watch.cut + watch.on + watch.onOld \in Nat
      BY <1>a DEF WatchType
    <3> QED BY <3>1, <3>2, <1>a DEF WatchType
  <2> QED BY <1>1, <2>1, <2>2 DEF Shapes, DaemonCrash
<1>2. CASE goBgpSpawn
  <2>1. IsDaemon(daemon')
    BY <1>2 DEF goBgpSpawn, Down, IsDaemon
  <2> QED BY <1>2, <2>1 DEF Shapes, goBgpSpawn, gbhLink
<1>3. CASE BGPGlobalConfigAdd
  <2>1. IsDaemon(daemon')
    BY <1>3 DEF BGPGlobalConfigAdd, IsDaemon, Shapes
  <2> QED BY <1>3, <2>1 DEF Shapes, BGPGlobalConfigAdd, gbhLink
<1>4. ASSUME NEW p \in Prefix, NEW n \in NextHop \cup {None}, PeerUpdate(p, n)
      PROVE Shapes'
  <2> DEFINE e == IF n = None THEN <<"withdraw", p, daemon.rib[p]>> ELSE <<"learn", p, n>>
             k == watch.on + watch.onOld
             more == [i \in 1 .. k |-> e]
  <2>1. e \in Event
    BY <1>4 DEF PeerUpdate, Shapes, IsDaemon, Event
  <2>2. k \in Nat
    BY <1>a DEF WatchType
  <2>3. more \in Seq(Event)
    <3> HIDE DEF e, k
    <3> QED BY <2>1, <2>2
  <2>4. queue' = queue \o more
    BY <1>4 DEF PeerUpdate
  <2>5. queue' \in Seq(Event)
    BY <2>3, <2>4 DEF Shapes
  <2>6. IsDaemon(daemon')
    BY <1>4 DEF PeerUpdate, Shapes, IsDaemon
  <2> QED BY <1>4, <2>5, <2>6 DEF PeerUpdate, Shapes, gbhLink
<1>5. CASE ConnectDial
  <2>1. queue' = [i \in DOMAIN queue |-> Older(queue[i])]
    BY <1>5 DEF ConnectDial
  <2>2. queue' \in Seq(Event)
    BY <2>1, EventLemma DEF Shapes
  <2>3. task' \in TaskType
    BY <1>5, <1>a DEF ConnectDial, TaskType
  <2>4. watch' \in WatchType
    <3>1. watch' = [start |-> 0, startOld |-> watch.startOld + watch.start, on |-> 0,
                    onOld |-> watch.onOld + watch.on, cut |-> watch.cut]
      BY <1>5, <1>a DEF ConnectDial, WatchType
    <3>2. watch.startOld + watch.start \in Nat /\ watch.onOld + watch.on \in Nat
      BY <1>a DEF WatchType
    <3> QED BY <3>1, <3>2, <1>a DEF WatchType
  <2> QED BY <1>5, <2>2, <2>3, <2>4 DEF ConnectDial, Shapes
<1>6. ASSUME NEW w \in {"cur", "old"}, ConnectReady(w) PROVE Shapes'
  <2>1. queue' \in Seq(Event)
    <3>1. queue' = Append(queue, <<"up", w>>) /\ <<"up", w>> \in Event /\ queue \in Seq(Event)
      BY <1>6, EventLemma DEF ConnectReady, Shapes
    <3> QED BY <3>1
  <2>2. task' \in TaskType
    <3>1. CASE w = "cur"
      BY <1>6, <1>a, <3>1 DEF ConnectReady, TaskType, Fewer
    <3>2. CASE w = "old"
      BY <1>6, <1>a, <3>2 DEF ConnectReady, TaskType, Fewer
    <3> QED BY <3>1, <3>2
  <2> QED BY <1>6, <2>1, <2>2 DEF ConnectReady, Shapes
<1>7. ASSUME NEW w \in {"start", "startOld"}, WatchStart(w) PROVE Shapes'
  <2>1. watch' \in WatchType
    <3>1. CASE w = "start"
      BY <1>7, <1>a, <3>1 DEF WatchStart, WatchType, Fewer
    <3>2. CASE w = "startOld"
      BY <1>7, <1>a, <3>2 DEF WatchStart, WatchType, Fewer
    <3> QED BY <3>1, <3>2
  <2> QED BY <1>7, <2>1 DEF WatchStart, Shapes
<1>8. CASE WatchFail
  <2>1. queue' \in Seq(Event)
    BY <1>8, LostLemma DEF WatchFail
  <2>2. watch' \in WatchType
    BY <1>8, <1>a DEF WatchFail, WatchType, Fewer
  <2> QED BY <1>8, <2>1, <2>2 DEF WatchFail, Shapes
<1>9. CASE EventDown
  <2>1. queue' \in Seq(Event)
    BY <1>9, TailLemma DEF EventDown
  <2>2. task' \in TaskType
    <3>1. task' \in {task, [task EXCEPT !.dial = @ + 1]}
      BY <1>9 DEF EventDown, More
    <3> QED BY <3>1, <1>a DEF TaskType
  <2>3. watch' \in WatchType
    <3>1. CASE conn = "nil"
      BY <1>9, <1>a, <3>1 DEF EventDown
    <3>2. CASE conn = "cur"
      <4>1. watch' = [start |-> watch.start, startOld |-> watch.startOld, on |-> 0,
                      onOld |-> watch.onOld, cut |-> watch.cut + watch.on]
        BY <1>9, <1>a, <3>2 DEF EventDown, WatchType
      <4>2. watch.cut + watch.on \in Nat
        BY <1>a DEF WatchType
      <4> QED BY <4>1, <4>2, <1>a DEF WatchType
    <3>3. CASE conn = "old"
      <4>1. PICK n \in 0 .. watch.onOld :
              watch' = [watch EXCEPT !.onOld = @ - n, !.cut = @ + n]
        BY <1>9, <3>3 DEF EventDown
      <4>2. watch' = [start |-> watch.start, startOld |-> watch.startOld, on |-> watch.on,
                      onOld |-> watch.onOld - n, cut |-> watch.cut + n]
        BY <4>1, <1>a DEF WatchType
      <4>3. watch.onOld - n \in Nat /\ watch.cut + n \in Nat
        BY <1>a DEF WatchType
      <4> QED BY <4>2, <4>3, <1>a DEF WatchType
    <3> QED BY <3>1, <3>2, <3>3 DEF Shapes
  <2> QED BY <1>9, <2>1, <2>2, <2>3 DEF EventDown, Shapes
<1>10. CASE EventUp \/ EventRoute
  <2>1. queue' \in Seq(Event)
    BY <1>10, TailLemma DEF EventUp, EventRoute
  <2>2. conn' \in {"nil", "cur", "old"}
    BY <1>10, TailLemma DEF EventUp, EventRoute, Shapes, gbhLink, Event
  <2> QED BY <1>10, <2>1, <2>2 DEF EventUp, EventRoute, Shapes, gbhLink
<1>11. CASE InitLock \/ InitRead
  BY <1>11 DEF InitLock, InitRead, Shapes, gbhLink
<1>12. ASSUME NEW v, InitAdvertise(v) \/ UpdateAdvertise(v) PROVE Shapes'
  <2>1. \E pri : daemon' = AdvertiseRoute({v}, pri)
    BY <1>12 DEF InitAdvertise, UpdateAdvertise
  <2>2. IsDaemon(daemon')
    BY <2>1, AdvertiseLemma
  <2> QED BY <1>12, <2>2 DEF InitAdvertise, UpdateAdvertise, Shapes, gbhLink
<1>13. CASE InitPolicy \/ UpdatePolicy
  <2>1. \/ \E low : daemon' = ExportPolicy(low)
        \/ daemon' = daemon
    BY <1>13 DEF InitPolicy, UpdatePolicy
  <2>2. IsDaemon(daemon')
    BY <2>1, PolicyLemma DEF Shapes
  <2> QED BY <1>13, <2>2 DEF InitPolicy, UpdatePolicy, Shapes, gbhLink
<1>14. CASE InitList
  <2>1. queue' \in Seq(Event)
    BY <1>14, LostLemma DEF InitList, Shapes
  <2>2. watch' \in WatchType
    BY <1>14, <1>a DEF InitList, WatchType, More
  <2> QED BY <1>14, <2>1, <2>2 DEF InitList, Shapes
<1>15. CASE UpdateSet \/ UpdateFlag
  BY <1>15 DEF UpdateSet, UpdateFlag, Shapes, gbhLink
<1>16. ASSUME NEW S, AddBGPRule(S) \/ DelBGPRule(S) PROVE Shapes'
  <2>1. \/ \E T, pri : daemon' = AdvertiseRoute(T, pri)
        \/ \E T : daemon' = DelAdvertiseRoute(T)
        \/ daemon' = daemon
    BY <1>16 DEF AddBGPRule, DelBGPRule
  <2>2. IsDaemon(daemon')
    BY <2>1, AdvertiseLemma, WithdrawLemma DEF Shapes
  <2> QED BY <1>16, <2>2 DEF AddBGPRule, DelBGPRule, Shapes, gbhLink
<1>17. ASSUME NEW s, NEW v, CIStateUpdate(s, v) PROVE Shapes'
  BY <1>17 DEF CIStateUpdate, Shapes, gbhLink
<1>18. CASE goBGPLazyHouseKeeper \/ goBGPHouseKeeper
  <2>1. queue' \in Seq(Event)
    BY <1>18, LostLemma DEF goBGPLazyHouseKeeper, goBGPHouseKeeper, ListPath, Shapes
  <2> QED BY <1>18, <2>1 DEF goBGPLazyHouseKeeper, goBGPHouseKeeper, Shapes, gbhLink
<1>19. CASE TickApply
  BY <1>19 DEF TickApply, Shapes, gbhLink
<1>20. CASE TickReset
  <2>1. queue' \in Seq(Event)
    BY <1>20, LostLemma DEF TickReset, ListPath, Shapes
  <2>2. IsDaemon(daemon')
    BY <1>20 DEF TickReset, Shapes, IsDaemon
  <2> QED BY <1>20, <2>1, <2>2 DEF TickReset, Shapes, gbhLink
<1>21. CASE UNCHANGED vars
  BY <1>21 DEF vars, Shapes
<1> QED BY <1>1, <1>2, <1>3, <1>4, <1>5, <1>6, <1>7, <1>8, <1>9, <1>10, <1>11, <1>12, <1>13,
           <1>14, <1>15, <1>16, <1>17, <1>18, <1>19, <1>20, <1>21 DEF Next, Monitor, Update
-----------------------------------------------------------------------------
\* An answer of goBgpConnect waits for the monitor.
UpWaits(q) == \E i \in 1 .. Len(q) : q[i][1] = "up"

\* What is appended to the queue leaves the answers in it.
LEMMA AnswersStay ==
  ASSUME NEW q \in Seq(Event), NEW r \in Seq(Event), Len(r) >= Len(q),
         \A i \in 1 .. Len(q) : r[i] = q[i], UpWaits(q)
  PROVE  UpWaits(r)
BY DEF UpWaits

\* A connect task is at work or its answer waits.
Pending == Tasks > 0 \/ UpWaits(queue)

\* Only the monitor, when it takes an answer, uses up what is pending, and a
\* report of a lost gobgpd that it takes makes something pending.
LEMMA PendingStep ==
  Shapes /\ (Pending \/ EventDown) /\ [Next]_vars => Pending' \/ EventUp
<1> SUFFICES ASSUME Shapes, Pending \/ EventDown, [Next]_vars, ~EventUp PROVE Pending'
  OBVIOUS
<1> USE DEF Pending
<1>a. task \in TaskType /\ queue \in Seq(Event) /\ queue' \in Seq(Event) /\ task' \in TaskType
  BY ShapesStep DEF Shapes
<1>6. CASE EventDown
  <2>1. CASE Tasks < MaxTask
    <3>1. task' = [task EXCEPT !.dial = @ + 1]
      BY <1>6, <2>1 DEF EventDown, More
    <3>2. task'.dial = task.dial + 1
      BY <3>1, <1>a DEF TaskType
    <3> QED BY <3>2, <1>a DEF Tasks, TaskType
  <2>2. CASE ~(Tasks < MaxTask)
    <3>1. task' = task
      BY <1>6, <2>2 DEF EventDown, More
    <3>2. Tasks \in Nat /\ Tasks' = Tasks
      BY <3>1, <1>a DEF Tasks, TaskType
    <3> QED BY <3>2, <2>2, BgpAssumption
  <2> QED BY <2>1, <2>2
<1> SUFFICES ASSUME Pending PROVE Pending'
  BY <1>6
<1>1. CASE UNCHANGED <<task, queue>>
  BY <1>1 DEF Tasks, UpWaits
<1>2. CASE UNCHANGED task /\ queue' = Lost
  BY <1>2, <1>a, LostLemma, AnswersStay DEF Tasks
<1>3. ASSUME NEW p \in Prefix, NEW n \in NextHop \cup {None}, PeerUpdate(p, n)
      PROVE Pending'
  <2>1. PICK r : queue' = queue \o r /\ r = [i \in 1 .. watch.on + watch.onOld |->
          IF n = None THEN <<"withdraw", p, daemon.rib[p]>> ELSE <<"learn", p, n>>]
    BY <1>3 DEF PeerUpdate
  <2>2. watch.on + watch.onOld \in Nat
    BY DEF Shapes, WatchType
  <2>3. r \in Seq(Event)
    <3> DEFINE k == watch.on + watch.onOld
               e == IF n = None THEN <<"withdraw", p, daemon.rib[p]>> ELSE <<"learn", p, n>>
    <3>1. k \in Nat /\ r = [i \in 1 .. k |-> e]
      BY <2>1, <2>2
    <3>2. e \in Event
      BY <1>3 DEF PeerUpdate, Shapes, IsDaemon, Event
    <3> HIDE DEF k, e
    <3> QED BY <3>1, <3>2
  <2>4. Len(queue') >= Len(queue) /\ \A i \in 1 .. Len(queue) : queue'[i] = queue[i]
    <3> DEFINE q == queue
    <3>1. q \in Seq(Event) /\ queue' = q \o r
      BY <2>1, <1>a
    <3> HIDE DEF q
    <3>2. Len(q \o r) = Len(q) + Len(r) /\ \A i \in 1 .. Len(q) : (q \o r)[i] = q[i]
      BY <3>1, <2>3
    <3> QED BY <3>1, <3>2, <2>3 DEF q
  <2>5. UNCHANGED task
    BY <1>3 DEF PeerUpdate, gbhLink
  <2> QED BY <2>4, <2>5, <1>a, AnswersStay DEF Tasks
<1>4. CASE ConnectDial
  BY <1>4, <1>a DEF ConnectDial, Tasks, TaskType
<1>5. ASSUME NEW w \in {"cur", "old"}, ConnectReady(w) PROVE Pending'
  <2>1. queue' = Append(queue, <<"up", w>>)
    BY <1>5 DEF ConnectReady
  <2>2. Len(queue') = Len(queue) + 1 /\ queue'[Len(queue) + 1] = <<"up", w>>
    BY <2>1, <1>a
  <2>3. Len(queue) + 1 \in 1 .. Len(queue') /\ queue'[Len(queue) + 1][1] = "up"
    BY <2>2, <1>a
  <2> QED BY <2>3 DEF UpWaits
<1>8. CASE EventRoute
  <2>1. UNCHANGED task /\ queue' = Tail(queue) /\ queue # << >>
        /\ Head(queue)[1] # "up"
    BY <1>8 DEF EventRoute, gbhLink
  <2>2. ASSUME UpWaits(queue) PROVE UpWaits(queue')
    <3>1. PICK i \in 1 .. Len(queue) : queue[i][1] = "up"
      BY <2>2 DEF UpWaits
    <3>2. i # 1
      BY <3>1, <2>1, TailLemma
    <3>3. i - 1 \in 1 .. Len(queue') /\ queue'[i - 1][1] = "up"
      BY <3>1, <3>2, <2>1, <1>a, TailLemma
    <3> QED BY <3>3 DEF UpWaits
  <2> QED BY <2>1, <2>2 DEF Tasks
<1>9. CASE DaemonCrash \/ goBgpSpawn \/ BGPGlobalConfigAdd \/ TickApply \/ UpdateSet \/ UpdateFlag
           \/ UpdatePolicy \/ InitLock \/ InitRead \/ InitPolicy
  BY <1>9, <1>1 DEF DaemonCrash, goBgpSpawn, BGPGlobalConfigAdd, TickApply, UpdateSet, UpdateFlag,
       UpdatePolicy, InitLock, InitRead, InitPolicy, gbhLink
<1>10. ASSUME NEW x, NEW y, \/ InitAdvertise(x) \/ UpdateAdvertise(x) \/ AddBGPRule(x)
                            \/ DelBGPRule(x) \/ CIStateUpdate(x, y) \/ WatchStart(x)
       PROVE Pending'
  BY <1>10, <1>1 DEF InitAdvertise, UpdateAdvertise, AddBGPRule, DelBGPRule, CIStateUpdate,
       WatchStart, gbhLink
<1>11. CASE WatchFail \/ InitList \/ goBGPLazyHouseKeeper \/ goBGPHouseKeeper \/ TickReset
  BY <1>11, <1>1, <1>2 DEF WatchFail, InitList, goBGPLazyHouseKeeper, goBGPHouseKeeper, TickReset,
       ListPath, gbhLink
<1>12. CASE UNCHANGED vars
  BY <1>12, <1>1 DEF vars
<1> QED BY <1>3, <1>4, <1>5, <1>6, <1>8, <1>9, <1>10, <1>11, <1>12 DEF Next, Monitor, Update

\* Every step keeps a way to the next connection open.
LEMMA ReconnectStep == Shapes /\ ReconnectPending /\ [Next]_vars => ReconnectPending'
<1> SUFFICES ASSUME Shapes, ReconnectPending, [Next]_vars, state' = "disconnected"
             PROVE  Pending'
  BY ShapesStep DEF Shapes, ReconnectPending, Pending, UpWaits, Tasks, TaskType
<1>1. ~EventUp
  BY DEF EventUp
<1>2. CASE state = "disconnected"
  <2>1. Pending
    BY <1>2 DEF Shapes, ReconnectPending, Pending, UpWaits, Tasks, TaskType
  <2> QED BY <1>1, <2>1, PendingStep
<1>3. CASE state # "disconnected"
  <2>1. EventDown
    BY <1>1, <1>3 DEF Next, Monitor, Update, vars, gbhLink, DaemonCrash, goBgpSpawn,
       BGPGlobalConfigAdd, PeerUpdate, ConnectDial, ConnectReady, WatchStart, WatchFail, EventRoute,
       InitLock, InitRead, InitPolicy, InitList, InitAdvertise, UpdateSet, UpdatePolicy, UpdateFlag,
       UpdateAdvertise, AddBGPRule, DelBGPRule, CIStateUpdate, goBGPLazyHouseKeeper,
       goBGPHouseKeeper, TickApply, TickReset
  <2> QED BY <1>1, <2>1, PendingStep
<1> QED BY <1>2, <1>3

LEMMA ShapesInit == Init => Shapes /\ ReconnectPending
<1> SUFFICES ASSUME Init PROVE Shapes /\ ReconnectPending
  OBVIOUS
<1>1. IsDaemon(daemon)
  BY DEF Init, IsDaemon, Down
<1>2. task \in TaskType /\ watch \in WatchType /\ queue \in Seq(Event) /\ conn = "nil"
  BY DEF Init, TaskType, WatchType
<1>3. "cur" \in DOMAIN task /\ task["cur"] > 0
  BY DEF Init
<1> QED BY <1>1, <1>2, <1>3 DEF Shapes, ReconnectPending

\* ReconnectPending holds for any constants: a report of the watchers, the house
\* keepers or the initialisation always ends in a connect task, and a task ends
\* only by an answer that the monitor has still to take.
THEOREM ReconnectPendingHolds == Spec => []ReconnectPending
<1>1. Init => Shapes /\ ReconnectPending
  BY ShapesInit
<1>2. Shapes /\ ReconnectPending /\ [Next]_vars => (Shapes /\ ReconnectPending)'
  BY ShapesStep, ReconnectStep
<1> QED BY <1>1, <1>2, PTL DEF Spec
-----------------------------------------------------------------------------
\* Addresses loxilb has a record of.
Recorded == DOMAIN ci.rules \cup CiVip

\* The inductive form of NoStrayPath: a pass of advertiseAllVIPs that is under
\* way, of the monitor or of UpdateCIState, has only recorded addresses left.
PathInv ==
  /\ NoStrayPath
  /\ ci = [known |-> ci.known, hastate |-> ci.hastate, vip |-> ci.vip, rules |-> ci.rules]
  /\ ci.vip \in CiVip \cup {None}
  /\ mon.pc = "adv" =>
       mon = [pc |-> "adv", pri |-> mon.pri, todo |-> mon.todo] /\ mon.todo \subseteq Recorded
  /\ upd.pc = "adv" =>
       /\ upd = [pc |-> "adv", todo |-> upd.todo, update |-> upd.update]
       /\ upd.todo \subseteq Recorded
  /\ upd.pc = "set" => upd.vip \in CiVip \cup {None}

\* Every step keeps PathInv: rule calls, the only ones that forget an address,
\* are kept apart from both passes by gbh.mtx and the global lock.
LEMMA PathStep == Shapes /\ PathInv /\ [Next]_vars => PathInv'
<1> SUFFICES ASSUME Shapes, PathInv, [Next]_vars PROVE PathInv'
  OBVIOUS
<1>1. CASE UNCHANGED <<daemon, ci, mon, upd, orphan>>
  BY <1>1 DEF PathInv, NoStrayPath, Recorded
<1>2. CASE UNCHANGED <<ci, mon, upd, orphan>> /\ daemon'.paths = daemon.paths
  BY <1>2 DEF PathInv, NoStrayPath, Recorded
<1>3. CASE DaemonCrash \/ goBgpSpawn
  BY <1>3 DEF DaemonCrash, goBgpSpawn, Down, gbhData, PathInv, NoStrayPath, Recorded
<1>4. CASE BGPGlobalConfigAdd \/ TickReset \/ \E p \in Prefix, n \in NextHop \cup {None} : PeerUpdate(p, n)
  <2>1. UNCHANGED <<ci, mon, upd, orphan>>
    BY <1>4 DEF BGPGlobalConfigAdd, TickReset, PeerUpdate, gbhData
  <2>2. daemon'.paths = daemon.paths
    BY <1>4 DEF BGPGlobalConfigAdd, TickReset, PeerUpdate, Shapes, IsDaemon
  <2> QED BY <1>2, <2>1, <2>2
<1>5. ASSUME NEW x, \/ ConnectDial \/ ConnectReady(x) \/ WatchStart(x) \/ WatchFail \/ EventDown
                    \/ EventRoute \/ goBGPLazyHouseKeeper \/ goBGPHouseKeeper \/ TickApply
      PROVE PathInv'
  BY <1>5, <1>1 DEF ConnectDial, ConnectReady, WatchStart, WatchFail, EventDown, EventRoute,
       goBGPLazyHouseKeeper, goBGPHouseKeeper, TickApply, gbhData
<1>6. CASE EventUp \/ InitRead \/ InitList
  BY <1>6 DEF EventUp, InitRead, InitList, gbhData, Idle, PathInv, NoStrayPath, Recorded
<1>7. CASE InitLock
  <2>1. Targets(ci) \subseteq Recorded
    BY DEF Targets, Recorded, PathInv
  <2> QED BY <1>7, <2>1 DEF InitLock, gbhData, PathInv, NoStrayPath, Recorded
<1>8. ASSUME NEW v, InitAdvertise(v) PROVE PathInv'
  <2>1. v \in Recorded /\ daemon' = AdvertiseRoute({v}, mon.pri)
    BY <1>8 DEF InitAdvertise, PathInv
  <2>2. DOMAIN daemon'.paths \subseteq DOMAIN daemon.paths \cup {v}
    BY <2>1, AdvertiseLemma
  <2>3. UNCHANGED <<ci, upd, orphan>> /\ mon' = [mon EXCEPT !.todo = @ \ {v}] /\ mon.pc = "adv"
    BY <1>8 DEF InitAdvertise, gbhData
  <2>4. NoStrayPath'
    BY <2>1, <2>2, <2>3 DEF PathInv, NoStrayPath, Recorded
  <2> QED BY <2>3, <2>4 DEF PathInv, Recorded
<1>9. CASE InitPolicy
  <2>1. daemon'.paths = daemon.paths
    BY <1>9, PolicyLemma DEF InitPolicy
  <2> QED BY <1>9, <2>1 DEF InitPolicy, PathInv, NoStrayPath, Recorded
<1>10. ASSUME NEW S, AddBGPRule(S) PROVE PathInv'
  <2>1. mon.pc # "adv" /\ upd.pc = "idle" /\ UNCHANGED <<mon, upd, orphan>>
    BY <1>10 DEF AddBGPRule, Locked
  <2>2. DOMAIN ci'.rules = DOMAIN ci.rules \cup S /\ ci'.vip = ci.vip
        /\ ci' = [known |-> ci'.known, hastate |-> ci'.hastate, vip |-> ci'.vip, rules |-> ci'.rules]
    BY <1>10 DEF AddBGPRule, PathInv
  <2>3. DOMAIN daemon'.paths \subseteq DOMAIN daemon.paths \cup S
    <3>1. CASE state = "connected"
      <4>1. daemon' = AdvertiseRoute({v \in S : Count(v) = 0}, Priority(ci.hastate))
        BY <1>10, <3>1 DEF AddBGPRule
      <4> QED BY <4>1, AdvertiseLemma
    <3>2. CASE state # "connected"
      BY <1>10, <3>2 DEF AddBGPRule
    <3> QED BY <3>1, <3>2
  <2> QED BY <2>1, <2>2, <2>3 DEF PathInv, NoStrayPath, Recorded
<1>11. ASSUME NEW S, DelBGPRule(S) PROVE PathInv'
  <2> DEFINE gone == {v \in S : Count(v) <= 1}
  <2>1. mon.pc # "adv" /\ upd.pc = "idle" /\ UNCHANGED <<mon, upd>>
    BY <1>11 DEF DelBGPRule, Locked
  <2>2. CASE state = "connected"
    <3>1. DOMAIN ci'.rules = DOMAIN ci.rules \ gone /\ ci'.vip = ci.vip
          /\ ci' = [known |-> ci'.known, hastate |-> ci'.hastate, vip |-> ci'.vip, rules |-> ci'.rules]
      BY <1>11, <2>2 DEF DelBGPRule, PathInv, Restrict
    <3>2. daemon' = DelAdvertiseRoute(gone)
          /\ orphan' = IF Reachable THEN orphan \ gone ELSE orphan \cup (gone \cap DOMAIN daemon.paths)
      BY <1>11, <2>2 DEF DelBGPRule
    <3>3. DOMAIN daemon'.paths = IF Reachable THEN DOMAIN daemon.paths \ gone ELSE DOMAIN daemon.paths
      BY <3>2, WithdrawLemma
    <3>4. NoStrayPath'
      <4> HIDE DEF gone
      <4> QED BY <3>1, <3>2, <3>3 DEF PathInv, NoStrayPath
    <3> QED BY <2>1, <3>1, <3>4 DEF PathInv
  <2>3. CASE state # "connected"
    <3>1. DOMAIN ci'.rules = DOMAIN ci.rules /\ ci'.vip = ci.vip
          /\ ci' = [known |-> ci'.known, hastate |-> ci'.hastate, vip |-> ci'.vip, rules |-> ci'.rules]
      BY <1>11, <2>3 DEF DelBGPRule, PathInv
    <3>2. UNCHANGED <<daemon, orphan>>
      BY <1>11, <2>3 DEF DelBGPRule
    <3> QED BY <2>1, <3>1, <3>2 DEF PathInv, NoStrayPath, Recorded
  <2> QED BY <2>2, <2>3
<1>12. ASSUME NEW s \in State, NEW v \in CiVip \cup {None}, CIStateUpdate(s, v) PROVE PathInv'
  BY <1>12 DEF CIStateUpdate, gbhData, PathInv, NoStrayPath, Recorded
<1>13. CASE UpdateSet
  <2> DEFINE c == [known |-> TRUE, hastate |-> has, vip |-> upd.vip, rules |-> ci.rules]
  <2>1. ci' = c /\ upd' = [pc |-> "adv", todo |-> Targets(c), update |-> ci.known /\ ci.hastate # has]
        /\ upd.vip \in CiVip \cup {None} /\ UNCHANGED <<daemon, mon, orphan>>
    BY <1>13 DEF UpdateSet, PathInv
  <2>2. Targets(c) \subseteq Recorded
    BY <2>1 DEF Targets, Recorded
  <2> QED BY <2>1, <2>2 DEF PathInv, NoStrayPath, Recorded
<1>14. ASSUME NEW v, UpdateAdvertise(v) PROVE PathInv'
  <2>1. v \in Recorded /\ daemon' = AdvertiseRoute({v}, Priority(ci.hastate))
    BY <1>14 DEF UpdateAdvertise, PathInv
  <2>2. DOMAIN daemon'.paths \subseteq DOMAIN daemon.paths \cup {v}
    BY <2>1, AdvertiseLemma
  <2>3. UNCHANGED <<ci, mon, orphan>> /\ upd' = [upd EXCEPT !.todo = @ \ {v}] /\ upd.pc = "adv"
    BY <1>14 DEF UpdateAdvertise, gbhData
  <2>4. NoStrayPath'
    BY <2>1, <2>2, <2>3 DEF PathInv, NoStrayPath, Recorded
  <2> QED BY <2>3, <2>4 DEF PathInv, Recorded
<1>15. CASE UpdatePolicy \/ UpdateFlag
  <2>1. daemon'.paths = daemon.paths
    BY <1>15, PolicyLemma DEF UpdatePolicy, UpdateFlag
  <2>2. upd'.pc \in {"idle", "flag"} /\ UNCHANGED <<ci, mon, orphan>>
    BY <1>15 DEF UpdatePolicy, UpdateFlag, Idle, gbhData
  <2> QED BY <2>1, <2>2 DEF PathInv, NoStrayPath, Recorded
<1>16. CASE UNCHANGED vars
  BY <1>16, <1>1 DEF vars
<1> QED BY <1>3, <1>4, <1>5, <1>6, <1>7, <1>8, <1>9, <1>10, <1>11, <1>12, <1>13, <1>14, <1>15,
           <1>16 DEF Next, Monitor, Update

LEMMA PathInit == Init => PathInv
<1> SUFFICES ASSUME Init PROVE PathInv
  OBVIOUS
<1>1. DOMAIN daemon.paths = {} /\ mon.pc = "idle" /\ upd.pc = "idle"
  BY DEF Init, Down, Idle
<1>2. ci = [known |-> FALSE, hastate |-> "undefined", vip |-> None, rules |-> << >>]
  BY DEF Init
<1> QED BY <1>1, <1>2 DEF PathInv, NoStrayPath

\* NoStrayPath holds for any constants.
THEOREM NoStrayPathHolds == Spec => []NoStrayPath
<1>1. Init => Shapes /\ PathInv
  <2> SUFFICES ASSUME Init PROVE Shapes /\ PathInv
    OBVIOUS
  <2>1. Shapes
    BY ShapesInit
  <2>2. PathInv
    BY PathInit
  <2> QED BY <2>1, <2>2
<1>2. Shapes /\ PathInv /\ [Next]_vars => (Shapes /\ PathInv)'
  BY ShapesStep, PathStep
<1>3. PathInv => NoStrayPath
  BY DEF PathInv
<1> QED BY <1>1, <1>2, <1>3, PTL DEF Spec
-----------------------------------------------------------------------------
\* A recorded address is advertised with another preference than that of ci.hastate.
Stale(v) ==
  /\ v \in DOMAIN ci.rules \cup {ci.vip} /\ v \in DOMAIN daemon.paths
  /\ daemon.paths[v] # Priority(ci.hastate)

\* Someone will advertise the address again.
Awaited(v) ==
  \/ Pending \/ mon.pc = "lock"
  \/ upd.pc = "adv" /\ v \in upd.todo
  \/ mon.pc = "adv" /\ v \in mon.todo

\* A closed connection of gbh.client has a connect task.
LinkInv ==
  /\ open \in BOOLEAN /\ state \in {"connected", "disconnected"}
  /\ ~open => Tasks > 0

\* The inductive form of PriorityRight: gobgpd without a configuration has no paths,
\* the preference the monitor goes round with is right unless raced, and an address
\* that has another one is still to be advertised again.
PriInv ==
  /\ LinkInv /\ raced \in BOOLEAN /\ ci.known \in BOOLEAN
  /\ daemon.st # "ready" => DOMAIN daemon.paths = {}
  /\ None \notin DOMAIN daemon.paths
  /\ ~ci.known => DOMAIN ci.rules = {} /\ ci.vip = None
  /\ mon.pc = "adv" => raced \/ mon.pri = Priority(ci.hastate)
  /\ \A v : Stale(v) => raced \/ Awaited(v)

LEMMA AwayPending ==
  ASSUME Shapes, ReconnectPending, state = "disconnected"
  PROVE  Pending
<1>1. /\ DOMAIN task = {"dial", "cur", "old"}
      /\ task.dial \in Nat /\ task.cur \in Nat /\ task.old \in Nat
  BY DEF Shapes, TaskType
<1>2. ASSUME NEW w \in DOMAIN task, task[w] > 0 PROVE Tasks > 0
  BY <1>1, <1>2 DEF Tasks
<1> QED BY <1>2 DEF ReconnectPending, Pending, UpWaits

\* A request that gobgpd does not answer finds it without paths, or with a connect
\* task that will bring a new connection.
LEMMA Unanswered ==
  ASSUME PriInv, ~Reachable
  PROVE  Pending \/ DOMAIN daemon.paths = {}
BY DEF PriInv, LinkInv, Reachable, Pending

\* What an answered advertisement leaves.
LEMMA AdvertisedLemma ==
  ASSUME Shapes, Reachable, NEW S, NEW pri, NEW d, d = AdvertiseRoute(S, pri)
  PROVE  /\ d.st = daemon.st
         /\ DOMAIN d.paths = DOMAIN daemon.paths \cup S
         /\ \A v \in S : d.paths[v] = pri
         /\ \A v \in DOMAIN daemon.paths \ S : d.paths[v] = daemon.paths[v]
<1>1. d = [daemon EXCEPT !.paths =
        [w \in DOMAIN daemon.paths \cup S |-> IF w \in S THEN pri ELSE daemon.paths[w]]]
  BY DEF AdvertiseRoute
<1> DEFINE f == [w \in DOMAIN daemon.paths \cup S |-> IF w \in S THEN pri ELSE daemon.paths[w]]
<1>2. d.st = daemon.st /\ d.paths = f
  BY <1>1 DEF Shapes, IsDaemon
<1> QED BY <1>2

\* Every step keeps LinkInv.
LEMMA LinkStep == Shapes /\ LinkInv /\ [Next]_vars => LinkInv'
<1> SUFFICES ASSUME Shapes, LinkInv, [Next]_vars PROVE LinkInv'
  OBVIOUS
<1>a. task \in TaskType
  BY DEF Shapes
<1>1. CASE UNCHANGED <<state, open, task>>
  BY <1>1 DEF LinkInv, Tasks
<1>2. CASE ConnectDial
  BY <1>2 DEF ConnectDial, LinkInv
<1>3. ASSUME NEW w, ConnectReady(w) PROVE LinkInv'
  BY <1>3 DEF ConnectReady, Reachable, LinkInv
<1>4. CASE EventDown
  <2>1. open' \in BOOLEAN /\ state' = "disconnected"
    BY <1>4 DEF EventDown
  <2>2. Tasks' > 0
    <3>1. CASE Tasks < MaxTask
      <4>1. task' = [task EXCEPT !.dial = @ + 1]
        BY <1>4, <3>1 DEF EventDown, More
      <4>2. task' = [dial |-> task.dial + 1, cur |-> task.cur, old |-> task.old]
        BY <4>1, <1>a DEF TaskType
      <4> QED BY <4>2, <1>a DEF Tasks, TaskType
    <3>2. CASE ~(Tasks < MaxTask)
      <4>1. task' = task
        BY <1>4, <3>2 DEF EventDown, More
      <4>2. Tasks \in Nat /\ Tasks' = Tasks
        BY <4>1, <1>a DEF Tasks, TaskType
      <4> QED BY <4>2, <3>2, BgpAssumption
    <3> QED BY <3>1, <3>2
  <2> QED BY <2>1, <2>2 DEF LinkInv
<1>5. CASE EventUp
  BY <1>5 DEF EventUp, LinkInv, Tasks
<1>6. ASSUME NEW x, NEW y,
             \/ DaemonCrash \/ goBgpSpawn \/ BGPGlobalConfigAdd \/ PeerUpdate(x, y) \/ WatchStart(x)
             \/ WatchFail \/ EventRoute \/ InitLock \/ InitRead \/ InitPolicy \/ InitList
             \/ InitAdvertise(x) \/ UpdateSet \/ UpdatePolicy \/ UpdateFlag \/ UpdateAdvertise(x)
             \/ AddBGPRule(x) \/ DelBGPRule(x) \/ CIStateUpdate(x, y) \/ goBGPLazyHouseKeeper
             \/ goBGPHouseKeeper \/ TickApply \/ TickReset \/ UNCHANGED vars
      PROVE  UNCHANGED <<state, open, task>>
  BY <1>6 DEF vars, gbhLink, DaemonCrash, goBgpSpawn, BGPGlobalConfigAdd, PeerUpdate, WatchStart,
       WatchFail, EventRoute, InitLock, InitRead, InitPolicy, InitList, InitAdvertise,
       UpdateSet, UpdatePolicy, UpdateFlag, UpdateAdvertise, AddBGPRule, DelBGPRule, CIStateUpdate,
       goBGPLazyHouseKeeper, goBGPHouseKeeper, TickApply, TickReset
<1> QED BY <1>1, <1>2, <1>3, <1>4, <1>5, <1>6 DEF Next, Monitor, Update

\* Every step keeps PriInv: who changes the state of the instance goes through all
\* recorded addresses, and a request that is not answered is made good by the
\* next connection.
LEMMA PriStep ==
  Shapes /\ PathInv /\ ReconnectPending /\ PriInv /\ [Next]_vars => PriInv'
<1> SUFFICES ASSUME Shapes, PathInv, ReconnectPending, PriInv, [Next]_vars PROVE PriInv'
  OBVIOUS
<1>a. LinkInv'
  BY LinkStep DEF PriInv
<1>b. Pending => Pending' \/ mon'.pc = "lock"
  BY PendingStep DEF EventUp
<1>1. CASE UNCHANGED <<ci, raced, mon, upd>> /\ daemon'.paths = daemon.paths /\ daemon'.st = daemon.st
  BY <1>1, <1>a, <1>b DEF PriInv, Stale, Awaited
<1>2. CASE DaemonCrash \/ goBgpSpawn
  <2>1. UNCHANGED <<ci, raced, mon>> /\ DOMAIN daemon'.paths = {}
    BY <1>2 DEF DaemonCrash, goBgpSpawn, gbhData, Down
  <2> QED BY <2>1, <1>a DEF PriInv, Stale
<1>3. CASE BGPGlobalConfigAdd
  <2>1. UNCHANGED <<ci, raced, mon>> /\ DOMAIN daemon.paths = {} /\ daemon'.paths = daemon.paths
    BY <1>3 DEF BGPGlobalConfigAdd, gbhData, PriInv, Shapes, IsDaemon
  <2> QED BY <2>1, <1>a DEF PriInv, Stale
<1>4. CASE TickReset \/ \E p \in Prefix, n \in NextHop \cup {None} : PeerUpdate(p, n)
  <2>1. UNCHANGED <<ci, raced, mon, upd>>
    BY <1>4 DEF TickReset, PeerUpdate, gbhData
  <2>2. daemon'.paths = daemon.paths /\ daemon'.st = daemon.st
    BY <1>4 DEF TickReset, PeerUpdate, Shapes, IsDaemon
  <2> QED BY <1>1, <2>1, <2>2
<1>5. ASSUME NEW x, \/ ConnectDial \/ ConnectReady(x) \/ WatchStart(x) \/ WatchFail \/ EventDown
                    \/ EventRoute \/ goBGPLazyHouseKeeper \/ goBGPHouseKeeper \/ TickApply
                    \/ UNCHANGED vars
      PROVE PriInv'
  <2>1. UNCHANGED <<daemon, ci, raced, mon, upd>>
    BY <1>5 DEF ConnectDial, ConnectReady, WatchStart, WatchFail, EventDown, EventRoute,
       goBGPLazyHouseKeeper, goBGPHouseKeeper, TickApply, gbhData, vars
  <2> QED BY <1>1, <2>1
<1>6. CASE EventUp
  <2>1. UNCHANGED <<daemon, ci, raced>> /\ mon'.pc = "lock"
    BY <1>6 DEF EventUp, gbhData
  <2> QED BY <2>1, <1>a DEF PriInv, Stale, Awaited
<1>7. CASE InitLock
  <2>1. UNCHANGED <<daemon, ci, upd>>
    BY <1>7 DEF InitLock, gbhData
  <2>2. CASE ci.known
    <3>1. raced' = FALSE /\ mon'.pc = "adv" /\ mon'.pri = Priority(ci.hastate) /\ mon'.todo = Targets(ci)
      BY <1>7, <2>2 DEF InitLock
    <3>2. \A v : Stale(v) => v \in Targets(ci)
      BY DEF Stale, Targets, PriInv
    <3> QED BY <2>1, <3>1, <3>2, <1>a DEF PriInv, Stale, Awaited
  <2>3. CASE ~ci.known
    <3>1. raced' = raced /\ mon'.pc = "list"
      BY <1>7, <2>3 DEF InitLock, PriInv
    <3>2. \A v : ~Stale(v)
      BY <2>3 DEF Stale, PriInv
    <3> QED BY <2>1, <3>1, <3>2, <1>a DEF PriInv, Stale
  <2> QED BY <2>2, <2>3 DEF PriInv
<1>8. ASSUME NEW v \in Vip \cup CiVip, InitAdvertise(v) PROVE PriInv'
  <2>1. UNCHANGED <<ci, upd, raced>> /\ mon.pc = "adv" /\ daemon' = AdvertiseRoute({v}, mon.pri)
        /\ mon'.pc = "adv" /\ mon'.pri = mon.pri /\ mon'.todo = mon.todo \ {v}
    BY <1>8 DEF InitAdvertise, gbhData, PathInv
  <2>2. CASE Reachable
    <3>1. /\ daemon'.st = daemon.st /\ DOMAIN daemon'.paths = DOMAIN daemon.paths \cup {v}
          /\ daemon'.paths[v] = mon.pri
          /\ \A w \in DOMAIN daemon.paths \ {v} : daemon'.paths[w] = daemon.paths[w]
      BY <2>1, <2>2, AdvertisedLemma
    <3>2. \A w : Stale(w)' => (w = v /\ raced) \/ (w # v /\ Stale(w))
      BY <2>1, <3>1 DEF Stale, PriInv
    <3>3. \A w : w # v /\ Awaited(w) => Awaited(w)'
      BY <2>1, <1>b DEF Awaited
    <3>4. daemon'.st # "ready" => DOMAIN daemon'.paths = {}
      BY <2>2, <3>1 DEF Reachable
    <3>5. None \notin DOMAIN daemon'.paths
      BY <3>1, BgpAssumption DEF PriInv
    <3> QED BY <2>1, <3>2, <3>3, <3>4, <3>5, <1>a DEF PriInv
  <2>3. CASE ~Reachable
    <3>1. daemon' = daemon
      BY <2>1, <2>3 DEF AdvertiseRoute
    <3>2. Pending' \/ DOMAIN daemon.paths = {}
      BY <2>1, <2>3, <1>b, Unanswered
    <3> QED BY <2>1, <3>1, <3>2, <1>a DEF PriInv, Stale, Awaited
  <2> QED BY <2>2, <2>3
<1>9. CASE InitRead \/ InitPolicy \/ InitList
  <2>a. UNCHANGED <<ci, upd, raced>>
    BY <1>9 DEF InitRead, InitPolicy, InitList, gbhData
  <2>b. ASSUME InitRead PROVE mon'.pc \in {"policy", "list"}
    BY <2>b DEF InitRead
  <2>c. ASSUME InitPolicy PROVE mon'.pc = "list"
    BY <2>c DEF InitPolicy
  <2>d. ASSUME InitList PROVE mon'.pc = "idle"
    BY <2>d DEF InitList, Idle
  <2>1. UNCHANGED <<ci, upd, raced>> /\ mon'.pc \in {"policy", "list", "idle"}
    BY <1>9, <2>a, <2>b, <2>c, <2>d
  <2>2. daemon'.paths = daemon.paths /\ daemon'.st = daemon.st
    <3>1. CASE InitRead \/ InitList
      BY <3>1 DEF InitRead, InitList
    <3>2. CASE InitPolicy
      <4>1. daemon' \in {daemon, [daemon EXCEPT !.policy = mon.low]}
        BY <3>2 DEF InitPolicy, ExportPolicy
      <4> QED BY <4>1 DEF Shapes, IsDaemon
    <3> QED BY <1>9, <3>1, <3>2
  <2>3. mon.pc # "lock" /\ (mon.pc = "adv" => mon.todo = {})
    BY <1>9 DEF InitRead, InitPolicy, InitList
  <2> QED BY <2>1, <2>2, <2>3, <1>a, <1>b DEF PriInv, Stale, Awaited
<1>10. ASSUME NEW S \in SUBSET Vip, AddBGPRule(S) PROVE PriInv'
  <2> DEFINE F == {v \in S : Count(v) = 0}
  <2>1. UNCHANGED <<mon, upd, raced>> /\ mon.pc # "adv" /\ upd.pc = "idle"
    BY <1>10 DEF AddBGPRule, Locked
  <2>2. /\ ci'.known = TRUE /\ ci'.hastate = ci.hastate /\ ci'.vip = ci.vip
        /\ DOMAIN ci'.rules = DOMAIN ci.rules \cup S
    BY <1>10 DEF AddBGPRule, PathInv
  <2>3. \A v \in S : v \notin F => v \in DOMAIN ci.rules
    BY DEF Count
  <2>4. CASE state = "connected" /\ Reachable
    <3>1. daemon' = AdvertiseRoute(F, Priority(ci.hastate))
      BY <1>10, <2>4 DEF AddBGPRule
    <3> HIDE DEF F
    <3>2. /\ daemon'.st = daemon.st /\ DOMAIN daemon'.paths = DOMAIN daemon.paths \cup F
          /\ \A w \in F : daemon'.paths[w] = Priority(ci.hastate)
          /\ \A w \in DOMAIN daemon.paths \ F : daemon'.paths[w] = daemon.paths[w]
      BY <3>1, <2>4, AdvertisedLemma
    <3>3. \A w : Stale(w)' => Stale(w)
      BY <2>2, <2>3, <3>2 DEF Stale
    <3>4. \A w : Awaited(w) => Awaited(w)'
      BY <2>1, <1>b DEF Awaited
    <3>5. daemon'.st # "ready" => DOMAIN daemon'.paths = {}
      BY <2>4, <3>2 DEF Reachable
    <3>6. None \notin DOMAIN daemon'.paths
      BY <3>2, BgpAssumption DEF PriInv, F
    <3> QED BY <2>1, <2>2, <3>3, <3>4, <3>5, <3>6, <1>a DEF PriInv
  <2>5. CASE ~(state = "connected" /\ Reachable)
    <3>1. daemon' = daemon
      BY <1>10, <2>5 DEF AddBGPRule, AdvertiseRoute
    <3>2. Pending \/ DOMAIN daemon.paths = {}
      <4>1. CASE ~Reachable
        BY <4>1, Unanswered
      <4>2. CASE state # "connected"
        <5>1. state = "disconnected"
          BY <4>2 DEF PriInv, LinkInv
        <5> QED BY <5>1, AwayPending
      <4> QED BY <2>5, <4>1, <4>2
    <3> QED BY <2>1, <2>2, <3>1, <3>2, <1>a, <1>b DEF PriInv, Stale, Awaited
  <2> QED BY <2>4, <2>5
<1>11. ASSUME NEW S, DelBGPRule(S) PROVE PriInv'
  <2> DEFINE gone == {v \in S : Count(v) <= 1}
  <2>1. UNCHANGED <<mon, upd, raced>> /\ ci.known
    BY <1>11 DEF DelBGPRule
  <2>2. /\ ci'.known = ci.known /\ ci'.hastate = ci.hastate /\ ci'.vip = ci.vip
        /\ DOMAIN ci'.rules \subseteq DOMAIN ci.rules
    <3>1. CASE state = "connected"
      <4> DEFINE less == [v \in DOMAIN ci.rules |-> IF v \in S /\ ci.rules[v] > 0 THEN ci.rules[v] - 1
                                                   ELSE ci.rules[v]]
                 left == Restrict(less, DOMAIN less \ gone)
      <4>1. ci' = [ci EXCEPT !.rules = left]
        BY <1>11, <3>1 DEF DelBGPRule
      <4>2. DOMAIN left \subseteq DOMAIN ci.rules
        BY DEF Restrict
      <4> HIDE DEF left
      <4>3. /\ ci'.known = ci.known /\ ci'.hastate = ci.hastate /\ ci'.vip = ci.vip
            /\ ci'.rules = left
        BY <4>1 DEF PathInv
      <4> QED BY <4>2, <4>3
    <3>2. CASE state # "connected"
      <4> DEFINE less == [v \in DOMAIN ci.rules |-> IF v \in S /\ ci.rules[v] > 0 THEN ci.rules[v] - 1
                                                   ELSE ci.rules[v]]
      <4>1. ci' = [ci EXCEPT !.rules = less] /\ DOMAIN less = DOMAIN ci.rules
        BY <1>11, <3>2 DEF DelBGPRule
      <4> HIDE DEF less
      <4> QED BY <4>1 DEF PathInv
    <3> QED BY <3>1, <3>2
  <2>3. daemon' \in {daemon, DelAdvertiseRoute(gone)}
    BY <1>11 DEF DelBGPRule
  <2>4. /\ daemon'.st = daemon.st /\ DOMAIN daemon'.paths \subseteq DOMAIN daemon.paths
        /\ \A w \in DOMAIN daemon'.paths : daemon'.paths[w] = daemon.paths[w]
    <3> HIDE DEF gone
    <3>1. DelAdvertiseRoute(gone) = daemon \/
          DelAdvertiseRoute(gone) = [daemon EXCEPT !.paths =
            [x \in DOMAIN daemon.paths \ gone |-> daemon.paths[x]]]
      BY DEF DelAdvertiseRoute, Restrict
    <3>2. CASE daemon' = daemon
      BY <3>2
    <3>3. CASE daemon' = [daemon EXCEPT !.paths = [x \in DOMAIN daemon.paths \ gone |-> daemon.paths[x]]]
      <4>1. daemon'.st = daemon.st
            /\ daemon'.paths = [x \in DOMAIN daemon.paths \ gone |-> daemon.paths[x]]
        BY <3>3 DEF Shapes, IsDaemon
      <4> QED BY <4>1
    <3> QED BY <2>3, <3>1, <3>2, <3>3
  <2>5. \A w : Stale(w)' => Stale(w)
    BY <2>2, <2>4 DEF Stale
  <2>6. \A w : Awaited(w) => Awaited(w)'
    BY <2>1, <1>b DEF Awaited
  <2> QED BY <2>1, <2>2, <2>4, <2>5, <2>6, <1>a DEF PriInv
<1>12. ASSUME NEW s, NEW v, CIStateUpdate(s, v) PROVE PriInv'
  <2>1. UNCHANGED <<daemon, ci, mon, raced>> /\ upd.pc = "idle"
    BY <1>12 DEF CIStateUpdate, gbhData
  <2> QED BY <2>1, <1>a, <1>b DEF PriInv, Stale, Awaited
<1>13. CASE UpdateSet
  <2>1. UNCHANGED <<daemon, mon>> /\ raced' = (mon.pc = "adv") /\ ci'.known = TRUE
        /\ upd'.pc = "adv" /\ upd'.todo = Targets(ci')
    BY <1>13 DEF UpdateSet
  <2>2. \A v : Stale(v)' => v \in upd'.todo
    BY <2>1 DEF Stale, Targets, PriInv
  <2> QED BY <2>1, <2>2, <1>a DEF PriInv, Awaited
<1>14. ASSUME NEW v \in Vip \cup CiVip, UpdateAdvertise(v) PROVE PriInv'
  <2>1. UNCHANGED <<ci, mon, raced>> /\ daemon' = AdvertiseRoute({v}, Priority(ci.hastate))
        /\ upd'.pc = "adv" /\ upd'.todo = upd.todo \ {v}
    BY <1>14 DEF UpdateAdvertise, gbhData, PathInv
  <2>2. CASE Reachable
    <3>1. /\ daemon'.st = daemon.st /\ DOMAIN daemon'.paths = DOMAIN daemon.paths \cup {v}
          /\ daemon'.paths[v] = Priority(ci.hastate)
          /\ \A w \in DOMAIN daemon.paths \ {v} : daemon'.paths[w] = daemon.paths[w]
      BY <2>1, <2>2, AdvertisedLemma
    <3>2. \A w : Stale(w)' => w # v /\ Stale(w)
      BY <2>1, <3>1 DEF Stale
    <3>3. \A w : w # v /\ Awaited(w) => Awaited(w)'
      BY <2>1, <1>b DEF Awaited
    <3>4. daemon'.st # "ready" => DOMAIN daemon'.paths = {}
      BY <2>2, <3>1 DEF Reachable
    <3>5. None \notin DOMAIN daemon'.paths
      BY <3>1, BgpAssumption DEF PriInv
    <3> QED BY <2>1, <3>2, <3>3, <3>4, <3>5, <1>a DEF PriInv
  <2>3. CASE ~Reachable
    <3>1. daemon' = daemon
      BY <2>1, <2>3 DEF AdvertiseRoute
    <3>2. Pending' \/ mon'.pc = "lock" \/ DOMAIN daemon.paths = {}
      BY <2>3, <1>b, Unanswered
    <3> QED BY <2>1, <3>1, <3>2, <1>a DEF PriInv, Stale, Awaited
  <2> QED BY <2>2, <2>3
<1>15. CASE UpdatePolicy \/ UpdateFlag
  <2>1. UNCHANGED <<ci, mon, raced>> /\ (upd.pc = "adv" => upd.todo = {})
    BY <1>15 DEF UpdatePolicy, UpdateFlag, gbhData
  <2>2. daemon' \in {daemon, [daemon EXCEPT !.policy = (has = "backup")]}
    BY <1>15 DEF UpdatePolicy, UpdateFlag, ExportPolicy
  <2>3. daemon'.paths = daemon.paths /\ daemon'.st = daemon.st
    BY <2>2 DEF Shapes, IsDaemon
  <2> QED BY <2>1, <2>3, <1>a, <1>b DEF PriInv, Stale, Awaited
<1> QED BY <1>2, <1>3, <1>4, <1>5, <1>6, <1>7, <1>8, <1>9, <1>10, <1>11, <1>12, <1>13, <1>14,
           <1>15 DEF Next, Monitor, Update

\* PriorityRight holds for any constants.
THEOREM PriorityRightHolds == Spec => []PriorityRight
<1> DEFINE IInv == Shapes /\ ReconnectPending /\ PathInv /\ PriInv
<1>1. Init => IInv
  <2> SUFFICES ASSUME Init PROVE IInv
    OBVIOUS
  <2>1. Shapes /\ ReconnectPending
    BY ShapesInit
  <2>2. PathInv
    BY PathInit
  <2>3. LinkInv
    BY DEF Init, LinkInv
  <2>a. DOMAIN daemon.paths = {} /\ raced = FALSE /\ mon.pc = "idle"
    BY DEF Init, Down, Idle
  <2>b. DOMAIN ci.rules = {} /\ ci.vip = None /\ ci.known = FALSE
    BY DEF Init
  <2>4. DOMAIN daemon.paths = {} /\ DOMAIN ci.rules = {} /\ ci.vip = None /\ ci.known = FALSE
        /\ raced = FALSE /\ mon.pc = "idle"
    BY <2>a, <2>b
  <2>5. PriInv
    BY <2>3, <2>4 DEF PriInv, Stale
  <2> QED BY <2>1, <2>2, <2>5
<1>2. IInv /\ [Next]_vars => IInv'
  BY ShapesStep, ReconnectStep, PathStep, PriStep
<1>3. IInv => PriorityRight
  <2> SUFFICES ASSUME IInv, Settled, ~raced,
                      NEW v \in (DOMAIN ci.rules \cup {ci.vip}) \cap DOMAIN daemon.paths
               PROVE  daemon.paths[v] = Priority(ci.hastate)
    BY DEF PriorityRight
  <2>1. ~Pending
    BY DEF Settled, Pending, Tasks, UpWaits, Shapes, TaskType
  <2>2. ~Awaited(v)
    BY <2>1 DEF Settled, Awaited
  <2> QED BY <2>2 DEF PriInv, Stale
<1> QED BY <1>1, <1>2, <1>3, PTL DEF Spec
-----------------------------------------------------------------------------
\* A soft reset is asked for or under way, or someone is going to ask for one: an
\* update of the instance that changes its state, or the next initialisation of a
\* connection.
ResetOwed ==
  \/ reqRst \/ tick.pc = "reset"
  \/ upd.pc \in {"set", "flag"} \/ (upd.pc = "adv" /\ upd.update)
  \/ Pending \/ mon.pc \in {"lock", "adv", "policy"}

\* The state of the instance the BGP client has is the one in mh.has, except
\* between the two assignments of CIStateUpdate.
HasInv ==
  /\ upd.pc = "set" => ci.hastate # has
  /\ upd.pc # "set" => ci.hastate = has
  /\ mon.pc \in {"adv", "policy"} \/ upd.pc \in {"adv", "flag"} => ci.known

\* The inductive form of ResetPending: only a configured gobgpd and a known
\* instance have a policy the peers were not sent routes under.
RstInv ==
  /\ LinkInv /\ HasInv /\ ci.known \in BOOLEAN
  /\ daemon.adj # daemon.policy =>
       /\ daemon.st = "ready" /\ ci.known
       /\ has \in {"master", "backup"} => ResetOwed

\* Requests about paths leave the policies of gobgpd alone.
LEMMA PathsOnly ==
  ASSUME Shapes, NEW S, NEW pri,
         daemon' \in {daemon, AdvertiseRoute(S, pri), DelAdvertiseRoute(S)}
  PROVE  daemon'.adj = daemon.adj /\ daemon'.policy = daemon.policy /\ daemon'.st = daemon.st
<1>1. \/ daemon' = daemon
      \/ \E f : daemon' = [daemon EXCEPT !.paths = f]
  BY DEF AdvertiseRoute, DelAdvertiseRoute
<1> QED BY <1>1 DEF Shapes, IsDaemon

\* Every step keeps HasInv.
LEMMA HasStep == PathInv /\ HasInv /\ [Next]_vars => HasInv'
<1> SUFFICES ASSUME PathInv, HasInv, [Next]_vars PROVE HasInv'
  OBVIOUS
<1>1. CASE UNCHANGED <<ci, has, mon, upd>>
  BY <1>1 DEF HasInv
<1>2. ASSUME NEW x, NEW y,
             \/ DaemonCrash \/ goBgpSpawn \/ BGPGlobalConfigAdd \/ PeerUpdate(x, y) \/ WatchStart(x)
             \/ ConnectDial \/ ConnectReady(x) \/ WatchFail \/ EventRoute \/ EventDown
             \/ goBGPLazyHouseKeeper \/ goBGPHouseKeeper \/ TickApply \/ TickReset \/ UNCHANGED vars
      PROVE  UNCHANGED <<ci, has, mon, upd>>
  BY <1>2 DEF vars, gbhData, DaemonCrash, goBgpSpawn, BGPGlobalConfigAdd, PeerUpdate, WatchStart,
       ConnectDial, ConnectReady, WatchFail, EventRoute, EventDown, goBGPLazyHouseKeeper,
       goBGPHouseKeeper, TickApply, TickReset
<1>3. CASE EventUp \/ InitLock \/ InitRead \/ InitPolicy \/ InitList
  <2>1. UNCHANGED <<ci, has, upd>>
    BY <1>3 DEF EventUp, InitLock, InitRead, InitPolicy, InitList, gbhData
  <2>a. ASSUME EventUp \/ InitPolicy \/ InitList PROVE mon'.pc \in {"lock", "list", "idle"}
    BY <2>a DEF EventUp, InitPolicy, InitList, Idle
  <2>b. ASSUME InitLock PROVE ci.known \/ mon'.pc = "list"
    BY <2>b DEF InitLock
  <2>c. ASSUME InitRead PROVE mon.pc = "adv"
    BY <2>c DEF InitRead
  <2>2. mon'.pc \in {"adv", "policy"} => ci.known
    BY <1>3, <2>a, <2>b, <2>c DEF HasInv
  <2> QED BY <2>1, <2>2 DEF HasInv
<1>4. ASSUME NEW v, InitAdvertise(v) PROVE HasInv'
  <2>1. UNCHANGED <<ci, has, upd>> /\ mon.pc = "adv"
    BY <1>4 DEF InitAdvertise, gbhData
  <2> QED BY <2>1 DEF HasInv
<1>5. ASSUME NEW S, AddBGPRule(S) \/ DelBGPRule(S) PROVE HasInv'
  <2>1. UNCHANGED <<has, mon, upd>> /\ upd.pc = "idle"
    BY <1>5 DEF AddBGPRule, DelBGPRule
  <2>2. ci'.hastate = ci.hastate /\ (ci.known => ci'.known)
    <3>1. \E f : ci' \in {[ci EXCEPT !.known = TRUE, !.rules = f], [ci EXCEPT !.rules = f]}
      BY <1>5 DEF AddBGPRule, DelBGPRule
    <3> QED BY <3>1 DEF PathInv
  <2> QED BY <2>1, <2>2 DEF HasInv
<1>6. ASSUME NEW s, NEW v, CIStateUpdate(s, v) PROVE HasInv'
  <2>1. UNCHANGED <<ci, mon>> /\ upd.pc = "idle" /\ upd'.pc = "set" /\ has' = s /\ s # has
    BY <1>6 DEF CIStateUpdate, gbhData
  <2> QED BY <2>1 DEF HasInv
<1>7. CASE UpdateSet
  <2>1. UNCHANGED <<has, mon>> /\ ci'.known = TRUE /\ ci'.hastate = has /\ upd'.pc = "adv"
    BY <1>7 DEF UpdateSet
  <2> QED BY <2>1 DEF HasInv
<1>8. ASSUME NEW v, UpdateAdvertise(v) PROVE HasInv'
  <2>1. UNCHANGED <<ci, has, mon>> /\ upd.pc = "adv" /\ upd'.pc = "adv"
    BY <1>8 DEF UpdateAdvertise, gbhData, PathInv
  <2> QED BY <2>1 DEF HasInv
<1>9. CASE UpdatePolicy \/ UpdateFlag
  <2>1. ASSUME UpdatePolicy
        PROVE  UNCHANGED <<ci, has, mon>> /\ upd.pc = "adv" /\ (upd' = Idle \/ upd' = [pc |-> "flag"])
    BY <2>1 DEF UpdatePolicy, gbhData
  <2>2. ASSUME UpdateFlag
        PROVE  UNCHANGED <<ci, has, mon>> /\ upd.pc = "flag" /\ upd' = Idle
    BY <2>2 DEF UpdateFlag
  <2>3. Idle.pc = "idle" /\ [pc |-> "flag"].pc = "flag"
    BY DEF Idle
  <2>4. UNCHANGED <<ci, has, mon>> /\ upd.pc \in {"adv", "flag"} /\ upd'.pc \in {"idle", "flag"}
    BY <1>9, <2>1, <2>2, <2>3
  <2> QED BY <2>4 DEF HasInv
<1> QED BY <1>1, <1>2, <1>3, <1>4, <1>5, <1>6, <1>7, <1>8, <1>9 DEF Next, Monitor, Update

\* Every step keeps RstInv: a soft reset that gobgpd does not answer finds the
\* connection closed, and the initialisation of the next one asks for another.
LEMMA RstStep == Shapes /\ PathInv /\ RstInv /\ [Next]_vars => RstInv'
<1> SUFFICES ASSUME Shapes, PathInv, RstInv, [Next]_vars PROVE RstInv'
  OBVIOUS
<1> DEFINE Same == daemon'.adj = daemon.adj /\ daemon'.policy = daemon.policy /\ daemon'.st = daemon.st
           Differ == daemon.adj # daemon.policy
<1>a. LinkInv' /\ HasInv'
  BY LinkStep, HasStep DEF RstInv
<1>b. Pending => Pending' \/ mon'.pc = "lock"
  BY PendingStep DEF EventUp
<1>1. CASE Same /\ UNCHANGED <<ci, has, reqRst, mon, upd, tick>>
  BY <1>1, <1>a, <1>b DEF RstInv, ResetOwed
<1>2. CASE DaemonCrash \/ goBgpSpawn
  <2>1. UNCHANGED ci
    BY <1>2 DEF DaemonCrash, goBgpSpawn, gbhData
  <2>2. daemon' = Down \/ \E st : daemon' = [Down EXCEPT !.st = st]
    BY <1>2 DEF DaemonCrash, goBgpSpawn
  <2>3. daemon'.adj = FALSE /\ daemon'.policy = FALSE
    BY <2>2 DEF Down
  <2> QED BY <2>1, <2>3, <1>a DEF RstInv
<1>3. ASSUME NEW p \in Prefix, NEW n \in NextHop \cup {None}, PeerUpdate(p, n) PROVE RstInv'
  <2>1. UNCHANGED <<ci, has, reqRst, mon, upd, tick>>
    BY <1>3 DEF PeerUpdate, gbhData
  <2>2. Same
    BY <1>3 DEF PeerUpdate, Shapes, IsDaemon
  <2> QED BY <1>1, <2>1, <2>2
<1>4. CASE BGPGlobalConfigAdd
  <2>1. UNCHANGED ci /\ daemon.st = "bare"
    BY <1>4 DEF BGPGlobalConfigAdd, gbhData
  <2>2. daemon'.adj = daemon.adj /\ daemon'.policy = daemon.policy
    BY <1>4 DEF BGPGlobalConfigAdd, Shapes, IsDaemon
  <2>3. daemon.adj = daemon.policy
    BY <2>1 DEF RstInv
  <2> QED BY <2>1, <2>2, <2>3, <1>a DEF RstInv
<1>5. ASSUME NEW x, \/ ConnectDial \/ ConnectReady(x) \/ WatchStart(x) \/ WatchFail \/ EventDown
                    \/ EventRoute \/ UNCHANGED vars
      PROVE RstInv'
  <2>1. UNCHANGED <<daemon, ci, has, reqRst, mon, upd, tick>>
    BY <1>5 DEF ConnectDial, ConnectReady, WatchStart, WatchFail, EventDown, EventRoute, gbhData, vars
  <2> QED BY <1>1, <2>1
<1>6. CASE EventUp
  <2>1. UNCHANGED <<daemon, ci>> /\ mon'.pc = "lock"
    BY <1>6 DEF EventUp, gbhData
  <2> QED BY <2>1, <1>a DEF RstInv, ResetOwed
<1>7. CASE InitLock
  <2>1. UNCHANGED <<daemon, ci, has, reqRst, upd, tick>> /\ (ci.known => mon'.pc = "adv")
    BY <1>7 DEF InitLock, gbhData
  <2> QED BY <2>1, <1>a DEF RstInv, ResetOwed
<1>8. CASE InitRead
  <2>1. UNCHANGED <<daemon, ci, has, reqRst, upd, tick>>
        /\ (has \in {"master", "backup"} => mon'.pc = "policy")
    BY <1>8 DEF InitRead, gbhData
  <2> QED BY <2>1, <1>a DEF RstInv, ResetOwed
<1>9. CASE InitPolicy
  <2>1. UNCHANGED ci /\ reqRst' = TRUE /\ mon.pc = "policy" /\ daemon' = ExportPolicy(mon.low)
    BY <1>9 DEF InitPolicy
  <2>2. CASE Reachable
    <3>1. daemon'.st = "ready"
      BY <2>1, <2>2 DEF ExportPolicy, Reachable, Shapes, IsDaemon
    <3>2. ci.known
      BY <2>1 DEF RstInv, HasInv
    <3> QED BY <2>1, <3>1, <3>2, <1>a DEF RstInv, ResetOwed
  <2>3. CASE ~Reachable
    <3>1. daemon' = daemon
      BY <2>1, <2>3 DEF ExportPolicy
    <3> QED BY <2>1, <3>1, <1>a DEF RstInv, ResetOwed
  <2> QED BY <2>2, <2>3
<1>10. CASE InitList
  <2>1. UNCHANGED <<daemon, ci, has, reqRst, upd, tick>> /\ mon.pc = "list"
    BY <1>10 DEF InitList, gbhData
  <2> QED BY <2>1, <1>a, <1>b DEF RstInv, ResetOwed
<1>11. ASSUME NEW v, InitAdvertise(v) PROVE RstInv'
  <2>1. UNCHANGED <<ci, has, reqRst, upd, tick>> /\ daemon' = AdvertiseRoute({v}, mon.pri)
        /\ mon'.pc = "adv"
    BY <1>11 DEF InitAdvertise, gbhData, PathInv
  <2>2. Same
    BY <2>1, PathsOnly
  <2> QED BY <2>1, <2>2, <1>a DEF RstInv, ResetOwed
<1>12. ASSUME NEW S, AddBGPRule(S) \/ DelBGPRule(S) PROVE RstInv'
  <2>1. UNCHANGED <<has, reqRst, mon, upd, tick>>
    BY <1>12 DEF AddBGPRule, DelBGPRule
  <2>2. ci'.known \in {TRUE, ci.known}
    <3>1. \E f : ci' \in {[ci EXCEPT !.known = TRUE, !.rules = f], [ci EXCEPT !.rules = f]}
      BY <1>12 DEF AddBGPRule, DelBGPRule
    <3> QED BY <3>1 DEF PathInv
  <2>3. Same
    <3>1. \E T, pri : daemon' \in {daemon, AdvertiseRoute(T, pri), DelAdvertiseRoute(T)}
      BY <1>12 DEF AddBGPRule, DelBGPRule
    <3> QED BY <3>1, PathsOnly
  <2> QED BY <2>1, <2>2, <2>3, <1>a, <1>b DEF RstInv, ResetOwed
<1>13. ASSUME NEW s, NEW v, CIStateUpdate(s, v) PROVE RstInv'
  <2>1. UNCHANGED <<daemon, ci>> /\ upd'.pc = "set"
    BY <1>13 DEF CIStateUpdate, gbhData
  <2> QED BY <2>1, <1>a DEF RstInv, ResetOwed
<1>14. CASE UpdateSet
  <2>1. UNCHANGED <<daemon, has, reqRst, mon, tick>> /\ ci'.known = TRUE /\ upd.pc = "set"
        /\ upd'.pc = "adv" /\ upd'.update = (ci.known /\ ci.hastate # has)
    BY <1>14 DEF UpdateSet
  <2>2. Differ => upd'.update
    BY <2>1 DEF RstInv, HasInv
  <2> QED BY <2>1, <2>2, <1>a DEF RstInv, ResetOwed
<1>15. ASSUME NEW v, UpdateAdvertise(v) PROVE RstInv'
  <2>1. UNCHANGED <<ci, has, reqRst, mon, tick>> /\ daemon' = AdvertiseRoute({v}, Priority(ci.hastate))
        /\ upd.pc = "adv" /\ upd'.pc = "adv" /\ upd'.update = upd.update
    BY <1>15 DEF UpdateAdvertise, gbhData, PathInv
  <2>2. Same
    BY <2>1, PathsOnly
  <2> QED BY <2>1, <2>2, <1>a, <1>b DEF RstInv, ResetOwed
<1>16. CASE UpdatePolicy
  <2>1. UNCHANGED <<ci, has, reqRst, mon, tick>> /\ upd.pc = "adv"
    BY <1>16 DEF UpdatePolicy, gbhData
  <2>2. CASE upd.update /\ has \in {"master", "backup"}
    <3>1. daemon' = ExportPolicy(has = "backup") /\ upd'.pc = "flag"
      BY <1>16, <2>2 DEF UpdatePolicy
    <3>2. daemon'.st = "ready" \/ daemon' = daemon
      BY <3>1 DEF ExportPolicy, Reachable, Shapes, IsDaemon
    <3>3. ci.known
      BY <2>1 DEF RstInv, HasInv
    <3> QED BY <2>1, <3>1, <3>2, <3>3, <1>a DEF RstInv, ResetOwed
  <2>3. CASE ~(upd.update /\ has \in {"master", "backup"})
    <3>1. daemon' = daemon
      BY <1>16, <2>3 DEF UpdatePolicy
    <3> QED BY <2>1, <2>3, <3>1, <1>a, <1>b DEF RstInv, ResetOwed
  <2> QED BY <2>2, <2>3
<1>17. CASE UpdateFlag
  <2>1. UNCHANGED <<daemon, ci>> /\ reqRst' = TRUE
    BY <1>17 DEF UpdateFlag
  <2> QED BY <2>1, <1>a DEF RstInv, ResetOwed
<1>18. CASE goBGPLazyHouseKeeper \/ goBGPHouseKeeper \/ TickApply
  <2>1. UNCHANGED <<daemon, ci, has, mon, upd>>
    BY <1>18 DEF goBGPLazyHouseKeeper, goBGPHouseKeeper, TickApply, gbhData
  <2>2. reqRst \/ tick.pc = "reset" => reqRst' \/ tick'.pc = "reset"
    <3>1. CASE goBGPLazyHouseKeeper
      BY <3>1 DEF goBGPLazyHouseKeeper, gbhData, Locked
    <3>2. CASE goBGPHouseKeeper
      <4>1. tick.pc = "idle" /\ (reqRst' = reqRst \/ tick' = [pc |-> "reset", fast |-> FALSE])
        BY <3>2 DEF goBGPHouseKeeper, Locked
      <4>2. reqRst' = reqRst \/ tick'.pc = "reset"
        BY <4>1
      <4> QED BY <4>1, <4>2, Zenon
    <3>3. CASE TickApply
      <4>1. tick.pc = "apply" /\ (reqRst' = reqRst \/ tick' = [pc |-> "reset", fast |-> TRUE])
        BY <3>3 DEF TickApply
      <4>2. reqRst' = reqRst \/ tick'.pc = "reset"
        BY <4>1
      <4> QED BY <4>1, <4>2, Zenon
    <3> QED BY <1>18, <3>1, <3>2, <3>3
  <2> QED BY <2>1, <2>2, <1>a, <1>b DEF RstInv, ResetOwed
<1>19. CASE TickReset
  <2>1. UNCHANGED <<ci, has, reqRst, mon, upd>>
    BY <1>19 DEF TickReset, gbhData
  <2>2. CASE Reachable
    <3>1. daemon'.adj = daemon'.policy
      BY <1>19, <2>2 DEF TickReset, Shapes, IsDaemon
    <3> QED BY <2>1, <3>1, <1>a DEF RstInv
  <2>3. CASE ~Reachable
    <3>1. daemon' = daemon
      BY <1>19, <2>3 DEF TickReset
    <3>2. Differ => Pending' \/ mon'.pc = "lock"
      BY <2>3, <1>b DEF RstInv, LinkInv, Reachable, Pending
    <3> QED BY <2>1, <3>1, <3>2, <1>a DEF RstInv, ResetOwed
  <2> QED BY <2>2, <2>3
<1> QED BY <1>2, <1>3, <1>4, <1>5, <1>6, <1>7, <1>8, <1>9, <1>10, <1>11, <1>12, <1>13, <1>14,
           <1>15, <1>16, <1>17, <1>18, <1>19 DEF Next, Monitor, Update

\* ResetPending holds for any constants: neither a house keeper that finds gobgpd
\* away nor a change of state in the middle of an initialisation loses the reset.
THEOREM ResetPendingHolds == Spec => []ResetPending
<1> DEFINE IInv == Shapes /\ PathInv /\ RstInv
<1>1. Init => IInv
  <2> SUFFICES ASSUME Init PROVE IInv
    OBVIOUS
  <2>1. Shapes
    BY ShapesInit
  <2>2. PathInv
    BY PathInit
  <2>3. LinkInv
    BY DEF Init, LinkInv
  <2>4. daemon.adj = daemon.policy /\ ci.known = FALSE /\ ci.hastate = has
        /\ mon.pc = "idle" /\ upd.pc = "idle"
    BY DEF Init, Down, Idle
  <2>5. RstInv
    BY <2>3, <2>4 DEF RstInv, HasInv
  <2> QED BY <2>1, <2>2, <2>5
<1>2. IInv /\ [Next]_vars => IInv'
  BY ShapesStep, PathStep, RstStep
<1>3. IInv => ResetPending
  <2> SUFFICES ASSUME IInv, Settled, has \in {"master", "backup"}, daemon.adj # daemon.policy
               PROVE  reqRst \/ tick.pc = "reset"
    BY DEF ResetPending
  <2>1. ~Pending
    BY DEF Settled, Pending, Tasks, UpWaits, Shapes, TaskType
  <2> QED BY <2>1 DEF Settled, RstInv, ResetOwed
<1> QED BY <1>1, <1>2, <1>3, PTL DEF Spec
=============================================================================

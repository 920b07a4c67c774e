------------------------------- MODULE L3Net -------------------------------
(***************************************************************************)
(* Routes, neighbours, layer 2 entries and interface addresses of a zone   *)
(* (route.go, neighbor.go, layer2.go, layer3.go of pkg/loxinet), and the   *)
(* ports they hang on (port.go).  Netlink events, API calls and the zone   *)
(* ticker take mh.mtx, so each is one step; inside, the tables call each   *)
(* other: a neighbour brings a host route, a route brings its neighbours,  *)
(* and deleting either may delete the other.  The operators below take and *)
(* return the tables, as a record s, in the order the code changes them.   *)
(*                                                                         *)
(* Next hops are pointers in the code and keys here.  This is the same as  *)
(* long as no entry that a route refers to leaves the map (PairsMatch).  *)
(* Ports are of the physical type; tunnels, VLANs and the failure of a     *)
(* datapath request are left out.                                          *)
(***************************************************************************)
EXTENDS Maps

CONSTANTS
    Link,      \* interfaces
    Hop,       \* keys of neighbours: address and link
    Mac,       \* hardware addresses
    Zero,      \* 00:00:00:00:00:00
    RouteReq,  \* routes the kernel announces: dst, gws, and IfRoute
    IfaReq,    \* addresses of interfaces: dev, addr, and net ("/32" if none)
    Vip,       \* addresses that can be virtual IPs of rules
    MaxNeigh,  \* marks of the counter NeighID
    Plans      \* bounds of a behaviour: kinds of calls and their number

Host(a) == <<"host", a>>
Net(n)  == <<"net", n>>
IsHost(d) == d[1] = "host"
RuleDev(a) == <<"llb-rule", a>>

Addr(h) == h[1]
LinkOf(h) == h[2]

ASSUME NetAssumption ==
    /\ \A h \in Hop : LinkOf(h) \in Link
    /\ \A r \in RouteReq : Range(r.gws) \subseteq Hop
    /\ MaxNeigh \in Nat
    /\ Zero \notin Mac

VARIABLES
    ports,     \* link -> its Port object, numbered, or 0
    portGen,   \* Port objects so far
    NeighMap,  \* neighbours
    RtMap,     \* routes
    trie,      \* prefixes in Trie4
    FdbMap,    \* layer 2 entries of neighbours -> hCnt
    IfaMap,    \* interface -> its addresses
    vipMap,    \* virtual IPs of rules
    freeID,    \* marks NeighID can give, in their order
    dpNh,      \* datapath: mark -> hardware address of the next hop
    dpRt,      \* datapath: prefix -> marks of its next hops
    tick,      \* parity of the runs of the ticker
    plan,      \* kinds of calls of this behaviour
    ops        \* calls left

tables == <<NeighMap, RtMap, trie, FdbMap, freeID, dpNh, dpRt>>
netVars == <<tables, ports, portGen, IfaMap, vipMap, tick, plan, ops>>

Now == [nm |-> NeighMap, rm |-> RtMap, trie |-> trie, fdb |-> FdbMap,
        free |-> freeID, dpn |-> dpNh, dpr |-> dpRt]
Become(new) == \E s \in {new} :
    /\ NeighMap' = s.nm /\ RtMap' = s.rm /\ trie' = s.trie /\ FdbMap' = s.fdb
    /\ freeID' = s.free /\ dpNh' = s.dpn /\ dpRt' = s.dpr

Op(kind) == kind \in plan /\ ops > 0 /\ ops' = ops - 1 /\ UNCHANGED <<tick, plan>>

NetInit ==
    /\ ports = [l \in Link |-> 0] /\ portGen = 0
    /\ NeighMap = NoMap /\ RtMap = NoMap /\ trie = {} /\ FdbMap = NoMap
    /\ IfaMap = NoMap /\ vipMap = {} /\ tick = 0
    /\ freeID = NewCounter(MaxNeigh) /\ dpNh = NoMap /\ dpRt = NoMap
    /\ \E p \in Plans : plan = p.kinds /\ ops = p.ops

-----------------------------------------------------------------------------
(* Layer 2 entries: one per hardware address and bridge domain, which is   *)
(* the Port object here, with a count of further users.                    *)

L2FdbAddOnce(s, k) == IF k \in DOMAIN s.fdb THEN s ELSE [s EXCEPT !.fdb = With(@, k, 0)]
L2FdbAdd(s, k) ==
    [s EXCEPT !.fdb = IF k \in DOMAIN @ THEN [@ EXCEPT ![k] = @ + 1] ELSE With(@, k, 0)]

L2FdbDelDown(s, k) ==
    IF k \notin DOMAIN s.fdb THEN s
    ELSE [s EXCEPT !.fdb = IF @[k] # 0 THEN Without(@, {k}) ELSE [@ EXCEPT ![k] = @ - 1]]
L2FdbDel(s, k) ==
    IF k \notin DOMAIN s.fdb THEN s
    ELSE [s EXCEPT !.fdb = IF @[k] > 0 THEN [@ EXCEPT ![k] = @ - 1] ELSE Without(@, {k})]

\* FdbsTicker: an entry on a port that is gone loses a user.
FdbTicker(s, k) == IF k[2] \in Range(ports) THEN s ELSE L2FdbDel(s, k)

-----------------------------------------------------------------------------
(* Neighbours and routes                                                   *)

NeighFind(s, h) == h \in DOMAIN s.nm /\ ~s.nm[h].Inactive

\* An entry for a link without a port: remembered for the ticker.
DummyNeigh(mac) ==
    [Dummy |-> TRUE, Inactive |-> TRUE, Resolved |-> FALSE, mac |-> mac,
     Mark |-> 0, OifPort |-> 0, NhRtm |-> {}]

\* NeighRecursiveResolve, where there are no tunnels.
NeighRecursiveResolve(e) ==
    IF e.OifPort = 0 THEN e ELSE [e EXCEPT !.Resolved = e.mac # Zero]

\* DP of a neighbour.
NeighDPOnce(s, h) ==
    IF s.nm[h].Dummy \/ s.nm[h].Mark \in DOMAIN s.dpn THEN s
    ELSE [s EXCEPT !.dpn = With(@, s.nm[h].Mark, s.nm[h].mac)]
NeighDP(s, h) ==
    IF s.nm[h].Dummy THEN s
    ELSE [s EXCEPT !.dpn = With(@, s.nm[h].Mark, s.nm[h].mac)]
NeighUnDP(s, h) ==
    IF s.nm[h].Dummy THEN s ELSE [s EXCEPT !.dpn = Without(@, {s.nm[h].Mark})]

Deactivated(e) == [e EXCEPT !.Resolved = FALSE, !.Inactive = TRUE, !.mac = Zero]

RECURSIVE RtAdd(_, _, _, _, _), RtHops(_, _, _, _, _, _), NeighAdd(_, _, _),
          NeighDelete(_, _), rtDeleteCommon(_, _, _), NeighUnPairRt(_, _, _)

\* The next hops of the new route d from the i-th on: those that are missing
\* are added, unresolved.  A route that lacks one is taken back, but not the
\* neighbours added for it.
RtHops(s, d, host, ifr, gws, i) ==
    IF i > Len(gws) THEN [s |-> s, err |-> ""]
    ELSE LET t == IF NeighFind(s, gws[i]) \/ (host /\ ~ifr) THEN s
                  ELSE NeighAdd(s, gws[i], Zero)
         IN IF ~NeighFind(t, gws[i])
            THEN [s |-> [t EXCEPT !.rm = Without(@, {d})], err |-> "nh"]
            ELSE RtHops([t EXCEPT !.rm[d].NextHops = Append(@, gws[i])],
                        d, host, ifr, gws, i + 1)

\* The end of RtAdd, for a new route with its next hops.
RtPaired(r, d, gws) ==
    IF r.err # "" THEN r
    ELSE [r EXCEPT
            !.s.nm = [h \in DOMAIN @ |-> IF h \in Range(gws)
                        THEN [@[h] EXCEPT !.NhRtm = @ \cup {d}] ELSE @[h]],
            !.s.trie = IF IsHost(d) /\ d[2] \in vipMap THEN @ ELSE @ \cup {d},
            !.s.dpr = With(@, d, [i \in DOMAIN gws |-> r.s.nm[gws[i]].Mark])]

\* RtAdd.  An existing route with other next hops is replaced; one with the
\* same can become host and interface route at once.
RtAdd(s, d, host, ifr, gws) ==
    IF d \in DOMAIN s.rm
    THEN LET rt == s.rm[d]
             same == /\ Len(rt.NhAttr) = Len(gws)
                     /\ \A i \in DOMAIN gws : Addr(gws[i]) = Addr(rt.NhAttr[i])
         IN IF ~same THEN RtAdd(rtDeleteCommon(s, d, FALSE), d, host, ifr, gws)
            ELSE IF ~rt.IfRoute /\ ifr /\ rt.HostRoute
            THEN [s |-> [s EXCEPT !.rm[d].IfRoute = TRUE], err |-> ""]
            ELSE IF ~rt.HostRoute /\ host /\ rt.IfRoute
            THEN [s |-> [s EXCEPT !.rm[d].HostRoute = TRUE], err |-> ""]
            ELSE [s |-> s, err |-> "exists"]
    ELSE LET new == [NhAttr |-> gws, NextHops |-> <<>>, HostRoute |-> host, IfRoute |-> ifr]
         IN RtPaired(RtHops([s EXCEPT !.rm = With(@, d, new)], d, host, ifr, gws, 1), d, gws)

\* NeighUnPairRt: a neighbour that was only kept for this route goes with it.
NeighUnPairRt(s, h, d) ==
    IF h \notin DOMAIN s.nm \/ d \notin s.nm[h].NhRtm THEN s
    ELSE LET t == [s EXCEPT !.nm[h].NhRtm = @ \ {d}]
         IN IF t.nm[h].NhRtm = {} /\ t.nm[h].Inactive THEN NeighDelete(t, h) ELSE t

\* rtDeleteCommon.  A host route that is an interface route as well only loses
\* the one or the other.  A miss in the trie does not stop the rest.
rtDeleteCommon(s, d, host) ==
    IF d \notin DOMAIN s.rm \/ (host /\ ~s.rm[d].HostRoute) THEN s
    ELSE LET rt == s.rm[d]
             t == FoldLeft(LAMBDA x, h : NeighUnPairRt(x, h, d), s, rt.NextHops)
         IN IF rt.HostRoute /\ rt.IfRoute
            THEN [s EXCEPT !.rm[d] = IF host THEN [rt EXCEPT !.HostRoute = FALSE]
                                             ELSE [rt EXCEPT !.IfRoute = FALSE]]
            ELSE [t EXCEPT !.rm = Without(@, {d}), !.trie = @ \ {d}, !.dpr = Without(@, {d})]

\* NeighDelete: with routes through it the entry stays, inactive.  A dummy
\* leaves without giving a mark back.
NeighDeleteNow(s, h) ==
    IF h \notin DOMAIN s.nm THEN s
    ELSE LET d == rtDeleteCommon(s, Host(Addr(h)), TRUE)
         IN IF h \notin DOMAIN d.nm THEN d
            ELSE IF s.nm[h].Dummy THEN [s EXCEPT !.nm = Without(@, {h})]
            ELSE [NeighUnDP(d, h) EXCEPT !.nm = Without(@, {h}), 
                                         !.free = Append(@, s.nm[h].Mark)]
NeighDelete(s, h) ==
    IF h \notin DOMAIN s.nm THEN s
    ELSE LET e == s.nm[h]
             f == IF e.OifPort # 0 /\ e.Resolved
                  THEN L2FdbDel(s, <<e.mac, e.OifPort>>) ELSE s
             d == rtDeleteCommon(f, Host(Addr(h)), TRUE)
             t == NeighUnDP(d, h)
         IN IF e.Dummy
            THEN [s EXCEPT !.nm = IF e.NhRtm # {} THEN [@ EXCEPT ![h] = Deactivated(@)]
                                                  ELSE Without(@, {h})]
            ELSE IF h \notin DOMAIN d.nm THEN d
            ELSE IF t.nm[h].NhRtm # {}
            THEN [t EXCEPT !.nm[h] = Deactivated(@)]
            ELSE [t EXCEPT !.nm = Without(@, {h}), !.free = Append(@, e.Mark)]

\* The end of NeighAdd: the host route and the layer 2 entry.
NeighPaired(s, h) ==
    LET r == RtAdd(s, Host(Addr(h)), TRUE, FALSE, <<h>>)
    IN IF r.err \notin {"", "exists"} THEN NeighDelete(r.s, h)
       ELSE IF r.s.nm[h].Resolved
       THEN L2FdbAdd(r.s, <<r.s.nm[h].mac, ports[LinkOf(h)]>>)
       ELSE r.s

\* NeighAdd.
NeighAdd(s, h, mac) ==
    LET port  == ports[LinkOf(h)]
        found == h \in DOMAIN s.nm
        e     == IF found THEN s.nm[h] ELSE DummyNeigh(mac)
        mark  == IF e.Mark # 0 THEN e.Mark ELSE Head(s.free)
        up    == [e EXCEPT !.Inactive = FALSE]
        new   == NeighRecursiveResolve(
                   [up EXCEPT !.Dummy = FALSE, !.mac = mac, !.Mark = mark, !.OifPort = port])
        Put(x) == [s EXCEPT !.nm = With(@, h, x)]
    IN IF port = 0
       THEN Put(IF found THEN [e EXCEPT !.Dummy = TRUE, !.OifPort = 0] ELSE e)
       ELSE IF ~e.Dummy
       THEN IF mac = Zero THEN Put([up EXCEPT !.Resolved = FALSE])
            ELSE IF mac = e.mac /\ e.Resolved THEN Put(up)
            ELSE NeighPaired(NeighDP(Put([up EXCEPT !.mac = mac, !.Resolved = TRUE]), h), h)
       ELSE IF e.Mark = 0 /\ s.free = <<>> THEN s
       ELSE NeighPaired(NeighDP([Put(new) EXCEPT !.free = IF e.Mark = 0 THEN Tail(@) ELSE @], h), h)

\* NeighTicker, of an entry that is still there: one without a port is tried
\* again.
NeighTickerOnce(s, h) ==
    IF h \in DOMAIN s.nm THEN [s EXCEPT !.nm[h] = NeighRecursiveResolve(@)] ELSE s
NeighTicker(s, h) ==
    LET t == IF h \in DOMAIN s.nm /\ s.nm[h].Dummy THEN NeighAdd(s, h, s.nm[h].mac) ELSE s
    IN IF h \in DOMAIN t.nm THEN [t EXCEPT !.nm[h] = NeighRecursiveResolve(@)] ELSE t

-----------------------------------------------------------------------------
(* Addresses of interfaces                                                 *)

Ifas(m, dev) == IF dev \in DOMAIN m THEN m[dev] ELSE <<>>

\* The routes of an address: its subnet, and itself.
SubnetOf(ia) == IF ia.net = "/32" THEN Host(ia.addr) ELSE Net(ia.net)
SelfRoutes(ia) == IF ia.net = "/32" THEN <<SubnetOf(ia)>> ELSE <<SubnetOf(ia), Host(ia.addr)>>

\* They are added one after the other, up to the first that is refused.
SelfRtAdd(s, ia) ==
    FoldLeft(LAMBDA r, d : IF r.err # "" THEN r ELSE RtAdd(r.s, d, FALSE, FALSE, <<>>),
             [s |-> s, err |-> ""], SelfRoutes(ia)).s

\* IfaDelete, for an address dev has.
IfaDeleteSubnet(x, dev, ia) ==
    LET left == SelectSeq(x.ifa[dev], LAMBDA y : y # ia)
    IN [s   |-> rtDeleteCommon(x.s, SubnetOf(ia), FALSE),
        ifa |-> IF left = <<>> THEN Without(x.ifa, {dev}) ELSE [x.ifa EXCEPT ![dev] = left]]
IfaDelete(x, dev, ia) ==
    LET left == SelectSeq(x.ifa[dev], LAMBDA y : y # ia)
    IN [s   |-> FoldLeft(LAMBDA s, d : rtDeleteCommon(s, d, FALSE), x.s, SelfRoutes(ia)),
        ifa |-> IF left = <<>> THEN Without(x.ifa, {dev}) ELSE [x.ifa EXCEPT ![dev] = left]]

\* The list and the routes of IfaAdd.  The address is in the list before its
\* routes, and stays there when one is refused.
IfaPut(y, dev, ia) ==
    IF \E i \in DOMAIN Ifas(y.ifa, dev) : Ifas(y.ifa, dev)[i].addr = ia.addr THEN y
    ELSE [s |-> SelfRtAdd(y.s, ia), ifa |-> With(y.ifa, dev, Append(Ifas(y.ifa, dev), ia))]

\* IfaAdd.  A rule's own hold on the address ends.
IfaAdd(x, dev, ia) ==
    LET rdev == RuleDev(ia.addr)
        rule == [dev |-> rdev, addr |-> ia.addr, net |-> "/32"]
    IN IfaPut(IF dev # rdev /\ rdev \in DOMAIN x.ifa THEN IfaDelete(x, rdev, rule) ELSE x, dev, ia)

\* IfaDeleteAll walks over the slice that IfaDelete shifts, so that it misses
\* every other address but the last.
Walked(ias) == {ias[i] : i \in {j \in DOMAIN ias : j % 2 = 1 \/ j = Len(ias)}}
IfaDeleteAll(x, dev) ==
    IF dev \notin DOMAIN x.ifa THEN x
    ELSE LET y == FoldLeft(LAMBDA z, ia : IfaDelete(z, dev, ia), x,
                           SelectSeq(x.ifa[dev], LAMBDA ia : ia \in Walked(x.ifa[dev])))
         IN [y EXCEPT !.ifa = Without(@, {dev})]

-----------------------------------------------------------------------------
(* Calls and events                                                        *)

All == [s |-> Now, ifa |-> IfaMap]
AllBecome(new) == \E x \in {new} : Become(x.s) /\ IfaMap' = x.ifa

NetRouteAdd(r) ==
    /\ Op("route")
    /\ Become(RtAdd(Now, r.dst, FALSE, r.ifr, r.gws).s)
    /\ UNCHANGED <<ports, portGen, IfaMap, vipMap>>

NetRouteDel(d) ==
    /\ Op("route") /\ d \in DOMAIN RtMap
    /\ Become(rtDeleteCommon(Now, d, FALSE))
    /\ UNCHANGED <<ports, portGen, IfaMap, vipMap>>

NetNeighAdd(h, mac) ==
    /\ Op("neigh")
    /\ Become(NeighAdd(Now, h, mac))
    /\ UNCHANGED <<ports, portGen, IfaMap, vipMap>>

NetNeighDel(h) ==
    /\ Op("neigh") /\ h \in DOMAIN NeighMap
    /\ Become(NeighDelete(Now, h))
    /\ UNCHANGED <<ports, portGen, IfaMap, vipMap>>

NetAddrAdd(ia) ==
    /\ Op("addr")
    /\ AllBecome(IfaAdd(All, ia.dev, ia))
    /\ UNCHANGED <<ports, portGen, vipMap>>

NetAddrDel(ia) ==
    /\ Op("addr") /\ ia \in Range(Ifas(IfaMap, ia.dev))
    /\ AllBecome(IfaDelete(All, ia.dev, ia))
    /\ UNCHANGED <<ports, portGen, vipMap>>

\* PortAdd of a new port.
PortAdd(l) ==
    /\ Op("port") /\ ports[l] = 0
    /\ portGen' = portGen + 1
    /\ ports' = [ports EXCEPT ![l] = portGen']
    /\ UNCHANGED <<tables, IfaMap, vipMap>>

\* RtDeleteByPort and NeighDeleteByPort know the port by its name.
ViaPort(s, h, l) == h \in DOMAIN s.nm /\ s.nm[h].OifPort # 0 /\ LinkOf(h) = l

RtDeleteByPort(s, l) ==
    FoldLeft(LAMBDA x, d : rtDeleteCommon(x, d, FALSE), s,
             SetToSeq({d \in DOMAIN s.rm : /\ ~s.rm[d].HostRoute
                                           /\ \E h \in Range(s.rm[d].NextHops) : ViaPort(s, h, l)}))

NeighDeleteByPort(s, l) ==
    FoldLeft(NeighDelete, s, SetToSeq({h \in DOMAIN s.nm : ViaPort(s, h, l)}))

\* PortDel: routes, neighbours and addresses go after the port.
PortDel(l) ==
    /\ Op("port") /\ ports[l] # 0
    /\ ports' = [ports EXCEPT ![l] = 0]
    /\ LET s == NeighDeleteByPort(RtDeleteByPort(Now, l), l)
       IN AllBecome(IfaDeleteAll([s |-> s, ifa |-> IfaMap], l))
    /\ UNCHANGED <<portGen, vipMap>>

\* AddRuleVIP and AdvRuleVIP without a cluster state: the address is held for
\* the rule, unless an interface has it.
AddRuleVIP(a) ==
    /\ Op("vip") /\ a \notin vipMap
    /\ vipMap' = vipMap \cup {a}
    /\ LET local == \E dev \in DOMAIN IfaMap, ia \in IfaReq :
                       ia.addr = a /\ ia \in Range(IfaMap[dev])
           rule == [dev |-> RuleDev(a), addr |-> a, net |-> "/32"]
       IN AllBecome(IF local THEN All ELSE IfaAdd(All, RuleDev(a), rule))
    /\ UNCHANGED <<ports, portGen>>

DeleteRuleVIP(a) ==
    /\ Op("vip") /\ a \in vipMap
    /\ vipMap' = vipMap \ {a}
    /\ LET dev == RuleDev(a)
       IN AllBecome(IF dev \in DOMAIN IfaMap THEN IfaDelete(All, dev, IfaMap[dev][1]) ELSE All)
    /\ UNCHANGED <<ports, portGen>>

\* The part of ZoneTicker for layer 2 entries, then neighbours, in any order.
NetTicker ==
    /\ \E fs \in SetToSeqs(DOMAIN FdbMap), hs \in SetToSeqs(DOMAIN NeighMap) :
          Become(FoldLeft(NeighTicker, FoldLeft(FdbTicker, Now, fs), hs))
    /\ tick' = 1 - tick
    /\ UNCHANGED <<ports, portGen, IfaMap, vipMap, plan, ops>>

\* The calls that leave the ports alone.
NetCall ==
    \/ \E r \in RouteReq : NetRouteAdd(r)
    \/ \E d \in {r.dst : r \in RouteReq} : NetRouteDel(d)
    \/ \E h \in Hop, mac \in Mac \cup {Zero} : NetNeighAdd(h, mac)
    \/ \E h \in Hop : NetNeighDel(h)
    \/ \E ia \in IfaReq : NetAddrAdd(ia) \/ NetAddrDel(ia)
    \/ \E a \in Vip : AddRuleVIP(a) \/ DeleteRuleVIP(a)

-----------------------------------------------------------------------------
(* Properties                                                              *)

Prefix == {r.dst : r \in RouteReq} \cup {Host(Addr(h)) : h \in Hop}

\* Type correctness of the tables and counters.
TypeOK ==
    /\ ports \in [Link -> 0 .. portGen]
    /\ DOMAIN NeighMap \subseteq Hop
    /\ \A h \in DOMAIN NeighMap :
          NeighMap[h] \in [Dummy : BOOLEAN, Inactive : BOOLEAN, Resolved : BOOLEAN,
                           mac : Mac \cup {Zero}, Mark : 0 .. MaxNeigh,
                           OifPort : 0 .. portGen, NhRtm : SUBSET Prefix]
    /\ \A d \in DOMAIN RtMap : Range(RtMap[d].NextHops) \subseteq Hop
    /\ tick \in {0, 1}
    /\ \A k \in DOMAIN FdbMap : FdbMap[k] \in Nat /\ k \in Mac \X (1 .. portGen)
    /\ IsInjective(freeID) /\ Range(freeID) \subseteq 1 .. MaxNeigh /\ vipMap \subseteq Vip

\* A route is only given up by its neighbours when it goes itself: each of its
\* next hops is an entry of NeighMap with a mark of its own and knows of the
\* route, whatever NeighDelete, NeighUnPairRt and rtDeleteCommon did to each
\* other's tables.  Conversely a neighbour is only kept for routes that exist
\* and use it, so that it goes with the last of them.
PairsMatch ==
    /\ \A d \in DOMAIN RtMap : \A h \in Range(RtMap[d].NextHops) :
          /\ h \in DOMAIN NeighMap /\ d \in NeighMap[h].NhRtm
          /\ NeighMap[h].Mark \notin Range(freeID) \cup {0}
          /\ \A g \in DOMAIN NeighMap \ {h} : NeighMap[g].Mark # NeighMap[h].Mark
    /\ \A h \in DOMAIN NeighMap : \A d \in NeighMap[h].NhRtm :
          d \in DOMAIN RtMap /\ h \in Range(RtMap[d].NextHops)

\* The datapath routes by marks it was given when the route was added: they
\* are still those of the next hops, and a resolved neighbour is known under
\* its mark with its present hardware address.  And "it leaves stale trie
\* entries behind" is not so: a prefix of the trie is a route, and a route is in
\* the trie unless its address was a virtual IP (rtDeleteCommon).
CopiesRight ==
    /\ DOMAIN dpRt = DOMAIN RtMap
    /\ \A d \in DOMAIN RtMap :
          dpRt[d] = [i \in DOMAIN RtMap[d].NextHops |-> NeighMap[RtMap[d].NextHops[i]].Mark]
    /\ \A h \in DOMAIN NeighMap : LET e == NeighMap[h] IN
          ~e.Inactive /\ e.Resolved => e.Mark \in DOMAIN dpNh /\ dpNh[e.Mark] = e.mac
    /\ \A m \in DOMAIN dpNh : \E h \in DOMAIN NeighMap : NeighMap[h].Mark = m
    /\ trie \subseteq DOMAIN RtMap
    /\ \A d \in DOMAIN RtMap \ trie : IsHost(d) /\ d[2] \in Vip

\* The layer 2 entry of a hardware address outlives every resolved neighbour
\* that was added with it on the port that is there.
FdbHeld ==
    \A m \in Mac, l \in Link :
        LET users == {h \in DOMAIN NeighMap : /\ LinkOf(h) = l /\ NeighMap[h].Resolved
                                              /\ ports[l] # 0 /\ NeighMap[h].mac = m}
        IN users # {} => /\ <<m, ports[l]>> \in DOMAIN FdbMap
                         /\ FdbMap[<<m, ports[l]>>] + 1 >= Cardinality(users)

\* No interface route outlives the addresses of its interface: IfaDelete,
\* IfaDeleteAll and PortDel leave none behind.
SelfBacked ==
    \A d \in DOMAIN RtMap : RtMap[d].NhAttr = <<>> =>
        \E dev \in DOMAIN IfaMap : \E ia \in Range(IfaMap[dev]) : d \in Range(SelfRoutes(ia))

\* Neighbours that came before their port are in place, and the layer 2 entries
\* of ports that are gone have gone too.
NetSettled ==
    /\ \A h \in DOMAIN NeighMap :
          NeighMap[h].Dummy => ports[LinkOf(h)] = 0 \/ freeID = <<>>
    /\ \A k \in DOMAIN FdbMap : k[2] \in Range(ports)

=============================================================================

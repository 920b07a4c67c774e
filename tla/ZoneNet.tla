------------------------------ MODULE ZoneNet ------------------------------
(***************************************************************************)
(* A zone: its layer 2 and layer 3 tables (L3Net), its policers and mirrors *)
(* (PortAttach) and its firewall (FwTable) over the same ports, and its     *)
(* user sessions (UserSess), with the ticker of zones.go for all of them.   *)
(***************************************************************************)
EXTENDS L3Net, PortAttach, FwTable, UserSess

vars == <<netVars, attVars, fwVars, sessVars>>

Init == NetInit /\ AttInit /\ FwInit /\ SessInit

Up == {l \in Link : ports[l] # 0}

\* Policer and mirror calls.
AttCall ==
    /\ Op("attach")
    /\ \/ \E r \in AttReq : AttAdd(Up, r)
       \/ \E r \in AttReq : AttDel(Up, <<r.kind, r.name>>)
    /\ UNCHANGED <<tables, ports, portGen, IfaMap, vipMap, fwVars, sessVars>>

\* Calls for firewall rules, and for load balancer rules as far as these make
\* firewall rules.  An update keeps some source only in a plan with "keep".
Keeps(q) ==
    /\ q.num \in DOMAIN srcList
    /\ \E c \in Range(q.srcs) : c[1] \in Range(srcList[q.num])

FwCall ==
    /\ \/ \E r \in FwReq : Op("fw") /\ NetFwRuleAdd(ports, r)
       \/ \E r \in FwReq : Op("fw") /\ NetFwRuleDel(ports, r)
       \/ \E q \in LbReq : Op("lb") /\ AddLbRule(ports, q)
       \/ \E q \in LbReq, chg \in BOOLEAN :
             /\ Op("lb") /\ (Keeps(q) => "keep" \in plan)
             /\ UpdateLbRule(ports, q, chg)
       \/ \E q \in LbReq : Op("lb") /\ DeleteLbRule(ports, q)
    /\ UNCHANGED <<tables, ports, portGen, IfaMap, vipMap, attVars, sessVars>>

\* Calls for sessions.
SessCall ==
    /\ Op("sess")
    /\ \/ \E r \in SessReq : NetSessionAdd(r) \/ NetSessionDel(r.user)
       \/ \E r \in ClsReq : NetSessionUlClAdd(r) \/ NetSessionUlClDel(r)
    /\ UNCHANGED <<tables, ports, portGen, IfaMap, vipMap, attVars, fwVars>>

\* ZoneTicker, one run under mh.mtx; of sessions it only reads counters.
ZoneTicker == NetTicker /\ RulesSync(ports) /\ AttTickers(Up) /\ UNCHANGED sessVars

Next ==
    \/ NetCall /\ UNCHANGED <<attVars, fwVars, sessVars>>
    \/ AttCall
    \/ FwCall
    \/ SessCall
    \/ \E l \in Link : PortAdd(l) /\ UNCHANGED <<attVars, fwVars, sessVars>>
    \/ \E l \in Link : PortDel(l) /\ AttPortDel(l) /\ UNCHANGED <<fwVars, sessVars>>
    \/ ZoneTicker

Spec == Init /\ [][Next]_vars

\* The zone ticker, which is always enabled, runs again and again.
FairSpec == Spec /\ []<>(tick = 0) /\ []<>(tick = 1)

-----------------------------------------------------------------------------
(* Properties                                                              *)

\* A number on a port is that of a policer or mirror which is there and was
\* meant for this port: no call and no flap leaves traffic to a number that
\* was given back.
NumberBacked ==
    \A p \in DOMAIN portProp : portProp[p] # 0 =>
        /\ p[2] \in Up
        /\ \E k \in DOMAIN attMap : /\ k[1] = p[1] /\ attMap[k].obj = p[2]
                                    /\ attMap[k].HwNum = portProp[p]

\* Nothing a port flap that the ticker misses, or two attachments of a kind to
\* one port, can have spoilt.
Calm ==
    /\ gone \cap Up = {}
    /\ \A j, k \in DOMAIN attMap :
          j # k /\ j[1] = k[1] => attMap[j].obj # attMap[k].obj

Attached ==
    \A k \in DOMAIN attMap :
        attMap[k].obj \in Up => portProp[<<k[1], attMap[k].obj>>] = attMap[k].HwNum

\* The firewall rules that name no port are in the datapath as in the table, and
\* nothing else of this kind is there, whichever calls made them or changed
\* their marks (AddFwRule, DeleteFwRule).
FwExact ==
    {<<DpTuple(ports, r.tup), DpRule(ports, r)>> :
        r \in {q \in Range(fwMap) : {q.tup.port, q.rdr} = {Wild}}}
    = {<<t, fwDp[t]>> : t \in {u \in DOMAIN fwDp : u.port = 0 /\ fwDp[u].rdr = 0}}

\* An allowed source is counted once for every place in the list of a load
\* balancer rule, over updates and failed calls too, and has its firewall rule
\* as long as it is counted (addAllowedLbSrc, deleteAllowedLbSrc).
SrcCounted ==
    LET places == UNION {{<<q, i>> : i \in DOMAIN srcList[q]} : q \in DOMAIN srcList}
        used(p) == {u \in places : srcList[u[1]][u[2]] = p}
    IN /\ DOMAIN lbSrcMap = {Written(srcList[u[1]][u[2]]) : u \in places}
       /\ \A c \in DOMAIN lbSrcMap :
             /\ lbSrcMap[c].ref = Cardinality(used(c[1]))
             /\ ruleKey(SrcFw(c[1], {}).tup) \in DOMAIN fwMap

\* While no update keeps a source, the datapath lets each load balancer rule
\* have all the sources it allows, whatever other rules with the same sources
\* come and go (the bits of lbmark).
AllowedKept ==
    "keep" \notin plan =>
        \A q \in DOMAIN srcList : \A p \in Range(srcList[q]) :
            LET t == SrcFw(p, {}).tup
            IN DpTuple(ports, t) \in DOMAIN fwDp /\ q \in fwDp[DpTuple(ports, t)].mark[2]

\* No port went while the datapath had its number.
FwCalm == \A t \in DOMAIN fwDp : {t.port, fwDp[t].rdr} \subseteq {0} \cup Range(ports)

FwPlaced ==
    \A r \in Range(fwMap) : ~Waits(ports, r) =>
        /\ DpTuple(ports, r.tup) \in DOMAIN fwDp
        /\ fwDp[DpTuple(ports, r.tup)] = DpRule(ports, r)

\* What came before its port, or outlives it, is served by the ticker once calls
\* end, in whatever order they came: neighbours and layer 2 entries (NeighTicker,
\* FdbTicker), policers and mirrors if ports and attachments were calm (Obj2DP),
\* and firewall rules if no port went under one (Fw2DP, RulesSync).
WaitersServed ==
    /\ <>[]NetSettled
    /\ []Calm => <>[]Attached
    /\ []FwCalm => <>[]FwPlaced

=============================================================================

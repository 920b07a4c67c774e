------------------------------ MODULE MCZoneNet -----------------------------
EXTENDS ZoneNet
CONSTANTS l1, l2, A, B, C, P, S, V, m1, n1, p1, p2
HopA == <<A, l1>>
HopB == <<B, l2>>
HopC == <<C, l1>>
MCHop == {HopA, HopB, HopC}
Via(d, g, i) == [dst |-> d, gws |-> g, ifr |-> i]
MCRouteReq == {Via(Net(m1), <<HopA>>, FALSE), Via(Net(m1), <<HopA, HopB>>, FALSE),
               Via(Host(A), <<HopA>>, TRUE), Via(Host(B), <<HopA>>, FALSE), Via(Net(m1), <<HopC>>, FALSE)}
Ifa(d, a, m) == [dev |-> d, addr |-> a, net |-> m]
MCIfaReq == {Ifa(l1, P, n1), Ifa(l1, S, n1), Ifa(l2, V, "/32")}
Plan(k, c) == [kinds |-> k, ops |-> c]
MCPlans == {Plan({"route", "neigh", "port"}, 7), Plan({"addr", "vip", "port"}, 7),
            Plan({"neigh", "vip", "port"}, 6), Plan({"attach", "port"}, 8),
            Plan({"fw", "port"}, 8), Plan({"fw", "lb"}, 7), Plan({"lb", "keep"}, 8), Plan({"sess"}, 7)}
Att(k, m, v, out, l) == [kind |-> k, name |-> m, rev |-> v, out |-> out, obj |-> l]
MCAttReq == {Att("pol", 1, 1, NoPort, l1), Att("pol", 2, 1, NoPort, l1),
             Att("pol", 1, 2, NoPort, l1), Att("mirr", 1, 1, l2, l1)}
MCMaxMark == [k \in Kind |-> 1]
Fw(l, sp, dp, k, rdr) ==
    [tup |-> [port |-> l, dst |-> Wild, src |-> A, sp |-> sp, dp |-> dp], mark |-> <<"fw", k>>, rdr |-> rdr, sync |-> 0]
MCFwReq == {Fw(Wild, 1, 0, 1, Wild), Fw(Wild, 0, 1, 2, Wild), Fw(Wild, 1, 2, 1, Wild),
            Fw(l1, 0, 0, 1, Wild), Fw(l1, 0, 0, 2, Wild), Fw(Wild, 0, 0, 1, l2)}
Lb(q, s, r) == [num |-> q, srcs |-> s, range |-> r]
MCLbReq == {Lb(1, <<Written(p1)>>, 1), Lb(1, <<Written(p2)>>, 1), Lb(2, <<Written(p1), Written(p2)>>, 0),
            Lb(2, <<Written(p1), Written(Bad)>>, 0), Lb(2, <<Written(p1), Written(p1)>>, 0),
            Lb(3, <<Written(p1)>>, 0), Lb(3, <<>>, 0)}

Ses(u, ip, an, cn) == [user |-> u, ip |-> ip, an |-> an, cn |-> cn]
MCSessReq == {Ses(1, A, 1, 1), Ses(1, A, 2, 1), Ses(1, A, 1, 2), Ses(1, B, 1, 1), Ses(2, C, 1, 1)}
Cls(u, a, f) == [user |-> u, addr |-> a, qfi |-> f]
MCClsReq == {Cls(1, P, 1), Cls(1, S, 1), Cls(2, P, 1)}
=============================================================================

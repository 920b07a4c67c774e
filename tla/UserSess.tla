------------------------------ MODULE UserSess ------------------------------
(***************************************************************************)
(* User sessions of a zone and their uplink classifiers (session.go of      *)
(* pkg/loxinet).  A classifier is two entries of the datapath, one for each *)
(* direction, under the addresses and tunnels of its session.               *)
(***************************************************************************)
EXTENDS Maps

CONSTANTS
    SessReq,    \* sessions: user, ip, an and cn (the tunnels, by number)
    ClsReq,     \* classifiers: user, addr, and qfi
    MaxUlCls,   \* MaximumUlCls
    NoNum       \* what GetCounter returns when it has nothing to give

ASSUME SessAssumption == MaxUlCls \in Nat /\ NoNum \notin 1 .. MaxUlCls

VARIABLES
    UserMap,    \* user -> session, with its classifiers by address
    sessMark,   \* numbers the counter Mark can give, in their order
    sessDp      \* datapath: addresses and tunnel -> number, qfi and tunnel to add

sessVars == <<UserMap, sessMark, sessDp>>

SessInit == UserMap = NoMap /\ sessMark = NewCounter(MaxUlCls) /\ sessDp = NoMap

Sess == [users |-> UserMap, free |-> sessMark, dp |-> sessDp]
SessBecome(new) == \E u \in {new} :
    UserMap' = u.users /\ sessMark' = u.free /\ sessDp' = u.dp

\* The entries DP makes or removes for the classifier of address a: uplink, from
\* the tunnel to the core, and downlink, into the tunnel to the access network.
UlKey(us, a) == [daddr |-> a, saddr |-> us.ip, teid |-> us.cn]
DlKey(us, a) == [daddr |-> us.ip, saddr |-> a, teid |-> 0]
UlAct(us, c) == [num |-> c.NumUl, qfi |-> c.Qfi, tun |-> <<>>]
DlAct(us, c) == [num |-> c.NumDl, qfi |-> c.Qfi, tun |-> <<us.an, us.cn>>]
UlClDP(s, us, a, c) ==
    [s EXCEPT !.dp = With(With(@, UlKey(us, a), UlAct(us, c)), DlKey(us, a), DlAct(us, c))]

\* UlClAddCls.  The tests for exhausted numbers are those of unsigned numbers
\* for being negative.
Given(f, i) == IF i > Len(f) THEN NoNum ELSE f[i]
UlClAddCls(s, r) ==
    LET c == [Qfi |-> r.qfi, NumUl |-> Given(s.free, 1), NumDl |-> Given(s.free, 2)]
        t == [s EXCEPT !.users[r.user].UlCl = With(@, r.addr, c),
                       !.free = SubSeq(@, 3, Len(@))]
    IN IF r.user \notin DOMAIN s.users \/ r.addr \in DOMAIN s.users[r.user].UlCl THEN s
       ELSE UlClDP(t, s.users[r.user], r.addr, c)

\* UlClDeleteCls, for a classifier that is there.  The number of the downlink
\* is not given back.
UlClDeleteCls(s, u, a) ==
    LET us == s.users[u]
        n  == us.UlCl[a].NumUl
    IN [s EXCEPT !.users[u].UlCl = Without(@, {a}),
                 !.free = IF n = NoNum THEN @ ELSE Append(@, n),
                 !.dp = Without(@, {UlKey(us, a), DlKey(us, a)})]

\* SessDelete, for a user that is there.
SessDelete(s, u) ==
    LET t == FoldLeft(LAMBDA x, a : UlClDeleteCls(x, u, a), s, SetToSeq(DOMAIN s.users[u].UlCl))
    IN [t EXCEPT !.users = Without(@, {u})]

\* SessAdd.  A known user is replaced when the tunnel to the access network has
\* changed, or the one to the core has not.
Fresh(r) == [ip |-> r.ip, an |-> r.an, cn |-> r.cn, UlCl |-> NoMap]
SessAddInPlace(s, r) ==
    LET had == r.user \in DOMAIN s.users
        us  == IF had THEN s.users[r.user] ELSE Fresh(r)
    IN IF had /\ us.an = r.an /\ us.cn # r.cn THEN s
       ELSE [s EXCEPT !.users = With(@, r.user, [Fresh(r) EXCEPT !.UlCl = us.UlCl])]
SessAdd(s, r) ==
    LET had == r.user \in DOMAIN s.users
        t   == IF had THEN SessDelete(s, r.user) ELSE s
    IN IF had /\ s.users[r.user].an = r.an /\ s.users[r.user].cn # r.cn THEN s
       ELSE [t EXCEPT !.users = With(@, r.user, Fresh(r))]

-----------------------------------------------------------------------------
(* Calls                                                                   *)

NetSessionAdd(r) == SessBecome(SessAdd(Sess, r))

NetSessionDel(u) == u \in DOMAIN UserMap /\ SessBecome(SessDelete(Sess, u))

NetSessionUlClAdd(r) == SessBecome(UlClAddCls(Sess, r))

NetSessionUlClDel(r) ==
    /\ r.user \in DOMAIN UserMap /\ r.addr \in DOMAIN UserMap[r.user].UlCl
    /\ SessBecome(UlClDeleteCls(Sess, r.user, r.addr))

\* The datapath has the two entries of every classifier, with its numbers and
\* the tunnels its session has now, and no others, however sessions are changed
\* under their classifiers (SessAdd, SessDelete).
SessExact ==
    LET cls == UNION {{<<u, a>> : a \in DOMAIN UserMap[u].UlCl} : u \in DOMAIN UserMap}
        of(x) == LET us == UserMap[x[1]]
                     c  == us.UlCl[x[2]]
                 IN {<<UlKey(us, x[2]), UlAct(us, c)>>, <<DlKey(us, x[2]), DlAct(us, c)>>}
    IN {<<k, sessDp[k]>> : k \in DOMAIN sessDp} = UNION {of(x) : x \in cls}

=============================================================================

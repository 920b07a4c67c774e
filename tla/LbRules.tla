------------------------------- MODULE LbRules -------------------------------
(***************************************************************************)
(* Load-balancer rules, their end-points and the health of the hosts       *)
(* behind them (pkg/loxinet/rules.go).  API calls and the rule ticker run  *)
(* under the global lock, so each is one step.  The end-point checkers run *)
(* beside them: they pick a host under epMx, but probe it and write the    *)
(* outcome without a lock.                                                 *)
(*                                                                         *)
(* A member of Ep is an address and a port.  All rules have one protocol,  *)
(* so an end-point of a rule and the key of its host are the same value.   *)
(***************************************************************************)
EXTENDS Integers, Sequences, FiniteSets, Functions

CONSTANTS
    Rule,            \* keys of the LB rule table
    OneArm,          \* the rules in one-arm mode: they need a source address
    Ep,              \* end-points, numbered in the order of their addresses
    MaxLBEndPoints,  \* end-points a rule can have
    MaxEndPointCheckers,  \* checkers, each busy with one probe at a time
    InActTryThr,     \* consecutive failed probes that make a host inactive
    Oper,            \* operations on an existing rule that callers use
    Plans,           \* bounds of a behaviour: its API calls, the end-points
                     \* they name, and whether hosts fail and are probed
    MaxFaults        \* bound on refused updates, datapath failures and flaps

ASSUME LbAssumption ==
    /\ OneArm \subseteq Rule
    /\ Ep \subseteq Nat
    /\ MaxLBEndPoints \in Nat \ {0}
    /\ MaxEndPointCheckers \in Nat
    /\ InActTryThr \in Nat \ {0}
    /\ Oper \subseteq {"add", "attach", "detach"}
    /\ Plans \subseteq [calls : Nat, eps : SUBSET Ep, health : BOOLEAN]
    /\ \A p \in Plans : IsFiniteSet(p.eps)
    /\ MaxFaults \in Nat

VARIABLES
    eMap,     \* rule -> its end-points in datapath order and its flags
    epMap,    \* end-point host -> its reference count and health
    dp,       \* rule -> the end-points the datapath was last given
    probe,    \* host -> a probe a checker has in flight
    up,       \* the hosts whose service answers
    srcAddr,  \* does an interface offer a source address to one-arm rules?
    calls,    \* API calls so far
    faults,   \* faults so far
    plan      \* the bounds of this behaviour

vars == <<eMap, epMap, dp, probe, up, srcAddr, calls, faults, plan>>

Without(f, S) == Restrict(f, DOMAIN f \ S)

With(f, x, v) == [y \in DOMAIN f \cup {x} |-> IF y = x THEN v ELSE f[y]]

Eps(s) == {s[i].ep : i \in DOMAIN s}

\* The numbers in S in ascending order.
Sorted(S) ==
    CHOOSE f \in [1 .. Cardinality(S) -> S] : \A i, j \in DOMAIN f : i < j => f[i] < f[j]

\* The members of s at the positions in I, in the order of s.
Picked(s, I) == LET f == Sorted(I) IN [j \in DOMAIN f |-> s[f[j]]]

ruleLBEp == [ep : Ep, inActiveEP : BOOLEAN, noService : BOOLEAN,
             chkVal : BOOLEAN, epCreated : BOOLEAN]

\* The counter of failed probes only matters up to the threshold.
MaxTries == InActTryThr

epHost == [ruleCount : Int, probeActivated : BOOLEAN, initProberOn : BOOLEAN,
           inactive : BOOLEAN, inActTries : 0 .. MaxTries, red : BOOLEAN]

(* Type correctness of the maps, of the probes in flight and of the bounds. *)
TypeOK ==
    /\ DOMAIN eMap \subseteq Rule
    /\ \A r \in DOMAIN eMap :
          /\ eMap[r].eps \in Seq(ruleLBEp)
          /\ eMap[r].actChk \in BOOLEAN
          /\ eMap[r].addrRslv \in BOOLEAN
          /\ eMap[r].sync \in BOOLEAN
    /\ DOMAIN epMap \subseteq Ep
    /\ \A e \in DOMAIN epMap : epMap[e] \in epHost
    /\ DOMAIN dp \subseteq Rule
    /\ \A r \in DOMAIN dp : dp[r] \in Seq([ep : Ep, inActive : BOOLEAN])
    /\ DOMAIN probe \subseteq DOMAIN epMap
    /\ \A e \in DOMAIN probe :
          probe[e] \in [thr : {1, InActTryThr}, up : BOOLEAN]
    /\ up \subseteq Ep
    /\ srcAddr \in BOOLEAN
    /\ plan \in Plans
    /\ calls \in 0 .. plan.calls
    /\ faults \in 0 .. MaxFaults

NoMap == [x \in {} |-> x]

\* RulesInit: empty tables.
Init ==
    /\ eMap = NoMap
    /\ epMap = NoMap
    /\ dp = NoMap
    /\ probe = NoMap
    /\ up = Ep
    /\ srcAddr = TRUE
    /\ plan \in Plans
    /\ calls = 0
    /\ faults = 0

-----------------------------------------------------------------------------
(* End-point hosts.                                                         *)

NewHost(count, activated) ==
    [ruleCount |-> count, probeActivated |-> activated, initProberOn |-> TRUE,
     inactive |-> FALSE, inActTries |-> 0, red |-> FALSE]

\* IsEPHostActive: a host that is not in the table passes for a live one.
IsEPHostActive(e) ==
    e \in DOMAIN epMap => ~ epMap[e].red /\ ~ epMap[e].inactive

\* Mutant: the host goes with the first reference that is dropped.
ReleaseHostsFirst(hosts, eps) ==
    Without(hosts, {x.ep : x \in {y \in eps : y.epCreated}})

\* modNatEpHost to delete: each of a set of end-points that holds a reference
\* drops it, and DeleteEPHost frees the host with its last one.
ReleaseHosts(hosts, eps) ==
    LET held  == {x.ep : x \in {y \in eps : y.epCreated}}
        freed == {e \in held \cap DOMAIN hosts : hosts[e].ruleCount <= 1}
    IN  [e \in DOMAIN hosts \ freed |->
            IF e \in held THEN [hosts[e] EXCEPT !.ruleCount = @ - 1]
                          ELSE hosts[e]]

\* modNatEpHost to add: AddEPHost for each active end-point without a
\* reference.  The options of a host that exists stay as they are.
AcquireHosts(hosts, eps, activate) ==
    LET want == {x.ep : x \in {y \in Range(eps) : ~ y.inActiveEP /\ ~ y.epCreated}}
    IN  [e \in DOMAIN hosts \cup want |->
            CASE e \notin want -> hosts[e]
              [] e \in want \cap DOMAIN hosts ->
                    [hosts[e] EXCEPT !.ruleCount = @ + 1]
              [] OTHER -> NewHost(1, activate)]

\* ... and the reference is recorded, or forgotten where the end-point is out.
MarkCreated(eps) ==
    [i \in DOMAIN eps |-> [eps[i] EXCEPT !.epCreated = ~ eps[i].inActiveEP]]

activateEPHostsProbe(hosts, eps) ==
    [e \in DOMAIN hosts |->
        IF e \in Eps(eps) /\ ~ hosts[e].probeActivated
        THEN [hosts[e] EXCEPT !.probeActivated = TRUE, !.initProberOn = TRUE]
        ELSE hosts[e]]

-----------------------------------------------------------------------------
(* End-point lists.                                                         *)

NewEp(e) == [ep |-> e, inActiveEP |-> FALSE, noService |-> FALSE,
             chkVal |-> FALSE, epCreated |-> FALSE]

\* The list AddLbRule makes of the end-points it is given, sorted by address.
NewEps(S) == LET f == Sorted(S) IN [i \in DOMAIN f |-> NewEp(f[i])]

SetMark(eps, b) == [i \in DOMAIN eps |-> [eps[i] EXCEPT !.chkVal = b]]

\* getLBConsolidatedEPs, first loop: end-points of the rule that the call also
\* lists are marked, and taken back into service unless they are to be removed.
Matched(old, S, op) ==
    [i \in DOMAIN old |->
        IF old[i].ep \in S
        THEN [old[i] EXCEPT !.inActiveEP = @ /\ op = "detach", !.chkVal = TRUE]
        ELSE old[i]]

\* Mutant: new end-points are put in front of the list.
getLBConsolidatedEPsFront(old, S, op, moved) ==
    LET list == NewEps(S \ Eps(old)) \o SetMark(Matched(old, S, op), FALSE)
    IN  [chg |-> S \ Eps(old) # {}, ret |-> list, del |-> {}, left |-> old]

\* getLBConsolidatedEPs: whether the rule changes, the list it shall have, and
\* the end-points to release.  "left" is what the rule is left with should the
\* call be refused after this: the loops write to the rule's own array, except
\* that marks are cleared and end-points retired in a copy when the append of
\* new end-points had to move the array.
getLBConsolidatedEPs(old, S, op, moved) ==
    LET marked   == Matched(old, S, op)
        appended == marked \o SetMark(NewEps(S \ Eps(old)), TRUE)
        Retired(x) == op = "add" /\ ~ x.chkVal
        kept == [i \in DOMAIN appended |->
                    [appended[i] EXCEPT !.inActiveEP = @ \/ Retired(appended[i]),
                                        !.chkVal = FALSE]]
    IN  CASE op = "detach" /\ S \cap Eps(old) = {} ->
               [chg |-> FALSE, ret |-> old, del |-> {}, left |-> old]
          [] op = "detach" /\ S \cap Eps(old) # {} ->
               [chg  |-> TRUE,
                ret  |-> Picked(marked, {i \in DOMAIN marked : ~ marked[i].chkVal}),
                del  |-> {x \in Range(marked) : x.chkVal},
                left |-> SetMark(marked, FALSE)]
          [] OTHER ->
               [chg  |-> \/ S \ Eps(old) # {}
                         \/ \E i \in DOMAIN old : old[i].inActiveEP /\ old[i].ep \in S
                         \/ \E i \in DOMAIN appended : Retired(appended[i]),
                ret  |-> kept,
                del  |-> {x \in Range(marked) : ~ x.chkVal /\ ~ x.inActiveEP},
                left |-> IF moved THEN marked ELSE SubSeq(kept, 1, Len(old))]

\* Mutant: the marks of the probes stay when monitoring is turned off.
ClearNoServiceNot(eps) == eps

\* AddLbRule when monitoring is turned off: no sync will clear these marks.
ClearNoService(eps) ==
    [i \in DOMAIN eps |-> [eps[i] EXCEPT !.noService = FALSE]]

-----------------------------------------------------------------------------
(* The datapath.                                                            *)

\* LB2DP: what the datapath is given for a list of end-points.
DpView(eps) ==
    [i \in DOMAIN eps |-> [ep |-> eps[i].ep,
                           inActive |-> eps[i].inActiveEP \/ eps[i].noService]]

\* electEPSrc: one-arm rules need a source address towards their end-points.
Unresolved(r) == r \in OneArm /\ ~ srcAddr

\* Rule r gets its new value ru and is sent to the datapath, unless its
\* addresses are unresolved.  A failure is recorded in sync and the datapath
\* keeps what it has.
Program(r, ru, table) ==
    IF ru.addrRslv
    THEN /\ eMap' = With(eMap, r, ru)
         /\ dp' = table
         /\ UNCHANGED faults
    ELSE \/ /\ eMap' = With(eMap, r, [ru EXCEPT !.sync = FALSE])
            /\ dp' = With(table, r, DpView(ru.eps))
            /\ UNCHANGED faults
         \/ /\ faults < MaxFaults
            /\ eMap' = With(eMap, r, [ru EXCEPT !.sync = TRUE])
            /\ dp' = table
            /\ faults' = faults + 1

\* DP(DpRemove): skipped as well while the addresses are unresolved.
Unprogram(r) == IF eMap[r].addrRslv THEN dp ELSE Without(dp, {r})

\* Mutant: the probe of a freed host writes to whatever has its key.
LiveProbesAll(hosts) == probe

\* A probe of a host that is freed ends in an object nobody reaches.
LiveProbes(hosts) == Restrict(probe, DOMAIN probe \cap DOMAIN hosts)

Call == calls < plan.calls /\ calls' = calls + 1 /\ UNCHANGED plan

-----------------------------------------------------------------------------
(* Calls on rules.                                                          *)

\* AddLbRule for a new rule.
AddNewLbRule(r, S, mon) ==
    LET eps == NewEps(S)
    IN  /\ Call
        /\ r \notin DOMAIN eMap
        /\ epMap' = AcquireHosts(epMap, eps, r \in OneArm \/ mon)
        /\ Program(r, [eps |-> MarkCreated(eps), actChk |-> mon,
                       addrRslv |-> Unresolved(r), sync |-> FALSE], dp)
        /\ UNCHANGED <<probe, up, srcAddr>>

\* DeleteLbRule past its checks.
RemoveLbRule(r) ==
    /\ epMap' = ReleaseHosts(epMap, Range(eMap[r].eps))
    /\ probe' = LiveProbes(epMap')
    /\ eMap' = Without(eMap, {r})
    /\ dp' = Unprogram(r)
    /\ UNCHANGED <<up, srcAddr, faults>>

DeleteLbRule(r) ==
    /\ Call
    /\ r \in DOMAIN eMap
    /\ RemoveLbRule(r)

\* AddLbRule for an existing rule, where its list becomes c.ret.  A list that
\* would be too long makes way for the end-points of the call alone.
UpdateTo(r, S, mon, c) ==
    LET old    == eMap[r]
        reset  == Len(c.ret) > MaxLBEndPoints
        list   == IF reset THEN SetMark(NewEps(S), TRUE) ELSE c.ret
        eps    == IF ~ mon /\ old.actChk THEN ClearNoService(list) ELSE list
        left   == ReleaseHosts(epMap, IF reset THEN Range(old.eps) ELSE c.del)
        hosts  == AcquireHosts(left, eps, r \in OneArm \/ mon)
    IN  /\ epMap' = IF mon /\ ~ old.actChk THEN activateEPHostsProbe(hosts, eps)
                                           ELSE hosts
        /\ probe' = LiveProbes(left)
        /\ Program(r, [old EXCEPT !.eps = MarkCreated(eps), !.actChk = mon,
                                  !.addrRslv = Unresolved(r)],
                   IF reset THEN Unprogram(r) ELSE dp)
        /\ UNCHANGED <<up, srcAddr>>

\* AddLbRule for an existing rule: a change of its end-points or its
\* monitoring.  A rule left without end-points is deleted.
UpdateLbRule(r, S, op, mon) ==
    /\ Call
    /\ r \in DOMAIN eMap
    /\ LET c == getLBConsolidatedEPs(eMap[r].eps, S, op, FALSE)
       IN  /\ c.chg \/ mon # eMap[r].actChk
           /\ IF c.ret = << >> THEN RemoveLbRule(r) ELSE UpdateTo(r, S, mon, c)

\* AddLbRule refused once the lists are consolidated, because nothing changes or
\* because the security or egress mode would.
RefuseLbRule(r, S, op, mon, moved) ==
    /\ Call
    /\ r \in DOMAIN eMap
    /\ moved => op # "detach" /\ ~ S \subseteq Eps(eMap[r].eps)
    /\ LET c == getLBConsolidatedEPs(eMap[r].eps, S, op, moved)
       IN  /\ IF c.chg \/ mon # eMap[r].actChk
              THEN faults < MaxFaults /\ faults' = faults + 1
              ELSE UNCHANGED faults
           /\ eMap' = [eMap EXCEPT ![r].eps = c.left]
    /\ UNCHANGED <<epMap, dp, probe, up, srcAddr>>

-----------------------------------------------------------------------------
(* Calls on hosts.                                                          *)

\* AddEPHost from the API: a new host nobody refers to, or new options for one.
AddEPHost(e, on) ==
    /\ Call
    /\ epMap' = With(epMap, e,
                     IF e \in DOMAIN epMap
                     THEN [epMap[e] EXCEPT !.probeActivated = on, !.initProberOn = TRUE]
                     ELSE NewHost(0, on))
    /\ UNCHANGED <<eMap, dp, probe, up, srcAddr, faults>>

\* DeleteEPHost from the API: refused while rules refer to the host.
DeleteEPHost(e) ==
    /\ Call
    /\ e \in DOMAIN epMap
    /\ epMap[e].ruleCount <= 0
    /\ epMap' = Without(epMap, {e})
    /\ probe' = LiveProbes(epMap')
    /\ UNCHANGED <<eMap, dp, up, srcAddr, faults>>

SetEPHostState(e, red) ==
    /\ Call /\ plan.health
    /\ e \in DOMAIN epMap
    /\ epMap' = [epMap EXCEPT ![e].red = red]
    /\ UNCHANGED <<eMap, dp, probe, up, srcAddr, faults>>

-----------------------------------------------------------------------------
(* Checkers and the rule ticker.                                            *)

\* transitionEPState.
transitionEPState(h, ok, thr) ==
    IF ok THEN [h EXCEPT !.inActTries = 0, !.inactive = FALSE]
          ELSE [h EXCEPT !.inActTries = IF @ < MaxTries THEN @ + 1 ELSE @,
                         !.inactive = @ \/ h.inActTries + 1 = thr]

\* epTicker picks host e, and epCheckNow starts on it: the first probe of a host
\* has a threshold of one.  A host that is not to be probed counts as live.
ProbeStart(e) ==
    /\ e \in DOMAIN epMap \ DOMAIN probe
    /\ plan.health /\ Cardinality(DOMAIN probe) < MaxEndPointCheckers
    /\ LET h == epMap[e]
       IN  IF h.probeActivated
           THEN /\ probe' = With(probe, e,
                              [thr |-> IF h.initProberOn THEN 1 ELSE InActTryThr,
                               up  |-> e \in up])
                /\ epMap' = [epMap EXCEPT ![e].initProberOn = FALSE]
           ELSE /\ epMap' = [epMap EXCEPT ![e].initProberOn = FALSE,
                                          ![e].inactive = FALSE,
                                          ![e].inActTries = 0]
                /\ UNCHANGED probe
    /\ UNCHANGED <<eMap, dp, up, srcAddr, calls, faults, plan>>

\* epCheckNow gets the answer, which may be as old as the probe.
ProbeDone(e) ==
    /\ e \in DOMAIN probe
    /\ \E ok \in {probe[e].up, e \in up} :
          epMap' = [epMap EXCEPT ![e] = transitionEPState(@, ok, probe[e].thr)]
    /\ probe' = Without(probe, {e})
    /\ UNCHANGED <<eMap, dp, up, srcAddr, calls, faults, plan>>

\* Mutant: an end-point that was down is not taken back into service.
syncEPHostState2RuleDown(eps) ==
    [i \in DOMAIN eps |->
        [eps[i] EXCEPT !.noService = @ \/ ~ IsEPHostActive(eps[i].ep)]]

\* syncEPHostState2Rule.
syncEPHostState2Rule(eps) ==
    [i \in DOMAIN eps |-> [eps[i] EXCEPT !.noService = ~ IsEPHostActive(eps[i].ep)]]

\* RulesSync: source addresses are elected again, the health of the hosts is
\* copied to the monitored rules, and rules that changed, or whose last transfer
\* failed, are sent to the datapath.  The transfer of the rules in "bad" fails.
RulesSync(bad) ==
    LET Synced(r) ==
            [eMap[r] EXCEPT !.addrRslv = Unresolved(r),
                            !.eps = IF eMap[r].actChk
                                    THEN syncEPHostState2Rule(@) ELSE @]
        sent == {r \in DOMAIN eMap :
                    /\ ~ Unresolved(r)
                    /\ eMap[r].sync \/ Synced(r) # eMap[r]}
    IN  /\ bad \subseteq sent
        /\ faults + Cardinality(bad) <= MaxFaults
        /\ faults' = faults + Cardinality(bad)
        /\ eMap' = [r \in DOMAIN eMap |->
                        IF r \in sent THEN [Synced(r) EXCEPT !.sync = r \in bad]
                                      ELSE Synced(r)]
        /\ dp' = [r \in DOMAIN dp \cup (sent \ bad) |->
                        IF r \in sent \ bad THEN DpView(Synced(r).eps) ELSE dp[r]]
        /\ UNCHANGED <<epMap, probe, up, srcAddr, calls, plan>>

-----------------------------------------------------------------------------
(* The environment.                                                         *)

Flap(e) ==
    /\ plan.health /\ faults < MaxFaults
    /\ faults' = faults + 1
    /\ up' = IF e \in up THEN up \ {e} ELSE up \cup {e}
    /\ UNCHANGED <<eMap, epMap, dp, probe, srcAddr, calls, plan>>

AddrFlap ==
    /\ OneArm # {}
    /\ faults < MaxFaults
    /\ faults' = faults + 1
    /\ srcAddr' = ~ srcAddr
    /\ UNCHANGED <<eMap, epMap, dp, probe, up, calls, plan>>

\* Lists a call may carry.
EpList == {S \in SUBSET plan.eps : S # {} /\ Cardinality(S) <= MaxLBEndPoints}

Next ==
    \/ \E r \in Rule, S \in EpList, mon \in BOOLEAN : AddNewLbRule(r, S, mon)
    \/ \E r \in Rule : DeleteLbRule(r)
    \/ \E r \in Rule, S \in EpList, op \in Oper, mon \in BOOLEAN :
          UpdateLbRule(r, S, op, mon)
    \/ \E r \in Rule, S \in EpList, op \in Oper, mon \in BOOLEAN, moved \in BOOLEAN :
          RefuseLbRule(r, S, op, mon, moved)
    \/ \E e \in plan.eps, on \in BOOLEAN : AddEPHost(e, on)
    \/ \E e \in Ep : DeleteEPHost(e)
    \/ \E e \in Ep, red \in BOOLEAN : SetEPHostState(e, red)
    \/ \E e \in Ep : ProbeStart(e)
    \/ \E e \in Ep : ProbeDone(e)
    \/ \E bad \in SUBSET DOMAIN eMap : RulesSync(bad)
    \/ \E e \in plan.eps : Flap(e)
    \/ AddrFlap

Spec == Init /\ [][Next]_vars

\* The four checkers tick every two seconds and the zone ticker every ten; no
\* one else can stop them.
Fairness ==
    /\ \A e \in Ep : SF_vars(ProbeStart(e)) /\ WF_vars(ProbeDone(e))
    /\ WF_vars(RulesSync({}))

FairSpec == Spec /\ Fairness

-----------------------------------------------------------------------------
(* Properties.                                                              *)

\* The rules whose end-point e holds a reference to the host of e.
Holders(e) ==
    {r \in DOMAIN eMap :
        \E x \in Range(eMap[r].eps) : x.ep = e /\ x.epCreated /\ ~ x.inActiveEP}

(* A host lives as long as an active end-point of a rule refers to it: it    *)
(* counts every such reference, whatever other rules, API calls, resets of   *)
(* too long lists and refused updates did with theirs.                       *)
HostsCounted ==
    \A e \in Ep :
        Holders(e) # {} => /\ e \in DOMAIN epMap
                           /\ epMap[e].ruleCount >= Cardinality(Holders(e))

(* An end-point of a rule that is not monitored (any more) is not kept out   *)
(* of rotation by an old probe: RulesSync would never put it back.           *)
UnmonitoredInService ==
    \A r \in DOMAIN eMap :
        ~ eMap[r].actChk => \A x \in Range(eMap[r].eps) : ~ x.noService

(* The datapath counts sessions and statistics per position, so an update    *)
(* keeps the end-points a rule had in their order and in front of the new    *)
(* ones, unless the list would be too long.                                  *)
OrderKept ==
    [][\A r \in DOMAIN eMap \cap DOMAIN eMap' :
          LET old == eMap[r].eps
              new == eMap'[r].eps
          IN  \/ \A m, n \in DOMAIN new, j \in DOMAIN old :
                    m < n /\ new[n].ep = old[j].ep =>
                        \E i \in DOMAIN old : i < j /\ new[m].ep = old[i].ep
              \/ Cardinality(Eps(old) \cup Eps(new)) > MaxLBEndPoints]_vars

\* The API re-armed the first probe after a failure that did not count yet:
\* the count passes the threshold of one and later the one of the host without
\* meeting either, and transitionEPState no longer looks at it.
Overrun(h) == ~ h.inactive /\ h.inActTries >= InActTryThr

(* A monitored end-point that is probed and in service ends up in the        *)
(* datapath as live exactly if its service answers and no operator took it   *)
(* out, once calls and failures stop.  Hosts whose failure count overran the *)
(* threshold are left out: they stay live for as long as they are down.      *)
(* So are end-points that a refused update took back (no epCreated): nobody  *)
(* tells the datapath.                                                       *)
DpFollowsHealth ==
    <>[](\A r \in DOMAIN eMap \cap DOMAIN dp : \A x \in Range(eMap[r].eps) :
            /\ eMap[r].actChk
            /\ ~ eMap[r].addrRslv
            /\ ~ x.inActiveEP /\ x.epCreated
            /\ x.ep \in DOMAIN epMap
            /\ epMap[x.ep].probeActivated
            /\ ~ Overrun(epMap[x.ep])
            => \E y \in Range(dp[r]) :
                  /\ y.ep = x.ep
                  /\ y.inActive = (x.ep \notin up \/ epMap[x.ep].red))

=============================================================================

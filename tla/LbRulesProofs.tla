--------------------------- MODULE LbRulesProofs ---------------------------
(***************************************************************************)
(* Proofs about LbRules, for any rules, end-points, limits and calls: the  *)
(* types, that a rule without monitoring stays in service, the order of    *)
(* its end-points, and the reference counts of the hosts.  The lemmas      *)
(* named Facts put each call in the terms of LbListProofs, and the         *)
(* invariants (LbInv, HeldInv) follow from them.                           *)
(***************************************************************************)
EXTENDS LbListProofs

(* Rules.                                                                   *)

ruleEnt == [eps : Seq(ruleLBEp), actChk : BOOLEAN, addrRslv : BOOLEAN, sync : BOOLEAN]

\* A rule that is not monitored has no end-point out of service.
RuleOK(ru) ==
  /\ ru \in ruleEnt /\ ListOK(ru.eps)
  /\ ~ ru.actChk => \A i \in 1 .. Len(ru.eps) : ~ ru.eps[i].noService

DpOK(t) == DOMAIN t \subseteq Rule /\ \A r \in DOMAIN t : t[r] \in Seq([ep : Ep, inActive : BOOLEAN])

\* LB2DP.
LEMMA DpViewLemma ==
  ASSUME NEW s \in Seq(ruleLBEp)
  PROVE  DpView(s) \in Seq([ep : Ep, inActive : BOOLEAN])
<1> DEFINE T == [ep : Ep, inActive : BOOLEAN]
           v == DpView(s)
<1>1. DOMAIN s = 1 .. Len(s) /\ Len(s) \in Nat
  OBVIOUS
<1>2. \A i \in 1 .. Len(s) : s[i] \in ruleLBEp
  OBVIOUS
<1>3. v = [i \in 1 .. Len(s) |-> [ep |-> s[i].ep, inActive |-> s[i].inActiveEP \/ s[i].noService]]
  BY <1>1 DEF DpView
<1>4. ASSUME NEW i \in 1 .. Len(s) PROVE v[i] \in T
  <2> DEFINE b == s[i].inActiveEP \/ s[i].noService
  <2>1. b \in BOOLEAN /\ s[i].ep \in Ep
    BY <1>2 DEF ruleLBEp
  <2>2. v[i] = [ep |-> s[i].ep, inActive |-> b]
    BY <1>3
  <2> HIDE DEF b, v
  <2> QED BY <2>1, <2>2
<1>5. v \in [1 .. Len(s) -> T]
  BY <1>3, <1>4
<1> HIDE DEF v, T
<1>6. v \in Seq(T)
  BY <1>1, <1>5
<1> QED BY <1>6 DEF v, T

\* The step gives rule r the list s and leaves the others alone.
Replaces(r, s, act) ==
  /\ DOMAIN eMap' = DOMAIN eMap \cup {r}
  /\ \A q \in DOMAIN eMap \ {r} : eMap'[q] = eMap[q]
  /\ eMap'[r] \in ruleEnt /\ eMap'[r].eps = s /\ eMap'[r].actChk = act

\* What Program does, whether the transfer succeeds, fails or has to wait.
LEMMA ProgramLemma ==
  ASSUME NEW r \in Rule, NEW ru \in ruleEnt, NEW table, DpOK(table), faults \in 0 .. MaxFaults,
         Program(r, ru, table)
  PROVE  Replaces(r, ru.eps, ru.actChk) /\ DpOK(dp') /\ faults' \in 0 .. MaxFaults
<1>1. MaxFaults \in Nat
  BY LbAssumption
<1>2. PICK b \in BOOLEAN : eMap' = With(eMap, r, [ru EXCEPT !.sync = b])
  <2>1. ru = [ru EXCEPT !.sync = ru.sync] /\ ru.sync \in BOOLEAN
    BY DEF ruleEnt
  <2> QED BY <2>1 DEF Program
<1>3. dp' = table \/ dp' = With(table, r, DpView(ru.eps))
  BY DEF Program
<1>4. faults' \in 0 .. MaxFaults
  BY <1>1 DEF Program
<1>5. DpOK(dp')
  <2>1. DpView(ru.eps) \in Seq([ep : Ep, inActive : BOOLEAN])
    BY DpViewLemma DEF ruleEnt
  <2> QED BY <1>3, <2>1 DEF DpOK, With
<1>6. Replaces(r, ru.eps, ru.actChk)
  <2> DEFINE v == [ru EXCEPT !.sync = b]
  <2>1. v \in ruleEnt /\ v.eps = ru.eps /\ v.actChk = ru.actChk
    BY DEF ruleEnt
  <2> HIDE DEF v
  <2>2. eMap' = [q \in DOMAIN eMap \cup {r} |-> IF q = r THEN v ELSE eMap[q]]
    BY <1>2 DEF With, v
  <2> QED BY <2>1, <2>2 DEF Replaces
<1> QED BY <1>4, <1>5, <1>6

\* The list UpdateTo makes of c, before references are taken, and what it releases.
UpdEps(old, S, mon, c) ==
  LET list == IF Len(c.ret) > MaxLBEndPoints THEN SetMark(NewEps(S), TRUE) ELSE c.ret
  IN  IF ~ mon /\ old.actChk THEN ClearNoService(list) ELSE list
UpdDel(old, c) == IF Len(c.ret) > MaxLBEndPoints THEN Range(old.eps) ELSE c.del

\* The list s of a rule after an update: the end-points of the call alone, or those of c.
Updated(s, old, S, mon, c) ==
  /\ ListOK(s)
  /\ Len(c.ret) > MaxLBEndPoints => Eps(s) = S
  /\ ~ mon => \A i \in 1 .. Len(s) : ~ s[i].noService
  /\ Len(c.ret) <= MaxLBEndPoints => Len(s) = Len(c.ret)
  /\ Len(c.ret) <= MaxLBEndPoints =>
       \A i \in 1 .. Len(s) : s[i].ep = c.ret[i].ep /\ s[i].inActiveEP = c.ret[i].inActiveEP
  /\ \A i \in 1 .. Len(s) : s[i].epCreated =>
       /\ Len(c.ret) <= MaxLBEndPoints
       /\ \E j \in 1 .. Len(old.eps) : s[i].ep = old.eps[j].ep /\ old.eps[j].epCreated

\* UpdateTo makes such a list.
LEMMA UpdEpsLemma ==
  ASSUME NEW old, RuleOK(old), NEW S \in SUBSET Ep, IsFiniteSet(S), NEW op, NEW mon \in BOOLEAN,
         NEW c, Outcome(c, old.eps, S, op), NEW s, s = UpdEps(old, S, mon, c)
  PROVE  Updated(s, old, S, mon, c)
<1> DEFINE reset == Len(c.ret) > MaxLBEndPoints
           list == IF reset THEN SetMark(NewEps(S), TRUE) ELSE c.ret
<1>1. Len(c.ret) \in Nat /\ MaxLBEndPoints \in Nat
  BY LbAssumption DEF Outcome, ListOK
<1>2. /\ ListOK(list)
      /\ \A n \in 1 .. Len(list) :
           \/ ~ reset /\ \E i \in 1 .. Len(old.eps) : Same(list[n], old.eps[i])
           \/ ~ list[n].epCreated /\ ~ list[n].noService
  <2>1. CASE reset
    <3> DEFINE N == NewEps(S)
    <3>1. ListOK(N) /\ \A i \in 1 .. Len(N) : N[i].ep \in S /\ N[i] = NewEp(N[i].ep)
      BY NewEpsLemma
    <3>2. \A i \in 1 .. Len(N) : N[i].epCreated = FALSE /\ N[i].noService = FALSE
      <4>1. \A e : NewEp(e).epCreated = FALSE /\ NewEp(e).noService = FALSE
        BY DEF NewEp
      <4> HIDE DEF N
      <4> QED BY <3>1, <4>1
    <3> HIDE DEF N
    <3>3. Rewritten(SetMark(N, TRUE), N)
      BY <3>1, SetMarkLemma
    <3>4. list = SetMark(N, TRUE)
      BY <2>1 DEF N
    <3>5. ListOK(list) /\ Len(list) = Len(N)
      BY <3>1, <3>3, <3>4, RewrittenLemma DEF Rewritten
    <3> HIDE DEF list
    <3>6. \A n \in 1 .. Len(list) : ~ list[n].epCreated /\ ~ list[n].noService
      BY <3>2, <3>3, <3>4, <3>5 DEF Rewritten, Same
    <3> QED BY <3>5, <3>6
  <2>2. CASE ~ reset
    BY <2>2 DEF Outcome
  <2> QED BY <2>1, <2>2
<1>3. reset => Eps(list) = S
  <2> SUFFICES ASSUME reset PROVE Eps(list) = S
    OBVIOUS
  <2> DEFINE N == NewEps(S)
  <2>1. /\ ListOK(N) /\ \A i \in 1 .. Len(N) : N[i].ep \in S
        /\ \A e \in S : \E i \in 1 .. Len(N) : N[i].ep = e
    BY NewEpsLemma
  <2> HIDE DEF N
  <2>2. Rewritten(list, N)
    BY <2>1, SetMarkLemma DEF N
  <2> HIDE DEF list
  <2>3. DOMAIN list = 1 .. Len(N) /\ \A i \in 1 .. Len(N) : list[i].ep = N[i].ep
    <3>1. list \in Seq(ruleLBEp) /\ Len(list) = Len(N)
      BY <2>2 DEF Rewritten
    <3>2. DOMAIN list = 1 .. Len(N)
      BY <3>1
    <3> QED BY <2>2, <3>2 DEF Rewritten, Same
  <2> QED BY <2>1, <2>3 DEF Eps
<1>4. s = IF ~ mon /\ old.actChk THEN ClearNoService(list) ELSE list
  BY DEF UpdEps
<1>5. ~ reset => list = c.ret
  OBVIOUS
<1> HIDE DEF list
<1>6. /\ ListOK(s) /\ Len(s) = Len(list)
      /\ \A i \in 1 .. Len(list) :
           /\ s[i].ep = list[i].ep /\ s[i].epCreated = list[i].epCreated
           /\ s[i].inActiveEP = list[i].inActiveEP
           /\ s[i].noService => list[i].noService /\ (mon \/ ~ old.actChk)
  <2>1. CASE ~ mon /\ old.actChk
    <3> DEFINE b == [i \in 1 .. Len(list) |-> FALSE]
    <3>1. s = [i \in DOMAIN list |-> [list[i] EXCEPT !.noService = b[i]]]
      <4>1. DOMAIN list = 1 .. Len(list)
        BY <1>2 DEF ListOK
      <4> QED BY <1>4, <2>1, <4>1 DEF ClearNoService
    <3>2. b \in [1 .. Len(list) -> BOOLEAN] /\ \A i \in 1 .. Len(list) : b[i] = FALSE
      OBVIOUS
    <3> HIDE DEF b
    <3>3. Healed(s, list, b)
      BY <1>2, <3>1, <3>2, HealthLemma
    <3> QED BY <3>2, <3>3 DEF Healed
  <2>2. CASE ~ (~ mon /\ old.actChk)
    BY <1>2, <1>4, <2>2
  <2> QED BY <2>1, <2>2
<1>7. ASSUME ~ mon, NEW i \in 1 .. Len(s) PROVE ~ s[i].noService
  <2> SUFFICES ASSUME s[i].noService PROVE FALSE
    OBVIOUS
  <2>1. i \in 1 .. Len(list) /\ list[i].noService /\ ~ old.actChk
    BY <1>6, <1>7
  <2>2. PICK j \in 1 .. Len(old.eps) : Same(list[i], old.eps[j])
    BY <1>2, <2>1
  <2> QED BY <2>1, <2>2 DEF RuleOK, Same
<1>8. ASSUME NEW i \in 1 .. Len(s), s[i].epCreated
      PROVE  ~ reset /\ \E j \in 1 .. Len(old.eps) : s[i].ep = old.eps[j].ep /\ old.eps[j].epCreated
  <2>1. i \in 1 .. Len(list) /\ list[i].epCreated /\ s[i].ep = list[i].ep
    BY <1>6, <1>8
  <2>2. ~ reset
    BY <1>2, <2>1
  <2>3. PICK j \in 1 .. Len(old.eps) : Same(list[i], old.eps[j])
    BY <1>2, <2>1
  <2> QED BY <2>1, <2>2, <2>3 DEF Same
<1>9. reset => Eps(s) = S
  <2>1. DOMAIN s = 1 .. Len(list) /\ DOMAIN list = 1 .. Len(list)
    BY <1>2, <1>6 DEF ListOK
  <2> QED BY <1>3, <1>6, <2>1 DEF Eps
<1>10. ~ reset <=> Len(c.ret) <= MaxLBEndPoints
  BY <1>1
<1>11. ~ reset => Len(s) = Len(c.ret) /\ \A i \in 1 .. Len(s) : s[i].ep = c.ret[i].ep
                                           /\ s[i].inActiveEP = c.ret[i].inActiveEP
  BY <1>5, <1>6
<1> QED BY <1>6, <1>7, <1>8, <1>9, <1>10, <1>11 DEF Updated

\* The references an update drops and the ones the rule then has.
LEMMA UpdHasLemma ==
  ASSUME NEW old, RuleOK(old), NEW S \in SUBSET Ep, IsFiniteSet(S), NEW op, op # "attach",
         NEW mon \in BOOLEAN, NEW c, Outcome(c, old.eps, S, op), NEW e
  PROVE  /\ e \in HeldBy(UpdDel(old, c)) => Has(old.eps, e)
         /\ Has(MarkCreated(UpdEps(old, S, mon, c)), e) =>
              \/ Has(old.eps, e) /\ e \notin HeldBy(UpdDel(old, c))
              \/ e \in Wanted(UpdEps(old, S, mon, c))
<1> DEFINE s == UpdEps(old, S, mon, c)
           D == UpdDel(old, c)
<1>0. s = UpdEps(old, S, mon, c)
  OBVIOUS
<1> HIDE DEF s, D
<1>1. Updated(s, old, S, mon, c) /\ ListOK(s)
  <2>1. Updated(s, old, S, mon, c)
    BY <1>0, UpdEpsLemma
  <2> QED BY <2>1 DEF Updated
<1>2. Len(c.ret) \in Nat /\ MaxLBEndPoints \in Nat
  BY LbAssumption DEF Outcome, ListOK
<1>3. Len(c.ret) <= MaxLBEndPoints => D = c.del
  BY <1>2 DEF UpdDel, D
<1>4. D = Range(old.eps) \/ D = c.del
  BY DEF UpdDel, D
<1>5. DOMAIN old.eps = 1 .. Len(old.eps)
  BY DEF RuleOK, ListOK
<1>6. e \in HeldBy(D) => Has(old.eps, e)
  <2> SUFFICES ASSUME e \in HeldBy(D) PROVE Has(old.eps, e)
    OBVIOUS
  <2>1. PICK x \in D : x.ep = e /\ x.epCreated
    BY DEF HeldBy
  <2>2. CASE D = c.del
    BY <2>1, <2>2 DEF Outcome, Has
  <2>3. CASE D = Range(old.eps)
    <3>1. PICK i \in 1 .. Len(old.eps) : x = old.eps[i]
      BY <1>5, <2>1, <2>3 DEF Range
    <3> QED BY <2>1, <3>1 DEF Has
  <2> QED BY <1>4, <2>2, <2>3
<1>7. ASSUME Has(MarkCreated(s), e), e \notin Wanted(s)
      PROVE  Has(old.eps, e) /\ e \notin HeldBy(D)
  <2>1. /\ Len(MarkCreated(s)) = Len(s)
        /\ \A i \in 1 .. Len(s) : MarkCreated(s)[i].ep = s[i].ep
                                  /\ MarkCreated(s)[i].epCreated = ~ s[i].inActiveEP
    BY <1>1, MarkCreatedLemma
  <2>2. PICK i \in 1 .. Len(s) : s[i].ep = e /\ ~ s[i].inActiveEP
    BY <1>7, <2>1 DEF Has
  <2>3. s[i] \in Range(s)
    BY <1>1 DEF ListOK, Range
  <2>4. s[i].epCreated
    BY <1>7, <2>2, <2>3 DEF Wanted
  <2>5. PICK j \in 1 .. Len(old.eps) : s[i].ep = old.eps[j].ep /\ old.eps[j].epCreated
    BY <1>1, <2>4 DEF Updated
  <2>6. Len(c.ret) <= MaxLBEndPoints /\ i \in 1 .. Len(c.ret) /\ c.ret[i].ep = e /\ ~ c.ret[i].inActiveEP
    BY <1>1, <2>2, <2>4 DEF Updated
  <2>7. ASSUME e \in HeldBy(D) PROVE FALSE
    <3>1. PICK x \in c.del : x.ep = e
      BY <1>3, <2>6, <2>7 DEF HeldBy
    <3> QED BY <2>6, <3>1 DEF Outcome
  <2> QED BY <2>2, <2>5, <2>7 DEF Has
<1> QED BY <1>6, <1>7 DEF s, D

\* The order of the new list.
LEMMA UpdOrderLemma ==
  ASSUME NEW old, RuleOK(old), NEW S \in SUBSET Ep, IsFiniteSet(S), NEW op, NEW mon \in BOOLEAN,
         NEW c, Outcome(c, old.eps, S, op), NEW new, new = MarkCreated(UpdEps(old, S, mon, c))
  PROVE  Ordered(new, old.eps) \/ Cardinality(Eps(old.eps) \cup Eps(new)) > MaxLBEndPoints
<1> DEFINE s == UpdEps(old, S, mon, c)
<1>0. s = UpdEps(old, S, mon, c)
  OBVIOUS
<1> HIDE DEF s
<1>1. Updated(s, old, S, mon, c) /\ ListOK(s)
  <2>1. Updated(s, old, S, mon, c)
    BY <1>0, UpdEpsLemma
  <2> QED BY <2>1 DEF Updated
<1>2. ListOK(new) /\ Len(new) = Len(s) /\ \A i \in 1 .. Len(s) : new[i].ep = s[i].ep
  BY <1>1, MarkCreatedLemma DEF s
<1>3. Len(c.ret) \in Nat /\ MaxLBEndPoints \in Nat /\ ListOK(c.ret)
  BY LbAssumption DEF Outcome, ListOK
<1>4. DOMAIN new = 1 .. Len(s) /\ DOMAIN s = 1 .. Len(s) /\ DOMAIN c.ret = 1 .. Len(c.ret)
      /\ DOMAIN old.eps = 1 .. Len(old.eps) /\ Len(old.eps) \in Nat
  BY <1>1, <1>2, <1>3 DEF ListOK, RuleOK
<1>5. CASE Len(c.ret) <= MaxLBEndPoints
  <2>1. DOMAIN new = DOMAIN c.ret /\ \A i \in DOMAIN new : new[i].ep = c.ret[i].ep
    BY <1>1, <1>2, <1>4, <1>5 DEF Updated
  <2>2. Ordered(c.ret, old.eps)
    BY DEF Outcome
  <2> QED BY <2>1, <2>2 DEF Ordered
<1>6. CASE Len(c.ret) > MaxLBEndPoints
  <2> DEFINE A == Eps(old.eps) \cup S
             L == Len(c.ret)
             f == [n \in 1 .. L |-> c.ret[n].ep]
  <2>1. Eps(new) = S
    BY <1>1, <1>2, <1>4, <1>6 DEF Eps, Updated
  <2>2. IsFiniteSet(A)
    <3> DEFINE g == [i \in 1 .. Len(old.eps) |-> old.eps[i].ep]
    <3>1. IsFiniteSet(1 .. Len(old.eps))
      BY <1>4, FS_Interval
    <3>2. Eps(old.eps) = {g[i] : i \in 1 .. Len(old.eps)}
      BY <1>4 DEF Eps
    <3>3. g \in Surjection(1 .. Len(old.eps), Eps(old.eps))
      BY <3>2 DEF Surjection
    <3>4. IsFiniteSet(Eps(old.eps))
      BY <3>1, <3>3, FS_Surjection
    <3> QED BY <3>4, FS_Union
  <2>3. f \in Injection(1 .. L, A)
    <3>1. ASSUME NEW n \in 1 .. L PROVE c.ret[n].ep \in A
      <4>1. CASE c.ret[n].ep \in S
        BY <4>1
      <4>2. CASE \E i \in 1 .. Len(old.eps) : Same(c.ret[n], old.eps[i])
        <5>1. PICK i \in 1 .. Len(old.eps) : c.ret[n].ep = old.eps[i].ep
          BY <4>2 DEF Same
        <5>2. old.eps[i].ep \in Eps(old.eps)
          BY <1>4 DEF Eps
        <5> QED BY <5>1, <5>2
      <4> QED BY <4>1, <4>2 DEF Outcome
    <3>2. f \in [1 .. L -> A]
      BY <3>1
    <3>3. \A m, n \in 1 .. L : f[m] = f[n] => m = n
      BY <1>3 DEF ListOK
    <3> QED BY <3>2, <3>3 DEF Injection, IsInjective
  <2>4. L <= Cardinality(A)
    <3>1. L \in Nat
      BY <1>3
    <3> HIDE DEF L, f, A
    <3>2. IsFiniteSet(1 .. L) /\ Cardinality(1 .. L) = L
      BY <3>1, FS_Interval
    <3> QED BY <2>2, <2>3, <3>2, FS_Injection
  <2>5. Cardinality(A) \in Nat
    BY <2>2, FS_CardinalityType
  <2> HIDE DEF A, L
  <2>6. Cardinality(A) > MaxLBEndPoints
    BY <1>3, <1>6, <2>4, <2>5 DEF L
  <2> QED BY <2>1, <2>6 DEF A
<1> QED BY <1>3, <1>5, <1>6
-----------------------------------------------------------------------------
(* The type invariant, with what the rules need to keep it.                 *)

RulesOK == DOMAIN eMap \subseteq Rule /\ IsFiniteSet(DOMAIN eMap) /\ \A r \in DOMAIN eMap : RuleOK(eMap[r])

ProbesOK(p, h) ==
  DOMAIN p \subseteq DOMAIN h /\ \A e \in DOMAIN p : p[e] \in [thr : {1, InActTryThr}, up : BOOLEAN]

BoundsOK ==
  /\ up \subseteq Ep /\ srcAddr \in BOOLEAN /\ plan \in Plans
  /\ calls \in 0 .. plan.calls /\ faults \in 0 .. MaxFaults

LbInv == RulesOK /\ HostsOK(epMap) /\ DpOK(dp) /\ ProbesOK(probe, epMap) /\ BoundsOK

\* A call counts.
LEMMA CallLemma ==
  ASSUME BoundsOK, Call
  PROVE  plan' \in Plans /\ calls' \in 0 .. plan'.calls
<1>1. plan \in Plans /\ plan.calls \in Nat /\ calls \in 0 .. plan.calls
  BY LbAssumption DEF BoundsOK
<1> QED BY <1>1 DEF Call

\* The end-points of a call.
LEMMA EpListLemma ==
  ASSUME BoundsOK, NEW S \in EpList
  PROVE  S \in SUBSET Ep /\ IsFiniteSet(S)
<1>1. plan.eps \in SUBSET Ep /\ IsFiniteSet(plan.eps)
  BY LbAssumption DEF BoundsOK
<1> QED BY <1>1, FS_Subset DEF EpList

\* A rule in good order replaces one, or is added.
LEMMA ReplacesLemma ==
  ASSUME RulesOK, NEW r \in Rule, NEW s, ListOK(s), NEW act \in BOOLEAN, Replaces(r, s, act),
         ~ act => \A i \in 1 .. Len(s) : ~ s[i].noService
  PROVE  RulesOK'
<1>1. IsFiniteSet(DOMAIN eMap \cup {r})
  BY FS_AddElement DEF RulesOK
<1>2. RuleOK(eMap'[r])
  BY DEF RuleOK, Replaces
<1>3. \A q \in DOMAIN eMap' : RuleOK(eMap'[q])
  BY <1>2 DEF Replaces, RulesOK
<1> QED BY <1>1, <1>3 DEF Replaces, RulesOK

\* Probes of the hosts that are left.
LEMMA ProbesLemma ==
  ASSUME NEW h, ProbesOK(probe, epMap), NEW g, DOMAIN h \subseteq DOMAIN g
  PROVE  ProbesOK(LiveProbes(h), g)
BY DEF ProbesOK, LiveProbes, Restrict

\* AddLbRule for a new rule, in the terms of the invariants.
LEMMA AddFacts ==
  ASSUME LbInv, NEW r \in Rule, NEW S \in EpList, NEW mon \in BOOLEAN, AddNewLbRule(r, S, mon)
  PROVE  /\ Replaces(r, MarkCreated(NewEps(S)), mon) /\ r \notin DOMAIN eMap
         /\ \E act \in BOOLEAN : epMap' = AcquireHosts(epMap, NewEps(S), act)
         /\ DpOK(dp') /\ faults' \in 0 .. MaxFaults
<1>1. S \in SUBSET Ep /\ IsFiniteSet(S)
  BY EpListLemma DEF LbInv
<1> DEFINE s == MarkCreated(NewEps(S))
           u == Unresolved(r)
           ru == [eps |-> s, actChk |-> mon, addrRslv |-> u, sync |-> FALSE]
<1>2. ListOK(s)
  BY <1>1, NewEpsLemma, MarkCreatedLemma
<1>3. u \in BOOLEAN
  BY DEF Unresolved
<1>4. Program(r, ru, dp) /\ r \notin DOMAIN eMap
      /\ epMap' = AcquireHosts(epMap, NewEps(S), r \in OneArm \/ mon)
  BY DEF AddNewLbRule
<1> HIDE DEF s, u
<1>5. ru \in ruleEnt /\ ru.eps = s /\ ru.actChk = mon
  BY <1>2, <1>3 DEF ruleEnt, ListOK
<1> HIDE DEF ru
<1>6. Replaces(r, ru.eps, ru.actChk) /\ DpOK(dp') /\ faults' \in 0 .. MaxFaults
  BY <1>4, <1>5, ProgramLemma DEF LbInv, BoundsOK
<1>7. (r \in OneArm \/ mon) \in BOOLEAN
  OBVIOUS
<1> QED BY <1>4, <1>5, <1>6, <1>7 DEF s

\* AddLbRule for a rule that keeps end-points, in the same terms.
LEMMA UpdateFacts ==
  ASSUME LbInv, NEW r \in DOMAIN eMap, NEW S \in SUBSET Ep, IsFiniteSet(S), NEW op,
         NEW mon \in BOOLEAN, NEW c, Outcome(c, eMap[r].eps, S, op), UpdateTo(r, S, mon, c)
  PROVE  /\ Replaces(r, MarkCreated(UpdEps(eMap[r], S, mon, c)), mon)
         /\ probe' = LiveProbes(ReleaseHosts(epMap, UpdDel(eMap[r], c)))
         /\ \E act \in BOOLEAN :
              LET s == UpdEps(eMap[r], S, mon, c)
                  h == AcquireHosts(ReleaseHosts(epMap, UpdDel(eMap[r], c)), s, act)
              IN  epMap' = h \/ epMap' = activateEPHostsProbe(h, s)
         /\ DpOK(dp') /\ faults' \in 0 .. MaxFaults
<1> DEFINE old == eMap[r]
           s == UpdEps(old, S, mon, c)
           D == UpdDel(old, c)
           u == Unresolved(r)
           t == MarkCreated(s)
           ru == [old EXCEPT !.eps = t, !.actChk = mon, !.addrRslv = u]
           table == IF Len(c.ret) > MaxLBEndPoints THEN Unprogram(r) ELSE dp
           act == r \in OneArm \/ mon
           h == AcquireHosts(ReleaseHosts(epMap, D), s, act)
<1>1. /\ Program(r, ru, table) /\ probe' = LiveProbes(ReleaseHosts(epMap, D))
      /\ epMap' = IF mon /\ ~ old.actChk THEN activateEPHostsProbe(h, s) ELSE h
  BY DEF UpdateTo, UpdEps, UpdDel
<1>2. RuleOK(old) /\ r \in Rule
  BY DEF LbInv, RulesOK
<1>3. ListOK(s)
  BY <1>2, UpdEpsLemma DEF Updated
<1> HIDE DEF old, s, D
<1>4. ListOK(t)
  BY <1>3, MarkCreatedLemma
<1>5. u \in BOOLEAN
  BY DEF Unresolved
<1>6. DpOK(table)
  BY DEF LbInv, DpOK, Unprogram, Without, Restrict
<1> HIDE DEF t, u, table
<1>7. ru \in ruleEnt /\ ru.eps = t /\ ru.actChk = mon
  BY <1>2, <1>4, <1>5 DEF ruleEnt, RuleOK, ListOK
<1> HIDE DEF ru
<1>8. Replaces(r, t, mon) /\ DpOK(dp') /\ faults' \in 0 .. MaxFaults
  BY <1>1, <1>2, <1>6, <1>7, ProgramLemma DEF LbInv, BoundsOK
<1>9. act \in BOOLEAN
  OBVIOUS
<1> QED BY <1>1, <1>8, <1>9 DEF old, s, D, t

\* The list s has the end-points of t, in their places and with their references.
Carried(s, t) ==
  /\ ListOK(s) /\ Len(s) = Len(t)
  /\ \A i \in 1 .. Len(t) : s[i].ep = t[i].ep /\ s[i].epCreated = t[i].epCreated

\* AddLbRule refused late.
LEMMA RefuseFacts ==
  ASSUME LbInv, NEW r \in Rule, NEW S \in EpList, NEW op \in Oper, NEW mon \in BOOLEAN,
         NEW moved \in BOOLEAN, RefuseLbRule(r, S, op, mon, moved)
  PROVE  /\ r \in DOMAIN eMap /\ Replaces(r, eMap'[r].eps, eMap[r].actChk)
         /\ Carried(eMap'[r].eps, eMap[r].eps)
         /\ \A i \in 1 .. Len(eMap[r].eps) : eMap'[r].eps[i].noService = eMap[r].eps[i].noService
         /\ faults' \in 0 .. MaxFaults
<1> DEFINE old == eMap[r].eps
           c == getLBConsolidatedEPs(old, S, op, moved)
<1>1. S \in SUBSET Ep /\ IsFiniteSet(S)
  BY EpListLemma DEF LbInv
<1>2. r \in DOMAIN eMap /\ RuleOK(eMap[r]) /\ ListOK(old)
  BY DEF LbInv, RulesOK, RuleOK, RefuseLbRule
<1>3. Outcome(c, old, S, op)
  BY <1>1, <1>2, ConsolidatedLemma
<1>4. eMap' = [eMap EXCEPT ![r].eps = c.left]
  BY DEF RefuseLbRule
<1>0. faults' = faults \/ (faults < MaxFaults /\ faults' = faults + 1)
  BY DEF RefuseLbRule
<1> HIDE DEF c
<1> DEFINE new == c.left
<1>5. Rewritten(new, old)
  BY <1>3 DEF Outcome
<1>6. ListOK(new)
  BY <1>2, <1>5, RewrittenLemma
<1> HIDE DEF new
<1>7. eMap' = [eMap EXCEPT ![r] = [eMap[r] EXCEPT !.eps = new]]
  BY <1>4 DEF new
<1>8. DOMAIN eMap' = DOMAIN eMap /\ eMap'[r] = [eMap[r] EXCEPT !.eps = new]
      /\ \A q \in DOMAIN eMap \ {r} : eMap'[q] = eMap[q]
  BY <1>2, <1>7
<1>9. eMap'[r] \in ruleEnt /\ eMap'[r].eps = new /\ eMap'[r].actChk = eMap[r].actChk
  BY <1>2, <1>6, <1>8 DEF RuleOK, ruleEnt, ListOK
<1>10. Replaces(r, eMap'[r].eps, eMap[r].actChk)
  BY <1>2, <1>8, <1>9 DEF Replaces
<1>11. Carried(new, old) /\ \A i \in 1 .. Len(old) : new[i].noService = old[i].noService
  BY <1>5, <1>6 DEF Carried, Rewritten, Same
<1>12. faults' \in 0 .. MaxFaults
  BY <1>0, LbAssumption DEF LbInv, BoundsOK
<1> QED BY <1>2, <1>9, <1>10, <1>11, <1>12

\* The rule ticker.
LEMMA SyncFacts ==
  ASSUME LbInv, NEW bad \in SUBSET DOMAIN eMap, RulesSync(bad)
  PROVE  /\ DOMAIN eMap' = DOMAIN eMap
         /\ \A q \in DOMAIN eMap :
              RuleOK(eMap'[q]) /\ Carried(eMap'[q].eps, eMap[q].eps)
         /\ DpOK(dp') /\ faults' \in 0 .. MaxFaults
<1> DEFINE Synced(r) == [eMap[r] EXCEPT !.addrRslv = Unresolved(r),
                            !.eps = IF eMap[r].actChk THEN syncEPHostState2Rule(@) ELSE @]
           sent == {r \in DOMAIN eMap : ~ Unresolved(r) /\ (eMap[r].sync \/ Synced(r) # eMap[r])}
<1>1. /\ faults + Cardinality(bad) <= MaxFaults /\ faults' = faults + Cardinality(bad)
      /\ eMap' = [r \in DOMAIN eMap |->
                    IF r \in sent THEN [Synced(r) EXCEPT !.sync = r \in bad] ELSE Synced(r)]
      /\ dp' = [r \in DOMAIN dp \cup (sent \ bad) |->
                    IF r \in sent \ bad THEN DpView(Synced(r).eps) ELSE dp[r]]
  BY DEF RulesSync
<1>2. ASSUME NEW r \in DOMAIN eMap
      PROVE  RuleOK(Synced(r)) /\ Carried(Synced(r).eps, eMap[r].eps)
  <2> DEFINE old == eMap[r].eps
             new == IF eMap[r].actChk THEN syncEPHostState2Rule(old) ELSE old
             u == Unresolved(r)
  <2>1. RuleOK(eMap[r]) /\ eMap[r] \in ruleEnt /\ ListOK(old)
    BY DEF LbInv, RulesOK, RuleOK
  <2>2. u \in BOOLEAN
    BY DEF Unresolved
  <2>3. Carried(new, old)
    <3>1. CASE eMap[r].actChk
      <4> DEFINE b == [i \in 1 .. Len(old) |-> ~ IsEPHostActive(old[i].ep)]
      <4>1. b \in [1 .. Len(old) -> BOOLEAN]
        OBVIOUS
      <4>2. DOMAIN old = 1 .. Len(old)
        BY <2>1 DEF ListOK
      <4>3. new = [i \in DOMAIN old |-> [old[i] EXCEPT !.noService = b[i]]]
        BY <3>1, <4>2 DEF syncEPHostState2Rule
      <4> HIDE DEF b, new
      <4>4. Healed(new, old, b)
        BY <2>1, <4>1, <4>3, HealthLemma
      <4> QED BY <4>4 DEF Carried, Healed
    <3>2. CASE ~ eMap[r].actChk
      BY <2>1, <3>2 DEF Carried
    <3> QED BY <3>1, <3>2
  <2>4. ~ eMap[r].actChk => new = old
    OBVIOUS
  <2>5. Synced(r) = [eMap[r] EXCEPT !.addrRslv = u, !.eps = new]
    BY <2>1 DEF ruleEnt
  <2> HIDE DEF u, new, Synced
  <2>6. /\ Synced(r) \in ruleEnt /\ Synced(r).eps = new /\ Synced(r).actChk = eMap[r].actChk
    BY <2>1, <2>2, <2>3, <2>5 DEF ruleEnt, Carried, ListOK
  <2>7. ListOK(new)
    BY <2>3 DEF Carried
  <2> QED BY <2>1, <2>3, <2>4, <2>6, <2>7 DEF RuleOK
<1> HIDE DEF Synced, sent
<1>3. ASSUME NEW r \in DOMAIN eMap
      PROVE  RuleOK(eMap'[r]) /\ Carried(eMap'[r].eps, eMap[r].eps)
  <2>1. PICK b \in BOOLEAN : eMap'[r] = [Synced(r) EXCEPT !.sync = b]
    <3>1. Synced(r) = [Synced(r) EXCEPT !.sync = Synced(r).sync] /\ Synced(r).sync \in BOOLEAN
      BY <1>2 DEF RuleOK, ruleEnt
    <3>2. (r \in bad) \in BOOLEAN
      OBVIOUS
    <3>3. eMap'[r] = IF r \in sent THEN [Synced(r) EXCEPT !.sync = r \in bad] ELSE Synced(r)
      BY <1>1
    <3> QED BY <3>1, <3>2, <3>3
  <2>2. Synced(r) \in ruleEnt
    BY <1>2 DEF RuleOK
  <2>3. eMap'[r] \in ruleEnt /\ eMap'[r].eps = Synced(r).eps /\ eMap'[r].actChk = Synced(r).actChk
    BY <2>1, <2>2 DEF ruleEnt
  <2> QED BY <1>2, <2>3 DEF RuleOK
<1>4. DpOK(dp')
  <2>1. sent \subseteq DOMAIN eMap /\ DOMAIN eMap \subseteq Rule
    BY DEF LbInv, RulesOK, sent
  <2>2. \A r \in sent : DpView(Synced(r).eps) \in Seq([ep : Ep, inActive : BOOLEAN])
    BY <1>2, <2>1, DpViewLemma DEF RuleOK, ListOK
  <2>3. DpOK(dp)
    BY DEF LbInv
  <2> QED BY <1>1, <2>1, <2>2, <2>3 DEF DpOK
<1>5. faults' \in 0 .. MaxFaults
  <2>1. IsFiniteSet(bad)
    BY FS_Subset DEF LbInv, RulesOK
  <2>2. Cardinality(bad) \in Nat
    BY <2>1, FS_CardinalityType
  <2> QED BY <1>1, <2>2, LbAssumption DEF LbInv, BoundsOK
<1>6. DOMAIN eMap' = DOMAIN eMap
  BY <1>1
<1> QED BY <1>3, <1>4, <1>5, <1>6

\* DeleteLbRule.
LEMMA RemoveFacts ==
  ASSUME LbInv, NEW r \in DOMAIN eMap, RemoveLbRule(r)
  PROVE  /\ DOMAIN eMap' = DOMAIN eMap \ {r}
         /\ \A q \in DOMAIN eMap' : eMap'[q] = eMap[q]
         /\ Dropped(epMap', epMap, HeldBy(Range(eMap[r].eps)))
         /\ RulesOK' /\ DpOK(dp') /\ ProbesOK(probe', epMap')
<1>1. DOMAIN eMap' = DOMAIN eMap \ {r} /\ \A q \in DOMAIN eMap' : eMap'[q] = eMap[q]
  BY DEF RemoveLbRule, Without, Restrict
<1>2. Dropped(epMap', epMap, HeldBy(Range(eMap[r].eps)))
  BY ReleaseLemma DEF RemoveLbRule, LbInv
<1>3. RulesOK'
  <2>1. IsFiniteSet(DOMAIN eMap \ {r})
    BY FS_RemoveElement DEF LbInv, RulesOK
  <2> QED BY <1>1, <2>1 DEF LbInv, RulesOK
<1>4. DpOK(dp')
  BY DEF RemoveLbRule, LbInv, DpOK, Unprogram, Without, Restrict
<1>5. ProbesOK(probe', epMap')
  BY ProbesLemma DEF RemoveLbRule, LbInv
<1> QED BY <1>1, <1>2, <1>3, <1>4, <1>5

\* Steps that leave the rules, the datapath and the number of hosts alone.
HostOnly ==
  /\ UNCHANGED <<eMap, dp>> /\ DOMAIN epMap \subseteq DOMAIN epMap'
  /\ \A e \in DOMAIN epMap : epMap'[e].ruleCount = epMap[e].ruleCount

\* The API, the checkers and the environment touch the state of hosts only.
LEMMA HostFacts ==
  ASSUME LbInv,
         \/ \E e \in plan.eps, on \in BOOLEAN : AddEPHost(e, on)
         \/ \E e \in Ep, red \in BOOLEAN : SetEPHostState(e, red)
         \/ \E e \in Ep : ProbeStart(e) \/ ProbeDone(e)
         \/ \E e \in plan.eps : Flap(e)
         \/ AddrFlap
  PROVE  HostOnly /\ LbInv'
<1>1. plan.eps \subseteq Ep /\ MaxFaults \in Nat /\ MaxTries \in Nat /\ InActTryThr \in Nat \ {0}
  BY LbAssumption DEF LbInv, BoundsOK, MaxTries
<1>2. \A e \in DOMAIN epMap : e \in Ep /\ epMap[e] \in epHost /\ epMap[e].ruleCount >= 0
  BY DEF LbInv, HostsOK
<1>3. ASSUME NEW e \in plan.eps, NEW on \in BOOLEAN, AddEPHost(e, on) PROVE HostOnly /\ LbInv'
  <2> DEFINE v == IF e \in DOMAIN epMap
                  THEN [epMap[e] EXCEPT !.probeActivated = on, !.initProberOn = TRUE]
                  ELSE NewHost(0, on)
  <2>1. v \in epHost /\ v.ruleCount >= 0 /\ (e \in DOMAIN epMap => v.ruleCount = epMap[e].ruleCount)
    <3>1. CASE e \in DOMAIN epMap
      BY <1>2, <3>1 DEF epHost
    <3>2. CASE e \notin DOMAIN epMap
      BY <1>1, <3>2 DEF epHost, NewHost
    <3> QED BY <3>1, <3>2
  <2>2. epMap' = [y \in DOMAIN epMap \cup {e} |-> IF y = e THEN v ELSE epMap[y]]
    BY <1>3 DEF AddEPHost, With
  <2> HIDE DEF v
  <2>3. HostOnly
    BY <1>3, <2>1, <2>2 DEF HostOnly, AddEPHost
  <2>4. HostsOK(epMap') /\ ProbesOK(probe', epMap')
    BY <1>1, <1>2, <1>3, <2>1, <2>2 DEF HostsOK, ProbesOK, AddEPHost, LbInv
  <2>5. BoundsOK'
    BY <1>3, CallLemma DEF AddEPHost, BoundsOK, LbInv
  <2> QED BY <1>3, <2>3, <2>4, <2>5 DEF LbInv, AddEPHost, RulesOK
<1>4. ASSUME NEW e \in Ep, NEW red \in BOOLEAN, SetEPHostState(e, red) PROVE HostOnly /\ LbInv'
  <2> DEFINE v == [epMap[e] EXCEPT !.red = red]
  <2>1. e \in DOMAIN epMap /\ v \in epHost /\ v.ruleCount >= 0 /\ v.ruleCount = epMap[e].ruleCount
    BY <1>2, <1>4 DEF epHost, SetEPHostState
  <2>2. epMap' = [epMap EXCEPT ![e] = v]
    BY <1>4 DEF SetEPHostState
  <2> HIDE DEF v
  <2>3. HostOnly
    BY <1>4, <2>1, <2>2 DEF HostOnly, SetEPHostState
  <2>4. HostsOK(epMap') /\ ProbesOK(probe', epMap')
    BY <1>2, <1>4, <2>1, <2>2 DEF HostsOK, ProbesOK, SetEPHostState, LbInv
  <2>5. BoundsOK'
    BY <1>4, CallLemma DEF SetEPHostState, BoundsOK, LbInv
  <2> QED BY <1>4, <2>3, <2>4, <2>5 DEF LbInv, SetEPHostState, RulesOK
<1>5. ASSUME NEW e \in Ep, ProbeStart(e) PROVE HostOnly /\ LbInv'
  <2>0. e \in DOMAIN epMap
    BY <1>5 DEF ProbeStart
  <2>1. PICK v : /\ v \in epHost /\ v.ruleCount = epMap[e].ruleCount /\ epMap' = [epMap EXCEPT ![e] = v]
    <3>1. CASE epMap[e].probeActivated
      <4> DEFINE v == [epMap[e] EXCEPT !.initProberOn = FALSE]
      <4>1. epMap' = [epMap EXCEPT ![e] = v]
        BY <1>5, <3>1 DEF ProbeStart
      <4>2. v \in epHost /\ v.ruleCount = epMap[e].ruleCount
        BY <1>2, <2>0 DEF epHost
      <4> QED BY <4>1, <4>2
    <3>2. CASE ~ epMap[e].probeActivated
      <4> DEFINE v == [epMap[e] EXCEPT !.initProberOn = FALSE, !.inactive = FALSE, !.inActTries = 0]
      <4>1. epMap' = [epMap EXCEPT ![e] = v]
        BY <1>5, <2>0, <3>2 DEF ProbeStart
      <4> DEFINE h == epMap[e]
      <4>2. h \in epHost /\ 0 \in 0 .. MaxTries
        BY <1>1, <1>2, <2>0
      <4> HIDE DEF h
      <4>3. v = [h EXCEPT !.initProberOn = FALSE, !.inactive = FALSE, !.inActTries = 0]
        BY DEF h
      <4> HIDE DEF v
      <4>4. v \in epHost /\ v.ruleCount = h.ruleCount
        BY <4>2, <4>3 DEF epHost
      <4> QED BY <4>1, <4>4 DEF h
    <3> QED BY <3>1, <3>2
  <2>2. probe' = probe \/ \E x \in [thr : {1, InActTryThr}, up : BOOLEAN] : probe' = With(probe, e, x)
    <3> DEFINE thr == IF epMap[e].initProberOn THEN 1 ELSE InActTryThr
               b == e \in up
    <3>1. thr \in {1, InActTryThr} /\ b \in BOOLEAN
      OBVIOUS
    <3>2. probe' = probe \/ probe' = With(probe, e, [thr |-> thr, up |-> b])
      BY <1>5 DEF ProbeStart
    <3> HIDE DEF thr, b
    <3> QED BY <3>1, <3>2
  <2>3. HostOnly
    BY <1>5, <2>0, <2>1 DEF HostOnly, ProbeStart
  <2>4. HostsOK(epMap')
    BY <1>2, <2>0, <2>1 DEF HostsOK
  <2>5. ProbesOK(probe', epMap')
    BY <2>0, <2>1, <2>2 DEF ProbesOK, With, LbInv
  <2> QED BY <1>5, <2>3, <2>4, <2>5 DEF LbInv, ProbeStart, RulesOK, BoundsOK
<1>6. ASSUME NEW e \in Ep, ProbeDone(e) PROVE HostOnly /\ LbInv'
  <2>0. e \in DOMAIN epMap
    BY <1>6 DEF ProbeDone, LbInv, ProbesOK
  <2>1. PICK v : /\ v \in epHost /\ v.ruleCount = epMap[e].ruleCount /\ epMap' = [epMap EXCEPT ![e] = v]
    <3>1. PICK ok \in {probe[e].up, e \in up} :
            epMap' = [epMap EXCEPT ![e] = transitionEPState(epMap[e], ok, probe[e].thr)]
      BY <1>6, <2>0 DEF ProbeDone
    <3> DEFINE h == epMap[e]
               n == IF h.inActTries < MaxTries THEN h.inActTries + 1 ELSE h.inActTries
               b == h.inactive \/ h.inActTries + 1 = probe[e].thr
               v == transitionEPState(h, ok, probe[e].thr)
    <3>2. h \in epHost /\ h.inActTries \in 0 .. MaxTries
      BY <1>2, <2>0 DEF epHost
    <3>3. n \in 0 .. MaxTries /\ b \in BOOLEAN
      BY <1>1, <3>2
    <3>4. v = [h EXCEPT !.inActTries = 0, !.inactive = FALSE]
          \/ v = [h EXCEPT !.inActTries = n, !.inactive = b]
      BY <3>2 DEF transitionEPState, epHost
    <3> HIDE DEF h, n, b, v
    <3>5. v \in epHost /\ v.ruleCount = h.ruleCount
      <4>1. 0 \in 0 .. MaxTries
        BY <1>1
      <4>2. CASE v = [h EXCEPT !.inActTries = 0, !.inactive = FALSE]
        BY <3>2, <4>1, <4>2 DEF epHost
      <4>3. CASE v = [h EXCEPT !.inActTries = n, !.inactive = b]
        BY <3>2, <3>3, <4>3 DEF epHost
      <4> QED BY <3>4, <4>2, <4>3
    <3> QED BY <3>1, <3>5 DEF h, v
  <2>2. HostOnly
    BY <1>6, <2>0, <2>1 DEF HostOnly, ProbeDone
  <2>3. HostsOK(epMap')
    BY <1>2, <2>0, <2>1 DEF HostsOK
  <2>4. ProbesOK(probe', epMap')
    BY <1>6, <2>1 DEF ProbesOK, ProbeDone, Without, Restrict, LbInv
  <2> QED BY <1>6, <2>2, <2>3, <2>4 DEF LbInv, ProbeDone, RulesOK, BoundsOK
<1>7. ASSUME NEW e \in plan.eps, Flap(e) PROVE HostOnly /\ LbInv'
  BY <1>1, <1>7 DEF Flap, HostOnly, LbInv, RulesOK, BoundsOK
<1>8. ASSUME AddrFlap PROVE HostOnly /\ LbInv'
  <2>a. UNCHANGED <<eMap, epMap, dp, probe, up, calls, plan>> /\ faults' = faults + 1
        /\ faults < MaxFaults
    BY <1>8 DEF AddrFlap
  <2>b. faults \in 0 .. MaxFaults /\ MaxFaults \in Nat
    BY <1>1 DEF LbInv, BoundsOK
  <2>1. UNCHANGED <<eMap, epMap, dp, probe, up, calls, plan>> /\ faults' \in 0 .. MaxFaults
    BY <2>a, <2>b
  <2>2. srcAddr' \in BOOLEAN
    BY <1>8 DEF AddrFlap
  <2>3. HostOnly
    BY <2>1 DEF HostOnly
  <2> QED BY <2>1, <2>2, <2>3 DEF LbInv, RulesOK, BoundsOK
<1> QED BY <1>3, <1>4, <1>5, <1>6, <1>7, <1>8

\* AddLbRule for a rule that exists: it is deleted, or it gets a list and hosts that
\* follow from what getLBConsolidatedEPs returns.
UpdateCases(r, S, op, mon) ==
  \/ RemoveLbRule(r)
  \/ \E c : Outcome(c, eMap[r].eps, S, op) /\ UpdateTo(r, S, mon, c)

LEMMA UpdateLemma ==
  ASSUME LbInv, NEW r \in Rule, NEW S \in EpList, NEW op \in Oper, NEW mon \in BOOLEAN,
         UpdateLbRule(r, S, op, mon)
  PROVE  r \in DOMAIN eMap /\ S \in SUBSET Ep /\ IsFiniteSet(S) /\ UpdateCases(r, S, op, mon)
<1> DEFINE c == getLBConsolidatedEPs(eMap[r].eps, S, op, FALSE)
<1>1. S \in SUBSET Ep /\ IsFiniteSet(S)
  BY EpListLemma DEF LbInv
<1>2. r \in DOMAIN eMap /\ ListOK(eMap[r].eps)
  BY DEF UpdateLbRule, LbInv, RulesOK, RuleOK
<1>3. Outcome(c, eMap[r].eps, S, op)
  BY <1>1, <1>2, ConsolidatedLemma
<1>4. IF c.ret = << >> THEN RemoveLbRule(r) ELSE UpdateTo(r, S, mon, c)
  BY DEF UpdateLbRule
<1> HIDE DEF c
<1> QED BY <1>1, <1>2, <1>3, <1>4 DEF UpdateCases

\* What UpdateTo does to the hosts.
LEMMA UpdateHosts ==
  ASSUME LbInv, NEW r \in DOMAIN eMap, NEW S \in SUBSET Ep, IsFiniteSet(S), NEW op,
         NEW mon \in BOOLEAN, NEW c, Outcome(c, eMap[r].eps, S, op), UpdateTo(r, S, mon, c)
  PROVE  \E h1 : /\ Dropped(h1, epMap, HeldBy(UpdDel(eMap[r], c)))
                 /\ Taken(epMap', h1, Wanted(UpdEps(eMap[r], S, mon, c)))
                 /\ probe' = LiveProbes(h1)
<1> DEFINE s == UpdEps(eMap[r], S, mon, c)
           D == UpdDel(eMap[r], c)
           h1 == ReleaseHosts(epMap, D)
           h(act) == AcquireHosts(h1, s, act)
<1>1. probe' = LiveProbes(h1) /\ \E act \in BOOLEAN : epMap' = h(act) \/ epMap' = activateEPHostsProbe(h(act), s)
  BY UpdateFacts
<1>2. ListOK(s)
  <2>1. RuleOK(eMap[r])
    BY DEF LbInv, RulesOK
  <2>2. Updated(s, eMap[r], S, mon, c)
    BY <2>1, UpdEpsLemma
  <2> QED BY <2>2 DEF Updated
<1>3. Dropped(h1, epMap, HeldBy(D))
  BY ReleaseLemma DEF LbInv
<1> HIDE DEF s, D, h1
<1>4. PICK act \in BOOLEAN : epMap' = h(act) \/ epMap' = activateEPHostsProbe(h(act), s)
  BY <1>1
<1> DEFINE h2 == h(act)
<1>5. Taken(h2, h1, Wanted(s))
  BY <1>2, <1>3, AcquireLemma DEF Dropped
<1>6. epMap' = h2 \/ epMap' = activateEPHostsProbe(h2, s)
  BY <1>4
<1> HIDE DEF h2
<1>7. HostsOK(h2)
  BY <1>5 DEF Taken
<1>8. HostsOK(epMap') /\ DOMAIN epMap' = DOMAIN h2 /\ \A e \in DOMAIN h2 : epMap'[e].ruleCount = h2[e].ruleCount
  BY <1>6, <1>7, ActivateLemma
<1>9. Taken(epMap', h1, Wanted(s))
  BY <1>5, <1>8 DEF Taken
<1> QED BY <1>1, <1>3, <1>9 DEF s, D

\* The invariant of the types and of the rules.
LEMMA LbStep == LbInv /\ [Next]_vars => LbInv'
<1> SUFFICES ASSUME LbInv, [Next]_vars PROVE LbInv'
  OBVIOUS
<1>1. ASSUME NEW r \in Rule, NEW S \in EpList, NEW mon \in BOOLEAN, AddNewLbRule(r, S, mon)
      PROVE  LbInv'
  <2>1. /\ Replaces(r, MarkCreated(NewEps(S)), mon) /\ DpOK(dp') /\ faults' \in 0 .. MaxFaults
        /\ \E act \in BOOLEAN : epMap' = AcquireHosts(epMap, NewEps(S), act)
    BY <1>1, AddFacts
  <2> DEFINE N == NewEps(S)
             s == MarkCreated(N)
  <2>2. S \in SUBSET Ep /\ IsFiniteSet(S)
    BY EpListLemma DEF LbInv
  <2>3. ListOK(N) /\ \A i \in 1 .. Len(N) : N[i] = NewEp(N[i].ep)
    BY <2>2, NewEpsLemma
  <2>4. \A i \in 1 .. Len(N) : N[i].noService = FALSE
    <3>1. \A e : NewEp(e).noService = FALSE
      BY DEF NewEp
    <3> HIDE DEF N
    <3> QED BY <2>3, <3>1
  <2> HIDE DEF N
  <2>5. ListOK(s) /\ \A i \in 1 .. Len(s) : ~ s[i].noService
    BY <2>3, <2>4, MarkCreatedLemma
  <2>6. RulesOK'
    BY <2>1, <2>5, ReplacesLemma DEF LbInv, N
  <2>7. Taken(epMap', epMap, Wanted(N))
    BY <2>1, <2>3, AcquireLemma DEF LbInv, N
  <2>8. HostsOK(epMap') /\ ProbesOK(probe', epMap')
    BY <1>1, <2>7 DEF Taken, AddNewLbRule, ProbesOK, LbInv
  <2>9. BoundsOK'
    BY <1>1, <2>1, CallLemma DEF AddNewLbRule, BoundsOK, LbInv
  <2> QED BY <2>1, <2>6, <2>8, <2>9 DEF LbInv
<1>2. ASSUME NEW r \in DOMAIN eMap, RemoveLbRule(r), Call PROVE LbInv'
  <2>1. RulesOK' /\ DpOK(dp') /\ ProbesOK(probe', epMap') /\ HostsOK(epMap')
    BY <1>2, RemoveFacts DEF Dropped
  <2>2. BoundsOK'
    BY <1>2, CallLemma DEF RemoveLbRule, BoundsOK, LbInv
  <2> QED BY <2>1, <2>2 DEF LbInv
<1>3. ASSUME NEW r \in Rule, NEW S \in EpList, NEW op \in Oper, NEW mon \in BOOLEAN,
             UpdateLbRule(r, S, op, mon)
      PROVE  LbInv'
  <2>1. r \in DOMAIN eMap /\ S \in SUBSET Ep /\ IsFiniteSet(S) /\ UpdateCases(r, S, op, mon) /\ Call
    <3>1. Call
      BY <1>3 DEF UpdateLbRule
    <3> QED BY <1>3, <3>1, UpdateLemma
  <2>2. ASSUME NEW c, Outcome(c, eMap[r].eps, S, op), UpdateTo(r, S, mon, c) PROVE LbInv'
    <3> DEFINE s == UpdEps(eMap[r], S, mon, c)
    <3>1. Replaces(r, MarkCreated(s), mon) /\ DpOK(dp') /\ faults' \in 0 .. MaxFaults
      BY <2>1, <2>2, UpdateFacts
    <3>2. RuleOK(eMap[r])
      BY <2>1 DEF LbInv, RulesOK
    <3>3. Updated(s, eMap[r], S, mon, c)
      BY <2>1, <2>2, <3>2, UpdEpsLemma
    <3> HIDE DEF s
    <3>4. ListOK(s) /\ (~ mon => \A i \in 1 .. Len(s) : ~ s[i].noService)
      BY <3>3 DEF Updated
    <3> DEFINE t == MarkCreated(s)
    <3>5. ListOK(t) /\ Len(t) = Len(s) /\ \A i \in 1 .. Len(s) : t[i].noService = s[i].noService
      BY <3>4, MarkCreatedLemma
    <3> HIDE DEF t
    <3>6. ~ mon => \A i \in 1 .. Len(t) : ~ t[i].noService
      BY <3>4, <3>5
    <3>7. RulesOK'
      BY <3>1, <3>5, <3>6, ReplacesLemma DEF LbInv, t
    <3>8. PICK h1 : /\ Dropped(h1, epMap, HeldBy(UpdDel(eMap[r], c)))
                    /\ Taken(epMap', h1, Wanted(s)) /\ probe' = LiveProbes(h1)
      BY <2>1, <2>2, UpdateHosts DEF s
    <3>9. HostsOK(epMap') /\ ProbesOK(probe', epMap')
      BY <3>8, ProbesLemma DEF Taken, LbInv
    <3>10. BoundsOK'
      BY <2>1, <2>2, <3>1, CallLemma DEF UpdateTo, BoundsOK, LbInv
    <3> QED BY <3>1, <3>7, <3>9, <3>10 DEF LbInv
  <2> QED BY <1>2, <2>1, <2>2 DEF UpdateCases
<1>4. ASSUME NEW r \in Rule, NEW S \in EpList, NEW op \in Oper, NEW mon \in BOOLEAN,
             NEW moved \in BOOLEAN, RefuseLbRule(r, S, op, mon, moved)
      PROVE  LbInv'
  <2> DEFINE s == eMap'[r].eps
             old == eMap[r]
  <2>1. /\ r \in DOMAIN eMap /\ Replaces(r, s, old.actChk) /\ Carried(s, old.eps)
        /\ \A i \in 1 .. Len(old.eps) : s[i].noService = old.eps[i].noService
        /\ faults' \in 0 .. MaxFaults
    BY <1>4, RefuseFacts
  <2>2. RuleOK(old)
    BY <2>1 DEF LbInv, RulesOK
  <2> HIDE DEF s, old
  <2>3. /\ ListOK(s) /\ old.actChk \in BOOLEAN
        /\ ~ old.actChk => \A i \in 1 .. Len(s) : ~ s[i].noService
    BY <2>1, <2>2 DEF Carried, RuleOK, ruleEnt
  <2>4. RulesOK'
    BY <2>1, <2>3, ReplacesLemma DEF LbInv
  <2>5. BoundsOK'
    BY <1>4, <2>1, CallLemma DEF RefuseLbRule, BoundsOK, LbInv
  <2> QED BY <1>4, <2>4, <2>5 DEF LbInv, RefuseLbRule
<1>5. ASSUME NEW e \in Ep, DeleteEPHost(e) PROVE LbInv'
  <2>1. HostsOK(epMap')
    BY <1>5 DEF DeleteEPHost, HostsOK, LbInv, Without, Restrict
  <2>2. ProbesOK(probe', epMap')
    BY <1>5, ProbesLemma DEF DeleteEPHost, LbInv
  <2>3. BoundsOK'
    BY <1>5, CallLemma DEF DeleteEPHost, BoundsOK, LbInv
  <2> QED BY <1>5, <2>1, <2>2, <2>3 DEF DeleteEPHost, LbInv, RulesOK
<1>6. ASSUME NEW bad \in SUBSET DOMAIN eMap, RulesSync(bad) PROVE LbInv'
  <2>1. /\ DOMAIN eMap' = DOMAIN eMap /\ \A q \in DOMAIN eMap : RuleOK(eMap'[q])
        /\ DpOK(dp') /\ faults' \in 0 .. MaxFaults
    BY <1>6, SyncFacts
  <2>2. UNCHANGED <<epMap, probe, up, srcAddr, calls, plan>>
    BY <1>6 DEF RulesSync
  <2> QED BY <2>1, <2>2 DEF LbInv, RulesOK, BoundsOK
<1>7. ASSUME UNCHANGED vars PROVE LbInv'
  BY <1>7 DEF vars, LbInv, RulesOK, BoundsOK
<1>8. ASSUME NEW r \in Rule, DeleteLbRule(r) PROVE LbInv'
  BY <1>2, <1>8 DEF DeleteLbRule
<1> QED BY <1>1, <1>3, <1>4, <1>5, <1>6, <1>7, <1>8, HostFacts DEF Next

\* The tables of every reachable state are in order.
LEMMA LbAlways == Spec => []LbInv
<1>1. Init => LbInv
  <2> SUFFICES ASSUME Init PROVE LbInv
    OBVIOUS
  <2>1. DOMAIN NoMap = {}
    BY DEF NoMap
  <2>2. RulesOK /\ HostsOK(epMap) /\ DpOK(dp) /\ ProbesOK(probe, epMap)
    BY <2>1, FS_EmptySet DEF Init, RulesOK, HostsOK, DpOK, ProbesOK
  <2>3. BoundsOK
    BY LbAssumption DEF Init, BoundsOK
  <2> QED BY <2>2, <2>3 DEF LbInv
<1> QED BY <1>1, LbStep, PTL DEF Spec

(* Type correctness (TypeOK) of the rule and host tables, the probes and     *)
(* the datapath, for any calls, failures and answers of the probes.          *)
THEOREM LbTypeCorrect == Spec => []TypeOK
<1>1. LbInv => TypeOK
  BY DEF LbInv, RulesOK, RuleOK, ruleEnt, HostsOK, DpOK, ProbesOK, BoundsOK, TypeOK
<1> QED BY <1>1, LbAlways, PTL

(* UnmonitoredInService: whatever probes, updates and refused calls did, a   *)
(* rule that is not monitored has no end-point that syncEPHostState2Rule     *)
(* took out of rotation and that nothing would put back.                     *)
THEOREM UnmonitoredHolds == Spec => []UnmonitoredInService
<1>1. LbInv => UnmonitoredInService
  <2> SUFFICES ASSUME LbInv, NEW r \in DOMAIN eMap, ~ eMap[r].actChk, NEW x \in Range(eMap[r].eps)
               PROVE  ~ x.noService
    BY DEF UnmonitoredInService
  <2>1. RuleOK(eMap[r])
    BY DEF LbInv, RulesOK
  <2>2. PICK i \in 1 .. Len(eMap[r].eps) : x = eMap[r].eps[i]
    BY <2>1 DEF Range, RuleOK, ListOK
  <2> QED BY <2>1, <2>2 DEF RuleOK
<1> QED BY <1>1, LbAlways, PTL

(* OrderKept: every step that changes the list of a rule (AddLbRule with any *)
(* operation, refused or not, and the rule ticker) leaves the end-points the *)
(* rule had in their order and in front, unless the list outgrew the limit.  *)
THEOREM OrderHolds == Spec => OrderKept
<1> DEFINE Kept == \A r \in DOMAIN eMap \cap DOMAIN eMap' :
                     \/ Ordered(eMap'[r].eps, eMap[r].eps)
                     \/ Cardinality(Eps(eMap[r].eps) \cup Eps(eMap'[r].eps)) > MaxLBEndPoints
<1>1. ASSUME LbInv, NEW r \in DOMAIN eMap, r \in DOMAIN eMap', Carried(eMap'[r].eps, eMap[r].eps)
      PROVE  Ordered(eMap'[r].eps, eMap[r].eps)
  <2> DEFINE s == eMap'[r].eps
             t == eMap[r].eps
  <2>1. ListOK(s) /\ ListOK(t) /\ Len(s) = Len(t) /\ \A i \in 1 .. Len(t) : s[i].ep = t[i].ep
    BY <1>1 DEF LbInv, RulesOK, RuleOK, Carried
  <2> HIDE DEF s, t
  <2>2. DOMAIN s = 1 .. Len(t) /\ DOMAIN t = 1 .. Len(t)
    BY <2>1 DEF ListOK
  <2>3. Ordered(s, t)
    <3> SUFFICES ASSUME NEW m \in 1 .. Len(t), NEW n \in 1 .. Len(t), NEW j \in 1 .. Len(t),
                        m < n, s[n].ep = t[j].ep
                 PROVE  \E i \in 1 .. Len(t) : i < j /\ s[m].ep = t[i].ep
      BY <2>2 DEF Ordered
    <3>1. n = j
      BY <2>1 DEF ListOK
    <3> QED BY <2>1, <3>1
  <2> QED BY <2>3 DEF s, t
<1>2. ASSUME LbInv, NEW r \in DOMAIN eMap, r \in DOMAIN eMap', eMap'[r] = eMap[r]
      PROVE  Ordered(eMap'[r].eps, eMap[r].eps)
  BY <1>1, <1>2 DEF LbInv, RulesOK, RuleOK, Carried
<1>3. ASSUME LbInv, Next PROVE Kept
  <2>1. ASSUME NEW r \in Rule, NEW S \in EpList, NEW mon \in BOOLEAN, AddNewLbRule(r, S, mon)
        PROVE  Kept
    <3>1. Replaces(r, MarkCreated(NewEps(S)), mon) /\ r \notin DOMAIN eMap
      BY <1>3, <2>1, AddFacts
    <3> QED BY <1>2, <1>3, <3>1 DEF Replaces
  <2>2. ASSUME NEW r \in DOMAIN eMap, RemoveLbRule(r) PROVE Kept
    <3>1. \A q \in DOMAIN eMap' : eMap'[q] = eMap[q]
      BY <1>3, <2>2, RemoveFacts
    <3> QED BY <1>2, <1>3, <3>1
  <2>3. ASSUME NEW r \in Rule, NEW S \in EpList, NEW op \in Oper, NEW mon \in BOOLEAN,
               UpdateLbRule(r, S, op, mon)
        PROVE  Kept
    <3>1. r \in DOMAIN eMap /\ S \in SUBSET Ep /\ IsFiniteSet(S) /\ UpdateCases(r, S, op, mon)
      BY <1>3, <2>3, UpdateLemma
    <3>2. ASSUME NEW c, Outcome(c, eMap[r].eps, S, op), UpdateTo(r, S, mon, c) PROVE Kept
      <4> DEFINE new == MarkCreated(UpdEps(eMap[r], S, mon, c))
      <4>1. Replaces(r, new, mon)
        BY <1>3, <3>1, <3>2, UpdateFacts
      <4>2. RuleOK(eMap[r])
        BY <1>3, <3>1 DEF LbInv, RulesOK
      <4>3. Ordered(new, eMap[r].eps) \/ Cardinality(Eps(eMap[r].eps) \cup Eps(new)) > MaxLBEndPoints
        BY <3>1, <3>2, <4>2, UpdOrderLemma
      <4> HIDE DEF new
      <4> QED BY <1>2, <1>3, <4>1, <4>3 DEF Replaces
    <3> QED BY <2>2, <3>1, <3>2 DEF UpdateCases
  <2>4. ASSUME NEW r \in Rule, NEW S \in EpList, NEW op \in Oper, NEW mon \in BOOLEAN,
               NEW moved \in BOOLEAN, RefuseLbRule(r, S, op, mon, moved)
        PROVE  Kept
    <3>1. /\ r \in DOMAIN eMap /\ Replaces(r, eMap'[r].eps, eMap[r].actChk)
          /\ Carried(eMap'[r].eps, eMap[r].eps)
      BY <1>3, <2>4, RefuseFacts
    <3> QED BY <1>1, <1>2, <1>3, <3>1 DEF Replaces
  <2>5. ASSUME NEW bad \in SUBSET DOMAIN eMap, RulesSync(bad) PROVE Kept
    <3>1. \A q \in DOMAIN eMap : Carried(eMap'[q].eps, eMap[q].eps)
      BY <1>3, <2>5, SyncFacts
    <3> QED BY <1>1, <1>3, <3>1
  <2>6. ASSUME UNCHANGED eMap PROVE Kept
    BY <1>2, <1>3, <2>6
  <2>7. ASSUME HostOnly PROVE Kept
    BY <2>6, <2>7 DEF HostOnly
  <2>8. ASSUME NEW e \in Ep, DeleteEPHost(e) PROVE Kept
    BY <2>6, <2>8 DEF DeleteEPHost
  <2>9. ASSUME NEW r \in Rule, DeleteLbRule(r) PROVE Kept
    BY <2>2, <2>9 DEF DeleteLbRule
  <2> HIDE DEF Kept
  <2> QED BY <1>3, <2>1, <2>3, <2>4, <2>5, <2>7, <2>8, <2>9, HostFacts DEF Next
<1>4. LbInv /\ [Next]_vars => [Kept]_vars
  BY <1>3
<1>5. [Kept]_vars =>
        [\A r \in DOMAIN eMap \cap DOMAIN eMap' :
            LET old == eMap[r].eps
                new == eMap'[r].eps
            IN  \/ \A m, n \in DOMAIN new, j \in DOMAIN old :
                      m < n /\ new[n].ep = old[j].ep =>
                          \E i \in DOMAIN old : i < j /\ new[m].ep = old[i].ep
                \/ Cardinality(Eps(old) \cup Eps(new)) > MaxLBEndPoints]_vars
  BY DEF Ordered
<1> HIDE DEF Kept
<1> QED BY <1>4, <1>5, LbAlways, PTL DEF Spec, OrderKept
-----------------------------------------------------------------------------
(* References to hosts.                                                     *)

\* The rules that hold a reference to the host of e, through an end-point that is
\* active or was retired by a call that was then refused.
Held(e) == {r \in DOMAIN eMap : Has(eMap[r].eps, e)}

HeldInv == \A e \in Ep : Counts(epMap, e, Held(e))

\* Rule r alone changes, and so do its references.
LEMMA HeldStep ==
  ASSUME LbInv, HeldInv, NEW r, NEW X, NEW W, NEW h1, Dropped(h1, epMap, X), Taken(epMap', h1, W),
         DOMAIN eMap' \ {r} = DOMAIN eMap \ {r}, \A q \in DOMAIN eMap \ {r} : eMap'[q] = eMap[q],
         \A e \in Ep : e \in X => r \in Held(e),
         \A e \in Ep : r \in Held(e)' => (r \in Held(e) /\ e \notin X) \/ e \in W
  PROVE  HeldInv'
<1> SUFFICES ASSUME NEW e \in Ep PROVE Counts(epMap', e, Held(e)')
  BY DEF HeldInv
<1>1. Held(e)' \ {r} = Held(e) \ {r}
  <2>1. Held(e)' = {q \in DOMAIN eMap' : Has(eMap'[q].eps, e)}
    BY DEF Held
  <2>2. \A q : q # r => (q \in DOMAIN eMap' <=> q \in DOMAIN eMap)
    OBVIOUS
  <2>3. \A q : q # r => (q \in Held(e)' <=> q \in Held(e))
    BY <2>1, <2>2 DEF Held
  <2> QED BY <2>3
<1>2. IsFiniteSet(Held(e))
  <2>1. IsFiniteSet(DOMAIN eMap) /\ Held(e) \subseteq DOMAIN eMap
    BY DEF LbInv, RulesOK, Held
  <2> QED BY <2>1, FS_Subset
<1>3. Counts(epMap, e, Held(e)) /\ HostsOK(epMap)
  BY DEF HeldInv, LbInv
<1> DEFINE H == Held(e)
           K == Held(e)'
<1>4. (e \in X => r \in H) /\ (r \in K => (r \in H /\ e \notin X) \/ e \in W)
  OBVIOUS
<1>5. K \ {r} = H \ {r} /\ IsFiniteSet(H) /\ Counts(epMap, e, H)
  BY <1>1, <1>2, <1>3
<1> HIDE DEF H, K
<1>6. Counts(epMap', e, K)
  BY <1>3, <1>4, <1>5, CountLemma
<1> QED BY <1>6 DEF K

\* The same rules hold references to hosts that keep their counts.
LEMMA HeldSame ==
  ASSUME HeldInv, DOMAIN eMap' = DOMAIN eMap,
         \A q \in DOMAIN eMap : eMap'[q] = eMap[q] \/ Carried(eMap'[q].eps, eMap[q].eps),
         DOMAIN epMap \subseteq DOMAIN epMap',
         \A e \in DOMAIN epMap : epMap'[e].ruleCount = epMap[e].ruleCount
  PROVE  HeldInv'
<1> SUFFICES ASSUME NEW e \in Ep PROVE Counts(epMap', e, Held(e)')
  BY DEF HeldInv
<1>1. \A q \in DOMAIN eMap : Has(eMap'[q].eps, e) <=> Has(eMap[q].eps, e)
  <2> TAKE q \in DOMAIN eMap
  <2>1. CASE eMap'[q] = eMap[q]
    BY <2>1
  <2>2. CASE Carried(eMap'[q].eps, eMap[q].eps)
    BY <2>2 DEF Carried, Has
  <2> QED BY <2>1, <2>2
<1>2. Held(e)' = Held(e)
  BY <1>1 DEF Held
<1>3. Counts(epMap, e, Held(e))
  BY DEF HeldInv
<1> QED BY <1>2, <1>3 DEF Counts

\* A host counts the references of every step, as long as no call attaches.
LEMMA HeldNext ==
  ASSUME "attach" \notin Oper
  PROVE  LbInv /\ HeldInv /\ [Next]_vars => HeldInv'
<1> SUFFICES ASSUME LbInv, HeldInv, [Next]_vars PROVE HeldInv'
  OBVIOUS
<1>0. HostsOK(epMap) /\ \A q \in DOMAIN eMap : RuleOK(eMap[q])
  BY DEF LbInv, RulesOK
<1>1. ASSUME NEW r \in Rule, NEW S \in EpList, NEW mon \in BOOLEAN, AddNewLbRule(r, S, mon)
      PROVE  HeldInv'
  <2> DEFINE N == NewEps(S)
             s == MarkCreated(N)
  <2>1. Replaces(r, s, mon) /\ r \notin DOMAIN eMap
        /\ \E act \in BOOLEAN : epMap' = AcquireHosts(epMap, N, act)
    BY <1>1, AddFacts
  <2>2. S \in SUBSET Ep /\ IsFiniteSet(S)
    BY EpListLemma DEF LbInv
  <2>3. ListOK(N) /\ \A i \in 1 .. Len(N) : N[i] = NewEp(N[i].ep)
    BY <2>2, NewEpsLemma
  <2>4. \A i \in 1 .. Len(N) : N[i].epCreated = FALSE /\ N[i].inActiveEP = FALSE
    <3>1. \A e : NewEp(e).epCreated = FALSE /\ NewEp(e).inActiveEP = FALSE
      BY DEF NewEp
    <3> HIDE DEF N
    <3> QED BY <2>3, <3>1
  <2> HIDE DEF N
  <2>5. Taken(epMap', epMap, Wanted(N))
    BY <1>0, <2>1, <2>3, AcquireLemma
  <2>6. Dropped(epMap, epMap, {})
    BY <1>0 DEF Dropped
  <2>7. ASSUME NEW e, Has(s, e) PROVE e \in Wanted(N)
    <3>1. Len(s) = Len(N) /\ \A i \in 1 .. Len(N) : s[i].ep = N[i].ep
      BY <2>3, MarkCreatedLemma
    <3>2. PICK i \in 1 .. Len(N) : N[i].ep = e
      BY <2>7, <3>1 DEF Has
    <3>3. N[i] \in Range(N)
      BY <2>3 DEF ListOK, Range
    <3> QED BY <2>4, <3>2, <3>3 DEF Wanted
  <2>8. \A e \in Ep : r \in Held(e)' => e \in Wanted(N)
    BY <2>1, <2>7 DEF Held, Replaces
  <2>9. DOMAIN eMap' \ {r} = DOMAIN eMap \ {r} /\ \A q \in DOMAIN eMap \ {r} : eMap'[q] = eMap[q]
    BY <2>1 DEF Replaces
  <2> DEFINE X == {}
             W == Wanted(N)
  <2>10. /\ \A e \in Ep : e \in X => r \in Held(e)
         /\ \A e \in Ep : r \in Held(e)' => (r \in Held(e) /\ e \notin X) \/ e \in W
    BY <2>8
  <2>11. Dropped(epMap, epMap, X) /\ Taken(epMap', epMap, W)
    BY <2>5, <2>6
  <2> HIDE DEF X, W
  <2> QED BY <2>9, <2>10, <2>11, HeldStep
<1>2. ASSUME NEW r \in DOMAIN eMap, RemoveLbRule(r) PROVE HeldInv'
  <2> DEFINE X == HeldBy(Range(eMap[r].eps))
  <2>1. /\ DOMAIN eMap' = DOMAIN eMap \ {r} /\ \A q \in DOMAIN eMap' : eMap'[q] = eMap[q]
        /\ Dropped(epMap', epMap, X)
    BY <1>2, RemoveFacts
  <2>2. Taken(epMap', epMap', {})
    BY <2>1 DEF Dropped, Taken
  <2>3. \A e \in Ep : r \notin Held(e)'
    BY <2>1 DEF Held
  <2>4. ASSUME NEW e \in X PROVE r \in Held(e)
    <3>1. DOMAIN eMap[r].eps = 1 .. Len(eMap[r].eps)
      BY <1>0, <1>2 DEF RuleOK, ListOK
    <3>2. PICK i \in 1 .. Len(eMap[r].eps) : eMap[r].eps[i].ep = e /\ eMap[r].eps[i].epCreated
      BY <3>1, <2>4 DEF HeldBy, Range
    <3> QED BY <1>2, <3>2 DEF Held, Has
  <2>5. DOMAIN eMap' \ {r} = DOMAIN eMap \ {r} /\ \A q \in DOMAIN eMap \ {r} : eMap'[q] = eMap[q]
    BY <2>1
  <2> DEFINE W == {}
  <2>6. /\ \A e \in Ep : e \in X => r \in Held(e)
        /\ \A e \in Ep : r \in Held(e)' => (r \in Held(e) /\ e \notin X) \/ e \in W
    BY <2>3, <2>4
  <2>7. Dropped(epMap', epMap, X) /\ Taken(epMap', epMap', W)
    BY <2>1, <2>2
  <2> HIDE DEF X, W
  <2> QED BY <2>5, <2>6, <2>7, HeldStep
<1>3. ASSUME NEW r \in Rule, NEW S \in EpList, NEW op \in Oper, NEW mon \in BOOLEAN,
             UpdateLbRule(r, S, op, mon)
      PROVE  HeldInv'
  <2>1. r \in DOMAIN eMap /\ S \in SUBSET Ep /\ IsFiniteSet(S) /\ UpdateCases(r, S, op, mon)
    BY <1>3, UpdateLemma
  <2>2. ASSUME NEW c, Outcome(c, eMap[r].eps, S, op), UpdateTo(r, S, mon, c) PROVE HeldInv'
    <3> DEFINE old == eMap[r]
               s == UpdEps(old, S, mon, c)
               X == HeldBy(UpdDel(old, c))
               W == Wanted(s)
    <3>1. Replaces(r, MarkCreated(s), mon)
      BY <2>1, <2>2, UpdateFacts
    <3>2. PICK h1 : Dropped(h1, epMap, X) /\ Taken(epMap', h1, W)
      BY <2>1, <2>2, UpdateHosts
    <3>3. RuleOK(old) /\ op # "attach"
      BY <1>0, <2>1
    <3>4. \A e : /\ e \in X => Has(old.eps, e)
                 /\ Has(MarkCreated(s), e) => (Has(old.eps, e) /\ e \notin X) \/ e \in W
      BY <2>1, <2>2, <3>3, UpdHasLemma
    <3> HIDE DEF s, X, W
    <3>5. \A e : (r \in Held(e) <=> Has(old.eps, e)) /\ (r \in Held(e)' <=> Has(MarkCreated(s), e))
      BY <2>1, <3>1 DEF Held, Replaces
    <3>6. DOMAIN eMap' \ {r} = DOMAIN eMap \ {r} /\ \A q \in DOMAIN eMap \ {r} : eMap'[q] = eMap[q]
      BY <3>1 DEF Replaces
    <3>7. /\ \A e \in Ep : e \in X => r \in Held(e)
          /\ \A e \in Ep : r \in Held(e)' => (r \in Held(e) /\ e \notin X) \/ e \in W
      BY <3>4, <3>5
    <3> QED BY <3>2, <3>6, <3>7, HeldStep
  <2> QED BY <1>2, <2>1, <2>2 DEF UpdateCases
<1>4. ASSUME NEW r \in Rule, NEW S \in EpList, NEW op \in Oper, NEW mon \in BOOLEAN,
             NEW moved \in BOOLEAN, RefuseLbRule(r, S, op, mon, moved)
      PROVE  HeldInv'
  <2>1. /\ r \in DOMAIN eMap /\ Replaces(r, eMap'[r].eps, eMap[r].actChk)
        /\ Carried(eMap'[r].eps, eMap[r].eps)
    BY <1>4, RefuseFacts
  <2>2. epMap' = epMap
    BY <1>4 DEF RefuseLbRule
  <2> QED BY <2>1, <2>2, HeldSame DEF Replaces
<1>5. ASSUME NEW e \in Ep, DeleteEPHost(e) PROVE HeldInv'
  <2> SUFFICES ASSUME NEW f \in Ep PROVE Counts(epMap', f, Held(f)')
    BY DEF HeldInv
  <2>1. Held(f)' = Held(f) /\ Counts(epMap, f, Held(f))
    BY <1>5 DEF DeleteEPHost, Held, HeldInv
  <2>2. /\ e \in DOMAIN epMap /\ epMap[e].ruleCount <= 0 /\ DOMAIN epMap' = DOMAIN epMap \ {e}
        /\ \A g \in DOMAIN epMap' : epMap'[g] = epMap[g]
    BY <1>5 DEF DeleteEPHost, Without, Restrict
  <2>3. CASE f = e
    <3>1. IsFiniteSet(Held(e))
      <4>1. IsFiniteSet(DOMAIN eMap) /\ Held(e) \subseteq DOMAIN eMap
        BY DEF LbInv, RulesOK, Held
      <4> QED BY <4>1, FS_Subset
    <3>2. Cardinality(Held(e)) \in Nat /\ (Cardinality(Held(e)) = 0 <=> Held(e) = {})
      BY <3>1, FS_CardinalityType, FS_EmptySet
    <3>3. epMap[e].ruleCount \in Int
      BY <1>0, <2>2 DEF HostsOK, epHost
    <3>4. Held(e) = {}
      BY <2>1, <2>2, <2>3, <3>2, <3>3 DEF Counts
    <3> QED BY <2>1, <2>3, <3>4 DEF Counts
  <2>4. CASE f # e
    BY <2>1, <2>2, <2>4 DEF Counts
  <2> QED BY <2>3, <2>4
<1>6. ASSUME NEW bad \in SUBSET DOMAIN eMap, RulesSync(bad) PROVE HeldInv'
  <2>1. DOMAIN eMap' = DOMAIN eMap /\ \A q \in DOMAIN eMap : Carried(eMap'[q].eps, eMap[q].eps)
    BY <1>6, SyncFacts
  <2>2. epMap' = epMap
    BY <1>6 DEF RulesSync
  <2> QED BY <2>1, <2>2, HeldSame
<1>7. ASSUME HostOnly PROVE HeldInv'
  BY <1>7, HeldSame DEF HostOnly
<1>8. ASSUME UNCHANGED vars PROVE HeldInv'
  <2>1. eMap' = eMap /\ epMap' = epMap
    BY <1>8 DEF vars
  <2> QED BY <2>1, HeldSame
<1>9. ASSUME NEW r \in Rule, DeleteLbRule(r) PROVE HeldInv'
  BY <1>2, <1>9 DEF DeleteLbRule
<1> QED BY <1>1, <1>3, <1>4, <1>5, <1>6, <1>7, <1>8, <1>9, HostFacts DEF Next

(* HostsCounted: as long as callers do not attach end-points to a rule that   *)
(* exists, a host that active end-points refer to stays in the table and      *)
(* counts them all, through updates, resets, refused calls, deletions of      *)
(* rules and calls on the host itself (AddEPHost, DeleteEPHost).              *)
THEOREM HostsCountedHolds ==
  ASSUME "attach" \notin Oper
  PROVE  Spec => []HostsCounted
<1>1. Init => HeldInv
  BY DEF Init, NoMap, HeldInv, Held, Counts
<1>2. LbInv /\ HeldInv => HostsCounted
  <2> SUFFICES ASSUME LbInv, HeldInv, NEW e \in Ep, Holders(e) # {}
               PROVE  e \in DOMAIN epMap /\ epMap[e].ruleCount >= Cardinality(Holders(e))
    BY DEF HostsCounted
  <2>1. Holders(e) \subseteq Held(e)
    <3> SUFFICES ASSUME NEW r \in Holders(e) PROVE r \in Held(e)
      OBVIOUS
    <3>0. r \in DOMAIN eMap /\ RuleOK(eMap[r])
      BY DEF Holders, LbInv, RulesOK
    <3>1. r \in DOMAIN eMap /\ DOMAIN eMap[r].eps = 1 .. Len(eMap[r].eps)
      BY <3>0 DEF RuleOK, ListOK
    <3>2. PICK i \in 1 .. Len(eMap[r].eps) : eMap[r].eps[i].ep = e /\ eMap[r].eps[i].epCreated
      BY <3>1 DEF Holders, Range
    <3> QED BY <3>1, <3>2 DEF Held, Has
  <2>2. IsFiniteSet(Held(e))
    <3>1. IsFiniteSet(DOMAIN eMap) /\ Held(e) \subseteq DOMAIN eMap
      BY DEF LbInv, RulesOK, Held
    <3> QED BY <3>1, FS_Subset
  <2>3. /\ Cardinality(Holders(e)) <= Cardinality(Held(e))
        /\ Cardinality(Holders(e)) \in Nat /\ Cardinality(Held(e)) \in Nat
    BY <2>1, <2>2, FS_Subset, FS_CardinalityType
  <2>4. e \in DOMAIN epMap /\ epMap[e].ruleCount >= Cardinality(Held(e))
    BY <2>1 DEF HeldInv, Counts
  <2>5. epMap[e].ruleCount \in Int
    BY <2>4 DEF LbInv, HostsOK, epHost
  <2> QED BY <2>3, <2>4, <2>5
<1> QED BY <1>1, <1>2, HeldNext, LbAlways, PTL DEF Spec
=============================================================================

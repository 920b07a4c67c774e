------------------------------ MODULE FwTable ------------------------------
(***************************************************************************)
(* The firewall table of a zone (rules.go of pkg/loxinet): rules made by    *)
(* calls, rules made for the port range of a load balancer rule, and rules  *)
(* made for the sources a load balancer rule allows, whose mark has a bit   *)
(* for each of these rules.  A rule can name the port it listens on and the *)
(* port it redirects to; while one is missing it waits for RulesSync.       *)
(*                                                                         *)
(* Left out: SNAT, rules that follow the cluster state (ClusterSync has     *)
(* them), the counters of rule numbers and of sources beyond MaxFw, and     *)
(* failures of datapath requests.                                           *)
(***************************************************************************)
EXTENDS Maps

CONSTANTS
    Wild,      \* no port name, or the address range 0.0.0.0/0
    Bad,       \* a prefix that is not one
    FwReq,     \* rules of calls: tup (port, dst, src, sp, dp), mark, and rdr
    LbReq,     \* load balancer rules: num, srcs, and range (ports, or 0)
    MaxFw,     \* RtMaximumFw4s
    MaxSrcLBMarkerNum

\* A number stands for one load balancer rule while it is there.
ASSUME FwAssumption ==
    /\ \A q, r \in LbReq : q.num = r.num => q.range = r.range
    /\ MaxFw \in Nat /\ MaxSrcLBMarkerNum \in Nat

VARIABLES
    fwMap,     \* eMap of the firewall table
    fwDp,      \* datapath: tuple, with the number of the port -> mark and rdr
    lbSrcMap,  \* allowed sources, by prefix as written: ref and lbmark
    srcList    \* load balancer rule -> prefixes of its allowed sources

fwVars == <<fwMap, fwDp, lbSrcMap, srcList>>

FwInit == fwMap = NoMap /\ fwDp = NoMap /\ lbSrcMap = NoMap /\ srcList = NoMap

Fws == [fw |-> fwMap, dp |-> fwDp, src |-> lbSrcMap]
FwsBecome(new) == \E f \in {new} : fwMap' = f.fw /\ fwDp' = f.dp /\ lbSrcMap' = f.src

-----------------------------------------------------------------------------
(* Rules, with the number of each port, 0 if it is not there               *)

\* The key does not tell source ports from destination ports.
ruleKey(t) == [port |-> t.port, dst |-> t.dst, src |-> t.src,
               ports |-> SelectSeq(<<t.sp, t.dp>>, LAMBDA r : r # 0)]

Numbered(nums, name) == IF name = Wild THEN 0 ELSE nums[name]
DpTuple(nums, t) == [t EXCEPT !.port = Numbered(nums, @)]
DpRule(nums, r) == [mark |-> r.mark, rdr |-> Numbered(nums, r.rdr)]
Waits(nums, r) == \E name \in {r.tup.port, r.rdr} \ {Wild} : nums[name] = 0

\* Fw2DP, for DpCreate and DpRemove.  A removal needs the ports as well.
Fw2DPOnce(f, nums, k) ==
    LET r == f.fw[k]
    IN IF Waits(nums, r) THEN f
       ELSE [f EXCEPT !.fw[k].sync = 0,
                      !.dp = With(@, DpTuple(nums, r.tup), DpRule(nums, r))]
Fw2DP(f, nums, k) ==
    LET r == f.fw[k]
    IN IF Waits(nums, r) THEN [f EXCEPT !.fw[k].sync = 1]
       ELSE [f EXCEPT !.fw[k].sync = 0,
                      !.dp = With(@, DpTuple(nums, r.tup), DpRule(nums, r))]
FwUnDP(f, nums, k) ==
    IF Waits(nums, f.fw[k]) THEN [f EXCEPT !.fw[k].sync = 1]
    ELSE [f EXCEPT !.dp = Without(@, {DpTuple(nums, f.fw[k].tup)})]

\* AddFwRule: a rule that exists takes the mark of the call that is refused.
ReMarkLate(f, nums, k, mark) ==
    FwUnDP(Fw2DP([f EXCEPT !.fw[k].mark = mark], nums, k), nums, k)
ReMark(f, nums, k, mark) ==
    Fw2DP([FwUnDP(f, nums, k) EXCEPT !.fw[k].mark = mark], nums, k)

AddFwRule(f, nums, r) ==
    LET k == ruleKey(r.tup)
    IN IF k \in DOMAIN f.fw
       THEN [f   |-> IF f.fw[k].mark = r.mark THEN f ELSE ReMark(f, nums, k, r.mark),
             err |-> "exists"]
       ELSE IF Cardinality(DOMAIN f.fw) >= MaxFw THEN [f |-> f, err |-> "mark"]
       ELSE [f |-> Fw2DP([f EXCEPT !.fw = With(@, k, r)], nums, k), err |-> ""]

\* DeleteFwRule writes the destination ports over the source ports.
DeleteFwRule(f, nums, t) ==
    LET k == ruleKey(IF t.dp = 0 THEN t ELSE [t EXCEPT !.sp = t.dp, !.dp = 0])
    IN IF k \in DOMAIN f.fw THEN [FwUnDP(f, nums, k) EXCEPT !.fw = Without(@, {k})] ELSE f

-----------------------------------------------------------------------------
(* Rules made for load balancer rules                                      *)

FwRule(dst, src, dp, mark) ==
    [tup |-> [port |-> Wild, dst |-> dst, src |-> src, sp |-> 0, dp |-> dp],
     mark |-> mark, rdr |-> Wild, sync |-> 0]

\* The rules of addLbRuleWithFW and of addAllowedLbSrc.
RangeFw(q) == FwRule(<<"vip", q.num>>, Wild, q.range, <<"nat", q.num>>)
SrcFw(p, lbmark) == FwRule(Wild, p, 0, <<"src", lbmark>>)

addLbRuleWithFW(f, nums, q) ==
    IF q.range = 0 THEN f ELSE AddFwRule(f, nums, RangeFw(q)).f
deleteLbRuleWithFW(f, nums, q) ==
    IF q.range = 0 THEN f ELSE DeleteFwRule(f, nums, RangeFw(q).tup)

\* A prefix as written is the prefix and the bits below its mask.
Written(p) == <<p, 0>>

\* addAllowedLbSrc of rule n, where x is the table and the list so far, or a
\* failure.
ReferredOnce(f, c, n) ==
    IF c \in DOMAIN f.src THEN [f.src[c] EXCEPT !.lbmark = @ \cup {n}]
    ELSE [ref |-> 1, lbmark |-> {n}]
ReferredOnly(f, c, n) ==
    IF c \in DOMAIN f.src THEN [ref |-> f.src[c].ref + 1, lbmark |-> {n}]
    ELSE [ref |-> 1, lbmark |-> {n}]
Referred(f, c, n) ==
    IF c \in DOMAIN f.src THEN [ref |-> f.src[c].ref + 1, lbmark |-> f.src[c].lbmark \cup {n}]
    ELSE [ref |-> 1, lbmark |-> {n}]

addAllowedLbSrc(x, nums, c, n) ==
    LET e == Referred(x.f, c, n)
        f == IF c \in DOMAIN x.f.src THEN [x.f EXCEPT !.src[c] = e] ELSE x.f
        t == AddFwRule(f, nums, SrcFw(c[1], e.lbmark))
    IN IF ~x.ok \/ c[1] = Bad \/ n > MaxSrcLBMarkerNum THEN [x EXCEPT !.ok = FALSE]
       ELSE IF t.err = "mark" THEN [x EXCEPT !.f = t.f, !.ok = FALSE]
       ELSE [x EXCEPT !.f = [t.f EXCEPT !.src = With(@, c, e)], !.list = Append(@, c[1])]

\* deleteAllowedLbSrc, which looks for the prefix as printed.  A source that
\* stays keeps the mark of its firewall rule: the call that should change it
\* has no destination and is refused.
deleteAllowedLbSrc(f, nums, p, n) ==
    LET c == Written(p)
    IN IF c \notin DOMAIN f.src \/ n > MaxSrcLBMarkerNum THEN f
       ELSE IF f.src[c].ref = 1
       THEN [DeleteFwRule(f, nums, SrcFw(p, {}).tup) EXCEPT !.src = Without(@, {c})]
       ELSE [f EXCEPT !.src[c] = [ref |-> @.ref - 1, lbmark |-> @.lbmark \ {n}]]

AddSrcs(f, nums, q) ==
    FoldLeft(LAMBDA x, c : addAllowedLbSrc(x, nums, c, q.num), [f |-> f, list |-> <<>>, ok |-> TRUE], q.srcs)
DeleteSrcs(f, nums, ps, n) == FoldLeft(LAMBDA g, p : deleteAllowedLbSrc(g, nums, p, n), f, ps)

\* Whether AddLbRule takes the sources for changed: the lengths differ, or one
\* of the new equals all of the old.
SrcsChanged(old, new) ==
    \/ Len(old) # Len(new)
    \/ \E c \in Range(new) : \A p \in Range(old) : c = Written(p)

-----------------------------------------------------------------------------
(* Steps, with the numbers of the ports                                    *)

NetFwRuleAdd(nums, r) == FwsBecome(AddFwRule(Fws, nums, r).f) /\ UNCHANGED srcList

NetFwRuleDel(nums, r) == FwsBecome(DeleteFwRule(Fws, nums, r.tup)) /\ UNCHANGED srcList

\* AddLbRule of a rule that gets the number q.num.
AddLbRule(nums, q) ==
    LET x == AddSrcs(Fws, nums, q)
    IN /\ q.num \notin DOMAIN srcList
       /\ IF x.ok
          THEN FwsBecome(addLbRuleWithFW(x.f, nums, q)) /\ srcList' = With(srcList, q.num, x.list)
          ELSE FwsBecome(DeleteSrcs(x.f, nums, x.list, q.num)) /\ UNCHANGED srcList

\* AddLbRule of the rule that has it, which other parts may have changed of:
\* the new sources are added before the old are released.
UpdateLbRule(nums, q, chg) ==
    LET x == AddSrcs(Fws, nums, q)
    IN /\ q.num \in DOMAIN srcList
       /\ chg \/ SrcsChanged(srcList[q.num], q.srcs)
       /\ IF x.ok
          THEN /\ FwsBecome(DeleteSrcs(x.f, nums, srcList[q.num], q.num))
               /\ srcList' = [srcList EXCEPT ![q.num] = x.list]
          ELSE FwsBecome(DeleteSrcs(x.f, nums, x.list, q.num)) /\ UNCHANGED srcList

DeleteLbRule(nums, q) ==
    /\ q.num \in DOMAIN srcList
    /\ FwsBecome(DeleteSrcs(deleteLbRuleWithFW(Fws, nums, q), nums, srcList[q.num], q.num))
    /\ srcList' = Without(srcList, {q.num})

\* The firewall part of RulesSync.
RulesSync(nums) ==
    /\ FwsBecome(FoldLeft(LAMBDA f, k : Fw2DP(f, nums, k), Fws,
                          SetToSeq({k \in DOMAIN fwMap : fwMap[k].sync # 0})))
    /\ UNCHANGED srcList

=============================================================================

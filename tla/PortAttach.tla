----------------------------- MODULE PortAttach -----------------------------
(***************************************************************************)
(* Policers and mirrors of a zone (qospol.go, mirror.go of pkg/loxinet) and *)
(* the ports they are attached to by name.  Both are written alike, so that *)
(* one model with a kind, "pol" or "mirr", serves for both.  An attachment  *)
(* that finds no port, or one that is taken, is marked for the ticker.      *)
(*                                                                         *)
(* Attachments to rules, which the code accepts and ignores, and failures   *)
(* of datapath requests are left out.                                       *)
(***************************************************************************)
EXTENDS Maps

CONSTANTS
    NoPort,    \* the out of a policer
    AttReq,    \* requests: kind, name, rev (rates or type), out (the port a mirror
               \* copies to), and obj (the port to attach to)
    MaxMark    \* kind -> size of its counter Mark

Kind == {"pol", "mirr"}
\* What GetCounter returns when it has nothing to give.
Overflow == -1

VARIABLES
    attMap,    \* PolMap and MirrMap: kind and name -> entry
    portProp,  \* kind and link -> number the Port object has, or 0
    freeMark,  \* kind -> Mark
    gone       \* history: links whose deletion no ticker has seen

attVars == <<attMap, portProp, freeMark, gone>>

AttInit ==
    /\ attMap = NoMap
    /\ portProp = [p \in Kind \X {r.obj : r \in AttReq} |-> 0]
    /\ freeMark = [k \in Kind |-> NewCounter(MaxMark[k])]
    /\ gone = {}

Atts == [map |-> attMap, prop |-> portProp, free |-> freeMark]
AttsBecome(new) == \E a \in {new} :
    attMap' = a.map /\ portProp' = a.prop /\ freeMark' = a.free

Slot(a, k) == <<k[1], a.map[k].obj>>

\* DP(DpCreate) of an entry: a mirror needs the port it mirrors to.
EntryDP(a, up, k) ==
    [a EXCEPT !.map[k].Sync = IF a.map[k].out \in up \cup {NoPort} THEN 0 ELSE 1]

\* PortUpdateProp, for the number n or, with 0, for taking it away: a port that
\* has a number is refused one, and loses whatever number it has.
PortUpdateProp(a, p, n) == [a EXCEPT !.prop[p] = IF (@ = 0) = (n = 0) THEN @ ELSE n]

\* PolObj2DP and MirrObj2DP, for DpCreate and DpRemove.
Obj2DP(a, up, k) ==
    LET p == Slot(a, k)
    IN IF a.map[k].obj \notin up \/ a.prop[p] # 0 THEN [a EXCEPT !.map[k].objSync = 1]
       ELSE [PortUpdateProp(a, p, a.map[k].HwNum) EXCEPT !.map[k].objSync = 0]
ObjUnDPNone(a, up, k) == a
ObjUnDP(a, up, k) ==
    IF a.map[k].obj \in up THEN PortUpdateProp(a, Slot(a, k), 0) ELSE a

\* PolDelete and MirrDelete.
AttDeleted(a, up, k) ==
    LET n == a.map[k].HwNum
    IN [ObjUnDP(a, up, k) EXCEPT
          !.map = Without(@, {k}),
          !.free[k[1]] = IF n = Overflow THEN @ ELSE Append(@, n)]

\* PolAdd and MirrAdd.  The test of HwNum for an error is one of an unsigned
\* number for being negative, and the entry is made all the same.
AttAdded(a, up, r) ==
    LET k   == <<r.kind, r.name>>
        had == k \in DOMAIN a.map
        b   == IF had THEN AttDeleted(a, up, k) ELSE a
        f   == b.free[r.kind]
        e   == [rev |-> r.rev, out |-> r.out, obj |-> r.obj, Sync |-> 0, objSync |-> 0,
                HwNum |-> IF f = <<>> THEN Overflow ELSE Head(f)]
        c   == [b EXCEPT !.map = With(@, k, e),
                         !.free[r.kind] = IF @ = <<>> THEN @ ELSE Tail(@)]
    IN IF had /\ a.map[k].rev = r.rev /\ a.map[k].out = r.out THEN a
       ELSE Obj2DP(EntryDP(c, up, k), up, k)

\* PolTicker and MirrTicker.  With an entry to repeat, the attachment is
\* repeated on a copy, which takes the outcome with it.
AttTicker(a, up, k) ==
    IF a.map[k].Sync # 0
    THEN [Obj2DP(EntryDP(a, up, k), up, k) EXCEPT !.map[k].objSync = a.map[k].objSync]
    ELSE IF a.map[k].objSync # 0 THEN Obj2DP(a, up, k)
    ELSE [a EXCEPT !.map[k].objSync = IF a.map[k].obj \in up THEN 0 ELSE 1]

-----------------------------------------------------------------------------
(* Steps, with the ports that are up                                       *)

AttAdd(up, r) == AttsBecome(AttAdded(Atts, up, r)) /\ UNCHANGED gone

AttDel(up, k) ==
    /\ k \in DOMAIN attMap
    /\ AttsBecome(AttDeleted(Atts, up, k)) /\ UNCHANGED gone

AttTickers(up) ==
    /\ \E ks \in SetToSeqs(DOMAIN attMap) :
          AttsBecome(FoldLeft(LAMBDA a, k : AttTicker(a, up, k), Atts, ks))
    /\ gone' = gone \cap {attMap[k].obj : k \in {j \in DOMAIN attMap : attMap[j].Sync # 0}}

\* A Port object takes its numbers with it.
AttPortDel(l) ==
    /\ portProp' = [p \in DOMAIN portProp |-> IF p[2] = l THEN 0 ELSE portProp[p]]
    /\ gone' = gone \cup ({l} \cap {attMap[k].obj : k \in DOMAIN attMap})
    /\ UNCHANGED <<attMap, freeMark>>

=============================================================================

------------------------------- MODULE XSync -------------------------------
(***************************************************************************)
(* Synchronisation of connection tracking (CT) between two cluster nodes:  *)
(* the shadow map ctMap and the datapath ticker of dpebpf_linux.go, the    *)
(* RPC client DpXsyncRPC of dpbroker.go and the RPC server of              *)
(* xsync_server.go.                                                        *)
(*                                                                         *)
(* A connection key is a model value.  Of a CT entry the model keeps the   *)
(* state ("est" or some "new" state before and after it) and the action    *)
(* CAct.  Time since NTs is counted in ticks of the node.                  *)
(***************************************************************************)
EXTENDS Naturals, Sequences, FiniteSets, TLC, SequencesExt

CONSTANTS
    Node, Peer,    \* the two nodes, and the other node of each
    Boss,          \* the node that starts as MASTER
    Conn,          \* connection keys
    Act,           \* values of CAct
    None,          \* no entry
    MaxRetries,    \* ctiAddSyncRetries and ctiDeleteSyncRetries
    BlockLen,      \* blkCtiMaxLen
    RipeAge,       \* ticks until an update is sent (10 s)
    RefreshAge,    \* ticks until the statistics are looked at (60 s)
    SlowInit,      \* whether the ticker fires before loxiNetInit is through
    Scenarios,     \* what may happen in a behaviour: the kinds of faults
                   \* ("rule": rules come late, "end": connections end,
                   \* "calm": faults and traffic end) and the actions
    Crashers,      \* nodes that crash
    MaxFaults,     \* bound on the number of faults
    MaxNoti        \* bound on map notifications not yet handled

ASSUME XSyncAssumption ==
    /\ Peer \in [Node -> Node] /\ Boss \in Node
    /\ \A n \in Node : Peer[n] # n /\ Peer[Peer[n]] = n
    /\ {MaxRetries, RipeAge, RefreshAge, MaxFaults, MaxNoti} \subseteq Nat
    /\ BlockLen \in Nat \ {0} /\ 0 < RipeAge /\ RipeAge <= RefreshAge
    /\ SlowInit \in BOOLEAN
    /\ Crashers \subseteq Node
    /\ Scenarios \subseteq
          [kinds : SUBSET {"crash", "timeout", "flip", "rule", "full", "end", "calm"},
           acts  : SUBSET Act]

VARIABLES
    kern,     \* CT map of the kernel: connections with state and action
    noti,     \* map notifications not yet handled
    ctMap,    \* shadow entries
    role,     \* state of the cluster instance
    stage,    \* "down", "init", or "ready" (mh.ready)
    cluster,  \* the peer: "none", "node" (in NodeMap), "peer" (and in Peers)
    rule,     \* connections whose LB rule is installed
    CtSync,   \* the peer was asked for its connections
    ctBcast,  \* a request for a broadcast is queued
    remotes,  \* the peer announced itself (Remotes)
    client,   \* Client of the peer: "nil", "ok", "stale"
    mtx,      \* dpEbpf.mtx is held over a call
    tick,     \* the ticker goroutine: where it is, and what it has to send
    call,     \* its outbound DpXsyncRPC
    inbox,    \* calls the RPC server works on
    got,      \* action of each connection last taken from the peer (history)
    faults,   \* kinds of the faults so far
    calm,     \* no more faults and no more changes of connections
    scen      \* the scenario of this behaviour

ctVars  == <<kern, noti, ctMap, got, mtx>>
rpcVars == <<client, call, inbox>>
envVars == <<role, stage, cluster, rule, faults, calm, scen>>
vars == <<ctVars, rpcVars, envVars, CtSync, ctBcast, remotes, tick>>

State == {"new", "est"}
Ops   == {"get", "bcast", "add", "del"}

Min2(x, y) == IF x < y THEN x ELSE y

\* A connection has an action once it is established.
CtEnt == [st : {"new"}, act : {None}] \cup [st : {"est"}, act : Act]
\* fresh: NTs was set after the last scan of the map.  SyncRetries and
\* Deleted stop at the first value past their limits.
DpCtInfo == [st : State, act : Act \cup {None}, XSync : BOOLEAN, fresh : BOOLEAN,
             SyncRetries : 0..MaxRetries + 1, Deleted : 0..MaxRetries + 2,
             age : 0..RefreshAge]
Clone == [key : Conn, act : Act, Deleted : 0..MaxRetries + 2]

TypeOK ==
    /\ kern \in [Node -> [Conn -> CtEnt \cup {None}]]
    /\ noti \in [Node -> Seq([key : Conn, ent : CtEnt])]
    /\ ctMap \in [Node -> [Conn -> DpCtInfo \cup {None}]]
    /\ role \in [Node -> {"MASTER", "BACKUP"}]
    /\ stage \in [Node -> {"down", "init", "ready"}]
    /\ cluster \in [Node -> {"none", "node", "peer"}]
    /\ rule \in [Node -> SUBSET Conn]
    /\ CtSync \in [Node -> BOOLEAN] /\ ctBcast \in [Node -> BOOLEAN]
    /\ remotes \in [Node -> BOOLEAN] /\ mtx \in [Node -> BOOLEAN]
    /\ client \in [Node -> {"nil", "ok", "stale"}]
    /\ tick \in [Node -> [pc : {"idle", "scan", "call"},
                          adds : Seq(Clone), dels : Seq(Clone)]]
    /\ call \in [Node -> [op : Ops, blk : Seq(Clone), tries : 0..1,
                          st : {"none", "start", "wait", "failed", "ok"}]]
    /\ \A n \in Node : \A c \in inbox[n] :
          c \in [op : Ops, blk : Seq(Clone), bad : BOOLEAN, live : BOOLEAN]
    /\ got \in [Node -> [Conn -> Act \cup {None}]]
    /\ scen \in Scenarios
    /\ faults \in Seq(scen.kinds) /\ Len(faults) <= MaxFaults /\ calm \in BOOLEAN

NoCall == [op |-> "get", blk |-> <<>>, tries |-> 0, st |-> "none"]
Idle   == [pc |-> "idle", adds |-> <<>>, dels |-> <<>>]

Init ==
    /\ kern = [n \in Node |-> [k \in Conn |-> None]]
    /\ noti = [n \in Node |-> <<>>]
    /\ ctMap = [n \in Node |-> [k \in Conn |-> None]]
    /\ role = [n \in Node |-> IF n = Boss THEN "MASTER" ELSE "BACKUP"]
    /\ stage = [n \in Node |-> "down"]
    /\ cluster = [n \in Node |-> "none"]
    /\ scen \in Scenarios
    /\ rule = [n \in Node |-> IF "rule" \in scen.kinds THEN {} ELSE Conn]
    /\ CtSync = [n \in Node |-> FALSE] /\ ctBcast = [n \in Node |-> FALSE]
    /\ remotes = [n \in Node |-> FALSE] /\ mtx = [n \in Node |-> FALSE]
    /\ client = [n \in Node |-> "nil"]
    /\ tick = [n \in Node |-> Idle] /\ call = [n \in Node |-> NoCall]
    /\ inbox = [n \in Node |-> {}]
    /\ got = [n \in Node |-> [k \in Conn |-> None]]
    /\ faults = <<>> /\ calm = FALSE

Fault(kind) ==
    /\ kind \in scen.kinds /\ ~calm /\ Len(faults) < MaxFaults
    /\ faults' = Append(faults, kind)

-----------------------------------------------------------------------------
(* Shadow entries                                                          *)

\* A new shadow entry; an established one is to be sent.
NewEnt(e) ==
    [st |-> e.st, act |-> e.act, XSync |-> e.st = "est", fresh |-> TRUE,
     SyncRetries |-> 0, Deleted |-> 0, age |-> 0]

SetEnt(n, k, e) == ctMap' = [ctMap EXCEPT ![n][k] = e]

\* dpCTMapNotifierWorker: an addition or update in the kernel map.  Deletions
\* are not notified, and additions without a rule are ignored.
dpCTMapNotifierWorker(n) ==
    /\ noti[n] # <<>> /\ ~mtx[n]
    /\ LET k == Head(noti[n]).key
           e == Head(noti[n]).ent
           cte == ctMap[n][k]
           same == cte # None /\ cte.st = e.st /\ cte.act = e.act
       IN IF k \notin rule[n] \/ same THEN UNCHANGED ctMap
          ELSE SetEnt(n, k, NewEnt(e))
    /\ noti' = [noti EXCEPT ![n] = Tail(@)]
    /\ UNCHANGED <<kern, got, mtx, rpcVars, envVars, CtSync, ctBcast, remotes, tick>>

\* The first part of the scan: what becomes of a shadow entry when the kernel
\* has g for it.  busy: its packet count differs from the one last seen;
\* long: its LTs is 5 minutes ago, which cannot be before its NTs is old.
ChkEnt(e, g, busy, long) ==
    LET o == [e EXCEPT !.age = Min2(@ + 1, RefreshAge), !.fresh = FALSE]
        old == o.age = RefreshAge
    IN IF e.st # "est" THEN IF g = None THEN None ELSE NewEnt(g)
       ELSE IF old /\ long /\ g = None THEN None
       ELSE IF o.XSync \/ ~old THEN o
       ELSE IF g = None THEN [o EXCEPT !.Deleted = Min2(@ + 1, MaxRetries + 2),
                                       !.XSync = TRUE]
       ELSE IF busy THEN [o EXCEPT !.SyncRetries = 0, !.XSync = TRUE, !.age = 0]
       ELSE o

\* The second part: whether the entry is sent now; the entry counts it.
IsDue(e) == e # None /\ e.st = "est" /\ e.XSync /\ e.age >= RipeAge
ToSend(e) ==
    IF ~IsDue(e) THEN e
    ELSE IF e.Deleted > 0 THEN [e EXCEPT !.Deleted = Min2(@ + 1, MaxRetries + 2)]
    ELSE [e EXCEPT !.SyncRetries = Min2(@ + 1, MaxRetries + 1)]

CloneOf(m, k) == [key |-> k, act |-> m[k].act, Deleted |-> m[k].Deleted]

Start(n, op, blk, adds, dels) ==
    /\ tick' = [tick EXCEPT ![n] = [pc |-> "call", adds |-> adds, dels |-> dels]]
    /\ call' = [call EXCEPT ![n] = [op |-> op, blk |-> blk, tries |-> 0, st |-> "start"]]

Block(s) == SubSeq(s, 1, Min2(BlockLen, Len(s)))
Rest(s)  == SubSeq(s, Min2(BlockLen, Len(s)) + 1, Len(s))

\* dpCTMapSyncBlocks: additions first, then deletions, block by block.
dpCTMapSyncBlocks(n, adds, dels) ==
    IF adds # <<>> THEN Start(n, "add", Block(adds), Rest(adds), dels)
    ELSE IF dels # <<>> THEN Start(n, "del", Block(dels), <<>>, Rest(dels))
    ELSE /\ tick' = [tick EXCEPT ![n] = Idle]
         /\ call' = [call EXCEPT ![n] = NoCall]

\* Mutant of dpCTMapChkUpdates: the mutex is held while blocks are sent.
dpCTMapChkUpdatesLocked(n, busy, long) ==
    LET chk  == [k \in Conn |-> IF ctMap[n][k] = None THEN None
                                ELSE ChkEnt(ctMap[n][k], kern[n][k], k \in busy, k \in long)]
        sent == [k \in Conn |-> ToSend(chk[k])]
        Due(del) == {CloneOf(sent, k) : k \in {c \in Conn :
                        IsDue(chk[c]) /\ (chk[c].Deleted > 0) = del}}
    IN /\ ctMap' = [ctMap EXCEPT ![n] = sent]
       /\ \E adds \in SetToSeqs(Due(FALSE)), dels \in SetToSeqs(Due(TRUE)) :
             dpCTMapSyncBlocks(n, adds, dels)
       /\ mtx' = [mtx EXCEPT ![n] = \E k \in Conn : IsDue(chk[k])]

\* dpCTMapChkUpdates, with the map visited in any order; the mutex is
\* released before anything is sent.  Connections of a standby node carry no
\* traffic.
dpCTMapChkUpdates(n, busy, long) ==
    LET chk  == [k \in Conn |-> IF ctMap[n][k] = None THEN None
                                ELSE ChkEnt(ctMap[n][k], kern[n][k], k \in busy, k \in long)]
        sent == [k \in Conn |-> ToSend(chk[k])]
        Due(del) == {CloneOf(sent, k) : k \in {c \in Conn :
                        IsDue(chk[c]) /\ (chk[c].Deleted > 0) = del}}
    IN /\ ctMap' = [ctMap EXCEPT ![n] = sent]
       /\ \E adds \in SetToSeqs(Due(FALSE)), dels \in SetToSeqs(Due(TRUE)) :
             dpCTMapSyncBlocks(n, adds, dels)
       /\ mtx' = [mtx EXCEPT ![n] = FALSE]

\* dpEbpfTicker, a tick: ask the peer for its connections until that has
\* worked once ...
TickGet(n) ==
    /\ tick[n].pc = "idle" /\ ~CtSync[n]
    /\ stage[n] # "down"
    /\ Start(n, "get", <<>>, <<>>, <<>>)
    /\ UNCHANGED <<ctVars, envVars, client, inbox, CtSync, ctBcast, remotes>>

\* ... and look for updates.
TickScan(n) ==
    /\ tick[n].pc = "scan" \/ (tick[n].pc = "idle" /\ CtSync[n])
    /\ stage[n] # "down" /\ ~mtx[n]
    /\ \E busy \in SUBSET {k \in Conn : kern[n][k] # None /\ role[n] = "MASTER" /\ ~calm},
          long \in SUBSET {k \in Conn : kern[n][k] = None} :
          dpCTMapChkUpdates(n, busy, long)
    /\ UNCHANGED <<kern, noti, got, client, inbox, envVars, CtSync, ctBcast, remotes>>

\* dpEbpfTicker, a queued request: dpCTMapBcast sends everything again and
\* announces this node.
dpCTMapBcast(n) ==
    /\ tick[n].pc = "idle" /\ ctBcast[n] /\ ~mtx[n]
    /\ ctMap' = [ctMap EXCEPT ![n] = [k \in Conn |->
          IF @[k] # None /\ @[k].Deleted = 0 /\ @[k].st = "est"
          THEN [@[k] EXCEPT !.SyncRetries = 0, !.XSync = TRUE] ELSE @[k]]]
    /\ ctBcast' = [ctBcast EXCEPT ![n] = FALSE]
    /\ Start(n, "bcast", <<>>, <<>>, <<>>)
    /\ UNCHANGED <<kern, noti, got, mtx, envVars, client, inbox, CtSync, remotes>>

\* Mutant of FinishEnt: the result of a call goes to whatever is there now.
FinishEntBlind(e, c, del, ok) ==
    IF e = None THEN e
    ELSE IF del THEN IF ok \/ e.Deleted > MaxRetries THEN None ELSE e
    ELSE IF ok \/ e.SyncRetries > MaxRetries
         THEN [e EXCEPT !.XSync = FALSE, !.SyncRetries = 0] ELSE e

\* Mutant of FinishEnt: a finished deletion takes whatever is there now.
FinishEntGone(e, c, del, ok) ==
    IF e = None \/ (~del /\ (e.fresh \/ e.Deleted # c.Deleted)) THEN e
    ELSE IF del THEN IF ok \/ e.Deleted > MaxRetries THEN None ELSE e
    ELSE IF ok \/ e.SyncRetries > MaxRetries
         THEN [e EXCEPT !.XSync = FALSE, !.SyncRetries = 0] ELSE e

\* dpCTMapFinishSync for one entry: nothing if it changed since it was sent.
FinishEnt(e, c, del, ok) ==
    IF e = None \/ e.fresh \/ e.Deleted # c.Deleted THEN e
    ELSE IF del THEN IF ok \/ e.Deleted > MaxRetries THEN None ELSE e
    ELSE IF ok \/ e.SyncRetries > MaxRetries
         THEN [e EXCEPT !.XSync = FALSE, !.SyncRetries = 0] ELSE e

dpCTMapFinishSync(n, blk, del, ok) ==
    ctMap' = [ctMap EXCEPT ![n] = [k \in Conn |->
        IF \E c \in Range(blk) : c.key = k
        THEN FinishEnt(@[k], CHOOSE c \in Range(blk) : c.key = k, del, ok) ELSE @[k]]]

\* The end of a call, back in the ticker goroutine: a failed block ends the tick.
Finish(n) ==
    LET c == call[n]
        ok == c.st = "ok"
        t == tick[n]
    IN /\ t.pc = "call" /\ c.st \in {"ok", "failed"} /\ ~mtx[n]
       /\ IF c.op \in {"add", "del"} THEN dpCTMapFinishSync(n, c.blk, c.op = "del", ok)
          ELSE UNCHANGED ctMap
       /\ CtSync' = [CtSync EXCEPT ![n] = @ \/ (c.op = "get" /\ ok)]
       /\ CASE c.op = "get" -> /\ tick' = [tick EXCEPT ![n].pc = "scan"]
                               /\ call' = [call EXCEPT ![n] = NoCall]
            [] c.op \in {"add", "del"} /\ ok -> dpCTMapSyncBlocks(n, t.adds, t.dels)
            [] OTHER -> dpCTMapSyncBlocks(n, <<>>, <<>>)
       /\ UNCHANGED <<kern, noti, got, mtx, envVars, client, inbox, ctBcast, remotes>>

-----------------------------------------------------------------------------
(* DpXsyncRPC                                                              *)

Return(n, ok) == call' = [call EXCEPT ![n].st = IF ok THEN "ok" ELSE "failed"]

\* Mutant of Retry: calls are made again until they work.
RetryForever(n) ==
    /\ client' = [client EXCEPT ![n] = "nil"]
    /\ call' = [call EXCEPT ![n].tries = @ + 1, ![n].st = "start"]

\* A call that ends in an error drops the connection and is made once more;
\* the retry does not undo the failure.
Retry(n) ==
    /\ client' = [client EXCEPT ![n] = "nil"]
    /\ IF call[n].tries = 0
       THEN call' = [call EXCEPT ![n].tries = 1, ![n].st = "start"]
       ELSE Return(n, FALSE)

\* DpXsyncRPC up to RPCSend.  Without peers there is nothing to do; a node
\* that is not master sends neither additions nor deletions.
DpXsyncRPC(n) ==
    LET p == Peer[n]
        c == call[n]
        cl == IF client[n] = "nil" /\ stage[p] # "down"
              THEN [client EXCEPT ![n] = "ok"] ELSE client
        connected == cluster[n] = "peer" /\ cl[n] # "nil"
        allowed == c.op \notin {"add", "del"} \/ role[n] = "MASTER"
    IN /\ c.st = "start"
       /\ \/ /\ cluster[n] = "none"
             /\ Return(n, TRUE) /\ UNCHANGED <<client, inbox>>
          \/ /\ cluster[n] = "node" \/ (cluster[n] = "peer" /\ cl[n] = "nil")
             /\ Return(n, FALSE) /\ UNCHANGED <<client, inbox>>
          \/ /\ connected /\ ~allowed
             /\ Return(n, TRUE) /\ client' = cl /\ UNCHANGED inbox
          \/ /\ connected /\ allowed /\ cl[n] = "stale"
             /\ Retry(n) /\ UNCHANGED inbox
          \/ /\ connected /\ allowed /\ cl[n] = "ok"
             /\ client' = cl
             /\ call' = [call EXCEPT ![n].st = "wait"]
             /\ inbox' = [inbox EXCEPT ![p] = @ \cup
                   {[op |-> c.op, blk |-> c.blk, bad |-> FALSE, live |-> TRUE]}]
       /\ UNCHANGED <<ctVars, envVars, CtSync, ctBcast, remotes, tick>>

\* The connection broke because the peer went down.
Broken(n) ==
    /\ call[n].st = "wait" /\ ~\E c \in inbox[Peer[n]] : c.live
    /\ Retry(n)
    /\ UNCHANGED <<ctVars, envVars, inbox, CtSync, ctBcast, remotes, tick>>

\* RPCSend gives up; the server still works on the call.
Timeout(n) ==
    /\ call[n].st = "wait" /\ Fault("timeout")
    /\ \E c \in inbox[Peer[n]] :
          /\ c.live
          /\ inbox' = [inbox EXCEPT ![Peer[n]] = (@ \ {c}) \cup {[c EXCEPT !.live = FALSE]}]
    /\ Retry(n)
    /\ UNCHANGED <<ctVars, role, stage, cluster, rule, calm, scen, CtSync, ctBcast, remotes, tick>>

-----------------------------------------------------------------------------
(* The RPC server                                                          *)

\* DpCtAdd of a cloned entry, ok: the kernel map had room for it.  An entry
\* with the same state and action is kept, with all its other fields.
DpCtAdd(n, w, ok) ==
    LET k == w.key
        cte == ctMap[n][k]
        base == IF cte # None /\ cte.st = "est" /\ cte.act = w.act THEN cte
                ELSE [NewEnt([st |-> "est", act |-> w.act]) EXCEPT !.Deleted = w.Deleted]
    IN IF ok THEN /\ SetEnt(n, k, [base EXCEPT !.XSync = FALSE, !.SyncRetries = 0,
                                               !.age = 0, !.fresh = TRUE])
                  /\ kern' = [kern EXCEPT ![n][k] = [st |-> "est", act |-> w.act]]
                  /\ got' = [got EXCEPT ![n][k] = w.act]
       ELSE SetEnt(n, k, None) /\ UNCHANGED <<kern, got>>

\* DpCtDel: of a connection this node has.
DpCtDel(n, w) ==
    /\ got' = [got EXCEPT ![n][w.key] = None]
    /\ IF ctMap[n][w.key] = None THEN UNCHANGED <<ctMap, kern>>
       ELSE /\ SetEnt(n, w.key, None)
            /\ kern' = [kern EXCEPT ![n][w.key] = None]

\* The server is done with call c: the client, if it still waits, goes on.
Answer(n, c, ok) ==
    LET p == Peer[n] IN
    /\ inbox' = [inbox EXCEPT ![n] = @ \ {c}]
    /\ IF c.live THEN Return(p, ok /\ call[p].tries = 0) ELSE UNCHANGED call

\* Mutant of EntryDone: the answer is that of the last entry.
EntryDoneLast(n, c, bad) ==
    LET d == [c EXCEPT !.blk = Tail(@), !.bad = bad] IN
    IF d.blk = <<>> THEN Answer(n, c, ~d.bad)
    ELSE inbox' = [inbox EXCEPT ![n] = (@ \ {c}) \cup {d}] /\ UNCHANGED call

\* One entry of the block of call c is done, well or badly.
EntryDone(n, c, bad) ==
    LET d == [c EXCEPT !.blk = Tail(@), !.bad = @ \/ bad] IN
    IF d.blk = <<>> THEN Answer(n, c, ~d.bad)
    ELSE inbox' = [inbox EXCEPT ![n] = (@ \ {c}) \cup {d}] /\ UNCHANGED call

\* Every handler answers with an error until the node is ready.
NotReady(n) ==
    /\ stage[n] = "init"
    /\ \E c \in inbox[n] :
          /\ inbox' = [inbox EXCEPT ![n] = @ \ {c}]
          /\ LET p == Peer[n] IN
             IF ~c.live THEN UNCHANGED <<client, call>> ELSE Retry(p)
    /\ UNCHANGED <<ctVars, envVars, CtSync, ctBcast, remotes, tick>>

\* DpWorkOnCtGet: queue a broadcast; requests coalesce.
DpWorkOnCtGet(n) ==
    /\ stage[n] = "ready"
    /\ \E c \in inbox[n] :
          /\ c.op = "get"
          /\ ctBcast' = [ctBcast EXCEPT ![n] = TRUE]
          /\ Answer(n, c, TRUE)
    /\ UNCHANGED <<ctVars, envVars, client, CtSync, remotes, tick>>

\* DpWorkOnCtAdd of the announcement of the peer.
DpWorkOnCtAdd(n) ==
    /\ stage[n] = "ready"
    /\ \E c \in inbox[n] :
          /\ c.op = "bcast"
          /\ remotes' = [remotes EXCEPT ![n] = TRUE]
          /\ Answer(n, c, TRUE)
    /\ UNCHANGED <<ctVars, envVars, client, CtSync, ctBcast, tick>>

\* DpWorkOnBlockCtAdd, an entry of the block: one without a rule or without
\* room in the map fails, the others are installed all the same.
DpWorkOnBlockCtAdd(n) ==
    /\ stage[n] = "ready" /\ ~mtx[n]
    /\ \E c \in inbox[n] :
          /\ c.op = "add"
          /\ LET w == Head(c.blk)
             IN \/ /\ w.key \in rule[n]
                   /\ DpCtAdd(n, w, TRUE) /\ EntryDone(n, c, FALSE) /\ UNCHANGED faults
                \/ /\ w.key \in rule[n] /\ kern[n][w.key] = None /\ Fault("full")
                   /\ DpCtAdd(n, w, FALSE) /\ EntryDone(n, c, TRUE)
                \/ /\ w.key \notin rule[n]
                   /\ EntryDone(n, c, TRUE) /\ UNCHANGED <<ctMap, kern, got, faults>>
    /\ UNCHANGED <<noti, mtx, role, stage, cluster, rule, calm, scen, client,
                   CtSync, ctBcast, remotes, tick>>

\* DpWorkOnBlockCtDelete, an entry of the block.
DpWorkOnBlockCtDelete(n) ==
    /\ stage[n] = "ready" /\ ~mtx[n]
    /\ \E c \in inbox[n] :
          /\ c.op = "del"
          /\ DpCtDel(n, Head(c.blk)) /\ EntryDone(n, c, FALSE)
    /\ UNCHANGED <<noti, mtx, envVars, client, CtSync, ctBcast, remotes, tick>>

-----------------------------------------------------------------------------
(* The kernel, the process and the configuration                           *)

Notify(n, k, e) == noti' = [noti EXCEPT ![n] = Append(@, [key |-> k, ent |-> e])]

\* A first packet that matches a rule creates a connection on the master.
KernNew(n, k) ==
    /\ ~calm /\ stage[n] = "ready" /\ role[n] = "MASTER"
    /\ k \in rule[n] /\ kern[n][k] = None
    /\ Len(noti[n]) < MaxNoti
    /\ kern' = [kern EXCEPT ![n][k] = [st |-> "new", act |-> None]]
    /\ Notify(n, k, kern'[n][k])
    /\ UNCHANGED <<ctMap, got, mtx, rpcVars, envVars, CtSync, ctBcast, remotes, tick>>

\* A connection changes, and the change may be notified.
KernMove(n, k, e) ==
    /\ ~calm /\ stage[n] = "ready" /\ role[n] = "MASTER"
    /\ kern[n][k] \notin {None, e} /\ ("end" \in scen.kinds \/ e.st = "est")
    /\ e.act \in scen.acts \union {None}
    /\ kern' = [kern EXCEPT ![n][k] = e]
    /\ UNCHANGED noti \/ (Len(noti[n]) < MaxNoti /\ Notify(n, k, e))
    /\ UNCHANGED <<ctMap, got, mtx, rpcVars, envVars, CtSync, ctBcast, remotes, tick>>

\* A connection ends or ages out.
KernDel(n, k) ==
    /\ "end" \in scen.kinds /\ ~calm /\ stage[n] = "ready" /\ kern[n][k] # None
    /\ kern' = [kern EXCEPT ![n][k] = None]
    /\ UNCHANGED <<noti, ctMap, got, mtx, rpcVars, envVars, CtSync, ctBcast, remotes, tick>>

\* A node dies with its maps and connections.
Crash(n) ==
    /\ n \in Crashers /\ stage[n] # "down" /\ Fault("crash")
    /\ stage' = [stage EXCEPT ![n] = "down"]
    /\ cluster' = [cluster EXCEPT ![n] = "none"]
    /\ kern' = [kern EXCEPT ![n] = [k \in Conn |-> None]]
    /\ ctMap' = [ctMap EXCEPT ![n] = [k \in Conn |-> None]]
    /\ got' = [got EXCEPT ![n] = [k \in Conn |-> None]]
    /\ noti' = [noti EXCEPT ![n] = <<>>]
    /\ CtSync' = [CtSync EXCEPT ![n] = FALSE]
    /\ ctBcast' = [ctBcast EXCEPT ![n] = FALSE]
    /\ remotes' = [remotes EXCEPT ![n] = FALSE]
    /\ mtx' = [mtx EXCEPT ![n] = FALSE]
    /\ client' = [client EXCEPT ![n] = "nil",
                      ![Peer[n]] = IF @ = "ok" THEN "stale" ELSE @]
    /\ tick' = [tick EXCEPT ![n] = Idle]
    /\ call' = [call EXCEPT ![n] = NoCall]
    /\ inbox' = [inbox EXCEPT ![n] = {},
                     ![Peer[n]] = {[c EXCEPT !.live = FALSE] : c \in @}]
    /\ UNCHANGED <<role, rule, calm, scen>>

\* loxiNetInit: the datapath and its ticker start; all the rest may be done
\* before the first tick ...
Boot(n) ==
    /\ stage[n] = "down"
    /\ stage' = [stage EXCEPT ![n] = IF SlowInit THEN "init" ELSE "ready"]
    /\ cluster' = [cluster EXCEPT ![n] = IF SlowInit THEN "none" ELSE "peer"]
    /\ UNCHANGED <<ctVars, rpcVars, role, rule, faults, calm, scen,
                   CtSync, ctBcast, remotes, tick>>

\* ... ClusterNodeAdd adds the peer to NodeMap ...
ClusterNodeAdd(n) ==
    /\ stage[n] = "init" /\ cluster[n] = "none"
    /\ cluster' = [cluster EXCEPT ![n] = "node"]
    /\ UNCHANGED <<ctVars, rpcVars, role, stage, rule, faults, calm, scen,
                   CtSync, ctBcast, remotes, tick>>

\* ... the DP worker adds it to Peers (DpWorkOnPeerOp) ...
DpWorkOnPeerOp(n) ==
    /\ cluster[n] = "node"
    /\ cluster' = [cluster EXCEPT ![n] = "peer"]
    /\ UNCHANGED <<ctVars, rpcVars, role, stage, rule, faults, calm, scen,
                   CtSync, ctBcast, remotes, tick>>

\* ... and the node is ready.
Ready(n) ==
    /\ stage[n] = "init" /\ cluster[n] = "peer"
    /\ stage' = [stage EXCEPT ![n] = "ready"]
    /\ UNCHANGED <<ctVars, rpcVars, role, cluster, rule, faults, calm, scen,
                   CtSync, ctBcast, remotes, tick>>

\* The cluster instance fails over.
Flip ==
    /\ Fault("flip")
    /\ role' = [n \in Node |-> role[Peer[n]]]
    /\ UNCHANGED <<ctVars, rpcVars, stage, cluster, rule, calm, scen,
                   CtSync, ctBcast, remotes, tick>>

\* The LB rule of a connection is configured on a node.
RuleAdd(n, k) ==
    /\ k \notin rule[n]
    /\ rule' = [rule EXCEPT ![n] = @ \cup {k}]
    /\ UNCHANGED <<ctVars, rpcVars, role, stage, cluster, faults, calm, scen,
                   CtSync, ctBcast, remotes, tick>>

Calm ==
    /\ "calm" \in scen.kinds /\ ~calm /\ calm' = TRUE
    /\ UNCHANGED <<ctVars, rpcVars, role, stage, cluster, rule, faults, scen,
                   CtSync, ctBcast, remotes, tick>>

-----------------------------------------------------------------------------
Tick(n) == TickGet(n) \/ TickScan(n)
Ticker(n) == Finish(n) \/ DpXsyncRPC(n) \/ Broken(n)
Server(n) == \/ NotReady(n) \/ DpWorkOnCtGet(n) \/ DpWorkOnCtAdd(n)
             \/ DpWorkOnBlockCtAdd(n) \/ DpWorkOnBlockCtDelete(n)
Startup(n) == Boot(n) \/ ClusterNodeAdd(n) \/ DpWorkOnPeerOp(n) \/ Ready(n)

Next ==
    \/ \E n \in Node :
          \/ dpCTMapNotifierWorker(n) \/ Ticker(n) \/ Tick(n) \/ dpCTMapBcast(n)
          \/ Server(n) \/ Startup(n) \/ Timeout(n) \/ Crash(n)
          \/ \E k \in Conn :
                \/ KernNew(n, k)
                \/ \E e \in CtEnt : KernMove(n, k, e)
                \/ KernDel(n, k) \/ RuleAdd(n, k)
    \/ Flip \/ Calm

Spec == Init /\ [][Next]_vars

\* Goroutines that can go on do; the select of dpEbpfTicker picks any ready
\* case, so neither ticks nor broadcasts starve; the process is restarted.
Fairness ==
    \A n \in Node :
        /\ WF_vars(dpCTMapNotifierWorker(n)) /\ WF_vars(Ticker(n))
        /\ WF_vars(Server(n)) /\ WF_vars(Startup(n))
        /\ SF_vars(Tick(n)) /\ SF_vars(dpCTMapBcast(n))

FairSpec == Spec /\ Fairness

-----------------------------------------------------------------------------
(* Properties                                                              *)

\* dpCTMapFinishSync: an established connection of the master stops waiting
\* to be sent only when the peer has taken that very action of it, or when
\* its retries are used up; unless a call was given up that was still at work.
AckMeansDelivered ==
    [][\A n \in Node, k \in Conn : "timeout" \notin Range(faults) =>
          LET e == ctMap[n][k]
              f == ctMap'[n][k]
          IN /\ role[n] = "MASTER" /\ e # None /\ f # None
             /\ e.XSync /\ ~f.XSync /\ f.st = "est" /\ f.Deleted = 0
             => got[Peer[n]][k] = f.act \/ e.SyncRetries > MaxRetries]_vars

\* "Make sure CT shadow entries are in sync": an established connection in
\* the kernel of a node has a shadow entry, unless its notification is on
\* its way.
ShadowInSync ==
    \A n \in Node, k \in Conn :
        kern[n][k] # None => \/ ctMap[n][k] # None
                             \/ \E i \in DOMAIN noti[n] : noti[n][i].key = k

IsEst(e) == e # None /\ e.st = "est"

\* Once nothing fails any more, every established connection of the master
\* reaches the peer, also one that was restarted or has been the master.
Resynced ==
    \A k \in Conn :
        (calm /\ \E n \in Node : role[n] = "MASTER" /\ IsEst(kern[n][k]))
            ~> (\E n \in Node : role[n] = "MASTER" /\ IsEst(kern[Peer[n]][k]))
=============================================================================

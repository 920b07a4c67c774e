------------------------------ MODULE BfdPair ------------------------------
(***************************************************************************)
(* The BFD sessions of two loxilb nodes towards each other                 *)
(* (pkg/proto/bfd.go), the election they run, and the notifier goroutine   *)
(* that hands election results to the cluster state of the node            *)
(* (BFDSessionNotify in pkg/loxinet/cluster.go).                           *)
(*                                                                         *)
(* The network delivers in order and loses packets until it turns calm.    *)
(* Time is abstracted: a session may time out whenever packets may be      *)
(* lost, and does time out when its peer is gone.                          *)
(***************************************************************************)
EXTENDS Naturals, Sequences

CONSTANTS
    Node,        \* the two nodes
    Peer,        \* the other node of each
    Base,        \* IPtonl of the address of each node
    MaxFaults,   \* bound on the steps below and on timeouts by loss of packets
    MaxNet,      \* bound on packets in flight per direction
    Crashes,     \* whether nodes crash and restart
    Updates,     \* whether BFDAddRemote changes a running session
    Deletes      \* whether sessions are deleted and added again

ASSUME BfdAssumption ==
    /\ Peer \in [Node -> Node]
    /\ \A n \in Node : Peer[n] # n /\ Peer[Peer[n]] = n
    /\ Base \in [Node -> Nat \ {0}]
    /\ MaxFaults \in Nat /\ MaxNet \in Nat
    /\ Crashes \in BOOLEAN /\ Updates \in BOOLEAN /\ Deletes \in BOOLEAN

VARIABLES
    alive,    \* the process runs
    state,    \* State of the session, "None" without one
    ciState,  \* CiState
    myDisc,   \* MyDisc
    remDisc,  \* RemDisc
    pending,  \* ntfPending
    sig,      \* a token is in ntfSig
    ntf,      \* the notifier: "wait", "woken", "gone", or the role it delivers
    role,     \* state of the instance in the ClusterMap of the node
    net,      \* packets on their way to each node
    heard,    \* State of the last packet since the session was (re)started (history)
    faults,   \* steps taken that MaxFaults bounds
    timeouts, \* sessions that timed out so far (history)
    calm      \* no packet is lost, no node crashes, nobody reconfigures

sessVars == <<state, ciState, myDisc, remDisc, heard, timeouts>>
ntfVars  == <<pending, sig, ntf>>
vars == <<alive, sessVars, ntfVars, role, net, calm, faults>>

Roles == {"MASTER", "BACKUP", "NOT_DEFINED"}

Packet == [state : {"AdminDown", "Down", "Init", "Up"}, disc : Nat]

TypeOK ==
    /\ alive \in [Node -> BOOLEAN]
    /\ state \in [Node -> {"None", "Down", "Init", "Up"}]
    /\ ciState \in [Node -> Roles \cup {""}]
    /\ myDisc \in [Node -> Nat] /\ remDisc \in [Node -> Nat]
    /\ pending \in [Node -> Roles \cup {""}]
    /\ sig \in [Node -> BOOLEAN]
    /\ ntf \in [Node -> Roles \cup {"wait", "woken", "gone"}]
    /\ role \in [Node -> Roles]
    /\ net \in [Node -> Seq(Packet)]
    /\ heard \in [Node -> {"AdminDown", "Down", "Init", "Up", ""}]
    /\ timeouts \in Nat /\ faults \in Nat
    /\ calm \in BOOLEAN

Init ==
    /\ alive = [n \in Node |-> TRUE]
    /\ state = [n \in Node |-> "None"]
    /\ ciState = [n \in Node |-> ""]
    /\ myDisc = Base /\ remDisc = [n \in Node |-> 0]
    /\ pending = [n \in Node |-> ""]
    /\ sig = [n \in Node |-> FALSE]
    /\ ntf = [n \in Node |-> "gone"]
    /\ role = [n \in Node |-> "NOT_DEFINED"]
    /\ net = [n \in Node |-> <<>>]
    /\ heard = [n \in Node |-> ""]
    /\ timeouts = 0 /\ faults = 0
    /\ calm = FALSE

-----------------------------------------------------------------------------
(* The election                                                            *)

\* Mutant of Elect: losing the peer is not an election.
ElectNoTakeOver(new, old, my, rem) ==
    IF new = old \/ rem = 0 THEN ""
    ELSE IF new = "Up" THEN IF my > rem THEN "MASTER" ELSE "BACKUP"
    ELSE IF rem = my THEN "NOT_DEFINED" ELSE ""

\* electLocked: the role of node n on a transition old -> new with
\* discriminators my and rem, "" when it decides nothing.
Elect(new, old, my, rem) ==
    IF new = old \/ rem = 0 THEN ""
    ELSE IF new = "Up" THEN IF my > rem THEN "MASTER" ELSE "BACKUP"
    ELSE IF new = "Down" /\ old = "Up" THEN "MASTER"
    ELSE IF rem = my THEN "NOT_DEFINED" ELSE ""

\* Mutant of electLocked: the first decision parked wins.
electLockedFirst(n, new, old, my, rem) ==
    LET r == Elect(new, old, my, rem) IN
    IF r = "" THEN UNCHANGED <<ciState, pending, sig>>
    ELSE /\ ciState' = [ciState EXCEPT ![n] = r]
         /\ pending' = IF pending[n] = "" THEN [pending EXCEPT ![n] = r] ELSE pending
         /\ sig' = [sig EXCEPT ![n] = TRUE]

\* ... and parks it for the notifier: the latest decision wins.
electLocked(n, new, old, my, rem) ==
    LET r == Elect(new, old, my, rem) IN
    IF r = "" THEN UNCHANGED <<ciState, pending, sig>>
    ELSE /\ ciState' = [ciState EXCEPT ![n] = r]
         /\ pending' = [pending EXCEPT ![n] = r]
         /\ sig' = [sig EXCEPT ![n] = TRUE]

\* The state RunSessionSM moves to on a packet with state raw.
SessionState(cur, raw) ==
    CASE raw = "Down"      -> IF cur = "Down" THEN "Init" ELSE cur
      [] raw = "Init"      -> "Up"
      [] raw = "AdminDown" -> "Init"
      [] raw = "Up"        -> "Up"

\* The state the election takes as the old one: a master that hears an Up peer
\* with a discriminator no smaller than its own is elected again.
OldState(n, raw) ==
    IF raw.state = "Up" /\ ciState[n] = "MASTER" /\ myDisc[n] <= raw.disc
    THEN "Down" ELSE state[n]

RunSessionSM(n, raw) ==
    LET new == SessionState(state[n], raw.state) IN
    /\ remDisc' = [remDisc EXCEPT ![n] = raw.disc]
    /\ state' = [state EXCEPT ![n] = new]
    /\ heard' = [heard EXCEPT ![n] = raw.state]
    /\ electLocked(n, new, OldState(n, raw), myDisc[n], raw.disc)
    /\ UNCHANGED <<myDisc, timeouts>>

-----------------------------------------------------------------------------
(* Packets                                                                 *)

Fault == ~calm /\ faults < MaxFaults /\ faults' = faults + 1

\* One tick of the transmit ticker; a packet the network has no room for is
\* lost.
Send(n) ==
    /\ state[n] # "None"
    /\ Len(net[Peer[n]]) < MaxNet
    /\ net' = [net EXCEPT ![Peer[n]] = Append(@, [state |-> state[n], disc |-> myDisc[n]])]
    /\ UNCHANGED <<alive, sessVars, ntfVars, role, calm, faults>>

\* processBFD: without a session the packet is dropped.
processBFD(n) ==
    /\ net[n] # <<>>
    /\ net' = [net EXCEPT ![n] = Tail(@)]
    /\ IF state[n] = "None" THEN UNCHANGED <<sessVars, pending, sig>>
       ELSE RunSessionSM(n, Head(net[n]))
    /\ UNCHANGED <<alive, ntf, role, calm, faults>>

Lose(n) ==
    /\ ~calm /\ net[n] # <<>>
    /\ net' = [net EXCEPT ![n] = Tail(@)]
    /\ UNCHANGED <<alive, sessVars, ntfVars, role, calm, faults>>

\* Mutant of checkSessTimeout: the discriminator is not raised above the peer's.
checkSessTimeoutNoIncr(n) ==
    /\ state[n] = "Up"
    /\ \/ state[Peer[n]] = "None" /\ net[n] = <<>> /\ UNCHANGED faults
       \/ Fault
    /\ state' = [state EXCEPT ![n] = "Down"]
    /\ myDisc' = [myDisc EXCEPT ![n] = remDisc[n]]
    /\ timeouts' = timeouts + 1
    /\ electLocked(n, "Down", "Up", remDisc[n], remDisc[n])
    /\ UNCHANGED <<alive, remDisc, heard, ntf, role, net, calm>>

\* checkSessTimeout of a session that heard nothing for TimeOut.
checkSessTimeout(n) ==
    /\ state[n] = "Up"
    /\ \/ state[Peer[n]] = "None" /\ net[n] = <<>> /\ UNCHANGED faults
       \/ Fault
    /\ state' = [state EXCEPT ![n] = "Down"]
    /\ myDisc' = [myDisc EXCEPT ![n] = remDisc[n] + 1]
    /\ timeouts' = timeouts + 1
    /\ electLocked(n, "Down", "Up", remDisc[n] + 1, remDisc[n])
    /\ UNCHANGED <<alive, remDisc, heard, ntf, role, net, calm>>

-----------------------------------------------------------------------------
(* The notifier: bfdSessionNotifier and BFDSessionNotify                   *)

NotifierWake(n) ==
    /\ ntf[n] = "wait" /\ sig[n]
    /\ sig' = [sig EXCEPT ![n] = FALSE]
    /\ ntf' = [ntf EXCEPT ![n] = "woken"]
    /\ UNCHANGED <<alive, sessVars, pending, role, net, calm, faults>>

NotifierTake(n) ==
    /\ ntf[n] = "woken"
    /\ ntf' = [ntf EXCEPT ![n] = IF pending[n] = "" THEN "wait" ELSE pending[n]]
    /\ pending' = [pending EXCEPT ![n] = ""]
    /\ UNCHANGED <<alive, sessVars, sig, role, net, calm, faults>>

BFDSessionNotify(n) ==
    /\ ntf[n] \in Roles
    /\ role' = [role EXCEPT ![n] = ntf[n]]
    /\ ntf' = [ntf EXCEPT ![n] = "wait"]
    /\ UNCHANGED <<alive, sessVars, pending, sig, net, calm, faults>>

\* ntfFin is closed: the notifier leaves when it waits, even with a token in
\* ntfSig.
NotifierQuit(n) ==
    /\ ntf[n] = "wait" /\ state[n] = "None"
    /\ ntf' = [ntf EXCEPT ![n] = "gone"]
    /\ pending' = [pending EXCEPT ![n] = ""]
    /\ sig' = [sig EXCEPT ![n] = FALSE]
    /\ UNCHANGED <<alive, sessVars, role, net, calm, faults>>

-----------------------------------------------------------------------------
(* Sessions and nodes come and go                                          *)

\* The session is gone; the fields are those initialize gives the next one.
Forget(n) ==
    /\ state' = [state EXCEPT ![n] = "None"]
    /\ ciState' = [ciState EXCEPT ![n] = ""]
    /\ myDisc' = [myDisc EXCEPT ![n] = Base[n]]
    /\ remDisc' = [remDisc EXCEPT ![n] = 0]
    /\ heard' = [heard EXCEPT ![n] = ""]

\* BFDAddRemote of a new session, initialize.  The cool-off in startBFDProto
\* outlasts packets of the old session, the peer's timeout and the old notifier.  What
\* arrived before the session was dropped.
BFDAddRemote(n) ==
    /\ alive[n] /\ state[n] = "None" /\ ntf[n] = "gone"
    /\ state[Peer[n]] # "Up" /\ net[Peer[n]] = <<>>
    /\ state' = [state EXCEPT ![n] = "Down"]
    /\ ntf' = [ntf EXCEPT ![n] = "wait"]
    /\ net' = [net EXCEPT ![n] = <<>>]
    /\ UNCHANGED <<alive, ciState, myDisc, remDisc, heard, timeouts, pending, sig, role, calm, faults>>

\* BFDAddRemote of a session that exists, with another interval or multiplier.
BFDUpdateRemote(n) ==
    /\ Updates /\ Fault
    /\ state[n] # "None"
    /\ state' = [state EXCEPT ![n] = "Down"]
    /\ heard' = [heard EXCEPT ![n] = ""]
    /\ UNCHANGED <<alive, ciState, myDisc, remDisc, timeouts, ntfVars, role, net, calm>>

\* BFDDeleteRemote, destruct: the peer is told, if the packet gets there.
BFDDeleteRemote(n) ==
    /\ Deletes /\ Fault
    /\ state[n] # "None"
    /\ Forget(n)
    /\ net' = IF Len(net[Peer[n]]) < MaxNet
              THEN [net EXCEPT ![Peer[n]] = Append(@, [state |-> "AdminDown", disc |-> myDisc[n]])]
              ELSE net
    /\ UNCHANGED <<alive, timeouts, ntfVars, role, calm>>

Crash(n) ==
    /\ Crashes /\ Fault
    /\ alive[n]
    /\ alive' = [alive EXCEPT ![n] = FALSE]
    /\ Forget(n)
    /\ pending' = [pending EXCEPT ![n] = ""]
    /\ sig' = [sig EXCEPT ![n] = FALSE]
    /\ ntf' = [ntf EXCEPT ![n] = "gone"]
    /\ role' = [role EXCEPT ![n] = "NOT_DEFINED"]
    /\ net' = [net EXCEPT ![n] = <<>>]
    /\ UNCHANGED <<timeouts, calm>>

Restart(n) ==
    /\ ~calm /\ ~alive[n]
    /\ alive' = [alive EXCEPT ![n] = TRUE]
    /\ UNCHANGED <<sessVars, ntfVars, role, net, calm, faults>>

Calm ==
    /\ ~calm
    /\ calm' = TRUE
    /\ UNCHANGED <<alive, sessVars, ntfVars, role, net, faults>>

-----------------------------------------------------------------------------
Notifier(n) == NotifierWake(n) \/ NotifierTake(n) \/ BFDSessionNotify(n) \/ NotifierQuit(n)

Next ==
    \/ \E n \in Node : \/ Send(n) \/ processBFD(n) \/ Lose(n) \/ checkSessTimeout(n)
                       \/ Notifier(n)
                       \/ BFDAddRemote(n) \/ BFDUpdateRemote(n) \/ BFDDeleteRemote(n)
                       \/ Crash(n) \/ Restart(n)
    \/ Calm

Spec == Init /\ [][Next]_vars

\* Tickers tick, the listener and the notifier run, a configured session is
\* added, and the network is calm in the end.
Fairness ==
    /\ \A n \in Node : /\ WF_vars(Send(n)) /\ WF_vars(processBFD(n))
                       /\ WF_vars(checkSessTimeout(n) /\ state[Peer[n]] = "None")
                       /\ WF_vars(Notifier(n)) /\ WF_vars(BFDAddRemote(n))
    /\ WF_vars(Calm)

FairSpec == Spec /\ Fairness

-----------------------------------------------------------------------------
(* Properties                                                              *)

\* The last delivered role is the role the session believes it has, once the
\* notifier has nothing left to deliver.
DrainedAgrees ==
    \A n \in Node : /\ state[n] # "None" /\ ntf[n] = "wait"
                    /\ pending[n] = "" /\ ~sig[n] /\ ciState[n] # ""
                    => role[n] = ciState[n]

\* A parked election result has a wakeup on its way.
ResultNotLost == \A n \in Node : state[n] # "None" /\ pending[n] # "" => sig[n] \/ ntf[n] = "woken"

\* A session that is up and last heard an up peer is master only with the
\* larger discriminator.
MasterHasLargerDisc ==
    \A n \in Node : state[n] = "Up" /\ heard[n] = "Up" /\ ciState[n] = "MASTER"
                    => myDisc[n] > remDisc[n]

\* Discriminators tie, and leave the pair without a master, only when the
\* addresses are congruent modulo 2 and less apart than sessions timed out.
TieNeedsTimeouts ==
    \A n \in Node : remDisc[n] = myDisc[n]
        => /\ Base[n] % 2 = Base[Peer[n]] % 2
           /\ Base[n] <= Base[Peer[n]] + timeouts
           /\ Base[Peer[n]] <= Base[n] + timeouts

\* Once faults have ceased, and unless the discriminators tie, the roles settle:
\* two live nodes end with one master and one backup, and a node whose peer is
\* dead and was up when last heard ends as master.
RolesSettle ==
    <>[](calm /\ \A n \in Node : remDisc[n] # myDisc[n])
        => <>[](\A n \in Node :
                  /\ alive[n] /\ alive[Peer[n]] => {role[n], role[Peer[n]]} = {"MASTER", "BACKUP"}
                  /\ alive[n] /\ ~alive[Peer[n]] /\ heard[n] = "Up" => role[n] = "MASTER")
=============================================================================

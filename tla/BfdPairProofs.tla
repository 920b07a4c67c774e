--------------------------- MODULE BfdPairProofs ---------------------------
(* The safety properties of BfdPair for any addresses and any bounds.      *)
EXTENDS BfdPair, SequenceTheorems, TLAPS

\* Elect yields a role or decides nothing.
LEMMA ElectType ==
    \A new, old, my, rem : Elect(new, old, my, rem) \in Roles \cup {""}
BY DEF Elect, Roles

\* SessionState yields a state a session has.
LEMMA SessionStateType ==
    \A cur \in {"Down", "Init", "Up"}, raw \in {"AdminDown", "Down", "Init", "Up"} :
        SessionState(cur, raw) \in {"Down", "Init", "Up"}
BY DEF SessionState

\* The packet processBFD takes off a queue, and the queue it leaves.
LEMMA Received ==
    ASSUME NEW q \in Seq(Packet), q # <<>>
    PROVE  Head(q) \in Packet /\ Tail(q) \in Seq(Packet)
BY HeadTailProperties

\* What the proofs use of the constants.
LEMMA Addresses ==
    /\ Peer \in [Node -> Node]
    /\ \A n \in Node : Peer[n] # n /\ Peer[Peer[n]] = n
    /\ Base \in [Node -> Nat] /\ \A n \in Node : Base[n] # 0
BY BfdAssumption

\* A counted fault leaves the count a number.
LEMMA FaultType ==
    ASSUME faults \in Nat, Fault PROVE faults' \in Nat
BY DEF Fault

\* electLocked parks a role, or leaves everything alone.
LEMMA ElectSets ==
    ASSUME TypeOK, NEW n \in Node, NEW new, NEW old, NEW my, NEW rem,
           electLocked(n, new, old, my, rem)
    PROVE  /\ ciState' \in [Node -> Roles \cup {""}]
           /\ pending' \in [Node -> Roles \cup {""}]
           /\ sig' \in [Node -> BOOLEAN]
<1> DEFINE r == Elect(new, old, my, rem)
<1>1. r \in Roles \cup {""}
  BY ElectType
<1>2. \/ UNCHANGED <<ciState, pending, sig>>
      \/ /\ ciState' = [ciState EXCEPT ![n] = r]
         /\ pending' = [pending EXCEPT ![n] = r]
         /\ sig' = [sig EXCEPT ![n] = TRUE]
  BY DEF electLocked
<1> HIDE DEF r
<1>3. CASE UNCHANGED <<ciState, pending, sig>>
  BY <1>3 DEF TypeOK
<1>4. CASE /\ ciState' = [ciState EXCEPT ![n] = r]
           /\ pending' = [pending EXCEPT ![n] = r]
           /\ sig' = [sig EXCEPT ![n] = TRUE]
  BY <1>1, <1>4 DEF TypeOK
<1> QED BY <1>2, <1>3, <1>4

\* Queues of packets stay queues of packets.
LEMMA QueueType ==
    ASSUME net \in [Node -> Seq(Packet)], NEW n \in Node, NEW p \in Packet
    PROVE  [net EXCEPT ![Peer[n]] = Append(@, p)] \in [Node -> Seq(Packet)]
<1>1. Peer[n] \in Node
  BY Addresses
<1>2. Append(net[Peer[n]], p) \in Seq(Packet)
  BY <1>1
<1> QED BY <1>1, <1>2

\* A queue that is emptied stays a queue of packets.
LEMMA ClearType ==
    ASSUME net \in [Node -> Seq(Packet)], NEW n \in Node
    PROVE  [net EXCEPT ![n] = <<>>] \in [Node -> Seq(Packet)]
OBVIOUS

\* A timeout leaves numbers numbers.
LEMMA RaisedType ==
    ASSUME remDisc \in [Node -> Nat], timeouts \in Nat, NEW n \in Node
    PROVE  remDisc[n] + 1 \in Nat /\ timeouts + 1 \in Nat
OBVIOUS

\* The type invariant holds initially.
LEMMA InitType == Init => TypeOK
<1> SUFFICES ASSUME Init PROVE TypeOK
  OBVIOUS
<1>1. <<>> \in Seq(Packet)
  OBVIOUS
<1>2. myDisc \in [Node -> Nat] /\ remDisc \in [Node -> Nat]
  BY Addresses DEF Init
<1> QED BY <1>1, <1>2 DEF Init, TypeOK, Roles

\* Every step keeps the types.
LEMMA TypeStep == TypeOK /\ [Next]_vars => TypeOK'
<1> SUFFICES ASSUME TypeOK, [Next]_vars PROVE TypeOK'
  OBVIOUS
<1> USE DEF TypeOK
<1>1. ASSUME NEW n \in Node, Send(n) PROVE TypeOK'
  <2>1. [state |-> state[n], disc |-> myDisc[n]] \in Packet
    BY <1>1 DEF Send, Packet
  <2>2. net' \in [Node -> Seq(Packet)]
    BY <1>1, <2>1, QueueType DEF Send
  <2> QED BY <1>1, <2>2 DEF Send, sessVars, ntfVars
<1>2. ASSUME NEW n \in Node, processBFD(n) PROVE TypeOK'
  <2> DEFINE raw == Head(net[n])
  <2>1. raw \in Packet /\ Tail(net[n]) \in Seq(Packet)
    BY <1>2, Received DEF processBFD
  <2>2. net' \in [Node -> Seq(Packet)]
    BY <1>2, <2>1 DEF processBFD
  <2>3. CASE state[n] = "None"
    BY <1>2, <2>2, <2>3 DEF processBFD, sessVars
  <2>4. CASE state[n] # "None"
    <3>1. RunSessionSM(n, raw) /\ UNCHANGED <<alive, ntf, role, calm, faults>>
      BY <1>2, <2>4 DEF processBFD
    <3>2. SessionState(state[n], raw.state) \in {"Down", "Init", "Up"}
      <4>1. state[n] \in {"Down", "Init", "Up"}
        BY <2>4
      <4>2. raw.state \in {"AdminDown", "Down", "Init", "Up"}
        BY <2>1 DEF Packet
      <4> QED BY <4>1, <4>2, SessionStateType
    <3>3. ciState' \in [Node -> Roles \cup {""}] /\ pending' \in [Node -> Roles \cup {""}] /\ sig' \in [Node -> BOOLEAN]
      BY <3>1, ElectSets DEF RunSessionSM
    <3> QED BY <2>1, <2>2, <3>1, <3>2, <3>3 DEF RunSessionSM, Packet
  <2> QED BY <2>3, <2>4
<1>3. ASSUME NEW n \in Node, Lose(n) PROVE TypeOK'
  BY <1>3, Received DEF Lose, sessVars, ntfVars
<1>4. ASSUME NEW n \in Node, checkSessTimeout(n) PROVE TypeOK'
  <2>1. ciState' \in [Node -> Roles \cup {""}] /\ pending' \in [Node -> Roles \cup {""}] /\ sig' \in [Node -> BOOLEAN]
    BY <1>4, ElectSets DEF checkSessTimeout
  <2>2. timeouts' \in Nat /\ myDisc' \in [Node -> Nat]
    <3>1. remDisc[n] + 1 \in Nat /\ timeouts + 1 \in Nat
      BY RaisedType
    <3> QED BY <1>4, <3>1 DEF checkSessTimeout
  <2>3. faults' \in Nat
    BY <1>4, FaultType DEF checkSessTimeout
  <2> QED BY <1>4, <2>1, <2>2, <2>3 DEF checkSessTimeout
<1>5. ASSUME NEW n \in Node, Notifier(n) PROVE TypeOK'
  <2>1. CASE NotifierWake(n)
    BY <2>1 DEF NotifierWake, sessVars, ntfVars, Roles
  <2>2. CASE NotifierTake(n)
    BY <2>2 DEF NotifierTake, sessVars, ntfVars, Roles
  <2>3. CASE BFDSessionNotify(n)
    BY <2>3 DEF BFDSessionNotify, sessVars, ntfVars, Roles
  <2>4. CASE NotifierQuit(n)
    BY <2>4 DEF NotifierQuit, sessVars, ntfVars, Roles
  <2> QED BY <1>5, <2>1, <2>2, <2>3, <2>4 DEF Notifier
<1>6. ASSUME NEW n \in Node, BFDAddRemote(n) PROVE TypeOK'
  <2>1. net' \in [Node -> Seq(Packet)]
    BY <1>6, ClearType DEF BFDAddRemote
  <2> QED BY <1>6, <2>1 DEF BFDAddRemote
<1>7. ASSUME NEW n \in Node, BFDUpdateRemote(n) PROVE TypeOK'
  BY <1>7, FaultType DEF BFDUpdateRemote, ntfVars
<1>8. ASSUME NEW n \in Node, BFDDeleteRemote(n) PROVE TypeOK'
  <2>1. [state |-> "AdminDown", disc |-> myDisc[n]] \in Packet
    BY DEF Packet
  <2>2. net' \in [Node -> Seq(Packet)]
    BY <1>8, <2>1, QueueType DEF BFDDeleteRemote
  <2> QED BY <1>8, <2>2, Addresses, FaultType DEF BFDDeleteRemote, Forget, ntfVars
<1>10. ASSUME NEW n \in Node, Crash(n) PROVE TypeOK'
  <2>1. net' \in [Node -> Seq(Packet)]
    BY <1>10, ClearType DEF Crash
  <2> QED BY <1>10, <2>1, Addresses, FaultType DEF Crash, Forget, Roles
<1>11. ASSUME NEW n \in Node, Restart(n) PROVE TypeOK'
  BY <1>11 DEF Restart, sessVars, ntfVars
<1>9. CASE Calm \/ UNCHANGED vars
  BY <1>9 DEF Calm, vars, sessVars, ntfVars
<1> QED BY <1>1, <1>2, <1>3, <1>4, <1>5, <1>6, <1>7, <1>8, <1>9, <1>10, <1>11 DEF Next

\* Sessions, notifier and network keep their types.
THEOREM TypeCorrect == Spec => []TypeOK
<1>1. Init => TypeOK BY InitType
<1>2. TypeOK /\ [Next]_vars => TypeOK' BY TypeStep
<1> QED BY <1>1, <1>2, PTL DEF Spec

-----------------------------------------------------------------------------
(* From decision to delivery                                               *)

\* A decision is parked with a wakeup, held by the notifier, or delivered; the
\* notifier runs as long as the session and leaves nothing behind.
DeliveryInv ==
    \A n \in Node :
        /\ IF state[n] = "None" THEN ciState[n] = "" ELSE ntf[n] # "gone"
        /\ ntf[n] = "gone" => pending[n] = "" /\ ~sig[n]
        /\ pending[n] # "" => sig[n] \/ ntf[n] = "woken"
        /\ state[n] # "None" /\ ciState[n] # ""
           => ciState[n] = IF pending[n] # "" THEN pending[n]
                           ELSE IF ntf[n] \in Roles THEN ntf[n] ELSE role[n]

\* What an election does to the session that holds it.
LEMMA ElectDelivers ==
    ASSUME TypeOK, DeliveryInv, NEW n \in Node, NEW new, NEW old, NEW my, NEW rem,
           electLocked(n, new, old, my, rem), state[n] # "None", state'[n] # "None",
           \A m \in Node \ {n} : state'[m] = state[m],
           UNCHANGED <<ntf, role>>
    PROVE  DeliveryInv'
<1> DEFINE r == Elect(new, old, my, rem)
<1>1. \/ UNCHANGED <<ciState, pending, sig>>
      \/ /\ r # ""
         /\ ciState' = [ciState EXCEPT ![n] = r]
         /\ pending' = [pending EXCEPT ![n] = r]
         /\ sig' = [sig EXCEPT ![n] = TRUE]
  BY DEF electLocked
<1> HIDE DEF r
<1>2. CASE UNCHANGED <<ciState, pending, sig>>
  BY <1>2 DEF DeliveryInv
<1>3. CASE r # "" /\ ciState' = [ciState EXCEPT ![n] = r]
           /\ pending' = [pending EXCEPT ![n] = r] /\ sig' = [sig EXCEPT ![n] = TRUE]
  <2> SUFFICES ASSUME NEW k \in Node PROVE DeliveryInv!(k)'
    BY DEF DeliveryInv
  <2>1. CASE k = n
    BY <1>3, <2>1 DEF DeliveryInv, TypeOK
  <2>2. CASE k # n
    <3>1. /\ ciState'[k] = ciState[k] /\ pending'[k] = pending[k] /\ sig'[k] = sig[k]
          /\ state'[k] = state[k] /\ ntf'[k] = ntf[k] /\ role'[k] = role[k]
      BY <1>3, <2>2 DEF TypeOK
    <3> QED BY <3>1 DEF DeliveryInv
  <2> QED BY <2>1, <2>2
<1> QED BY <1>1, <1>2, <1>3

\* Every step keeps the delivery invariant.
LEMMA DeliveryStep == TypeOK /\ DeliveryInv /\ [Next]_vars => DeliveryInv'
<1> SUFFICES ASSUME TypeOK, DeliveryInv, [Next]_vars PROVE DeliveryInv'
  OBVIOUS
<1>1. ASSUME NEW n \in Node, Send(n) \/ Lose(n) \/ Restart(n) PROVE DeliveryInv'
  BY <1>1 DEF Send, Lose, Restart, sessVars, ntfVars, DeliveryInv
<1>2. ASSUME NEW n \in Node, processBFD(n) PROVE DeliveryInv'
  <2> DEFINE raw == Head(net[n])
  <2>1. CASE state[n] = "None"
    BY <1>2, <2>1 DEF processBFD, sessVars, DeliveryInv
  <2>2. CASE state[n] # "None"
    <3>1. RunSessionSM(n, raw) /\ UNCHANGED <<ntf, role>>
      BY <1>2, <2>2 DEF processBFD
    <3>2. raw \in Packet
      BY <1>2, Received DEF processBFD, TypeOK
    <3>3. SessionState(state[n], raw.state) \in {"Down", "Init", "Up"}
      <4>1. state[n] \in {"Down", "Init", "Up"}
        BY <2>2 DEF TypeOK
      <4>2. raw.state \in {"AdminDown", "Down", "Init", "Up"}
        BY <3>2 DEF Packet
      <4> QED BY <4>1, <4>2, SessionStateType
    <3>4. state'[n] # "None" /\ \A m \in Node \ {n} : state'[m] = state[m]
      BY <3>1, <3>3 DEF RunSessionSM, TypeOK
    <3>5. electLocked(n, SessionState(state[n], raw.state), OldState(n, raw), myDisc[n], raw.disc)
      BY <3>1 DEF RunSessionSM
    <3> QED BY <2>2, <3>1, <3>4, <3>5, ElectDelivers
  <2> QED BY <2>1, <2>2
<1>3. ASSUME NEW n \in Node, checkSessTimeout(n) PROVE DeliveryInv'
  <2>1. /\ state[n] # "None" /\ state'[n] # "None"
        /\ \A m \in Node \ {n} : state'[m] = state[m]
        /\ UNCHANGED <<ntf, role>>
    BY <1>3 DEF checkSessTimeout, TypeOK
  <2>2. electLocked(n, "Down", "Up", remDisc[n] + 1, remDisc[n])
    BY <1>3 DEF checkSessTimeout
  <2> QED BY <2>1, <2>2, ElectDelivers
<1>4. ASSUME NEW n \in Node, NotifierWake(n) PROVE DeliveryInv'
  BY <1>4 DEF NotifierWake, sessVars, DeliveryInv, TypeOK, Roles
<1>5. ASSUME NEW n \in Node, NotifierTake(n) PROVE DeliveryInv'
  <2> SUFFICES ASSUME NEW k \in Node PROVE DeliveryInv!(k)'
    BY DEF DeliveryInv
  <2>1. CASE k = n
    <3>1. CASE pending[n] = ""
      <4>1. /\ ntf[k] = "woken" /\ ntf'[k] = "wait" /\ pending[k] = "" /\ pending'[k] = ""
            /\ UNCHANGED <<state, ciState, role, sig>>
        BY <1>5, <2>1, <3>1 DEF NotifierTake, sessVars, TypeOK
      <4> QED BY <4>1 DEF DeliveryInv, Roles
    <3>2. CASE pending[n] # ""
      <4>1. /\ ntf'[k] = pending[k] /\ pending[k] \in Roles /\ pending'[k] = ""
            /\ state'[k] = state[k] /\ ciState'[k] = ciState[k]
        BY <1>5, <2>1, <3>2 DEF NotifierTake, sessVars, TypeOK
      <4>2. ntf[k] # "gone"
        BY <1>5, <2>1 DEF NotifierTake
      <4> QED BY <3>2, <2>1, <4>1, <4>2 DEF DeliveryInv, Roles
    <3> QED BY <3>1, <3>2
  <2>2. CASE k # n
    BY <1>5, <2>2 DEF NotifierTake, sessVars, DeliveryInv, TypeOK
  <2> QED BY <2>1, <2>2
<1>6. ASSUME NEW n \in Node, BFDSessionNotify(n) PROVE DeliveryInv'
  BY <1>6 DEF BFDSessionNotify, sessVars, DeliveryInv, TypeOK, Roles
<1>7. ASSUME NEW n \in Node, NotifierQuit(n) PROVE DeliveryInv'
  <2>1. /\ state[n] = "None" /\ UNCHANGED <<state, ciState, role>>
        /\ ntf'[n] = "gone" /\ pending'[n] = "" /\ ~sig'[n]
    BY <1>7 DEF NotifierQuit, sessVars, TypeOK
  <2>2. \A k \in Node \ {n} : ntf'[k] = ntf[k] /\ pending'[k] = pending[k] /\ sig'[k] = sig[k]
    BY <1>7 DEF NotifierQuit, TypeOK
  <2> QED BY <2>1, <2>2 DEF DeliveryInv
<1>8. ASSUME NEW n \in Node, BFDAddRemote(n) PROVE DeliveryInv'
  <2>1. ntf'[n] = "wait" /\ pending'[n] = "" /\ ~sig'[n]
    BY <1>8 DEF BFDAddRemote, DeliveryInv, TypeOK
  <2>2. ciState'[n] = ""
    BY <1>8 DEF BFDAddRemote, DeliveryInv
  <2> QED BY <1>8, <2>1, <2>2 DEF BFDAddRemote, DeliveryInv, TypeOK
<1>12. ASSUME NEW n \in Node, BFDUpdateRemote(n) PROVE DeliveryInv'
  BY <1>12 DEF BFDUpdateRemote, ntfVars, DeliveryInv, TypeOK
<1>9. ASSUME NEW n \in Node, BFDDeleteRemote(n) PROVE DeliveryInv'
  BY <1>9 DEF BFDDeleteRemote, Forget, ntfVars, DeliveryInv, TypeOK
<1>10. ASSUME NEW n \in Node, Crash(n) PROVE DeliveryInv'
  BY <1>10 DEF Crash, Forget, DeliveryInv, TypeOK
<1>11. CASE Calm \/ UNCHANGED vars
  BY <1>11 DEF Calm, vars, sessVars, ntfVars, DeliveryInv
<1> QED BY <1>1, <1>2, <1>3, <1>4, <1>5, <1>6, <1>7, <1>8, <1>9, <1>10, <1>11, <1>12 DEF Next, Notifier

\* The role delivered to BFDSessionNotify last is the one the session believes
\* it has, once nothing is parked.
THEOREM DeliveredRole == Spec => []DrainedAgrees
<1>1. Init => DeliveryInv BY DEF Init, DeliveryInv, Roles
<1>2. DeliveryInv => DrainedAgrees BY DEF DeliveryInv, DrainedAgrees, Roles
<1> QED BY <1>1, <1>2, InitType, TypeStep, DeliveryStep, PTL DEF Spec

\* A decision that electLocked parks has a wakeup on its way to the notifier.
THEOREM ParkedIsSignalled == Spec => []ResultNotLost
<1>1. Init => DeliveryInv BY DEF Init, DeliveryInv, Roles
<1>2. DeliveryInv => ResultNotLost BY DEF DeliveryInv, ResultNotLost
<1> QED BY <1>1, <1>2, InitType, TypeStep, DeliveryStep, PTL DEF Spec
-----------------------------------------------------------------------------
(* Discriminators                                                          *)

\* The discriminators node n can have after at most t timeouts: its own
\* address raised an even number of times, or that of its peer an odd one.
Reach(n, d, t) ==
    \E k \in 0..t : \/ k % 2 = 0 /\ d = Base[n] + k
                    \/ k % 2 = 1 /\ d = Base[Peer[n]] + k

\* Where discriminators come from: each node's own, what it heard, and the
\* packets in flight; a session that is up has heard one.
DiscInv ==
    \A n \in Node :
        /\ Reach(n, myDisc[n], timeouts)
        /\ remDisc[n] = 0 \/ Reach(Peer[n], remDisc[n], timeouts)
        /\ \A i \in 1..Len(net[n]) : Reach(Peer[n], net[n][i].disc, timeouts)
        /\ state[n] = "Up" => remDisc[n] # 0

\* Reachable discriminators are numbers other than 0, and stay reachable.
LEMMA ReachNumber ==
    ASSUME NEW n \in Node, NEW d, NEW t \in Nat, Reach(n, d, t)
    PROVE  d \in Nat /\ d # 0 /\ Reach(n, d, t + 1)
<1>1. Base[n] \in Nat /\ Base[Peer[n]] \in Nat /\ Base[n] # 0 /\ Base[Peer[n]] # 0
  BY Addresses
<1> QED BY <1>1 DEF Reach

\* A timeout raises what the peer can have to what the node can have.
LEMMA ReachRaised ==
    ASSUME NEW n \in Node, NEW d, NEW t \in Nat, Reach(Peer[n], d, t)
    PROVE  Reach(n, d + 1, t + 1)
<1>1. /\ Base[n] \in Nat /\ Base[Peer[n]] \in Nat
      /\ Peer[Peer[n]] = n /\ Peer[n] \in Node
  BY Addresses
<1>2. PICK k \in 0..t : \/ k % 2 = 0 /\ d = Base[Peer[n]] + k
                        \/ k % 2 = 1 /\ d = Base[n] + k
  BY <1>1 DEF Reach
<1>3. k + 1 \in 0..(t + 1) /\ (k % 2 = 0 => (k + 1) % 2 = 1) /\ (k % 2 = 1 => (k + 1) % 2 = 0)
  OBVIOUS
<1>4. \/ (k + 1) % 2 = 1 /\ d + 1 = Base[Peer[n]] + (k + 1)
      \/ (k + 1) % 2 = 0 /\ d + 1 = Base[n] + (k + 1)
  BY <1>1, <1>2, <1>3
<1> QED BY <1>3, <1>4 DEF Reach

\* Two nodes share a reachable discriminator only when their addresses have
\* the same parity and are at most the number of timeouts apart.
LEMMA ReachBoth ==
    ASSUME NEW n \in Node, NEW d, NEW t \in Nat,
           Reach(n, d, t), Reach(Peer[n], d, t)
    PROVE  /\ Base[n] % 2 = Base[Peer[n]] % 2
           /\ Base[n] <= Base[Peer[n]] + t
           /\ Base[Peer[n]] <= Base[n] + t
<1> DEFINE A == Base[n]
           B == Base[Peer[n]]
<1>1. A \in Nat /\ B \in Nat /\ Peer[Peer[n]] = n
  BY Addresses
<1>2. PICK k \in 0..t : \/ k % 2 = 0 /\ d = A + k
                        \/ k % 2 = 1 /\ d = B + k
  BY DEF Reach
<1>3. PICK j \in 0..t : \/ j % 2 = 0 /\ d = B + j
                        \/ j % 2 = 1 /\ d = A + j
  BY <1>1 DEF Reach
<1> HIDE DEF A, B
<1>4. A % 2 = B % 2 /\ A <= B + t /\ B <= A + t
  BY <1>1, <1>2, <1>3
<1> QED BY <1>4 DEF A, B
\* A step that leaves the sessions' numbers alone, does not touch the network
\* or only takes from it, and takes no session up, keeps the invariant.
LEMMA DiscFrame ==
    ASSUME DiscInv, UNCHANGED <<myDisc, remDisc, timeouts>>,
           \A k \in Node : /\ state'[k] = "Up" => state[k] = "Up"
                           /\ net'[k] = net[k] \/ net'[k] = <<>>
    PROVE  DiscInv'
<1> SUFFICES ASSUME NEW k \in Node PROVE DiscInv!(k)'
  BY DEF DiscInv
<1>1. net'[k] = <<>> => 1..Len(net'[k]) = {}
  OBVIOUS
<1> QED BY <1>1 DEF DiscInv

\* Taking the head off a queue leaves packets that were there.
LEMMA TailOf ==
    ASSUME NEW q \in Seq(Packet), q # <<>>, NEW i \in 1..Len(Tail(q))
    PROVE  i + 1 \in 1..Len(q) /\ Tail(q)[i] = q[i + 1]
BY HeadTailProperties

\* Every step keeps the discriminators where they can be.
LEMMA DiscStep == TypeOK /\ DiscInv /\ [Next]_vars => DiscInv'
<1> SUFFICES ASSUME TypeOK, DiscInv, [Next]_vars PROVE DiscInv'
  OBVIOUS
<1>0. /\ net \in [Node -> Seq(Packet)] /\ myDisc \in [Node -> Nat] /\ remDisc \in [Node -> Nat]
      /\ timeouts \in Nat
      /\ state \in [Node -> {"None", "Down", "Init", "Up"}]
  BY DEF TypeOK
<1>1. ASSUME NEW n \in Node, NEW p \in Packet, p.disc = myDisc[n],
             net' = [net EXCEPT ![Peer[n]] = Append(@, p)]
      PROVE  \A k \in Node : \A i \in 1..Len(net'[k]) : Reach(Peer[k], net'[k][i].disc, timeouts)
  <2> SUFFICES ASSUME NEW k \in Node, NEW i \in 1..Len(net'[k])
               PROVE  Reach(Peer[k], net'[k][i].disc, timeouts)
    OBVIOUS
  <2>1. CASE k = Peer[n] /\ i = Len(net[k]) + 1
    <3>1. net'[k][i] = p /\ Peer[k] = n
      BY <1>0, <1>1, <2>1, Addresses
    <3> QED BY <1>1, <3>1 DEF DiscInv
  <2>2. CASE ~(k = Peer[n] /\ i = Len(net[k]) + 1)
    <3>1. i \in 1..Len(net[k]) /\ net'[k][i] = net[k][i]
      BY <1>0, <1>1, <2>2
    <3> QED BY <3>1 DEF DiscInv
  <2> QED BY <2>1, <2>2
<1>2. ASSUME NEW n \in Node, Send(n) PROVE DiscInv'
  <2>1. [state |-> state[n], disc |-> myDisc[n]] \in Packet
    BY <1>2, <1>0 DEF Send, Packet
  <2>2. \A k \in Node : \A i \in 1..Len(net'[k]) : Reach(Peer[k], net'[k][i].disc, timeouts)
    BY <1>1, <1>2, <2>1 DEF Send
  <2> QED BY <1>2, <2>2 DEF Send, sessVars, DiscInv
<1>3. ASSUME NEW n \in Node, net[n] # <<>>, net' = [net EXCEPT ![n] = Tail(@)]
      PROVE  \A k \in Node : \A i \in 1..Len(net'[k]) : Reach(Peer[k], net'[k][i].disc, timeouts)
  <2> SUFFICES ASSUME NEW k \in Node, NEW i \in 1..Len(net'[k])
               PROVE  Reach(Peer[k], net'[k][i].disc, timeouts)
    OBVIOUS
  <2>1. CASE k = n
    <3>1. net'[k] = Tail(net[k])
      BY <1>0, <1>3, <2>1
    <3>2. i + 1 \in 1..Len(net[k]) /\ net'[k][i] = net[k][i + 1]
      BY <1>0, <1>3, <2>1, <3>1, TailOf
    <3> QED BY <3>2 DEF DiscInv
  <2>2. CASE k # n
    BY <1>0, <1>3, <2>2 DEF DiscInv
  <2> QED BY <2>1, <2>2
<1>4. ASSUME NEW n \in Node, Lose(n) PROVE DiscInv'
  <2>1. \A k \in Node : \A i \in 1..Len(net'[k]) : Reach(Peer[k], net'[k][i].disc, timeouts)
    BY <1>3, <1>4 DEF Lose
  <2> QED BY <1>4, <2>1 DEF Lose, sessVars, DiscInv
<1>5. ASSUME NEW n \in Node, processBFD(n) PROVE DiscInv'
  <2>1. \A k \in Node : \A i \in 1..Len(net'[k]) : Reach(Peer[k], net'[k][i].disc, timeouts)
    BY <1>3, <1>5 DEF processBFD
  <2>2. CASE state[n] = "None"
    BY <1>5, <2>1, <2>2 DEF processBFD, sessVars, DiscInv
  <2>3. CASE state[n] # "None"
    <3> DEFINE raw == Head(net[n])
    <3>1. raw = net[n][1] /\ 1 \in 1..Len(net[n])
      BY <1>0, <1>5 DEF processBFD
    <3>2. Reach(Peer[n], raw.disc, timeouts)
      BY <3>1 DEF DiscInv
    <3>3. raw.disc # 0
      BY <1>0, <3>2, Addresses, ReachNumber
    <3>4. /\ remDisc' = [remDisc EXCEPT ![n] = raw.disc]
          /\ UNCHANGED <<myDisc, timeouts>>
          /\ \A k \in Node \ {n} : state'[k] = state[k]
      BY <1>0, <1>5, <2>3 DEF processBFD, RunSessionSM
    <3> HIDE DEF raw
    <3> QED BY <1>0, <2>1, <3>2, <3>3, <3>4 DEF DiscInv
  <2> QED BY <2>2, <2>3
<1>6. ASSUME NEW n \in Node, checkSessTimeout(n) PROVE DiscInv'
  <2>1. /\ state[n] = "Up"
        /\ state' = [state EXCEPT ![n] = "Down"]
        /\ myDisc' = [myDisc EXCEPT ![n] = remDisc[n] + 1]
        /\ timeouts' = timeouts + 1
        /\ UNCHANGED <<remDisc, net>>
    BY <1>6 DEF checkSessTimeout
  <2>2. Reach(n, remDisc[n] + 1, timeouts + 1)
    BY <1>0, <2>1, ReachRaised DEF DiscInv
  <2> SUFFICES ASSUME NEW k \in Node PROVE DiscInv!(k)'
    BY DEF DiscInv
  <2>3. Reach(k, myDisc'[k], timeouts + 1)
    BY <1>0, <2>1, <2>2, ReachNumber DEF DiscInv
  <2>4. remDisc[k] = 0 \/ Reach(Peer[k], remDisc[k], timeouts + 1)
    BY <1>0, ReachNumber, Addresses DEF DiscInv
  <2>5. \A i \in 1..Len(net[k]) : Reach(Peer[k], net[k][i].disc, timeouts + 1)
    BY <1>0, ReachNumber, Addresses DEF DiscInv
  <2>6. state'[k] = "Up" => remDisc[k] # 0
    BY <1>0, <2>1 DEF DiscInv
  <2> QED BY <2>1, <2>3, <2>4, <2>5, <2>6
<1>7. ASSUME NEW n \in Node, Notifier(n) \/ Restart(n) PROVE DiscInv'
  BY <1>7, DiscFrame DEF Notifier, NotifierWake, NotifierTake, BFDSessionNotify, NotifierQuit, Restart, sessVars
<1>8. ASSUME NEW n \in Node, BFDAddRemote(n) \/ BFDUpdateRemote(n) PROVE DiscInv'
  BY <1>0, <1>8, DiscFrame DEF BFDAddRemote, BFDUpdateRemote
<1>9. ASSUME NEW n \in Node, Forget(n), timeouts' = timeouts,
             \A k \in Node : \A i \in 1..Len(net'[k]) : Reach(Peer[k], net'[k][i].disc, timeouts)
      PROVE  DiscInv'
  <2>1. Reach(n, Base[n], timeouts)
    <3>1. 0 \in 0..timeouts /\ 0 % 2 = 0 /\ Base[n] = Base[n] + 0
      BY <1>0, Addresses
    <3> QED BY <3>1 DEF Reach
  <2> QED BY <1>0, <1>9, <2>1 DEF Forget, DiscInv
<1>10. ASSUME NEW n \in Node, BFDDeleteRemote(n) PROVE DiscInv'
  <2>1. [state |-> "AdminDown", disc |-> myDisc[n]] \in Packet
    BY <1>0 DEF Packet
  <2>2. \A k \in Node : \A i \in 1..Len(net'[k]) : Reach(Peer[k], net'[k][i].disc, timeouts)
    <3>1. CASE net' = net
      BY <3>1 DEF DiscInv
    <3>2. CASE net' # net
      BY <1>1, <1>10, <2>1, <3>2 DEF BFDDeleteRemote
    <3> QED BY <3>1, <3>2
  <2> QED BY <1>9, <1>10, <2>2 DEF BFDDeleteRemote
<1>11. ASSUME NEW n \in Node, Crash(n) PROVE DiscInv'
  <2>1. \A k \in Node : net'[k] = net[k] \/ net'[k] = <<>>
    BY <1>0, <1>11 DEF Crash
  <2>2. \A k \in Node : \A i \in 1..Len(net'[k]) : Reach(Peer[k], net'[k][i].disc, timeouts)
    BY <2>1 DEF DiscInv
  <2> QED BY <1>9, <1>11, <2>2 DEF Crash
<1>12. CASE Calm \/ UNCHANGED vars
  BY <1>12, DiscFrame DEF Calm, vars, sessVars
<1> QED BY <1>2, <1>4, <1>5, <1>6, <1>7, <1>8, <1>10, <1>11, <1>12 DEF Next

\* No session is known to anybody at the start.
LEMMA InitDisc == Init => DiscInv
<1> SUFFICES ASSUME Init, NEW n \in Node PROVE DiscInv!(n)
  BY DEF DiscInv
<1>1. 0 \in 0..timeouts /\ 0 % 2 = 0 /\ Base[n] = Base[n] + 0
  <2>1. timeouts = 0 /\ Base[n] \in Nat
    BY Addresses DEF Init
  <2> QED BY <2>1
<1>2. Reach(n, Base[n], timeouts)
  BY <1>1 DEF Reach
<1>3. 1..Len(net[n]) = {}
  <2>1. net[n] = <<>>
    BY DEF Init
  <2>2. Len(net[n]) = 0
    BY <2>1
  <2> QED BY <2>2
<1> QED BY <1>2, <1>3 DEF Init

\* Elections end in a tie, with no master, only between addresses of the same
\* parity that are no further apart than sessions have timed out.
THEOREM TiesAreRare == Spec => []TieNeedsTimeouts
<1>1. TypeOK /\ DiscInv => TieNeedsTimeouts
  <2> SUFFICES ASSUME TypeOK, DiscInv, NEW n \in Node, remDisc[n] = myDisc[n]
               PROVE  /\ Base[n] % 2 = Base[Peer[n]] % 2
                      /\ Base[n] <= Base[Peer[n]] + timeouts
                      /\ Base[Peer[n]] <= Base[n] + timeouts
    BY DEF TieNeedsTimeouts
  <2>1. timeouts \in Nat
    BY DEF TypeOK
  <2>2. Reach(n, myDisc[n], timeouts)
    BY DEF DiscInv
  <2>3. remDisc[n] # 0
    BY <2>1, <2>2, ReachNumber
  <2> QED BY <2>1, <2>2, <2>3, ReachBoth DEF DiscInv
<1> QED BY <1>1, InitType, InitDisc, TypeStep, DiscStep, PTL DEF Spec
\* A master that hears an up peer has the larger discriminator or is elected
\* again: every step keeps it so.
LEMMA MasterStep == TypeOK /\ DiscInv /\ MasterHasLargerDisc /\ [Next]_vars => MasterHasLargerDisc'
<1> SUFFICES ASSUME TypeOK, DiscInv, MasterHasLargerDisc, [Next]_vars, NEW k \in Node
             PROVE  MasterHasLargerDisc!(k)'
  BY DEF MasterHasLargerDisc
<1>0. /\ state \in [Node -> {"None", "Down", "Init", "Up"}]
      /\ myDisc \in [Node -> Nat] /\ remDisc \in [Node -> Nat]
      /\ ciState \in [Node -> Roles \cup {""}]
      /\ heard \in [Node -> {"AdminDown", "Down", "Init", "Up", ""}]
  BY DEF TypeOK
<1>1. ASSUME UNCHANGED <<ciState, myDisc, remDisc, heard>>, state'[k] = "Up" => state[k] = "Up"
      PROVE  MasterHasLargerDisc!(k)'
  BY <1>1 DEF MasterHasLargerDisc
<1>2. ASSUME NEW n \in Node, processBFD(n) PROVE MasterHasLargerDisc!(k)'
  <2> DEFINE raw == Head(net[n])
             new == SessionState(state[n], raw.state)
             r   == Elect(new, OldState(n, raw), myDisc[n], raw.disc)
  <2>1. CASE state[n] = "None"
    BY <1>1, <1>2, <2>1 DEF processBFD, sessVars
  <2>2. CASE state[n] # "None"
    <3>1. RunSessionSM(n, raw)
      BY <1>2, <2>2 DEF processBFD
    <3>2. /\ remDisc' = [remDisc EXCEPT ![n] = raw.disc]
          /\ state' = [state EXCEPT ![n] = new]
          /\ heard' = [heard EXCEPT ![n] = raw.state]
          /\ myDisc' = myDisc
          /\ ciState' = IF r = "" THEN ciState ELSE [ciState EXCEPT ![n] = r]
      BY <3>1 DEF RunSessionSM, electLocked
    <3>3. CASE k # n
      <4>1. /\ remDisc'[k] = remDisc[k] /\ state'[k] = state[k]
            /\ heard'[k] = heard[k] /\ ciState'[k] = ciState[k]
        BY <1>0, <3>2, <3>3
      <4> QED BY <3>2, <4>1 DEF MasterHasLargerDisc
    <3>4. CASE k = n /\ raw.state = "Up"
      <4>1. /\ remDisc'[k] = raw.disc /\ new = "Up"
            /\ ciState'[k] = IF r = "" THEN ciState[k] ELSE r
        BY <1>0, <3>2, <3>4 DEF SessionState
      <4>2. raw.disc \in Nat
        BY <1>2, Received DEF processBFD, TypeOK, Packet
      <4>3. myDisc[k] # 0 /\ myDisc[k] \in Nat
        <5>1. Reach(k, myDisc[k], timeouts) /\ timeouts \in Nat
          BY DEF DiscInv, TypeOK
        <5> QED BY <5>1, ReachNumber
      <4>4. CASE myDisc[k] > raw.disc
        BY <3>2, <4>1, <4>4
      <4>5. CASE ~(myDisc[k] > raw.disc)
        <5>1. myDisc[k] <= raw.disc /\ raw.disc # 0
          BY <4>2, <4>3, <4>5
        <5>2. CASE ciState[k] = "MASTER"
          <6>1. OldState(n, raw) = "Down"
            BY <3>4, <5>1, <5>2 DEF OldState
          <6>2. r = "BACKUP"
            BY <3>4, <4>1, <4>5, <5>1, <6>1 DEF Elect
          <6> QED BY <4>1, <6>2
        <5>3. CASE ciState[k] # "MASTER"
          <6>1. r # "MASTER"
            BY <3>4, <4>1, <4>5 DEF Elect
          <6> QED BY <4>1, <5>3, <6>1
        <5> QED BY <5>2, <5>3
      <4> QED BY <4>4, <4>5
    <3>5. CASE k = n /\ raw.state # "Up"
      BY <1>0, <3>2, <3>5
    <3> QED BY <3>3, <3>4, <3>5
  <2> QED BY <2>1, <2>2
<1>3. ASSUME NEW n \in Node, checkSessTimeout(n) PROVE MasterHasLargerDisc!(k)'
  <2>1. CASE k = n
    BY <1>0, <1>3, <2>1 DEF checkSessTimeout
  <2>2. CASE k # n
    <3>1. ciState'[k] = ciState[k]
      BY <1>0, <1>3, <2>2 DEF checkSessTimeout, electLocked
    <3>2. state'[k] = state[k] /\ myDisc'[k] = myDisc[k] /\ remDisc'[k] = remDisc[k] /\ heard'[k] = heard[k]
      BY <1>0, <1>3, <2>2 DEF checkSessTimeout
    <3> QED BY <3>1, <3>2 DEF MasterHasLargerDisc
  <2> QED BY <2>1, <2>2
<1>4. ASSUME NEW n \in Node, Forget(n) PROVE MasterHasLargerDisc!(k)'
  <2>1. CASE k = n
    BY <1>0, <1>4, <2>1 DEF Forget
  <2>2. CASE k # n
    BY <1>0, <1>4, <2>2 DEF Forget, MasterHasLargerDisc
  <2> QED BY <2>1, <2>2
<1>5. ASSUME NEW n \in Node, BFDAddRemote(n) \/ BFDUpdateRemote(n) PROVE MasterHasLargerDisc!(k)'
  <2>1. CASE BFDAddRemote(n)
    BY <1>0, <1>1, <2>1 DEF BFDAddRemote
  <2>2. CASE BFDUpdateRemote(n) /\ k = n
    BY <1>0, <2>2 DEF BFDUpdateRemote
  <2>3. CASE BFDUpdateRemote(n) /\ k # n
    BY <1>0, <2>3 DEF BFDUpdateRemote, MasterHasLargerDisc
  <2> QED BY <1>5, <2>1, <2>2, <2>3
<1>6. ASSUME NEW n \in Node, Send(n) \/ Lose(n) \/ Notifier(n) \/ Restart(n) PROVE MasterHasLargerDisc!(k)'
  BY <1>1, <1>6 DEF Send, Lose, Notifier, NotifierWake, NotifierTake, BFDSessionNotify, NotifierQuit, Restart, sessVars
<1>7. CASE Calm \/ UNCHANGED vars
  BY <1>1, <1>7 DEF Calm, vars, sessVars
<1> QED BY <1>2, <1>3, <1>4, <1>5, <1>6, <1>7 DEF Next, BFDDeleteRemote, Crash

\* A session that is up and last heard an up peer believes itself master only
\* with the larger discriminator: the forced election of RunSessionSM.
THEOREM MasterIsLarger == Spec => []MasterHasLargerDisc
<1>1. Init => MasterHasLargerDisc
  BY DEF Init, MasterHasLargerDisc
<1> QED BY <1>1, InitType, InitDisc, TypeStep, DiscStep, MasterStep, PTL DEF Spec
=============================================================================

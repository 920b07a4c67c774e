----------------------------- MODULE AdvBurst -----------------------------
(***************************************************************************)
(* What vipAdvBurstSched (pkg/loxinet/vipadv.go) promises: a burst of      *)
(* advertisements is armed for the state an instance was last observed in, *)
(* and ends by itself.  The bursts of ClusterSync behave like this.        *)
(***************************************************************************)
CONSTANTS Inst

VARIABLES
    live,    \* state of each instance
    queued,  \* instances whose change the sync worker has not observed
    armed    \* instances with a burst

vars == <<live, queued, armed>>

Init ==
    /\ live = [i \in Inst |-> "BACKUP"]
    /\ queued = {}
    /\ armed = {}

StateChange(i, s) ==
    /\ s # live[i]
    /\ live' = [live EXCEPT ![i] = s]
    /\ queued' = queued \cup {i}
    /\ UNCHANGED armed

Observe(i) ==
    /\ queued' = queued \ {i}
    /\ armed' = IF live[i] = "MASTER" THEN armed \cup {i} ELSE armed \ {i}
    /\ UNCHANGED live

End(i) ==
    /\ i \in armed
    /\ armed' = armed \ {i}
    /\ UNCHANGED <<live, queued>>

Next ==
    \E i \in Inst : \/ \E s \in {"MASTER", "BACKUP"} : StateChange(i, s)
                    \/ Observe(i) \/ End(i)

Spec == Init /\ [][Next]_vars
=============================================================================

------------------------------ MODULE MCGoBgp ------------------------------
(* Instances of GoBgp for TLC *)
EXTENDS GoBgp

CONSTANTS v1, v2, c1, p1, n1

Budget(r, s, t, f) == [rule |-> r, state |-> s, route |-> t, fault |-> f]

\* rule calls alone, mixed with a change of state, changes of state alone, and
\* changes of learned routes alone and mixed with a change of state
Some == {Budget(3, 0, 0, 2), Budget(1, 1, 0, 1), Budget(0, 2, 0, 1), Budget(0, 0, 2, 2),
         Budget(0, 1, 2, 0)}
=============================================================================

----------------------------- MODULE MCLbRules -----------------------------
EXTENDS LbRules
CONSTANTS r1, r2
\* Four calls with three end-points, so that a list outgrows MaxLBEndPoints
\* while another rule shares its hosts; three with two, and probes.
AllPlans == {[calls |-> 4, eps |-> {1, 2, 3}, health |-> FALSE],
             [calls |-> 3, eps |-> {1, 2}, health |-> TRUE]}
=============================================================================

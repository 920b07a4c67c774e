------------------------------ MODULE MCXSync ------------------------------
EXTENDS XSync
CONSTANTS a, b, c1, c2, x, y
MCPeer == (a :> b) @@ (b :> a)

Scen(ks, as) == [kinds |-> ks, acts |-> as]
BootScen == {Scen({"rule"}, {x})}
LiveScen == {Scen({"crash", "calm", "flip"}, {x})}
\* Failing calls with one action, changes of the action without failures.
LateScen == {Scen({"timeout", "full", "end"}, {x}), Scen({"end"}, {x, y})}

\* Connections are only compared with each other.
ConnSym == Permutations(Conn)
=============================================================================

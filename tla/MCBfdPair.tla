----------------------------- MODULE MCBfdPair -----------------------------
EXTENDS BfdPair, TLC
CONSTANTS a, b
MCPeer == (a :> b) @@ (b :> a)
EvenApart == (a :> 1) @@ (b :> 3)
=============================================================================

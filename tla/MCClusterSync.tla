--------------------------- MODULE MCClusterSync ---------------------------
EXTENDS ClusterSync, TLC
CONSTANTS i0, i1, v0, v1, f0
MCInst == {i0, i1}
OneInst == {i0}
OneVipInst == v0 :> i0
MCVipInst == (v0 :> i0) @@ (v1 :> i1)
=============================================================================

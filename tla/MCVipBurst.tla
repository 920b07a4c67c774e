---------------------------- MODULE MCVipBurst ----------------------------
EXTENDS VipBurst, TLC
CONSTANTS i0, i1, v0, v1, v2, b0, b1, b2
OneInst == [v \in Vip |-> i0]
TwoInst == [v \in Vip |-> IF v = v2 THEN i1 ELSE i0]
=============================================================================

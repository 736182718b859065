---------------------------- MODULE MCSaleOrder ----------------------------
(* SaleOrder on a small instance.                                          *)
EXTENDS SaleOrder

CONSTANTS o1, o2, a1, a2, w1, w2, u1, u2, p1, p2
============================================================================

----------------------------- MODULE MCPushSync -----------------------------
(* Push and pull on a small instance.                                      *)
EXTENDS PushSync, TLC

CONSTANTS op1, op2, r1, r2, d1, d2

\* The second operation depends on the first.
MCNeeds == (op1 :> {}) @@ (op2 :> {op1})
=============================================================================

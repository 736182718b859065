--------------------------- MODULE MCIdempotency ---------------------------
(* Idempotency on a small instance: two identical calls under one key, one  *)
(* with another payload, and one of another branch that reuses the key.     *)
EXTENDS Idempotency, TLC

CONSTANTS r1, r2, r3, r4, here, there, p1, p2, d1

MCScopeOf == (r1 :> here) @@ (r2 :> here) @@ (r3 :> here) @@ (r4 :> there)
MCBodyOf == (r1 :> p1) @@ (r2 :> p1) @@ (r3 :> p2) @@ (r4 :> p1)

\* buildCommandDedupeKey leaves the branch out.
MCDedupeOf == (here :> d1) @@ (there :> d1)
============================================================================

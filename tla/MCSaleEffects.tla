--------------------------- MODULE MCSaleEffects ---------------------------
(* SaleEffects on small instances.                                         *)
EXTENDS SaleEffects, TLC

CONSTANTS s1, k1, k2, c1, c2, p1, i1, a1, d1, d2

\* A recipe that takes one of the item, and one that takes two.
MCRecipe == {(i1 :> 1), (i1 :> 2)}
MCOneRecipe == {(i1 :> 1)}

MCSymmetry == Permutations({d1, d2}) \cup Permutations({k1, k2})
============================================================================

--------------------------- MODULE MCKhqrPayment ---------------------------
(* KhqrPayment on small instances.                                         *)
EXTENDS KhqrPayment, TLC

CONSTANTS b1, b2, m1, m2, i1, i2, old1, new1, new2, e1

\* The provider's event is about the first payment.
MCOne == (e1 :> m1)

MCNoAttempt == {}
MCOneAttempt == {<<b1, m1>>}

MCSymmetry ==
    Permutations({b1, b2}) \cup Permutations({i1, i2}) \cup Permutations({new1, new2})
============================================================================

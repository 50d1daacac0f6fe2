------------------------------- MODULE MCCart -------------------------------
(* Instances of Cart for TLC: one browser with two requests at a time. *)
EXTENDS Cart, TLC

CONSTANTS v1, u1, u2, b1, c1, c2, o1, o2, w1, w2

MCVisitor == {v1}
MCUser == {u1, u2}
MCBook == {b1}
MCCarts == {c1, c2}
MCOrders == {o1, o2}
MCWorker == {w1, w2}

Symmetry == Permutations(MCCarts) \union Permutations(MCOrders)
              \union Permutations(MCWorker)
              \union Permutations(MCUser)
=============================================================================

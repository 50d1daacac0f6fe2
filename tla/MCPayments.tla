----------------------------- MODULE MCPayments -----------------------------
(* Instances of Payments for TLC. *)
EXTENDS Payments

CONSTANTS o1, o2, p1, p2, w1, w2

MCOrders1 == {o1}
MCOrders2 == {o1, o2}
MCPayments2 == {p1, p2}
MCWorkers2 == {w1, w2}
MCWorker1 == {w1}

=============================================================================

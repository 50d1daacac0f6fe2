---------------------------- MODULE MCFulfilment ----------------------------
(* One online order with one payment, and one walk-in sale of the same book. *)
EXTENDS Fulfilment, TLC

CONSTANTS o1, p1, w1, s1, ponni

MCOrder == {o1}
MCPayment == {p1}
MCWorker == {w1}
MCStoreOrder == {s1}
MCBook == {ponni}
MCAdminStatus == {"cancelled", "paid"}

Item(b, n) == [book |-> b, quantity |-> n]

MCItems == (p1 :> <<Item(ponni, 1)>>) @@ (s1 :> <<Item(ponni, 1)>>)

MCStock == ponni :> 1
MCState == ponni :> "in_stock"
=============================================================================

--------------------------- MODULE MCInventorySync ---------------------------
(* Two sales that list the same two books in opposite orders. *)
EXTENDS InventorySync, TLC

CONSTANTS ponni, thirukkural, s1, s2

MCBook == {ponni, thirukkural}
MCSale == {s1, s2}

Item(b, n) == [book |-> b, quantity |-> n]

MCItems ==
  (s1 :> <<Item(ponni, 1), Item(thirukkural, 2)>>) @@
  (s2 :> <<Item(thirukkural, 1), Item(ponni, 1)>>)

MCStock == (ponni :> 3) @@ (thirukkural :> 2)
MCState == (ponni :> "preorder") @@ (thirukkural :> "in_stock")
=============================================================================

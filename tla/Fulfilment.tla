----------------------------- MODULE Fulfilment -----------------------------
(***************************************************************************)
(* From a payment to the shelf: Payments, the stores' own sales and the    *)
(* orders' administration (apps/medusa), and InventorySync, which serves   *)
(* the stock requests of all of them.                                      *)
(*                                                                         *)
(* The components share commerce.orders.status, which the webhook and the  *)
(* administration both write, and the bus, which carries the stock         *)
(* requests and loses one with a fault of the common budget.               *)
(***************************************************************************)
EXTENDS Payments, Sequences

CONSTANTS
  StoreOrder,     \* walk-in sales a store keeper may log
  AdminStatus,    \* statuses the order page sets, of all those it offers
  MaxShipments,   \* bound: shipments recorded for one order
  Book, Items, OpeningStock, OpeningState, MaxDeliveries, MaxAttempts

ASSUME FulfilmentAssumption ==
  /\ StoreOrder \intersect Payment = {}
  /\ AdminStatus \subseteq OrderStatus
  /\ Items \in [Payment \union StoreOrder ->
                 Seq([book : Book, quantity : Nat \ {0}])]
  /\ OpeningStock \in [Book -> Nat]
  /\ OpeningState \in
       [Book -> {"in_stock", "out_of_stock", "preorder", "discontinued"}]
  /\ {MaxShipments, MaxDeliveries} \subseteq Nat
  /\ MaxAttempts \in Nat \ {0}

VARIABLES
  storeOrder,     \* a walk-in sale: not logged, its row committed, or done
  storeRequests,  \* InventoryDecrementRequested events of walk-in sales
  shipments,      \* rows of commerce.shipments, per order
  deliveries, relay, tries, call, updated, stock, availability, written,
  repeats

medusa  == <<storeOrder, storeRequests, shipments>>
syncing == <<deliveries, relay, tries, call, updated, stock, availability,
             written, repeats>>
allVars == <<vars, medusa, syncing>>

\* What Payments and Medusa have published of each sale.
stockRequests ==
  [s \in Payment \union StoreOrder |->
     IF s \in Payment THEN requests[s] ELSE storeRequests[s]]

\* Its own action Request is none of this module's steps.
Sync == INSTANCE InventorySync WITH
  Sale <- Payment \union StoreOrder,
  requests <- stockRequests,
  MaxRequests <- 0

FulfilmentInit ==
  /\ Init
  /\ storeOrder = [s \in StoreOrder |-> "none"]
  /\ storeRequests = [s \in StoreOrder |-> 0]
  /\ shipments = [o \in Order |-> 0]
  /\ Sync!Init

-----------------------------------------------------------------------------
(* Medusa's admin routes *)

\* createStoreOrder's transaction: the walk-in sale is 'completed' at once.
\* It looks at no stock.
CreateStoreOrder(s) ==
  /\ storeOrder[s] = "none"
  /\ storeOrder' = [storeOrder EXCEPT ![s] = "completed"]
  /\ UNCHANGED <<vars, storeRequests, shipments, syncing>>

\* Mutant: the route publishes before the sale is on record.
RequestBeforeCommit(s) ==
  /\ storeOrder[s] = "none"
  /\ storeRequests[s] = 0
  /\ Publish(storeRequests, s)
  /\ UNCHANGED <<orderStatus, rows, razor, acked, lambda, bus, duplicates,
                 history, storeOrder, shipments, syncing>>

\* The route then publishes the sale's items; an entry the bus refuses is
\* logged, and an invocation that dies before it leaves the sale as it is.
RequestStoreOrder(s) ==
  /\ storeOrder[s] = "completed"
  /\ storeOrder' = [storeOrder EXCEPT ![s] = "requested"]
  /\ Publish(storeRequests, s)
  /\ UNCHANGED <<orderStatus, rows, razor, acked, lambda, bus, duplicates,
                 history, shipments, syncing>>

\* updateOrderStatus: any status may follow any other.
UpdateOrderStatus(o, status) ==
  /\ orderStatus' = [orderStatus EXCEPT ![o] = status]
  /\ UNCHANGED <<rows, razor, acked, lambda, bus, faults, duplicates, history,
                 medusa, syncing>>

\* createShipment's transaction, which locks the order's row but does not ask
\* for its status.
CreateShipment(o) ==
  /\ shipments[o] < MaxShipments
  /\ shipments' = [shipments EXCEPT ![o] = @ + 1]
  /\ orderStatus' = [orderStatus EXCEPT ![o] = "shipped"]
  /\ UNCHANGED <<rows, razor, acked, lambda, bus, faults, duplicates, history,
                 storeOrder, storeRequests, syncing>>

Administer ==
  \/ \E s \in StoreOrder : CreateStoreOrder(s)
  \/ \E o \in Order, status \in AdminStatus : UpdateOrderStatus(o, status)
  \/ \E o \in Order : CreateShipment(o)

-----------------------------------------------------------------------------

\* A step of Payments or of InventorySync leaves the other's state alone,
\* but for the common budget of faults.
PaymentStep == Next /\ UNCHANGED <<medusa, syncing>>

SyncStep ==
  /\ UNCHANGED <<orderStatus, rows, razor, acked, lambda, bus, duplicates,
                 history, medusa>>
  /\ Sync!SyncNext

FulfilmentNext ==
  \/ PaymentStep
  \/ SyncStep
  \/ Administer
  \/ \E s \in StoreOrder : RequestStoreOrder(s)

\* Lambda and Directus run what they started; the bus hands events over.
FulfilmentSpec ==
  /\ FulfilmentInit
  /\ [][FulfilmentNext]_allVars
  /\ \A w \in Worker : WF_allVars(Continue(w) /\ UNCHANGED <<medusa, syncing>>)
  /\ \A p \in Payment, event \in Event :
       WF_allVars(/\ <<p, event>> \notin acked
                  /\ \E w \in Worker : ReceiveWebhook(w, p)
                  /\ UNCHANGED <<medusa, syncing>>)
  /\ \A s \in StoreOrder : WF_allVars(RequestStoreOrder(s))
  /\ WF_allVars(/\ UNCHANGED <<orderStatus, rows, razor, acked, lambda, bus,
                               duplicates, history, medusa>>
                /\ Sync!Progress)

-----------------------------------------------------------------------------
(* Properties *)

\* handleWebhook settles the payment's own order, whatever its status is.
ByWebhook(o) ==
  \E p \in Payment :
    /\ payOrder[p] = o
    /\ gateway[p] = "captured"
    /\ Clean(p) => paidEvents[p] = 0

\* "Webhook verification is mandatory before marking an order Paid". A webhook
\* makes an order paid only for a payment of its own that Razorpay captured,
\* and only once for each (unless two raced or a late payment.failed undid
\* one): an order cancelled or shipped since is not revived by a redelivery.
\* Without a capture only a store keeper marks an order paid, who collects a
\* pay-later order by hand (payments.service.ts:116-119).
PaidNeedsCapture ==
  [][\A o \in Order :
       orderStatus[o] # "paid" /\ orderStatus'[o] = "paid"
         => ByWebhook(o) \/ UpdateOrderStatus(o, "paid")]_allVars

OnRecord(s) ==
  \/ s \in Payment /\ (provider[s] = "pay_later" \/ gateway[s] = "captured")
  \/ s \in StoreOrder /\ storeOrder[s] # "none"

\* Books leave the shelf only for a sale on record: a payment that Razorpay
\* captured or that is collected later, or a walk-in sale whose row is
\* committed. About the order of the statements and events of the three
\* places that publish InventoryDecrementRequested.
StockOnlyForSales ==
  \A s \in Payment \union StoreOrder : Sync!Committed(s) # {} => OnRecord(s)

\* From the payment to the shelf, a payment takes its stock once, unless two
\* webhooks raced, a late payment.failed undid the capture, the bus repeated
\* a delivery or the relay missed an answer: four ways, in three programs.
SaleTakesStockOnce ==
  \A s \in Payment \union StoreOrder :
    repeats[s] = 0 /\ Clean(s) => Cardinality(Sync!Committed(s)) <= 1

\* What a customer paid for leaves the shelf, unless an invocation, an event
\* or an answer was lost on the way, whatever the administration does to the
\* order meanwhile.
CapturedTakesStock ==
  \A p \in Payment :
    gateway[p] = "captured" ~>
      (Sync!Committed(p) # {} \/ Sync!Dropped(p) \/ faults > 0)
=============================================================================

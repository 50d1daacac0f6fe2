-------------------------- MODULE FulfilmentProofs --------------------------
(***************************************************************************)
(* Proofs about the whole way from a payment to the shelf. They compose    *)
(* what PaymentsProofs and InventoryProofs prove of the two programs:      *)
(* each step of one leaves the other's invariant as it is, and the stock   *)
(* requests are what they share.                                           *)
(***************************************************************************)
EXTENDS Fulfilment, PaymentsProofs, FiniteSetTheorems

SP == INSTANCE InventoryProofs WITH
  Sale <- Payment \union StoreOrder,
  requests <- stockRequests,
  MaxRequests <- 0

\* Medusa requests a walk-in sale's stock once, after its row is committed.
StoreSales ==
  /\ storeOrder \in [StoreOrder -> {"none", "completed", "requested"}]
  /\ storeRequests \in [StoreOrder -> 0..1]
  /\ \A s \in StoreOrder : storeOrder[s] # "requested" => storeRequests[s] = 0

\* Razorpay has captured what is requested and not collected later.
RequestedIsOnRecord ==
  \A p \in Payment :
    requests[p] > 0 => provider[p] = "pay_later" \/ gateway[p] = "captured"

\* The bus delivers what was requested.
DeliveredIsRequested ==
  \A s \in Payment \union StoreOrder : deliveries[s] > 0 => stockRequests[s] > 0

Paying == Structure /\ CleanOnce /\ RequestedIsOnRecord

FulfilmentInv ==
  /\ Paying
  /\ StoreSales
  /\ SP!SyncInv
  /\ DeliveredIsRequested

-----------------------------------------------------------------------------
(* InventorySync, as Fulfilment and InventoryProofs see it *)

\* The constants of InventorySync are what it assumes.
LEMMA SyncAssumption == SP!InventoryAssumption
<1>1. {0, MaxDeliveries, MaxFaults} \subseteq Nat
  BY FulfilmentAssumption, PaymentsAssumption
<1> QED BY <1>1, FulfilmentAssumption DEF SP!InventoryAssumption, SP!Availability

LEMMA SameInit == Sync!Init => SP!Init
BY DEF Sync!Init, SP!Init, Sync!Delivery, SP!Delivery, Sync!Call, SP!Call

LEMMA SameCommitted ==
  ASSUME NEW s
  PROVE  Sync!Committed(s) = SP!Committed(s)
BY DEF Sync!Committed, SP!Committed, Sync!Call, SP!Call, Sync!Delivery, SP!Delivery

LEMMA SameDeliver ==
  ASSUME NEW s
  PROVE  Sync!Deliver(s) <=> SP!Deliver(s)
BY DEF Sync!Deliver, SP!Deliver, Sync!UseFault, SP!UseFault, Sync!trx, SP!trx,
       Sync!rows, SP!rows

LEMMA SameRelayStep ==
  ASSUME NEW d
  PROVE  Sync!RelayStep(d) <=> SP!RelayStep(d)
<1> USE DEF Sync!bus, SP!bus, Sync!trx, SP!trx, Sync!rows, SP!rows,
            Sync!Requeue, SP!Requeue, Sync!CurrentCall, SP!CurrentCall,
            Sync!UseFault, SP!UseFault
<1>1. Sync!Invoke(d) <=> SP!Invoke(d)
  BY DEF Sync!Invoke, SP!Invoke
<1>2. Sync!Answer(d) <=> SP!Answer(d)
  BY DEF Sync!Answer, SP!Answer
<1>3. Sync!GiveUp(d) <=> SP!GiveUp(d)
  BY DEF Sync!GiveUp, SP!GiveUp
<1> QED BY <1>1, <1>2, <1>3 DEF Sync!RelayStep, SP!RelayStep

LEMMA SameTransact ==
  ASSUME NEW c
  PROVE  Sync!Transact(c) <=> SP!Transact(c)
<1> USE DEF Sync!bus, SP!bus, Sync!http, SP!http
<1>1. /\ \A d : Sync!ItemsOf(d) = SP!ItemsOf(d)
      /\ \A d : Sync!NextItem(d) = SP!NextItem(d)
      /\ \A d : Sync!NextBook(d) = SP!NextBook(d)
      /\ Sync!Call = SP!Call
  BY DEF Sync!ItemsOf, SP!ItemsOf, Sync!NextItem, SP!NextItem, Sync!NextBook,
         SP!NextBook, Sync!Call, SP!Call, Sync!Delivery, SP!Delivery
<1>2. \A d, b : Sync!Locks(d, b) <=> SP!Locks(d, b)
  BY <1>1 DEF Sync!Locks, SP!Locks
<1>3. \A d, e : Sync!WaitsFor(d, e) <=> SP!WaitsFor(d, e)
  BY <1>1, <1>2 DEF Sync!WaitsFor, SP!WaitsFor
<1>4. Sync!UpdateRow(c) <=> SP!UpdateRow(c)
  BY <1>1, <1>3
     DEF Sync!UpdateRow, SP!UpdateRow, Sync!Decremented, SP!Decremented,
         Sync!Monus, SP!Monus
<1>5. Sync!Commit(c) <=> SP!Commit(c)
  BY <1>1, <1>2 DEF Sync!Commit, SP!Commit
<1>6. Sync!Abort(c) <=> SP!Abort(c)
  BY <1>2 DEF Sync!Abort, SP!Abort
<1>7. Sync!Deadlocked(c) <=> SP!Deadlocked(c)
  BY <1>1, <1>3 DEF Sync!Deadlocked, SP!Deadlocked
<1>8. Sync!AbortDeadlocked(c) <=> SP!AbortDeadlocked(c)
  BY <1>6, <1>7 DEF Sync!AbortDeadlocked, SP!AbortDeadlocked
<1>9. Sync!Fail(c) <=> SP!Fail(c)
  BY <1>6 DEF Sync!Fail, SP!Fail, Sync!UseFault, SP!UseFault
<1> QED BY <1>4, <1>5, <1>8, <1>9 DEF Sync!Transact, SP!Transact

LEMMA SameNext == Sync!SyncNext => SP!SyncNext
BY SameDeliver, SameRelayStep, SameTransact
   DEF Sync!SyncNext, SP!SyncNext, Sync!Call, SP!Call, Sync!Delivery, SP!Delivery

-----------------------------------------------------------------------------
(* What Payments publishes *)

\* Only RequestPayLater and RequestDecrement publish a stock request, and none
\* is taken back.
LEMMA WhoRequests ==
  ASSUME Structure, [Next]_vars, NEW p \in Payment
  PROVE  \/ requests'[p] = requests[p]
         \/ /\ requests'[p] = requests[p] + 1
            /\ UNCHANGED <<provider, gateway>>
            /\ \E w \in Worker : pc[w] \in {"collect", "request"} /\ onPayment[w] = p
<1>1. Tables /\ Registers
  BY StructureTypes
<1>2. ASSUME NEW w \in Worker, RequestPayLater(w) \/ RequestDecrement(w),
             requests'[p] # requests[p]
      PROVE  /\ requests'[p] = requests[p] + 1
             /\ UNCHANGED <<provider, gateway>>
             /\ pc[w] \in {"collect", "request"} /\ onPayment[w] = p
  <2>1. pc[w] \in {"collect", "request"} /\ UNCHANGED <<provider, gateway>>
    BY <1>2 DEF RequestPayLater, RequestDecrement, Finish, rows, razor
  <2>2. onPayment[w] \in Payment
    BY <2>1, Running
  <2>3. requests' = [requests EXCEPT ![onPayment[w]] = @ + 1]
    BY <1>2 DEF RequestPayLater, RequestDecrement, Publish
  <2> QED BY <1>1, <1>2, <2>1, <2>2, <2>3 DEF Tables
<1>3. \/ \E w \in Worker : RequestPayLater(w) \/ RequestDecrement(w)
      \/ UNCHANGED requests
  BY DEF Next, Continue, ReceiveWebhook, vars, bus, CreatePaymentOrder, PayLater,
         CaptureAtGateway, FailAtGateway, IgnoreWebhook, AcceptCaptured,
         AcceptFailed, CreateOrderAtGateway, InsertRazorpayPayment,
         InsertPayLater, MarkCaptured, SettleOrder, AnnouncePaid,
         MarkFailed, Crash
<1> QED BY <1>2, <1>3

\* Whoever publishes one is collecting later or handles a captured payment.
LEMMA StepOnRecord ==
  ASSUME Structure, RequestedIsOnRecord, [Next]_vars
  PROVE  RequestedIsOnRecord'
<1> SUFFICES ASSUME NEW p \in Payment, requests'[p] > 0
             PROVE  provider'[p] = "pay_later" \/ gateway'[p] = "captured"
  BY DEF RequestedIsOnRecord
<1>1. Tables /\ Row(p)
  BY StructureTypes DEF Structure
<1>2. CASE requests[p] > 0
  <2>1. payOrder[p] # None
    BY <1>1, <1>2 DEF Row, Tables
  <2> QED BY <1>2, <2>1, Monotone DEF RequestedIsOnRecord
<1>3. CASE ~(requests[p] > 0)
  <2>1. PICK w \in Worker : pc[w] \in {"collect", "request"} /\ onPayment[w] = p
    BY <1>1, <1>3, WhoRequests DEF Tables
  <2>2. UNCHANGED <<provider, gateway>>
    BY <1>1, <1>3, WhoRequests DEF Tables
  <2>3. Invocation(w) /\ Notification(p)
    BY <2>1, Running
  <2>4. provider[p] = "pay_later" \/ gateway[p] = "captured"
    BY <2>1, <2>3 DEF Invocation, Notification, Capturing, Event
  <2> QED BY <2>2, <2>4
<1> QED BY <1>2, <1>3

\* Payments keeps its own invariant.
LEMMA StepPaying ==
  Paying /\ [Next]_vars => Paying'
BY StepStructure, StepOnce, StepOnRecord DEF Paying

\* So does whoever writes only the status of orders, walk-in sales, the shelf
\* or the count of faults.
LEMMA ElsewherePaying ==
  ASSUME Paying, orderStatus' \in [Order -> OrderStatus], faults' \in 0..MaxFaults,
         UNCHANGED <<rows, razor, acked, lambda, bus, duplicates, history>>
  PROVE  Paying'
<1> USE DEF rows, razor, lambda, bus, history
<1>1. Structure'
  <2>1. TypeOK'
    BY DEF Paying, Structure, TypeOK
  <2>2. \A p \in Payment : Row(p)' /\ Notification(p)'
    BY DEF Paying, Structure, Row, Notification
  <2>3. \A w \in Worker : Invocation(w)'
    BY DEF Paying, Structure, Invocation
  <2>4. \A v, w \in Worker : Exclusive(v, w)'
    BY DEF Paying, Structure, Exclusive
  <2> QED BY <2>1, <2>2, <2>3, <2>4 DEF Structure
<1>2. CleanOnce'
  BY DEF Paying, CleanOnce, Clean, Once, Counts, Capturer, Alone
<1>3. RequestedIsOnRecord'
  BY DEF Paying, RequestedIsOnRecord
<1> QED BY <1>1, <1>2, <1>3 DEF Paying

-----------------------------------------------------------------------------
(* The whole invariant *)

\* More requests of any sale are served as before.
LEMMA RequestsKeepSync ==
  ASSUME SP!SyncInv, DeliveredIsRequested, Paying, StoreSales, Paying', StoreSales',
         \A p \in Payment : requests[p] <= requests'[p],
         \A s \in StoreOrder : storeRequests[s] <= storeRequests'[s],
         UNCHANGED syncing
  PROVE  SP!SyncInv' /\ DeliveredIsRequested'
<1>1. /\ \A p \in Payment : requests[p] \in Nat /\ requests'[p] \in Nat
      /\ faults' \in 0..MaxFaults
  BY DEF Paying, Structure, TypeOK
<1>2. \A s \in StoreOrder : storeRequests[s] \in Nat /\ storeRequests'[s] \in Nat
  BY DEF StoreSales
<1>3. /\ stockRequests' \in [Payment \union StoreOrder -> Nat]
      /\ \A s \in Payment \union StoreOrder : stockRequests[s] <= stockRequests'[s]
      /\ stockRequests \in [Payment \union StoreOrder -> Nat]
  BY <1>1, <1>2 DEF stockRequests
<1>4. UNCHANGED <<deliveries, relay, tries, call, updated, stock, availability,
                  written, repeats>>
  BY DEF syncing
<1>5. SP!SyncInv'
  BY <1>1, <1>3, <1>4, SP!MoreRequestsKeep, SyncAssumption
<1>6. DeliveredIsRequested'
  BY <1>3, <1>4 DEF DeliveredIsRequested
<1> QED BY <1>5, <1>6

\* A step of Payments.
LEMMA PaymentStepKeeps ==
  ASSUME FulfilmentInv, PaymentStep
  PROVE  FulfilmentInv'
<1>1. Paying' /\ StoreSales'
  BY StepPaying DEF FulfilmentInv, PaymentStep, StoreSales, medusa
<1>2. ASSUME NEW p \in Payment PROVE requests[p] <= requests'[p]
  <2>1. requests[p] \in Nat
    BY DEF FulfilmentInv, Paying, Structure, TypeOK
  <2> QED BY <2>1, WhoRequests DEF FulfilmentInv, Paying, PaymentStep
<1>3. \A s \in StoreOrder : storeRequests[s] <= storeRequests'[s]
  BY DEF FulfilmentInv, StoreSales, PaymentStep, medusa
<1>4. UNCHANGED syncing
  BY DEF PaymentStep
<1> QED BY <1>1, <1>2, <1>3, <1>4, RequestsKeepSync DEF FulfilmentInv

\* A step of the bus, the relay or Directus.
LEMMA SyncStepKeeps ==
  ASSUME FulfilmentInv, SyncStep
  PROVE  FulfilmentInv'
<1>1. SP!SyncInv'
  BY SameNext, SP!SyncNextKeeps, SyncAssumption DEF FulfilmentInv, SyncStep
<1>2. UNCHANGED <<orderStatus, rows, razor, acked, lambda, bus, duplicates, history>>
  BY DEF SyncStep
<1>3. faults' \in 0..MaxFaults
  BY <1>1 DEF SP!SyncInv, SP!TypeOK
<1>4. Paying'
  <2>1. orderStatus' \in [Order -> OrderStatus]
    BY <1>2 DEF FulfilmentInv, Paying, Structure, TypeOK
  <2> QED BY <1>2, <1>3, <2>1, ElsewherePaying DEF FulfilmentInv
<1>5. StoreSales' /\ stockRequests' = stockRequests
  BY <1>2 DEF FulfilmentInv, SyncStep, StoreSales, medusa, bus, stockRequests
<1>6. DeliveredIsRequested'
  <2>1. \/ \E s \in Payment \union StoreOrder : Sync!Deliver(s)
        \/ UNCHANGED deliveries
    BY DEF SyncStep, Sync!SyncNext, Sync!RelayStep, Sync!Transact, Sync!Invoke,
           Sync!Answer, Sync!GiveUp, Sync!UpdateRow, Sync!Commit,
           Sync!AbortDeadlocked, Sync!Fail, Sync!Abort, Sync!bus
  <2>2. ASSUME NEW s \in Payment \union StoreOrder, Sync!Deliver(s)
        PROVE  DeliveredIsRequested'
    <3>1. stockRequests[s] > 0 /\ deliveries' = [deliveries EXCEPT ![s] = @ + 1]
      BY <2>2 DEF Sync!Deliver
    <3> QED BY <1>5, <3>1
        DEF FulfilmentInv, DeliveredIsRequested, SP!SyncInv, SP!TypeOK
  <2> QED BY <1>5, <2>1, <2>2 DEF FulfilmentInv, DeliveredIsRequested
<1> QED BY <1>1, <1>4, <1>5, <1>6 DEF FulfilmentInv

\* A step of Medusa.
LEMMA MedusaStepKeeps ==
  ASSUME FulfilmentInv, Administer \/ \E s \in StoreOrder : RequestStoreOrder(s)
  PROVE  FulfilmentInv'
<1>0. Tables /\ faults \in 0..MaxFaults /\ MaxFaults \in Nat
  BY StructureTypes, PaymentsAssumption DEF FulfilmentInv, Paying, Structure, TypeOK
<1>1. /\ UNCHANGED <<rows, razor, acked, lambda, bus, duplicates, history, syncing>>
      /\ orderStatus' \in [Order -> OrderStatus]
      /\ faults' \in 0..MaxFaults
  <2>1. ASSUME NEW s \in StoreOrder, CreateStoreOrder(s) \/ RequestStoreOrder(s)
        PROVE  <1>1!:
    BY <1>0, <2>1 DEF CreateStoreOrder, RequestStoreOrder, Publish, UseFault, vars, Tables
  <2>2. ASSUME NEW o \in Order, NEW status \in AdminStatus, UpdateOrderStatus(o, status)
        PROVE  <1>1!:
    BY <1>0, <2>2, FulfilmentAssumption DEF UpdateOrderStatus, Tables
  <2>3. ASSUME NEW o \in Order, CreateShipment(o)
        PROVE  <1>1!:
    BY <1>0, <2>3 DEF CreateShipment, Tables, OrderStatus
  <2> QED BY <2>1, <2>2, <2>3 DEF Administer
<1>2. StoreSales' /\ \A s \in StoreOrder : storeRequests[s] <= storeRequests'[s]
  <2>1. StoreSales
    BY DEF FulfilmentInv
  <2>2. ASSUME NEW s \in StoreOrder, CreateStoreOrder(s) PROVE <1>2!:
    BY <2>1, <2>2 DEF CreateStoreOrder, StoreSales
  <2>3. ASSUME NEW s \in StoreOrder, RequestStoreOrder(s) PROVE <1>2!:
    BY <2>1, <2>3 DEF RequestStoreOrder, Publish, StoreSales
  <2>4. ASSUME UNCHANGED <<storeOrder, storeRequests>> PROVE <1>2!:
    BY <2>1, <2>4 DEF StoreSales
  <2> QED BY <2>2, <2>3, <2>4 DEF Administer, UpdateOrderStatus, CreateShipment, medusa
<1>3. Paying'
  BY <1>1, ElsewherePaying DEF FulfilmentInv
<1>4. \A p \in Payment : requests[p] <= requests'[p]
  BY <1>0, <1>1 DEF bus, Tables
<1> QED BY <1>1, <1>2, <1>3, <1>4, RequestsKeepSync DEF FulfilmentInv

\* At first nothing is paid, sold or requested.
LEMMA InitFulfilment == FulfilmentInit => FulfilmentInv
<1> SUFFICES ASSUME FulfilmentInit PROVE FulfilmentInv
  OBVIOUS
<1>1. Init
  BY DEF FulfilmentInit
<1>2. Paying
  BY <1>1, InitStructure, InitOnce DEF Paying, Init, RequestedIsOnRecord
<1>3. StoreSales
  BY DEF FulfilmentInit, StoreSales
<1>4. SP!Init
  BY SameInit DEF FulfilmentInit
<1>5. SP!SyncInv
  BY <1>4, SP!InitSync, SyncAssumption
<1>6. DeliveredIsRequested
  BY <1>4 DEF SP!Init, DeliveredIsRequested
<1> QED BY <1>2, <1>3, <1>5, <1>6 DEF FulfilmentInv

LEMMA StutterFulfilment ==
  ASSUME FulfilmentInv, UNCHANGED allVars
  PROVE  FulfilmentInv'
<1>1. UNCHANGED vars /\ UNCHANGED <<medusa, syncing>>
  BY DEF allVars
<1>2. Paying' /\ StoreSales'
  BY <1>1, StepPaying DEF FulfilmentInv, StoreSales, medusa
<1>3. /\ \A p \in Payment : requests[p] <= requests'[p]
      /\ \A s \in StoreOrder : storeRequests[s] <= storeRequests'[s]
  BY <1>1 DEF FulfilmentInv, Paying, Structure, TypeOK, StoreSales, vars, bus, medusa
<1> QED BY <1>1, <1>2, <1>3, RequestsKeepSync DEF FulfilmentInv

\* What each program relies on stays true in all of them together: Medusa's
\* writes disturb no payment, and no payment disturbs the shelf.
THEOREM FulfilmentInvariant == FulfilmentSpec => []FulfilmentInv
<1>1. FulfilmentInv /\ [FulfilmentNext]_allVars => FulfilmentInv'
  BY PaymentStepKeeps, SyncStepKeeps, MedusaStepKeeps, StutterFulfilment
     DEF FulfilmentNext
<1> QED BY <1>1, InitFulfilment, PTL DEF FulfilmentSpec

\* Of what Payments does only SettleOrder makes an order paid, and a clean
\* payment has not announced anything when it gets there.
LEMMA WhoSettles ==
  ASSUME Paying, [Next]_vars, NEW o \in Order,
         orderStatus[o] # "paid", orderStatus'[o] = "paid"
  PROVE  ByWebhook(o)
<1>0. Structure /\ CleanOnce
  BY DEF Paying
<1>1. PICK w \in Worker : SettleOrder(w)
  BY DEF Next, Continue, ReceiveWebhook, vars, CreatePaymentOrder, PayLater,
         CaptureAtGateway, FailAtGateway, IgnoreWebhook, AcceptCaptured,
         AcceptFailed, CreateOrderAtGateway, InsertRazorpayPayment,
         InsertPayLater, RequestPayLater, MarkCaptured, AnnouncePaid,
         RequestDecrement, MarkFailed, Crash
<1>2. pc[w] = "settle"
  BY <1>1 DEF SettleOrder, Proceed
<1>3. /\ onPayment[w] \in Payment /\ onOrder[w] \in Order
      /\ Notification(onPayment[w]) /\ Invocation(w)
  BY <1>0, <1>2, Running
<1>4. onOrder[w] = o
  BY <1>0, <1>1, StructureTypes DEF SettleOrder, Tables
<1>5. payOrder[onPayment[w]] = o /\ gateway[onPayment[w]] = "captured"
  BY <1>2, <1>3, <1>4 DEF Invocation, Capturing, Notification, Event
<1>6. Clean(onPayment[w]) => paidEvents[onPayment[w]] = 0
  BY <1>0, <1>2, <1>3 DEF CleanOnce, Once, Capturer
<1> QED BY <1>3, <1>5, <1>6 DEF ByWebhook

\* A webhook makes an order paid for a captured payment of its own and once
\* for each; without a capture only a store keeper does.
THEOREM PaidNeedsCaptureHolds == FulfilmentSpec => PaidNeedsCapture
<1>1. ASSUME FulfilmentInv, [FulfilmentNext]_allVars, NEW o \in Order,
             orderStatus[o] # "paid", orderStatus'[o] = "paid"
      PROVE  ByWebhook(o) \/ UpdateOrderStatus(o, "paid")
  <2>1. CASE PaymentStep
    BY <1>1, <2>1, WhoSettles DEF FulfilmentInv, PaymentStep
  <2>2. CASE SyncStep \/ UNCHANGED allVars
    BY <1>1, <2>2 DEF SyncStep, allVars, vars
  <2>3. ASSUME NEW s \in StoreOrder, CreateStoreOrder(s) \/ RequestStoreOrder(s)
        PROVE  FALSE
    BY <1>1, <2>3 DEF CreateStoreOrder, RequestStoreOrder, vars
  <2>4. ASSUME NEW n \in Order, CreateShipment(n)
        PROVE  FALSE
    BY <1>1, <2>4, StructureTypes DEF FulfilmentInv, Paying, CreateShipment, Tables
  <2>5. ASSUME NEW n \in Order, NEW status \in AdminStatus, UpdateOrderStatus(n, status)
        PROVE  UpdateOrderStatus(o, "paid")
    <3>1. n = o /\ status = "paid"
      BY <1>1, <2>5, StructureTypes DEF FulfilmentInv, Paying, UpdateOrderStatus, Tables
    <3> QED BY <2>5, <3>1
  <2> QED BY <1>1, <2>1, <2>2, <2>3, <2>4, <2>5 DEF FulfilmentNext, Administer
<1>2. FulfilmentInv /\ [FulfilmentNext]_allVars =>
        \A o \in Order : orderStatus[o] # "paid" /\ orderStatus'[o] = "paid" =>
          ByWebhook(o) \/ UpdateOrderStatus(o, "paid")
  BY <1>1
<1> QED BY <1>2, FulfilmentInvariant, PTL DEF FulfilmentSpec, PaidNeedsCapture

\* Books leave the shelf only for a sale on record, whichever of the three
\* places published its request.
THEOREM StockOnlyForSalesHolds == FulfilmentSpec => []StockOnlyForSales
<1>1. ASSUME FulfilmentInv, NEW s \in Payment \union StoreOrder, Sync!Committed(s) # {}
      PROVE  OnRecord(s)
  <2>1. SP!Committed(s) # {} /\ SP!SyncInv
    BY <1>1, SameCommitted DEF FulfilmentInv
  <2>2. deliveries[s] # 0
    BY <2>1, SP!NothingUndelivered, SyncAssumption
  <2>3. stockRequests[s] > 0
    <3>1. deliveries[s] \in Nat
      BY <2>1, SyncAssumption DEF SP!SyncInv, SP!TypeOK, SP!InventoryAssumption
    <3> QED BY <1>1, <2>2, <3>1 DEF FulfilmentInv, DeliveredIsRequested
  <2>4. CASE s \in Payment
    BY <1>1, <2>3, <2>4
       DEF stockRequests, FulfilmentInv, Paying, RequestedIsOnRecord, OnRecord
  <2>5. CASE s \in StoreOrder /\ s \notin Payment
    BY <1>1, <2>3, <2>5 DEF stockRequests, FulfilmentInv, StoreSales, OnRecord
  <2> QED BY <2>4, <2>5
<1>2. FulfilmentInv => StockOnlyForSales
  BY <1>1 DEF StockOnlyForSales
<1> QED BY <1>2, FulfilmentInvariant, PTL

LEMMA AtMostOne ==
  ASSUME NEW S, \A x, y \in S : x = y
  PROVE  Cardinality(S) <= 1
<1>1. CASE S = {}
  BY <1>1, FS_EmptySet
<1>2. CASE S # {}
  <2>1. PICK x \in S : S = {x}
    BY <1>2
  <2> QED BY <2>1, FS_Singleton
<1> QED BY <1>1, <1>2

\* A sale takes its stock once, unless webhooks raced, a late payment.failed
\* undid a capture, the bus repeated a delivery or the relay missed an answer.
THEOREM SaleTakesStockOnceHolds == FulfilmentSpec => []SaleTakesStockOnce
<1>1. ASSUME FulfilmentInv, NEW s \in Payment \union StoreOrder,
             repeats[s] = 0, Clean(s)
      PROVE  Cardinality(Sync!Committed(s)) <= 1
  <2>1. SP!SyncInv /\ Sync!Committed(s) = SP!Committed(s)
    BY <1>1, SameCommitted DEF FulfilmentInv
  <2>2. stockRequests[s] \in 0..1
    <3>1. CASE s \in Payment
      <4>1. requests[s] <= 1 /\ requests[s] \in Nat
        BY <1>1, <3>1
           DEF FulfilmentInv, Paying, CleanOnce, Once, Counts, Structure, TypeOK
      <4> QED BY <3>1, <4>1 DEF stockRequests
    <3>2. CASE s \in StoreOrder /\ s \notin Payment
      BY <1>1, <3>2 DEF stockRequests, FulfilmentInv, StoreSales
    <3> QED BY <3>1, <3>2
  <2>3. stockRequests[s] + repeats[s] <= 1
    BY <1>1, <2>2
  <2>4. \A c, d \in SP!Committed(s) : c = d
    BY <2>1, <2>3, SP!OnceWithinBudget, SyncAssumption
  <2> QED BY <2>1, <2>4, AtMostOne
<1>2. FulfilmentInv => SaleTakesStockOnce
  BY <1>1 DEF SaleTakesStockOnce
<1> QED BY <1>2, FulfilmentInvariant, PTL

\* With payments, walk-in sales and the administration running, the shelf holds
\* what the committed calls leave of the opening stock.
THEOREM ShelfIsAccountedFor == FulfilmentSpec => []SP!StockIsAccountedFor
<1>1. FulfilmentInit => SP!StockInv
  BY SameInit, SP!StockInit, SyncAssumption DEF FulfilmentInit
<1>2. ASSUME FulfilmentInv, SP!StockInv, [FulfilmentNext]_allVars
      PROVE  SP!StockInv'
  <2>1. CASE SyncStep
    BY <1>2, <2>1, SameNext, SP!SyncNextKeepsStock, SyncAssumption
       DEF FulfilmentInv, SyncStep
  <2>2. CASE UNCHANGED syncing
    <3>1. UNCHANGED <<call, updated, stock, availability, written>>
      BY <2>2 DEF syncing
    <3> QED BY <1>2, <3>1, SP!StillKeepsStock, SyncAssumption
  <2>3. SyncStep \/ UNCHANGED syncing
    BY <1>2 DEF FulfilmentNext, PaymentStep, Administer, CreateStoreOrder,
         UpdateOrderStatus, CreateShipment, RequestStoreOrder, allVars
  <2> QED BY <2>1, <2>2, <2>3
<1>3. SP!StockInv => SP!StockIsAccountedFor
  BY SP!StockAccounts, SyncAssumption
<1> QED BY <1>1, <1>2, <1>3, FulfilmentInvariant, PTL DEF FulfilmentSpec
=============================================================================

------------------------------ MODULE Payments ------------------------------
(***************************************************************************)
(* Payment of online orders: apps/api-commerce/src/payments.               *)
(*                                                                         *)
(* Every HTTP request runs in a Lambda invocation (a worker) and issues    *)
(* its SQL statements one by one: payments.service.ts opens no             *)
(* transaction, so each statement is an action of its own and the          *)
(* invocations interleave between them. Razorpay is the environment: it    *)
(* notifies at least once and in any order. A payments row is identified   *)
(* with the Razorpay order it was created for.                             *)
(***************************************************************************)
EXTENDS Naturals, FiniteSets

CONSTANTS
  Order,            \* orders that checkout has inserted
  Payment,          \* identities for payments rows (bounds their number)
  Worker,           \* concurrent Lambda invocations
  None,             \* no order, no payment
  MaxFaults,        \* bound: crashed invocations and events lost by the bus
  MaxDuplicates,    \* bound: deliveries of a notification beyond the needed
  OrderedDelivery   \* TRUE: no failed notification after a captured one

ASSUME PaymentsAssumption ==
  /\ None \notin Order \union Payment
  /\ MaxFaults \in Nat
  /\ MaxDuplicates \in Nat
  /\ OrderedDelivery \in BOOLEAN

VARIABLES
  orderStatus,  \* commerce.orders.status
  provider,     \* commerce.payments: provider, "none" before the insert
  payOrder,     \* commerce.payments: order_id
  payStatus,    \* commerce.payments: status
  gateway,      \* Razorpay's view of the order it created for a payment
  hooks,        \* notifications Razorpay has sent: <<payment, event>>
  acked,        \* those answered with a 2xx
  pc,           \* the next statement of each invocation
  onOrder,      \* the order an invocation works on
  onPayment,    \* the payment an invocation works on
  paidEvents,   \* OrderPaid events the bus accepted, per payment
  requests,     \* InventoryDecrementRequested events the bus accepted
  faults,       \* faults used so far
  duplicates,   \* duplicate deliveries used so far
  raced,        \* history: payments two invocations captured at once
  regressed     \* history: payments written failed after captured

rows    == <<provider, payOrder, payStatus>>
razor   == <<gateway, hooks>>
lambda  == <<pc, onOrder, onPayment>>
bus     == <<paidEvents, requests>>
history == <<raced, regressed>>
vars    == <<orderStatus, rows, razor, acked, lambda, bus, faults, duplicates,
             history>>

Event == {"captured", "failed"}
Hook  == Payment \X Event

\* commerce.order_status
OrderStatus == {"draft", "pending_payment", "paid", "packed", "shipped",
                "delivered", "completed", "cancelled", "refunded", "returned"}

\* commerce.payment_status; "absent" while the row is not inserted. Nothing
\* in the repository writes "refunded".
PaymentStatus == {"absent", "created", "captured", "failed"}

\* Statements of handleWebhook on payment.captured that follow its lookup.
Capturing == {"mark", "settle", "announce", "request"}

\* "gateway", "insert": createPaymentOrder. "commit", "collect": payLater.
\* "fail": handleWebhook on payment.failed.
Step == {"idle", "gateway", "insert", "commit", "collect", "fail"}
          \union Capturing

TypeOK ==
  /\ orderStatus \in [Order -> OrderStatus]
  /\ provider \in [Payment -> {"none", "razorpay", "pay_later"}]
  /\ payOrder \in [Payment -> Order \union {None}]
  /\ payStatus \in [Payment -> PaymentStatus]
  /\ gateway \in [Payment -> {"none", "open", "captured"}]
  /\ hooks \subseteq Hook
  /\ acked \subseteq hooks
  /\ pc \in [Worker -> Step]
  /\ onOrder \in [Worker -> Order \union {None}]
  /\ onPayment \in [Worker -> Payment \union {None}]
  /\ paidEvents \in [Payment -> Nat]
  /\ requests \in [Payment -> Nat]
  /\ faults \in 0..MaxFaults
  /\ duplicates \in 0..MaxDuplicates
  /\ raced \subseteq Payment
  /\ regressed \subseteq Payment

\* checkout.service.ts:75 inserts an order as 'pending_payment'.
Init ==
  /\ orderStatus = [o \in Order |-> "pending_payment"]
  /\ provider = [p \in Payment |-> "none"]
  /\ payOrder = [p \in Payment |-> None]
  /\ payStatus = [p \in Payment |-> "absent"]
  /\ gateway = [p \in Payment |-> "none"]
  /\ hooks = {}
  /\ acked = {}
  /\ pc = [w \in Worker |-> "idle"]
  /\ onOrder = [w \in Worker |-> None]
  /\ onPayment = [w \in Worker |-> None]
  /\ paidEvents = [p \in Payment |-> 0]
  /\ requests = [p \in Payment |-> 0]
  /\ faults = 0
  /\ duplicates = 0
  /\ raced = {}
  /\ regressed = {}

-----------------------------------------------------------------------------
(* Invocations *)

Unused(p) ==
  /\ provider[p] = "none"
  /\ gateway[p] = "none"
  /\ \A w \in Worker : onPayment[w] # p

Start(w, step, o, p) ==
  /\ pc[w] = "idle"
  /\ pc' = [pc EXCEPT ![w] = step]
  /\ onOrder' = [onOrder EXCEPT ![w] = o]
  /\ onPayment' = [onPayment EXCEPT ![w] = p]

Proceed(w, from, to) ==
  /\ pc[w] = from
  /\ pc' = [pc EXCEPT ![w] = to]
  /\ UNCHANGED <<onOrder, onPayment>>

Finish(w, from) ==
  /\ pc[w] = from
  /\ pc' = [pc EXCEPT ![w] = "idle"]
  /\ onOrder' = [onOrder EXCEPT ![w] = None]
  /\ onPayment' = [onPayment EXCEPT ![w] = None]

UseFault ==
  /\ faults < MaxFaults
  /\ faults' = faults + 1

\* The invocation ends before its next statement: the runtime dies or times
\* out, the database refuses the statement, Razorpay answers non-2xx
\* (razorpay.client.ts:47) or client.send rejects (eventbridge.service.ts:23).
\* Statements already executed stay; the caller gets no 2xx.
Crash(w) ==
  /\ pc[w] # "idle"
  /\ Finish(w, pc[w])
  /\ UseFault
  /\ UNCHANGED <<orderStatus, rows, razor, acked, bus, duplicates, history>>

\* EventBridgeService.publish of an event of payment p that does not throw:
\* PutEvents accepts the entry, or answers an ErrorCode that is only logged.
Publish(counter, p) ==
  \/ /\ counter' = [counter EXCEPT ![p] = @ + 1]
     /\ UNCHANGED faults
  \/ /\ UseFault
     /\ UNCHANGED counter

-----------------------------------------------------------------------------
(* POST /payments/create-order *)

\* createPaymentOrder reads the order and refuses one not awaiting payment.
CreatePaymentOrder(w, o, p) ==
  /\ orderStatus[o] = "pending_payment"
  /\ Unused(p)
  /\ Start(w, "gateway", o, p)
  /\ UNCHANGED <<orderStatus, rows, razor, acked, bus, faults, duplicates,
                 history>>

\* RazorpayClient.createOrder.
CreateOrderAtGateway(w) ==
  /\ Proceed(w, "gateway", "insert")
  /\ gateway' = [gateway EXCEPT ![onPayment[w]] = "open"]
  /\ UNCHANGED <<orderStatus, rows, hooks, acked, bus, faults, duplicates,
                 history>>

InsertRow(w, kind) ==
  LET p == onPayment[w] IN
  /\ provider' = [provider EXCEPT ![p] = kind]
  /\ payOrder' = [payOrder EXCEPT ![p] = onOrder[w]]
  /\ payStatus' = [payStatus EXCEPT ![p] = "created"]

\* The row is inserted and the Razorpay order id returned to the browser.
\* Nothing bounds the rows of one order: idempotency_key is a fresh UUID.
InsertRazorpayPayment(w) ==
  /\ Finish(w, "insert")
  /\ InsertRow(w, "razorpay")
  /\ UNCHANGED <<orderStatus, razor, acked, bus, faults, duplicates, history>>

-----------------------------------------------------------------------------
(* POST /payments/pay-later, from a market PAY_LATER_ENABLED_MARKETS lists *)

PayLater(w, o, p) ==
  /\ orderStatus[o] = "pending_payment"
  /\ Unused(p)
  /\ Start(w, "commit", o, p)
  /\ UNCHANGED <<orderStatus, rows, razor, acked, bus, faults, duplicates,
                 history>>

InsertPayLater(w) ==
  /\ Proceed(w, "commit", "collect")
  /\ InsertRow(w, "pay_later")
  /\ UNCHANGED <<orderStatus, razor, acked, bus, faults, duplicates, history>>

\* Reads the order's items, which no code changes, and publishes them. The
\* order stays 'pending_payment'.
RequestPayLater(w) ==
  /\ Finish(w, "collect")
  /\ Publish(requests, onPayment[w])
  /\ UNCHANGED <<orderStatus, rows, razor, acked, paidEvents, duplicates,
                 history>>

-----------------------------------------------------------------------------
(* Razorpay *)

\* The customer pays the Razorpay order whose id the browser received; a
\* Razorpay order is captured at most once.
CaptureAtGateway(p) ==
  /\ gateway[p] = "open"
  /\ payStatus[p] # "absent"
  /\ gateway' = [gateway EXCEPT ![p] = "captured"]
  /\ hooks' = hooks \union {<<p, "captured">>}
  /\ UNCHANGED <<orderStatus, rows, acked, lambda, bus, faults, duplicates,
                 history>>

\* A payment attempt fails; the customer may try again.
FailAtGateway(p) ==
  /\ gateway[p] = "open"
  /\ payStatus[p] # "absent"
  /\ hooks' = hooks \union {<<p, "failed">>}
  /\ UNCHANGED <<orderStatus, rows, gateway, acked, lambda, bus, faults,
                 duplicates, history>>

-----------------------------------------------------------------------------
(* POST /payments/webhook *)

Handling(w, h) ==
  /\ onPayment[w] = h[1]
  /\ \/ h[2] = "captured" /\ pc[w] \in Capturing
     \/ h[2] = "failed" /\ pc[w] = "fail"

\* A notification not yet answered and not being handled has to be sent
\* (again); any other delivery is a duplicate.
Deliver(h) ==
  /\ h \in hooks
  /\ OrderedDelivery /\ h[2] = "failed" => gateway[h[1]] # "captured"
  /\ IF h \in acked \/ \E w \in Worker : Handling(w, h)
       THEN /\ duplicates < MaxDuplicates
            /\ duplicates' = duplicates + 1
       ELSE UNCHANGED duplicates

\* Mutant: any payment that has left 'created' is taken as dealt with.
IgnoreUnlessCreated(w, p, event) ==
  /\ Deliver(<<p, event>>)
  /\ pc[w] = "idle"
  /\ payStatus[p] # "created"
  /\ acked' = acked \union {<<p, event>>}
  /\ UNCHANGED <<orderStatus, rows, razor, lambda, bus, faults, history>>

\* handleWebhook's lookup finds a row that already says what the event says:
\* early return, 2xx.
IgnoreWebhook(w, p, event) ==
  /\ Deliver(<<p, event>>)
  /\ pc[w] = "idle"
  /\ payStatus[p] = event
  /\ acked' = acked \union {<<p, event>>}
  /\ UNCHANGED <<orderStatus, rows, razor, lambda, bus, faults, history>>

\* Mutant: no check for a payment already captured.
AcceptAnyCaptured(w, p) ==
  /\ Deliver(<<p, "captured">>)
  /\ Start(w, "mark", payOrder[p], p)
  /\ raced' = IF \E v \in Worker : Handling(v, <<p, "captured">>)
                THEN raced \union {p} ELSE raced
  /\ UNCHANGED <<orderStatus, rows, razor, acked, bus, faults, regressed>>

AcceptCaptured(w, p) ==
  /\ Deliver(<<p, "captured">>)
  /\ payStatus[p] # "captured"
  /\ Start(w, "mark", payOrder[p], p)
  /\ raced' = IF \E v \in Worker : Handling(v, <<p, "captured">>)
                THEN raced \union {p} ELSE raced
  /\ UNCHANGED <<orderStatus, rows, razor, acked, bus, faults, regressed>>

\* Mutant: the two events are not told apart.
AcceptFailedAsCaptured(w, p) ==
  /\ Deliver(<<p, "failed">>)
  /\ payStatus[p] # "failed"
  /\ Start(w, "mark", payOrder[p], p)
  /\ UNCHANGED <<orderStatus, rows, razor, acked, bus, faults, history>>

AcceptFailed(w, p) ==
  /\ Deliver(<<p, "failed">>)
  /\ payStatus[p] # "failed"
  /\ Start(w, "fail", payOrder[p], p)
  /\ UNCHANGED <<orderStatus, rows, razor, acked, bus, faults, history>>

\* Mutant: OrderPaid is published before the order is updated.
MarkThenAnnounce(w) ==
  /\ Proceed(w, "mark", "announce")
  /\ payStatus' = [payStatus EXCEPT ![onPayment[w]] = "captured"]
  /\ UNCHANGED <<orderStatus, provider, payOrder, razor, acked, bus, faults,
                 duplicates, history>>

MarkCaptured(w) ==
  /\ Proceed(w, "mark", "settle")
  /\ payStatus' = [payStatus EXCEPT ![onPayment[w]] = "captured"]
  /\ UNCHANGED <<orderStatus, provider, payOrder, razor, acked, bus, faults,
                 duplicates, history>>

\* The order becomes 'paid' whatever its status was.
SettleOrder(w) ==
  /\ Proceed(w, "settle", "announce")
  /\ orderStatus' = [orderStatus EXCEPT ![onOrder[w]] = "paid"]
  /\ UNCHANGED <<rows, razor, acked, bus, faults, duplicates, history>>

AnnouncePaid(w) ==
  /\ Proceed(w, "announce", "request")
  /\ Publish(paidEvents, onPayment[w])
  /\ UNCHANGED <<orderStatus, rows, razor, acked, requests, duplicates,
                 history>>

RequestDecrement(w) ==
  /\ Finish(w, "request")
  /\ Publish(requests, onPayment[w])
  /\ acked' = acked \union {<<onPayment[w], "captured">>}
  /\ UNCHANGED <<orderStatus, rows, razor, paidEvents, duplicates, history>>

\* Written over any status, 'captured' included. The order is left alone.
MarkFailed(w) ==
  LET p == onPayment[w] IN
  /\ Finish(w, "fail")
  /\ payStatus' = [payStatus EXCEPT ![p] = "failed"]
  /\ regressed' = IF payStatus[p] = "captured"
                    THEN regressed \union {p} ELSE regressed
  /\ acked' = acked \union {<<p, "failed">>}
  /\ UNCHANGED <<orderStatus, provider, payOrder, razor, bus, faults,
                 duplicates, raced>>

-----------------------------------------------------------------------------

\* The next statement of a running invocation.
Continue(w) ==
  \/ CreateOrderAtGateway(w) \/ InsertRazorpayPayment(w)
  \/ InsertPayLater(w) \/ RequestPayLater(w)
  \/ MarkCaptured(w) \/ SettleOrder(w) \/ AnnouncePaid(w)
  \/ RequestDecrement(w) \/ MarkFailed(w)

ReceiveWebhook(w, p) ==
  \/ \E event \in Event : IgnoreWebhook(w, p, event)
  \/ AcceptCaptured(w, p)
  \/ AcceptFailed(w, p)

Next ==
  \/ \E w \in Worker, o \in Order, p \in Payment :
       CreatePaymentOrder(w, o, p) \/ PayLater(w, o, p)
  \/ \E p \in Payment : CaptureAtGateway(p) \/ FailAtGateway(p)
  \/ \E w \in Worker, p \in Payment : ReceiveWebhook(w, p)
  \/ \E w \in Worker : Continue(w) \/ Crash(w)

Spec == Init /\ [][Next]_vars

\* Lambda runs an invocation to its end, and Razorpay repeats a notification
\* until it is answered. Customers and faults promise nothing.
Fairness ==
  /\ \A w \in Worker : WF_vars(Continue(w))
  /\ \A p \in Payment, event \in Event :
       WF_vars(/\ <<p, event>> \notin acked
               /\ \E w \in Worker :
                    \/ IgnoreWebhook(w, p, event)
                    \/ event = "captured" /\ AcceptCaptured(w, p)
                    \/ event = "failed" /\ AcceptFailed(w, p))

FairSpec == Spec /\ Fairness

-----------------------------------------------------------------------------
(* Properties *)

Clean(p) == p \notin raced \union regressed

OrderIsPaid(p) ==
  \E o \in Order : payOrder[p] = o /\ orderStatus[o] = "paid"

\* What other services are told is already on record: OrderPaid, and the
\* stock request of a Razorpay payment, go out only after the order's row
\* says paid, whatever crashes between the statements of handleWebhook.
EventsFollowRecords ==
  \A p \in Payment :
    paidEvents[p] > 0 \/ (requests[p] > 0 /\ provider[p] # "pay_later")
      => OrderIsPaid(p)

\* handleWebhook's status check is its only protection against repetition. It
\* makes each payment announce its order and request its stock at most once,
\* under any redelivery, reordering or crash, except where two invocations
\* passed the check together or a late payment.failed undid it.
RepeatNeedsRaceOrRegress ==
  \A p \in Payment : Clean(p) => paidEvents[p] <= 1 /\ requests[p] <= 1

\* A captured payment gets its order paid and its stock requested, unless an
\* invocation died or an event was lost on the way.
CapturedIsFinalized ==
  \A p \in Payment :
    gateway[p] = "captured" ~>
      \/ (OrderIsPaid(p) /\ requests[p] > 0)
      \/ faults > 0

\* payments.service.ts:193 says a redelivered webhook for a payment already
\* captured is "not a second OrderPaid event".
OneOrderPaidEvent == \A p \in Payment : paidEvents[p] <= 1

\* The orders, payments and events of this store, as a ledger.
Ledger == INSTANCE PaymentLedger WITH
  owner <- payOrder,
  settled <- {o \in Order : orderStatus[o] = "paid"},
  announced <- paidEvents,
  requested <- requests

\* SPEC-06 promises an idempotent ledger. One invocation at a time keeps the
\* promise when notifications arrive in order, whatever crashes.
LedgerSpec == Ledger!LSpec
=============================================================================

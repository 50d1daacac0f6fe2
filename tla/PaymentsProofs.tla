--------------------------- MODULE PaymentsProofs ---------------------------
(***************************************************************************)
(* Proofs of the safety properties of Payments, for every set of orders,   *)
(* payments and invocations and every bound on faults and duplicates.      *)
(***************************************************************************)
EXTENDS Payments, TLAPS

Row(p) ==
  /\ provider[p] = "none" <=> payStatus[p] = "absent"
  /\ provider[p] = "none" <=> payOrder[p] = None
  /\ provider[p] = "pay_later" => gateway[p] = "none" /\ paidEvents[p] = 0
  /\ provider[p] = "none" => requests[p] = 0 /\ paidEvents[p] = 0

Notification(p) ==
  \A e \in Event : <<p, e>> \in hooks =>
    /\ provider[p] = "razorpay"
    /\ gateway[p] # "none"
    /\ e = "captured" => gateway[p] = "captured"

\* What the statements an invocation has executed leave it to rely on.
Invocation(w) ==
  /\ pc[w] = "idle" <=> onPayment[w] = None
  /\ pc[w] = "idle" <=> onOrder[w] = None
  /\ pc[w] \in {"gateway", "commit"} =>
       provider[onPayment[w]] = "none" /\ gateway[onPayment[w]] = "none"
  /\ pc[w] = "insert" =>
       provider[onPayment[w]] = "none" /\ gateway[onPayment[w]] = "open"
  /\ pc[w] = "collect" =>
       provider[onPayment[w]] = "pay_later" /\ requests[onPayment[w]] = 0
  /\ pc[w] \in Capturing =>
       /\ <<onPayment[w], "captured">> \in hooks
       /\ payOrder[onPayment[w]] = onOrder[w]
  /\ pc[w] = "fail" => <<onPayment[w], "failed">> \in hooks

\* An invocation publishes after it has settled its order. This alone relies on
\* nobody else writing orderStatus.
SettledFirst ==
  \A w \in Worker :
    pc[w] \in {"announce", "request"} => orderStatus[onOrder[w]] = "paid"

\* An invocation making a payment shares it with nobody.
Making == {"gateway", "insert", "commit", "collect"}
Exclusive(v, w) ==
  pc[w] \in Making /\ onPayment[v] = onPayment[w] => v = w

Structure ==
  /\ TypeOK
  /\ \A p \in Payment : Row(p) /\ Notification(p)
  /\ \A w \in Worker : Invocation(w)
  /\ \A v, w \in Worker : Exclusive(v, w)

(***************************************************************************)
(* A payment neither raced nor regressed is captured by one invocation,    *)
(* which publishes while the row says captured and nothing was published   *)
(* before it.                                                              *)
(***************************************************************************)
Counts(p) ==
  /\ paidEvents[p] <= 1
  /\ requests[p] <= 1
  /\ paidEvents[p] > 0 => payStatus[p] = "captured"
  /\ requests[p] > 0 /\ provider[p] # "pay_later" => payStatus[p] = "captured"

Capturer(p, w) ==
  onPayment[w] = p =>
    /\ pc[w] = "mark" => payStatus[p] # "captured"
    /\ pc[w] \in {"settle", "announce", "request"} =>
         payStatus[p] = "captured" /\ requests[p] = 0
    /\ pc[w] \in {"settle", "announce"} => paidEvents[p] = 0

Alone(p, v, w) ==
  /\ pc[v] \in Capturing /\ onPayment[v] = p
  /\ pc[w] \in Capturing /\ onPayment[w] = p
  => v = w

Once(p) ==
  /\ Counts(p)
  /\ \A w \in Worker : Capturer(p, w)
  /\ \A v, w \in Worker : Alone(p, v, w)

CleanOnce == \A p \in Payment : Clean(p) => Once(p)

-----------------------------------------------------------------------------
(* Structure is inductive *)

\* Before any request nothing is inserted, notified or under way.
LEMMA InitStructure == Init => Structure
BY PaymentsAssumption
   DEF Init, Structure, TypeOK, Row, Notification, Invocation, Exclusive,
       OrderStatus, PaymentStatus, Step, Capturing, Making, Hook, Event

\* The columns and the invocations' variables are functions.
Tables ==
  /\ orderStatus \in [Order -> OrderStatus]
  /\ provider \in [Payment -> {"none", "razorpay", "pay_later"}]
  /\ payOrder \in [Payment -> Order \union {None}]
  /\ payStatus \in [Payment -> PaymentStatus]
  /\ gateway \in [Payment -> {"none", "open", "captured"}]
  /\ paidEvents \in [Payment -> Nat]
  /\ requests \in [Payment -> Nat]

Registers ==
  /\ pc \in [Worker -> Step]
  /\ onOrder \in [Worker -> Order \union {None}]
  /\ onPayment \in [Worker -> Payment \union {None}]

\* The types alone, in two parts: what the tables hold, what invocations hold.
LEMMA StructureTypes == Structure => Tables /\ Registers
BY DEF Structure, TypeOK, Tables, Registers

\* A running invocation works on an order and a payment.
LEMMA Running ==
  ASSUME Structure, NEW w \in Worker, pc[w] # "idle"
  PROVE  /\ onOrder[w] \in Order
         /\ onPayment[w] \in Payment
         /\ Row(onPayment[w])
         /\ Notification(onPayment[w])
         /\ Invocation(w)
<1>1. Invocation(w)
  BY DEF Structure
<1>2. onOrder[w] \in Order \union {None} /\ onPayment[w] \in Payment \union {None}
  BY DEF Structure, TypeOK
<1>3. onOrder[w] # None /\ onPayment[w] # None
  BY <1>1 DEF Invocation
<1>4. onOrder[w] \in Order /\ onPayment[w] \in Payment
  BY <1>2, <1>3
<1> QED BY <1>1, <1>4 DEF Structure

\* An invocation that starts on p shares it with none that makes a payment.
LEMMA StartExclusive ==
  ASSUME Structure, NEW w \in Worker, NEW s, NEW o, NEW p \in Payment,
         Start(w, s, o, p),
         \A v \in Worker : onPayment[v] = p => pc[v] \notin Making /\ s \notin Making
  PROVE  \A u, v \in Worker : Exclusive(u, v)'
<1> SUFFICES ASSUME NEW u \in Worker, NEW v \in Worker PROVE Exclusive(u, v)'
  OBVIOUS
<1>1. Registers /\ Exclusive(u, v)
  BY StructureTypes DEF Structure
<1> QED BY <1>1 DEF Registers, Exclusive, Start

\* Going on to the next statement shares no payment either.
LEMMA ProceedExclusive ==
  ASSUME Structure, NEW w \in Worker, NEW from, NEW to, Proceed(w, from, to),
         to \in Making => from \in Making
  PROVE  \A u, v \in Worker : Exclusive(u, v)'
<1> SUFFICES ASSUME NEW u \in Worker, NEW v \in Worker PROVE Exclusive(u, v)'
  OBVIOUS
<1>1. Registers /\ Exclusive(u, v)
  BY StructureTypes DEF Structure
<1> QED BY <1>1 DEF Registers, Exclusive, Proceed

\* An invocation that ends frees its payment.
LEMMA FinishExclusive ==
  ASSUME Structure, NEW w \in Worker, NEW from, Finish(w, from)
  PROVE  \A u, v \in Worker : Exclusive(u, v)'
<1> SUFFICES ASSUME NEW u \in Worker, NEW v \in Worker PROVE Exclusive(u, v)'
  OBVIOUS
<1>1. Registers /\ Exclusive(u, v) /\ Invocation(v)
  BY StructureTypes DEF Structure
<1> QED BY <1>1, PaymentsAssumption DEF Registers, Exclusive, Invocation, Finish, Making

\* A notified payment is not being made.
LEMMA NotifiedNotMaking ==
  ASSUME Structure, NEW p \in Payment, NEW e \in Event, <<p, e>> \in hooks,
         NEW v \in Worker, onPayment[v] = p
  PROVE  pc[v] \notin Making
<1>1. Notification(p) /\ Invocation(v)
  BY DEF Structure
<1> QED BY <1>1 DEF Notification, Invocation, Making

\* The lookup of createPaymentOrder takes a payment nobody uses.
LEMMA StructureCreatePaymentOrder ==
  ASSUME Structure, NEW w \in Worker, NEW o \in Order, NEW p \in Payment,
         CreatePaymentOrder(w, o, p)
  PROVE  Structure'
<1> USE DEF CreatePaymentOrder, Start, rows, razor, lambda, bus, history
<1>1. Tables /\ Registers
  BY StructureTypes
<1>2. TypeOK'
  BY DEF Structure, TypeOK, Step
<1>3. ASSUME NEW q \in Payment PROVE Row(q)' /\ Notification(q)'
  BY DEF Structure, Row, Notification
<1>4. ASSUME NEW v \in Worker PROVE Invocation(v)'
  <2>1. CASE v = w
    BY <1>1, <2>1, PaymentsAssumption
       DEF Registers, Tables, Invocation, Unused, Capturing
  <2>2. CASE v # w
    BY <1>1, <2>2 DEF Structure, Registers, Tables, Invocation
  <2> QED BY <2>1, <2>2
<1>5. \A u, v \in Worker : Exclusive(u, v)'
  BY StartExclusive DEF Unused
<1> QED BY <1>2, <1>3, <1>4, <1>5 DEF Structure

\* So does the lookup of payLater.
LEMMA StructurePayLater ==
  ASSUME Structure, NEW w \in Worker, NEW o \in Order, NEW p \in Payment,
         PayLater(w, o, p)
  PROVE  Structure'
<1> USE DEF PayLater, Start, rows, razor, lambda, bus, history
<1>1. Tables /\ Registers
  BY StructureTypes
<1>2. TypeOK'
  BY DEF Structure, TypeOK, Step
<1>3. ASSUME NEW q \in Payment PROVE Row(q)' /\ Notification(q)'
  BY DEF Structure, Row, Notification
<1>4. ASSUME NEW v \in Worker PROVE Invocation(v)'
  <2>1. CASE v = w
    BY <1>1, <2>1, PaymentsAssumption
       DEF Registers, Tables, Invocation, Unused, Capturing
  <2>2. CASE v # w
    BY <1>1, <2>2 DEF Structure, Registers, Tables, Invocation
  <2> QED BY <2>1, <2>2
<1>5. \A u, v \in Worker : Exclusive(u, v)'
  BY StartExclusive DEF Unused
<1> QED BY <1>2, <1>3, <1>4, <1>5 DEF Structure

\* A capture notifies a payment whose row exists.
LEMMA StructureCaptureAtGateway ==
  ASSUME Structure, NEW p \in Payment,
         CaptureAtGateway(p)
  PROVE  Structure'
<1> USE DEF CaptureAtGateway, rows, razor, lambda, bus, history
<1>1. Tables /\ Registers /\ Row(p) /\ Notification(p)
  BY StructureTypes DEF Structure
<1>2. TypeOK'
  BY DEF Structure, TypeOK, Hook, Event
<1>3. ASSUME NEW q \in Payment PROVE Row(q)'
  BY <1>1 DEF Structure, Tables, Row
<1>4. ASSUME NEW q \in Payment PROVE Notification(q)'
  <2>1. Notification(q) /\ provider[p] = "razorpay"
    BY <1>1 DEF Structure, Tables, Row
  <2> QED BY <1>1, <2>1 DEF Tables, Notification, Event
<1>5. ASSUME NEW v \in Worker PROVE Invocation(v)'
  <2>1. Invocation(v) /\ (onPayment[v] = p => pc[v] \notin Making)
    BY <1>1 DEF Structure, Invocation, Tables, Row, Making
  <2> QED BY <1>1, <2>1 DEF Tables, Registers, Invocation, Making
<1>6. \A u, v \in Worker : Exclusive(u, v)'
  BY DEF Structure, Exclusive
<1> QED BY <1>2, <1>3, <1>4, <1>5, <1>6 DEF Structure

\* So does a failed attempt.
LEMMA StructureFailAtGateway ==
  ASSUME Structure, NEW p \in Payment,
         FailAtGateway(p)
  PROVE  Structure'
<1> USE DEF FailAtGateway, rows, razor, lambda, bus, history
<1>1. Tables /\ Registers /\ Row(p) /\ Notification(p)
  BY StructureTypes DEF Structure
<1>2. TypeOK'
  BY DEF Structure, TypeOK, Hook, Event
<1>3. ASSUME NEW q \in Payment PROVE Row(q)'
  BY <1>1 DEF Structure, Tables, Row
<1>4. ASSUME NEW q \in Payment PROVE Notification(q)'
  <2>1. Notification(q) /\ provider[p] = "razorpay"
    BY <1>1 DEF Structure, Tables, Row
  <2> QED BY <1>1, <2>1 DEF Tables, Notification, Event
<1>5. ASSUME NEW v \in Worker PROVE Invocation(v)'
  <2>1. Invocation(v) /\ (onPayment[v] = p => pc[v] \notin Making)
    BY <1>1 DEF Structure, Invocation, Tables, Row, Making
  <2> QED BY <1>1, <2>1 DEF Tables, Registers, Invocation, Making
<1>6. \A u, v \in Worker : Exclusive(u, v)'
  BY DEF Structure, Exclusive
<1> QED BY <1>2, <1>3, <1>4, <1>5, <1>6 DEF Structure

\* The early return of handleWebhook writes no row.
LEMMA StructureIgnoreWebhook ==
  ASSUME Structure, NEW w \in Worker, NEW p \in Payment, NEW e \in Event,
         IgnoreWebhook(w, p, e)
  PROVE  Structure'
<1> USE DEF IgnoreWebhook, Deliver, rows, razor, lambda, bus, history
<1>1. TypeOK'
  BY PaymentsAssumption DEF Structure, TypeOK
<1> QED BY <1>1 DEF Structure, Row, Notification, Invocation, Exclusive

\* The invocation takes the order from the row it has looked up.
LEMMA StructureAcceptCaptured ==
  ASSUME Structure, NEW w \in Worker, NEW p \in Payment,
         AcceptCaptured(w, p)
  PROVE  Structure'
<1>6. \A u, v \in Worker : Exclusive(u, v)'
  <2>1. "captured" \in Event /\ <<p, "captured">> \in hooks /\ Start(w, "mark", payOrder[p], p)
    BY DEF AcceptCaptured, Deliver, Event
  <2>2. \A v \in Worker : onPayment[v] = p => pc[v] \notin Making
    BY <2>1, NotifiedNotMaking
  <2>3. "mark" \notin Making
    BY DEF Making
  <2> QED BY <2>1, <2>2, <2>3, StartExclusive
<1> USE DEF AcceptCaptured, Start, Deliver, rows, razor, lambda, bus, history
<1>1. /\ Tables /\ Registers /\ Row(p) /\ Notification(p)
      /\ "captured" \in Event /\ <<p, "captured">> \in hooks
  BY StructureTypes DEF Structure, Event
<1>2. payOrder[p] \in Order
  BY <1>1 DEF Tables, Row, Notification
<1>3. TypeOK'
  BY <1>2, PaymentsAssumption DEF Structure, TypeOK, Step, Capturing
<1>4. ASSUME NEW q \in Payment PROVE Row(q)' /\ Notification(q)'
  BY DEF Structure, Row, Notification
<1>5. ASSUME NEW v \in Worker PROVE Invocation(v)'
  <2>1. CASE v = w
    BY <1>1, <1>2, <2>1, PaymentsAssumption
       DEF Registers, Invocation, Capturing
  <2>2. CASE v # w
    BY <1>1, <2>2 DEF Structure, Registers, Invocation
  <2> QED BY <2>1, <2>2
<1> QED BY <1>3, <1>4, <1>5, <1>6 DEF Structure

\* The same for payment.failed.
LEMMA StructureAcceptFailed ==
  ASSUME Structure, NEW w \in Worker, NEW p \in Payment,
         AcceptFailed(w, p)
  PROVE  Structure'
<1>6. \A u, v \in Worker : Exclusive(u, v)'
  <2>1. "failed" \in Event /\ <<p, "failed">> \in hooks /\ Start(w, "fail", payOrder[p], p)
    BY DEF AcceptFailed, Deliver, Event
  <2>2. \A v \in Worker : onPayment[v] = p => pc[v] \notin Making
    BY <2>1, NotifiedNotMaking
  <2>3. "fail" \notin Making
    BY DEF Making
  <2> QED BY <2>1, <2>2, <2>3, StartExclusive
<1> USE DEF AcceptFailed, Start, Deliver, rows, razor, lambda, bus, history
<1>1. /\ Tables /\ Registers /\ Row(p) /\ Notification(p)
      /\ "failed" \in Event /\ <<p, "failed">> \in hooks
  BY StructureTypes DEF Structure, Event
<1>2. payOrder[p] \in Order
  BY <1>1 DEF Tables, Row, Notification
<1>3. TypeOK'
  BY <1>2, PaymentsAssumption DEF Structure, TypeOK, Step, Capturing
<1>4. ASSUME NEW q \in Payment PROVE Row(q)' /\ Notification(q)'
  BY DEF Structure, Row, Notification
<1>5. ASSUME NEW v \in Worker PROVE Invocation(v)'
  <2>1. CASE v = w
    BY <1>1, <1>2, <2>1, PaymentsAssumption
       DEF Registers, Invocation, Capturing
  <2>2. CASE v # w
    BY <1>1, <2>2 DEF Structure, Registers, Invocation
  <2> QED BY <2>1, <2>2
<1> QED BY <1>3, <1>4, <1>5, <1>6 DEF Structure

\* The Razorpay order exists before the row that names it.
LEMMA StructureCreateOrderAtGateway ==
  ASSUME Structure, NEW w \in Worker,
         CreateOrderAtGateway(w)
  PROVE  Structure'
<1>1. /\ onOrder[w] \in Order
      /\ onPayment[w] \in Payment
      /\ Row(onPayment[w])
      /\ Notification(onPayment[w])
      /\ Invocation(w)
  BY Running DEF CreateOrderAtGateway, Proceed
<1>2. Tables /\ Registers
  BY StructureTypes
<1>7. \A u, v \in Worker : Exclusive(u, v)'
  BY ProceedExclusive DEF CreateOrderAtGateway, Making
<1> USE DEF CreateOrderAtGateway, Proceed, rows, razor, lambda, bus, history
<1>3. TypeOK'
  BY <1>1, PaymentsAssumption
     DEF Structure, TypeOK, OrderStatus, PaymentStatus, Step, Capturing, Invocation
<1>4. ASSUME NEW q \in Payment PROVE Row(q)'
  <2>1. CASE q = onPayment[w]
    BY <1>1, <1>2, <2>1, PaymentsAssumption DEF Tables, Row, Invocation, Notification, Event, Capturing
  <2>2. CASE q # onPayment[w]
    BY <1>1, <1>2, <2>2 DEF Structure, Tables, Row
  <2> QED BY <2>1, <2>2
<1>5. ASSUME NEW q \in Payment PROVE Notification(q)'
  <2>1. CASE q = onPayment[w]
    BY <1>1, <1>2, <2>1 DEF Tables, Notification, Invocation
  <2>2. CASE q # onPayment[w]
    BY <1>1, <1>2, <2>2 DEF Structure, Tables, Notification
  <2> QED BY <2>1, <2>2
<1>6. ASSUME NEW v \in Worker PROVE Invocation(v)'
  <2>1. CASE v = w
    BY <1>1, <1>2, <2>1, PaymentsAssumption DEF Registers, Tables, Invocation, Row, Capturing
  <2>2. CASE v # w
    BY <1>1, <1>2, <2>2 DEF Structure, Registers, Tables, Invocation, Exclusive, Making, Notification, Event, Row, Capturing
  <2> QED BY <2>1, <2>2
<1> QED BY <1>3, <1>4, <1>5, <1>6, <1>7 DEF Structure

\* The insert: only its invocation knew the payment.
LEMMA StructureInsertRazorpayPayment ==
  ASSUME Structure, NEW w \in Worker,
         InsertRazorpayPayment(w)
  PROVE  Structure'
<1>1. /\ onOrder[w] \in Order
      /\ onPayment[w] \in Payment
      /\ Row(onPayment[w])
      /\ Notification(onPayment[w])
      /\ Invocation(w)
  BY Running DEF InsertRazorpayPayment, Finish
<1>2. Tables /\ Registers
  BY StructureTypes
<1>7. \A u, v \in Worker : Exclusive(u, v)'
  BY FinishExclusive DEF InsertRazorpayPayment, Making
<1> USE DEF InsertRazorpayPayment, Finish, InsertRow, rows, razor, lambda, bus, history
<1>3. TypeOK'
  BY <1>1, PaymentsAssumption
     DEF Structure, TypeOK, OrderStatus, PaymentStatus, Step, Capturing, Invocation
<1>4. ASSUME NEW q \in Payment PROVE Row(q)'
  <2>1. CASE q = onPayment[w]
    BY <1>1, <1>2, <2>1, PaymentsAssumption DEF Tables, Row, Invocation, Notification, Event, Capturing
  <2>2. CASE q # onPayment[w]
    BY <1>1, <1>2, <2>2 DEF Structure, Tables, Row
  <2> QED BY <2>1, <2>2
<1>5. ASSUME NEW q \in Payment PROVE Notification(q)'
  <2>1. CASE q = onPayment[w]
    BY <1>1, <1>2, <2>1 DEF Tables, Notification, Invocation
  <2>2. CASE q # onPayment[w]
    BY <1>1, <1>2, <2>2 DEF Structure, Tables, Notification
  <2> QED BY <2>1, <2>2
<1>6. ASSUME NEW v \in Worker PROVE Invocation(v)'
  <2>1. CASE v = w
    BY <1>1, <1>2, <2>1, PaymentsAssumption DEF Registers, Tables, Invocation, Row, Capturing
  <2>2. CASE v # w
    BY <1>1, <1>2, <2>2 DEF Structure, Registers, Tables, Invocation, Exclusive, Making, Notification, Event, Row, Capturing
  <2> QED BY <2>1, <2>2
<1> QED BY <1>3, <1>4, <1>5, <1>6, <1>7 DEF Structure

\* The insert of payLater: no Razorpay order stands behind it.
LEMMA StructureInsertPayLater ==
  ASSUME Structure, NEW w \in Worker,
         InsertPayLater(w)
  PROVE  Structure'
<1>1. /\ onOrder[w] \in Order
      /\ onPayment[w] \in Payment
      /\ Row(onPayment[w])
      /\ Notification(onPayment[w])
      /\ Invocation(w)
  BY Running DEF InsertPayLater, Proceed
<1>2. Tables /\ Registers
  BY StructureTypes
<1>7. \A u, v \in Worker : Exclusive(u, v)'
  BY ProceedExclusive DEF InsertPayLater, Making
<1> USE DEF InsertPayLater, Proceed, InsertRow, rows, razor, lambda, bus, history
<1>3. TypeOK'
  BY <1>1, PaymentsAssumption
     DEF Structure, TypeOK, OrderStatus, PaymentStatus, Step, Capturing, Invocation
<1>4. ASSUME NEW q \in Payment PROVE Row(q)'
  <2>1. CASE q = onPayment[w]
    BY <1>1, <1>2, <2>1, PaymentsAssumption DEF Tables, Row, Invocation, Notification, Event, Capturing
  <2>2. CASE q # onPayment[w]
    BY <1>1, <1>2, <2>2 DEF Structure, Tables, Row
  <2> QED BY <2>1, <2>2
<1>5. ASSUME NEW q \in Payment PROVE Notification(q)'
  <2>1. CASE q = onPayment[w]
    BY <1>1, <1>2, <2>1 DEF Tables, Notification, Invocation
  <2>2. CASE q # onPayment[w]
    BY <1>1, <1>2, <2>2 DEF Structure, Tables, Notification
  <2> QED BY <2>1, <2>2
<1>6. ASSUME NEW v \in Worker PROVE Invocation(v)'
  <2>1. CASE v = w
    BY <1>1, <1>2, <2>1, PaymentsAssumption DEF Registers, Tables, Invocation, Row, Capturing
  <2>2. CASE v # w
    BY <1>1, <1>2, <2>2 DEF Structure, Registers, Tables, Invocation, Exclusive, Making, Notification, Event, Row, Capturing
  <2> QED BY <2>1, <2>2
<1> QED BY <1>3, <1>4, <1>5, <1>6, <1>7 DEF Structure

\* The last step of payLater changes a counter and ends.
LEMMA StructureRequestPayLater ==
  ASSUME Structure, NEW w \in Worker,
         RequestPayLater(w)
  PROVE  Structure'
<1>1. /\ onOrder[w] \in Order
      /\ onPayment[w] \in Payment
      /\ Row(onPayment[w])
      /\ Notification(onPayment[w])
      /\ Invocation(w)
  BY Running DEF RequestPayLater, Finish
<1>2. Tables /\ Registers
  BY StructureTypes
<1>7. \A u, v \in Worker : Exclusive(u, v)'
  BY FinishExclusive DEF RequestPayLater, Making
<1> USE DEF RequestPayLater, Finish, Publish, UseFault, rows, razor, lambda, bus, history
<1>3. TypeOK'
  BY <1>1, PaymentsAssumption
     DEF Structure, TypeOK, OrderStatus, PaymentStatus, Step, Capturing, Invocation
<1>4. ASSUME NEW q \in Payment PROVE Row(q)'
  <2>1. CASE q = onPayment[w]
    BY <1>1, <1>2, <2>1, PaymentsAssumption DEF Tables, Row, Invocation, Notification, Event, Capturing
  <2>2. CASE q # onPayment[w]
    BY <1>1, <1>2, <2>2 DEF Structure, Tables, Row
  <2> QED BY <2>1, <2>2
<1>5. ASSUME NEW q \in Payment PROVE Notification(q)'
  <2>1. CASE q = onPayment[w]
    BY <1>1, <1>2, <2>1 DEF Tables, Notification, Invocation
  <2>2. CASE q # onPayment[w]
    BY <1>1, <1>2, <2>2 DEF Structure, Tables, Notification
  <2> QED BY <2>1, <2>2
<1>6. ASSUME NEW v \in Worker PROVE Invocation(v)'
  <2>1. CASE v = w
    BY <1>1, <1>2, <2>1, PaymentsAssumption DEF Registers, Tables, Invocation, Row, Capturing
  <2>2. CASE v # w
    BY <1>1, <1>2, <2>2 DEF Structure, Registers, Tables, Invocation, Exclusive, Making, Notification, Event, Row, Capturing
  <2> QED BY <2>1, <2>2
<1> QED BY <1>3, <1>4, <1>5, <1>6, <1>7 DEF Structure

\* The first update of payment.captured.
LEMMA StructureMarkCaptured ==
  ASSUME Structure, NEW w \in Worker,
         MarkCaptured(w)
  PROVE  Structure'
<1>1. /\ onOrder[w] \in Order
      /\ onPayment[w] \in Payment
      /\ Row(onPayment[w])
      /\ Notification(onPayment[w])
      /\ Invocation(w)
  BY Running DEF MarkCaptured, Proceed
<1>2. Tables /\ Registers
  BY StructureTypes
<1>7. \A u, v \in Worker : Exclusive(u, v)'
  BY ProceedExclusive DEF MarkCaptured, Making
<1> USE DEF MarkCaptured, Proceed, rows, razor, lambda, bus, history
<1>3. TypeOK'
  BY <1>1, PaymentsAssumption
     DEF Structure, TypeOK, OrderStatus, PaymentStatus, Step, Capturing, Invocation
<1>4. ASSUME NEW q \in Payment PROVE Row(q)'
  <2>1. CASE q = onPayment[w]
    BY <1>1, <1>2, <2>1, PaymentsAssumption DEF Tables, Row, Invocation, Notification, Event, Capturing
  <2>2. CASE q # onPayment[w]
    BY <1>1, <1>2, <2>2 DEF Structure, Tables, Row
  <2> QED BY <2>1, <2>2
<1>5. ASSUME NEW q \in Payment PROVE Notification(q)'
  <2>1. CASE q = onPayment[w]
    BY <1>1, <1>2, <2>1 DEF Tables, Notification, Invocation
  <2>2. CASE q # onPayment[w]
    BY <1>1, <1>2, <2>2 DEF Structure, Tables, Notification
  <2> QED BY <2>1, <2>2
<1>6. ASSUME NEW v \in Worker PROVE Invocation(v)'
  <2>1. CASE v = w
    BY <1>1, <1>2, <2>1, PaymentsAssumption DEF Registers, Tables, Invocation, Row, Capturing
  <2>2. CASE v # w
    BY <1>1, <1>2, <2>2 DEF Structure, Registers, Tables, Invocation, Exclusive, Making, Notification, Event, Row, Capturing
  <2> QED BY <2>1, <2>2
<1> QED BY <1>3, <1>4, <1>5, <1>6, <1>7 DEF Structure

\* The second: from here on the order of the invocation is paid.
LEMMA StructureSettleOrder ==
  ASSUME Structure, NEW w \in Worker,
         SettleOrder(w)
  PROVE  Structure'
<1>1. /\ onOrder[w] \in Order
      /\ onPayment[w] \in Payment
      /\ Row(onPayment[w])
      /\ Notification(onPayment[w])
      /\ Invocation(w)
  BY Running DEF SettleOrder, Proceed
<1>2. Tables /\ Registers
  BY StructureTypes
<1>7. \A u, v \in Worker : Exclusive(u, v)'
  BY ProceedExclusive DEF SettleOrder, Making
<1> USE DEF SettleOrder, Proceed, rows, razor, lambda, bus, history
<1>3. TypeOK'
  BY <1>1, PaymentsAssumption
     DEF Structure, TypeOK, OrderStatus, PaymentStatus, Step, Capturing, Invocation
<1>4. ASSUME NEW q \in Payment PROVE Row(q)'
  <2>1. CASE q = onPayment[w]
    BY <1>1, <1>2, <2>1, PaymentsAssumption DEF Tables, Row, Invocation, Notification, Event, Capturing
  <2>2. CASE q # onPayment[w]
    BY <1>1, <1>2, <2>2 DEF Structure, Tables, Row
  <2> QED BY <2>1, <2>2
<1>5. ASSUME NEW q \in Payment PROVE Notification(q)'
  <2>1. CASE q = onPayment[w]
    BY <1>1, <1>2, <2>1 DEF Tables, Notification, Invocation
  <2>2. CASE q # onPayment[w]
    BY <1>1, <1>2, <2>2 DEF Structure, Tables, Notification
  <2> QED BY <2>1, <2>2
<1>6. ASSUME NEW v \in Worker PROVE Invocation(v)'
  <2>1. CASE v = w
    BY <1>1, <1>2, <2>1, PaymentsAssumption DEF Registers, Tables, Invocation, Row, Capturing
  <2>2. CASE v # w
    BY <1>1, <1>2, <2>2 DEF Structure, Registers, Tables, Invocation, Exclusive, Making, Notification, Event, Row, Capturing
  <2> QED BY <2>1, <2>2
<1> QED BY <1>3, <1>4, <1>5, <1>6, <1>7 DEF Structure

\* OrderPaid goes out for an order that is paid.
LEMMA StructureAnnouncePaid ==
  ASSUME Structure, NEW w \in Worker,
         AnnouncePaid(w)
  PROVE  Structure'
<1>1. /\ onOrder[w] \in Order
      /\ onPayment[w] \in Payment
      /\ Row(onPayment[w])
      /\ Notification(onPayment[w])
      /\ Invocation(w)
  BY Running DEF AnnouncePaid, Proceed
<1>2. Tables /\ Registers
  BY StructureTypes
<1>7. \A u, v \in Worker : Exclusive(u, v)'
  BY ProceedExclusive DEF AnnouncePaid, Making
<1> USE DEF AnnouncePaid, Proceed, Publish, UseFault, rows, razor, lambda, bus, history
<1>3. TypeOK'
  BY <1>1, PaymentsAssumption
     DEF Structure, TypeOK, OrderStatus, PaymentStatus, Step, Capturing, Invocation
<1>4. ASSUME NEW q \in Payment PROVE Row(q)'
  <2>1. CASE q = onPayment[w]
    BY <1>1, <1>2, <2>1, PaymentsAssumption DEF Tables, Row, Invocation, Notification, Event, Capturing
  <2>2. CASE q # onPayment[w]
    BY <1>1, <1>2, <2>2 DEF Structure, Tables, Row
  <2> QED BY <2>1, <2>2
<1>5. ASSUME NEW q \in Payment PROVE Notification(q)'
  <2>1. CASE q = onPayment[w]
    BY <1>1, <1>2, <2>1 DEF Tables, Notification, Invocation
  <2>2. CASE q # onPayment[w]
    BY <1>1, <1>2, <2>2 DEF Structure, Tables, Notification
  <2> QED BY <2>1, <2>2
<1>6. ASSUME NEW v \in Worker PROVE Invocation(v)'
  <2>1. CASE v = w
    BY <1>1, <1>2, <2>1, PaymentsAssumption DEF Registers, Tables, Invocation, Row, Capturing
  <2>2. CASE v # w
    BY <1>1, <1>2, <2>2 DEF Structure, Registers, Tables, Invocation, Exclusive, Making, Notification, Event, Row, Capturing
  <2> QED BY <2>1, <2>2
<1> QED BY <1>3, <1>4, <1>5, <1>6, <1>7 DEF Structure

\* The stock request goes out and the notification is answered.
LEMMA StructureRequestDecrement ==
  ASSUME Structure, NEW w \in Worker,
         RequestDecrement(w)
  PROVE  Structure'
<1>1. /\ onOrder[w] \in Order
      /\ onPayment[w] \in Payment
      /\ Row(onPayment[w])
      /\ Notification(onPayment[w])
      /\ Invocation(w)
  BY Running DEF RequestDecrement, Finish
<1>2. Tables /\ Registers
  BY StructureTypes
<1>7. \A u, v \in Worker : Exclusive(u, v)'
  BY FinishExclusive DEF RequestDecrement, Making
<1> USE DEF RequestDecrement, Finish, Publish, UseFault, rows, razor, lambda, bus, history
<1>3. TypeOK'
  BY <1>1, PaymentsAssumption
     DEF Structure, TypeOK, OrderStatus, PaymentStatus, Step, Capturing, Invocation
<1>4. ASSUME NEW q \in Payment PROVE Row(q)'
  <2>1. CASE q = onPayment[w]
    BY <1>1, <1>2, <2>1, PaymentsAssumption DEF Tables, Row, Invocation, Notification, Event, Capturing
  <2>2. CASE q # onPayment[w]
    BY <1>1, <1>2, <2>2 DEF Structure, Tables, Row
  <2> QED BY <2>1, <2>2
<1>5. ASSUME NEW q \in Payment PROVE Notification(q)'
  <2>1. CASE q = onPayment[w]
    BY <1>1, <1>2, <2>1 DEF Tables, Notification, Invocation
  <2>2. CASE q # onPayment[w]
    BY <1>1, <1>2, <2>2 DEF Structure, Tables, Notification
  <2> QED BY <2>1, <2>2
<1>6. ASSUME NEW v \in Worker PROVE Invocation(v)'
  <2>1. CASE v = w
    BY <1>1, <1>2, <2>1, PaymentsAssumption DEF Registers, Tables, Invocation, Row, Capturing
  <2>2. CASE v # w
    BY <1>1, <1>2, <2>2 DEF Structure, Registers, Tables, Invocation, Exclusive, Making, Notification, Event, Row, Capturing
  <2> QED BY <2>1, <2>2
<1> QED BY <1>3, <1>4, <1>5, <1>6, <1>7 DEF Structure

\* The update of payment.failed.
LEMMA StructureMarkFailed ==
  ASSUME Structure, NEW w \in Worker,
         MarkFailed(w)
  PROVE  Structure'
<1>1. /\ onOrder[w] \in Order
      /\ onPayment[w] \in Payment
      /\ Row(onPayment[w])
      /\ Notification(onPayment[w])
      /\ Invocation(w)
  BY Running DEF MarkFailed, Finish
<1>2. Tables /\ Registers
  BY StructureTypes
<1>7. \A u, v \in Worker : Exclusive(u, v)'
  BY FinishExclusive DEF MarkFailed, Making
<1> USE DEF MarkFailed, Finish, rows, razor, lambda, bus, history
<1>3. TypeOK'
  BY <1>1, PaymentsAssumption
     DEF Structure, TypeOK, OrderStatus, PaymentStatus, Step, Capturing, Invocation
<1>4. ASSUME NEW q \in Payment PROVE Row(q)'
  <2>1. CASE q = onPayment[w]
    BY <1>1, <1>2, <2>1, PaymentsAssumption DEF Tables, Row, Invocation, Notification, Event, Capturing
  <2>2. CASE q # onPayment[w]
    BY <1>1, <1>2, <2>2 DEF Structure, Tables, Row
  <2> QED BY <2>1, <2>2
<1>5. ASSUME NEW q \in Payment PROVE Notification(q)'
  <2>1. CASE q = onPayment[w]
    BY <1>1, <1>2, <2>1 DEF Tables, Notification, Invocation
  <2>2. CASE q # onPayment[w]
    BY <1>1, <1>2, <2>2 DEF Structure, Tables, Notification
  <2> QED BY <2>1, <2>2
<1>6. ASSUME NEW v \in Worker PROVE Invocation(v)'
  <2>1. CASE v = w
    BY <1>1, <1>2, <2>1, PaymentsAssumption DEF Registers, Tables, Invocation, Row, Capturing
  <2>2. CASE v # w
    BY <1>1, <1>2, <2>2 DEF Structure, Registers, Tables, Invocation, Exclusive, Making, Notification, Event, Row, Capturing
  <2> QED BY <2>1, <2>2
<1> QED BY <1>3, <1>4, <1>5, <1>6, <1>7 DEF Structure

\* An invocation may end before any of its statements.
LEMMA StructureCrash ==
  ASSUME Structure, NEW w \in Worker,
         Crash(w)
  PROVE  Structure'
<1>1. /\ onOrder[w] \in Order
      /\ onPayment[w] \in Payment
      /\ Row(onPayment[w])
      /\ Notification(onPayment[w])
      /\ Invocation(w)
  BY Running DEF Crash
<1>2. Tables /\ Registers
  BY StructureTypes
<1>7. \A u, v \in Worker : Exclusive(u, v)'
  BY FinishExclusive DEF Crash, Making
<1> USE DEF Crash, Finish, UseFault, rows, razor, lambda, bus, history
<1>3. TypeOK'
  BY <1>1, PaymentsAssumption
     DEF Structure, TypeOK, OrderStatus, PaymentStatus, Step, Capturing, Invocation
<1>4. ASSUME NEW q \in Payment PROVE Row(q)'
  <2>1. CASE q = onPayment[w]
    BY <1>1, <1>2, <2>1, PaymentsAssumption DEF Tables, Row, Invocation, Notification, Event, Capturing
  <2>2. CASE q # onPayment[w]
    BY <1>1, <1>2, <2>2 DEF Structure, Tables, Row
  <2> QED BY <2>1, <2>2
<1>5. ASSUME NEW q \in Payment PROVE Notification(q)'
  <2>1. CASE q = onPayment[w]
    BY <1>1, <1>2, <2>1 DEF Tables, Notification, Invocation
  <2>2. CASE q # onPayment[w]
    BY <1>1, <1>2, <2>2 DEF Structure, Tables, Notification
  <2> QED BY <2>1, <2>2
<1>6. ASSUME NEW v \in Worker PROVE Invocation(v)'
  <2>1. CASE v = w
    BY <1>1, <1>2, <2>1, PaymentsAssumption DEF Registers, Tables, Invocation, Row, Capturing
  <2>2. CASE v # w
    BY <1>1, <1>2, <2>2 DEF Structure, Registers, Tables, Invocation, Exclusive, Making, Notification, Event, Row, Capturing
  <2> QED BY <2>1, <2>2
<1> QED BY <1>3, <1>4, <1>5, <1>6, <1>7 DEF Structure

\* Steps of nobody.
LEMMA StutterStructure == Structure /\ UNCHANGED vars => Structure'
BY DEF Structure, TypeOK, Row, Notification, Invocation, Exclusive, vars,
       rows, razor, lambda, bus, history

\* Every step preserves the structure.
LEMMA StepStructure == Structure /\ [Next]_vars => Structure'
BY StutterStructure, StructureCreatePaymentOrder, StructurePayLater,
   StructureCaptureAtGateway, StructureFailAtGateway, StructureIgnoreWebhook,
   StructureAcceptCaptured, StructureAcceptFailed,
   StructureCreateOrderAtGateway, StructureInsertRazorpayPayment,
   StructureInsertPayLater, StructureRequestPayLater, StructureMarkCaptured,
   StructureSettleOrder, StructureAnnouncePaid, StructureRequestDecrement,
   StructureMarkFailed, StructureCrash
   DEF Next, ReceiveWebhook, Continue

\* The columns and registers always hold values of their types, and what each
\* invocation relies on stays true while the others run.
THEOREM StructureInvariant == Spec => []Structure
BY InitStructure, StepStructure, PTL DEF Spec

\* Every column and register keeps to the schema's values.
THEOREM TypeCorrect == Spec => []TypeOK
BY StructureInvariant, PTL DEF Structure

-----------------------------------------------------------------------------
(* Paid orders and published events *)

\* Payments keep their order and their provider, captures and paid orders stay.
LEMMA Monotone ==
  ASSUME Structure, [Next]_vars
  PROVE  /\ \A p \in Payment : payOrder[p] # None =>
              payOrder'[p] = payOrder[p] /\ provider'[p] = provider[p]
         /\ \A p \in Payment : gateway[p] = "captured" => gateway'[p] = "captured"
         /\ \A o \in Order : orderStatus[o] = "paid" => orderStatus'[o] = "paid"
<1>1. Tables /\ Registers
  BY StructureTypes
<1>2. ASSUME NEW w \in Worker, NEW p \in Payment,
             InsertRazorpayPayment(w) \/ InsertPayLater(w), payOrder[p] # None
      PROVE  payOrder'[p] = payOrder[p] /\ provider'[p] = provider[p]
  <2>1. pc[w] \in {"insert", "commit"}
    BY <1>2 DEF InsertRazorpayPayment, InsertPayLater, Finish, Proceed
  <2>2. onPayment[w] \in Payment /\ Row(onPayment[w]) /\ Invocation(w) /\ Row(p)
    BY <2>1, Running DEF Structure
  <2>3. onPayment[w] # p
    BY <1>2, <2>1, <2>2 DEF Row, Invocation
  <2> QED BY <1>1, <1>2, <2>2, <2>3
      DEF Tables, InsertRazorpayPayment, InsertPayLater, InsertRow
<1>3. ASSUME NEW w \in Worker, CreateOrderAtGateway(w)
      PROVE  \A p \in Payment : gateway[p] = "captured" => gateway'[p] = "captured"
  <2>1. pc[w] = "gateway"
    BY <1>3 DEF CreateOrderAtGateway, Proceed
  <2>2. onPayment[w] \in Payment /\ gateway[onPayment[w]] = "none"
    BY <2>1, Running DEF Invocation
  <2> QED BY <1>1, <1>3, <2>2 DEF Tables, CreateOrderAtGateway
<1>4. ASSUME NEW w \in Worker, SettleOrder(w)
      PROVE  \A o \in Order : orderStatus[o] = "paid" => orderStatus'[o] = "paid"
  BY <1>1, <1>4 DEF Tables, SettleOrder
<1> USE DEF rows, razor, lambda, bus, history
<1>5. CASE UNCHANGED vars
  BY <1>5 DEF vars
<1>6. CASE \E w \in Worker, o \in Order, p \in Payment :
             CreatePaymentOrder(w, o, p) \/ PayLater(w, o, p)
  BY <1>6 DEF CreatePaymentOrder, PayLater
<1>7. CASE \E p \in Payment : CaptureAtGateway(p) \/ FailAtGateway(p)
  BY <1>1, <1>7 DEF Tables, CaptureAtGateway, FailAtGateway
<1>8. CASE \E w \in Worker, p \in Payment : ReceiveWebhook(w, p)
  BY <1>8 DEF ReceiveWebhook, IgnoreWebhook, AcceptCaptured, AcceptFailed
<1>9. ASSUME NEW w \in Worker, Continue(w) \/ Crash(w)
      PROVE  /\ \A p \in Payment : payOrder[p] # None =>
                  payOrder'[p] = payOrder[p] /\ provider'[p] = provider[p]
             /\ \A p \in Payment : gateway[p] = "captured" => gateway'[p] = "captured"
             /\ \A o \in Order : orderStatus[o] = "paid" => orderStatus'[o] = "paid"
  <2>1. CASE CreateOrderAtGateway(w)
    BY <1>3, <2>1 DEF CreateOrderAtGateway
  <2>2. CASE InsertRazorpayPayment(w)
    BY <1>2, <2>2 DEF InsertRazorpayPayment
  <2>3. CASE InsertPayLater(w)
    BY <1>2, <2>3 DEF InsertPayLater
  <2>4. CASE RequestPayLater(w) \/ AnnouncePaid(w) \/ RequestDecrement(w)
    BY <2>4 DEF RequestPayLater, AnnouncePaid, RequestDecrement
  <2>5. CASE MarkCaptured(w) \/ MarkFailed(w) \/ Crash(w)
    BY <2>5 DEF MarkCaptured, MarkFailed, Crash
  <2>6. CASE SettleOrder(w)
    BY <1>4, <2>6 DEF SettleOrder
  <2> QED BY <1>9, <2>1, <2>2, <2>3, <2>4, <2>5, <2>6 DEF Continue
<1> QED BY <1>5, <1>6, <1>7, <1>8, <1>9 DEF Next

-----------------------------------------------------------------------------
(* Events follow the record *)

\* An invocation enters "announce" by settling its order, and no step of
\* Payments takes that back.
LEMMA StepSettled ==
  ASSUME Structure, SettledFirst, [Next]_vars
  PROVE  SettledFirst'
<1> SUFFICES ASSUME NEW w \in Worker, pc'[w] \in {"announce", "request"}
             PROVE  orderStatus'[onOrder'[w]] = "paid"
  BY DEF SettledFirst
<1>1. Tables /\ Registers
  BY StructureTypes
<1>2. CASE pc[w] = "settle"
  <2>1. onOrder[w] \in Order
    BY <1>2, Running
  <2>2. PICK v \in Worker : SettleOrder(v)
    BY <1>1, <1>2
       DEF Registers, Next, Continue, ReceiveWebhook, vars, lambda, Start, Proceed,
           Finish, CreatePaymentOrder, PayLater, CaptureAtGateway, FailAtGateway,
           IgnoreWebhook, AcceptCaptured, AcceptFailed, CreateOrderAtGateway,
           InsertRazorpayPayment, InsertPayLater, RequestPayLater, MarkCaptured,
           AnnouncePaid, RequestDecrement, MarkFailed, Crash
  <2>3. v = w
    BY <1>1, <1>2, <2>2 DEF Registers, SettleOrder, Proceed
  <2> QED BY <1>1, <2>1, <2>2, <2>3 DEF Tables, SettleOrder, Proceed
<1>3. CASE pc[w] \in {"announce", "request"}
  <2>1. onOrder[w] \in Order /\ orderStatus[onOrder[w]] = "paid"
    BY <1>3, Running DEF SettledFirst
  <2>2. onOrder'[w] = onOrder[w]
    BY <1>1, <1>3
       DEF Registers, Next, Continue, ReceiveWebhook, vars, lambda, Start, Proceed,
           Finish, CreatePaymentOrder, PayLater, CaptureAtGateway, FailAtGateway,
           IgnoreWebhook, AcceptCaptured, AcceptFailed, CreateOrderAtGateway,
           InsertRazorpayPayment, InsertPayLater, RequestPayLater, MarkCaptured,
           SettleOrder, AnnouncePaid, RequestDecrement, MarkFailed, Crash
  <2> QED BY <2>1, <2>2, Monotone
<1>4. pc[w] \in {"settle", "announce", "request"}
  BY <1>1
     DEF Registers, Next, Continue, ReceiveWebhook, vars, lambda, Start, Proceed,
         Finish, CreatePaymentOrder, PayLater, CaptureAtGateway, FailAtGateway,
         IgnoreWebhook, AcceptCaptured, AcceptFailed, CreateOrderAtGateway,
         InsertRazorpayPayment, InsertPayLater, RequestPayLater, MarkCaptured,
         SettleOrder, AnnouncePaid, RequestDecrement, MarkFailed, Crash
<1> QED BY <1>2, <1>3, <1>4

\* What an invocation that still has to publish knows of its order.
LEMMA PublisherOrderIsPaid ==
  ASSUME Structure, SettledFirst, NEW w \in Worker,
         pc[w] \in {"announce", "request"}
  PROVE  onPayment[w] \in Payment /\ OrderIsPaid(onPayment[w])
<1>1. /\ onOrder[w] \in Order /\ onPayment[w] \in Payment
      /\ Invocation(w)
  BY Running
<1> QED BY <1>1 DEF Invocation, Capturing, OrderIsPaid, SettledFirst

\* The order of a payment stays the paid one it was.
LEMMA OrderStaysPaid ==
  ASSUME Structure, [Next]_vars, NEW p \in Payment, OrderIsPaid(p)
  PROVE  OrderIsPaid(p)'
<1>1. PICK o \in Order : payOrder[p] = o /\ orderStatus[o] = "paid"
  BY DEF OrderIsPaid
<1>2. payOrder[p] # None
  BY <1>1, PaymentsAssumption
<1> QED BY <1>1, <1>2, Monotone DEF OrderIsPaid

\* Whoever publishes for a payment that is not pay-later has its order paid.
LEMMA PublishOnlyWhenPaid ==
  ASSUME Structure, SettledFirst, [Next]_vars, NEW p \in Payment,
         \/ paidEvents'[p] > 0 /\ ~(paidEvents[p] > 0)
         \/ requests'[p] > 0 /\ ~(requests[p] > 0) /\ provider'[p] # "pay_later"
  PROVE  OrderIsPaid(p)
<1>1. Tables /\ Row(p)
  BY StructureTypes DEF Structure
<1>2. ASSUME NEW w \in Worker, AnnouncePaid(w) PROVE OrderIsPaid(p)
  <2>1. pc[w] = "announce"
    BY <1>2 DEF AnnouncePaid, Proceed
  <2>2. onPayment[w] \in Payment /\ OrderIsPaid(onPayment[w])
    BY <2>1, PublisherOrderIsPaid
  <2>3. onPayment[w] = p
    BY <1>1, <1>2, <2>2 DEF Tables, AnnouncePaid, Publish, UseFault
  <2> QED BY <2>2, <2>3
<1>3. ASSUME NEW w \in Worker, RequestDecrement(w) PROVE OrderIsPaid(p)
  <2>1. pc[w] = "request"
    BY <1>3 DEF RequestDecrement, Finish
  <2>2. onPayment[w] \in Payment /\ OrderIsPaid(onPayment[w])
    BY <2>1, PublisherOrderIsPaid
  <2>3. onPayment[w] = p
    BY <1>1, <1>3, <2>2 DEF Tables, RequestDecrement, Publish, UseFault
  <2> QED BY <2>2, <2>3
<1>4. ASSUME NEW w \in Worker, RequestPayLater(w) PROVE FALSE
  <2>1. pc[w] = "collect"
    BY <1>4 DEF RequestPayLater, Finish
  <2>2. onPayment[w] \in Payment /\ provider[onPayment[w]] = "pay_later"
    BY <2>1, Running DEF Invocation
  <2>3. onPayment[w] = p
    BY <1>1, <1>4, <2>2
       DEF Tables, RequestPayLater, Publish, UseFault
  <2> QED BY <1>1, <1>4, <2>2, <2>3 DEF Tables, RequestPayLater, rows
<1>5. \E w \in Worker : AnnouncePaid(w) \/ RequestDecrement(w) \/ RequestPayLater(w)
  BY DEF Next, Continue, ReceiveWebhook, vars, bus, CreatePaymentOrder, PayLater,
       CaptureAtGateway, FailAtGateway, IgnoreWebhook, AcceptCaptured,
       AcceptFailed, CreateOrderAtGateway, InsertRazorpayPayment,
       InsertPayLater, MarkCaptured, SettleOrder, MarkFailed, Crash
<1> QED BY <1>2, <1>3, <1>4, <1>5

\* Events are published for paid orders, and those stay paid.
LEMMA StepEvents ==
  Structure /\ SettledFirst /\ EventsFollowRecords /\ [Next]_vars
    => EventsFollowRecords'
<1> SUFFICES ASSUME Structure, SettledFirst, EventsFollowRecords, [Next]_vars,
                    NEW p \in Payment,
                    \/ paidEvents'[p] > 0
                    \/ requests'[p] > 0 /\ provider'[p] # "pay_later"
             PROVE  OrderIsPaid(p)'
  BY DEF EventsFollowRecords
<1>1. Row(p) /\ Tables
  BY StructureTypes DEF Structure
<1>2. provider[p] # "none" => provider'[p] = provider[p]
  BY <1>1, Monotone DEF Row
<1>3. CASE paidEvents[p] > 0 \/ (requests[p] > 0 /\ provider[p] # "pay_later")
  BY <1>3, OrderStaysPaid DEF EventsFollowRecords
<1>4. CASE ~(paidEvents[p] > 0) /\ ~(requests[p] > 0 /\ provider[p] # "pay_later")
  <2>1. requests[p] > 0 => provider'[p] = "pay_later"
    BY <1>1, <1>2, <1>4 DEF Row
  <2> QED BY <1>4, <2>1, PublishOnlyWhenPaid, OrderStaysPaid
<1> QED BY <1>3, <1>4

\* What other services are told is already on record.
THEOREM EventsFollowRecordsHolds == Spec => []EventsFollowRecords
<1>1. Init => EventsFollowRecords
  BY DEF Init, EventsFollowRecords
<1>2. Init => SettledFirst
  BY DEF Init, SettledFirst
<1> QED BY <1>1, <1>2, StructureInvariant, StepSettled, StepEvents, PTL DEF Spec

-----------------------------------------------------------------------------
(* One capture at a time *)

\* A statement that makes a payment finds no other invocation on it.
LEMMA MakerAlone ==
  ASSUME Structure, NEW w \in Worker, NEW v \in Worker, v # w,
         pc[w] \in {"insert", "commit", "collect"}
  PROVE  onPayment[v] # onPayment[w]
BY DEF Structure, Exclusive, Making

\* Razorpay touches no counter and no invocation.
LEMMA OnceCaptureAtGateway ==
  ASSUME Structure, CleanOnce, NEW p \in Payment, Clean(p)',
         NEW q \in Payment, CaptureAtGateway(q)
  PROVE  Once(p)'
<1>1. Once(p)
  BY DEF CaptureAtGateway, Clean, CleanOnce, history
<1> QED BY <1>1 DEF CaptureAtGateway, rows, razor, lambda, bus, history, Once, Counts, Capturer, Alone

\* The same for a failed attempt.
LEMMA OnceFailAtGateway ==
  ASSUME Structure, CleanOnce, NEW p \in Payment, Clean(p)',
         NEW q \in Payment, FailAtGateway(q)
  PROVE  Once(p)'
<1>1. Once(p)
  BY DEF FailAtGateway, Clean, CleanOnce, history
<1> QED BY <1>1 DEF FailAtGateway, rows, razor, lambda, bus, history, Once, Counts, Capturer, Alone

\* The early return publishes nothing.
LEMMA OnceIgnoreWebhook ==
  ASSUME Structure, CleanOnce, NEW p \in Payment, Clean(p)',
         NEW w \in Worker, NEW q \in Payment, NEW e \in Event, IgnoreWebhook(w, q, e)
  PROVE  Once(p)'
<1>1. Once(p)
  BY DEF IgnoreWebhook, Clean, CleanOnce, history
<1> QED BY <1>1 DEF IgnoreWebhook, rows, razor, lambda, bus, history, Once, Counts, Capturer, Alone

\* A payment being made is captured by nobody.
LEMMA OnceCreatePaymentOrder ==
  ASSUME Structure, CleanOnce, NEW p \in Payment, Clean(p)',
         NEW w \in Worker, NEW o \in Order, NEW q \in Payment, CreatePaymentOrder(w, o, q)
  PROVE  Once(p)'
<1>1. /\ Tables /\ Registers /\ Row(p) /\ Clean(p)
      /\ Counts(p)
      /\ \A v \in Worker : Capturer(p, v)
      /\ \A u, v \in Worker : Alone(p, u, v)
  BY StructureTypes DEF CreatePaymentOrder, Clean, CleanOnce, Once, Structure, history
<1> USE DEF CreatePaymentOrder, Start, rows, razor, lambda, bus, history
<1>2. Counts(p)'
  BY <1>1 DEF Counts
<1>3. ASSUME NEW v \in Worker PROVE Capturer(p, v)'
  <2>1. CASE v = w
    BY <1>1, <2>1 DEF Registers, Capturer
  <2>2. CASE v # w
    BY <1>1, <2>2 DEF Registers, Capturer
  <2> QED BY <2>1, <2>2
<1>4. ASSUME NEW u \in Worker, NEW v \in Worker PROVE Alone(p, u, v)'
  BY <1>1 DEF Registers, Alone, Capturing
<1> QED BY <1>2, <1>3, <1>4 DEF Once

\* The same for one to be collected later.
LEMMA OncePayLater ==
  ASSUME Structure, CleanOnce, NEW p \in Payment, Clean(p)',
         NEW w \in Worker, NEW o \in Order, NEW q \in Payment, PayLater(w, o, q)
  PROVE  Once(p)'
<1>1. /\ Tables /\ Registers /\ Row(p) /\ Clean(p)
      /\ Counts(p)
      /\ \A v \in Worker : Capturer(p, v)
      /\ \A u, v \in Worker : Alone(p, u, v)
  BY StructureTypes DEF PayLater, Clean, CleanOnce, Once, Structure, history
<1> USE DEF PayLater, Start, rows, razor, lambda, bus, history
<1>2. Counts(p)'
  BY <1>1 DEF Counts
<1>3. ASSUME NEW v \in Worker PROVE Capturer(p, v)'
  <2>1. CASE v = w
    BY <1>1, <2>1 DEF Registers, Capturer
  <2>2. CASE v # w
    BY <1>1, <2>2 DEF Registers, Capturer
  <2> QED BY <2>1, <2>2
<1>4. ASSUME NEW u \in Worker, NEW v \in Worker PROVE Alone(p, u, v)'
  BY <1>1 DEF Registers, Alone, Capturing
<1> QED BY <1>2, <1>3, <1>4 DEF Once

\* An invocation for payment.failed publishes nothing.
LEMMA OnceAcceptFailed ==
  ASSUME Structure, CleanOnce, NEW p \in Payment, Clean(p)',
         NEW w \in Worker, NEW q \in Payment, AcceptFailed(w, q)
  PROVE  Once(p)'
<1>1. /\ Tables /\ Registers /\ Row(p) /\ Clean(p)
      /\ Counts(p)
      /\ \A v \in Worker : Capturer(p, v)
      /\ \A u, v \in Worker : Alone(p, u, v)
  BY StructureTypes DEF AcceptFailed, Clean, CleanOnce, Once, Structure, history
<1> USE DEF AcceptFailed, Start, rows, razor, lambda, bus, history
<1>2. Counts(p)'
  BY <1>1 DEF Counts
<1>3. ASSUME NEW v \in Worker PROVE Capturer(p, v)'
  <2>1. CASE v = w
    BY <1>1, <2>1 DEF Registers, Capturer
  <2>2. CASE v # w
    BY <1>1, <2>2 DEF Registers, Capturer
  <2> QED BY <2>1, <2>2
<1>4. ASSUME NEW u \in Worker, NEW v \in Worker PROVE Alone(p, u, v)'
  BY <1>1 DEF Registers, Alone, Capturing
<1> QED BY <1>2, <1>3, <1>4 DEF Once

\* A second capturer makes the payment raced; a first one found it not captured.
LEMMA OnceAcceptCaptured ==
  ASSUME Structure, CleanOnce, NEW p \in Payment, Clean(p)',
         NEW w \in Worker, NEW q \in Payment, AcceptCaptured(w, q)
  PROVE  Once(p)'
<1>1. /\ Tables /\ Registers /\ Row(p) /\ Clean(p)
      /\ Counts(p)
      /\ \A v \in Worker : Capturer(p, v)
      /\ \A u, v \in Worker : Alone(p, u, v)
  BY StructureTypes DEF AcceptCaptured, Clean, CleanOnce, Once, Structure
<1>5. CASE q = p
  <2>1. ~ \E v \in Worker : Handling(v, <<p, "captured">>)
    BY <1>5 DEF AcceptCaptured, Clean
  <2>2. \A v \in Worker : onPayment[v] = p => pc[v] \notin Capturing
    BY <2>1 DEF Handling
  <2>3. payStatus[p] # "captured" /\ ~(paidEvents[p] > 0)
    BY <1>1, <1>5 DEF AcceptCaptured, Counts
  <2> USE DEF AcceptCaptured, Start, rows, razor, lambda, bus, history
  <2>4. Counts(p)'
    BY <1>1 DEF Counts
  <2>5. ASSUME NEW v \in Worker PROVE Capturer(p, v)'
    BY <1>1, <1>5, <2>2, <2>3 DEF Registers, Capturer, Capturing
  <2>6. ASSUME NEW u \in Worker, NEW v \in Worker PROVE Alone(p, u, v)'
    BY <1>1, <1>5, <2>2 DEF Registers, Alone
  <2> QED BY <2>4, <2>5, <2>6 DEF Once
<1>6. CASE q # p
  <2> USE DEF AcceptCaptured, Start, rows, razor, lambda, bus, history
  <2>4. Counts(p)'
    BY <1>1 DEF Counts
  <2>5. ASSUME NEW v \in Worker PROVE Capturer(p, v)'
    BY <1>1, <1>6 DEF Registers, Capturer
  <2>6. ASSUME NEW u \in Worker, NEW v \in Worker PROVE Alone(p, u, v)'
    BY <1>1, <1>6 DEF Registers, Alone
  <2> QED BY <2>4, <2>5, <2>6 DEF Once
<1> QED BY <1>5, <1>6

\* No capturer works on a payment being made.
LEMMA OnceCreateOrderAtGateway ==
  ASSUME Structure, CleanOnce, NEW p \in Payment, Clean(p)',
         NEW w \in Worker, CreateOrderAtGateway(w)
  PROVE  Once(p)'
<1>1. /\ Tables /\ Registers /\ Row(p) /\ Clean(p)
      /\ Counts(p)
      /\ \A v \in Worker : Capturer(p, v)
      /\ \A u, v \in Worker : Alone(p, u, v)
      /\ onPayment[w] \in Payment /\ Row(onPayment[w]) /\ Invocation(w)
  BY StructureTypes, Running
     DEF CreateOrderAtGateway, Proceed, Clean, CleanOnce, Once, Structure, history
<1> USE DEF CreateOrderAtGateway, Proceed, rows, razor, lambda, bus, history
<1>2. Counts(p)'
  BY <1>1, PaymentsAssumption DEF Tables, Counts, Capturer, Row, Invocation, Clean
<1>3. ASSUME NEW v \in Worker PROVE Capturer(p, v)'
  <2>1. CASE v = w
    BY <1>1, <2>1, PaymentsAssumption DEF Tables, Registers, Capturer, Counts, Clean
  <2>2. CASE v # w
    BY <1>1, <2>2 DEF Tables, Registers, Capturer, Alone, Capturing, Clean, Counts
  <2> QED BY <2>1, <2>2
<1>4. ASSUME NEW u \in Worker, NEW v \in Worker PROVE Alone(p, u, v)'
  BY <1>1, PaymentsAssumption DEF Registers, Alone, Capturing
<1> QED BY <1>2, <1>3, <1>4 DEF Once

\* A row starts with nothing published.
LEMMA OnceInsertRazorpayPayment ==
  ASSUME Structure, CleanOnce, NEW p \in Payment, Clean(p)',
         NEW w \in Worker, InsertRazorpayPayment(w)
  PROVE  Once(p)'
<1>1. /\ Tables /\ Registers /\ Row(p) /\ Clean(p)
      /\ Counts(p)
      /\ \A v \in Worker : Capturer(p, v)
      /\ \A u, v \in Worker : Alone(p, u, v)
      /\ onPayment[w] \in Payment /\ Row(onPayment[w]) /\ Invocation(w)
  BY StructureTypes, Running
     DEF InsertRazorpayPayment, Finish, Clean, CleanOnce, Once, Structure, history
<1> USE DEF InsertRazorpayPayment, Finish, InsertRow, rows, razor, lambda, bus, history
<1>2. Counts(p)'
  BY <1>1, PaymentsAssumption DEF Tables, Counts, Capturer, Row, Invocation, Clean
<1>3. ASSUME NEW v \in Worker PROVE Capturer(p, v)'
  <2>1. CASE v = w
    BY <1>1, <2>1, PaymentsAssumption DEF Tables, Registers, Capturer, Counts, Clean
  <2>2. CASE v # w
    <3>1. onPayment[v] # onPayment[w]
      BY <2>2, MakerAlone
    <3> QED BY <1>1, <2>2, <3>1 DEF Tables, Registers, Capturer
  <2> QED BY <2>1, <2>2
<1>4. ASSUME NEW u \in Worker, NEW v \in Worker PROVE Alone(p, u, v)'
  BY <1>1, PaymentsAssumption DEF Registers, Alone, Capturing
<1> QED BY <1>2, <1>3, <1>4 DEF Once

\* So does a row of payLater.
LEMMA OnceInsertPayLater ==
  ASSUME Structure, CleanOnce, NEW p \in Payment, Clean(p)',
         NEW w \in Worker, InsertPayLater(w)
  PROVE  Once(p)'
<1>1. /\ Tables /\ Registers /\ Row(p) /\ Clean(p)
      /\ Counts(p)
      /\ \A v \in Worker : Capturer(p, v)
      /\ \A u, v \in Worker : Alone(p, u, v)
      /\ onPayment[w] \in Payment /\ Row(onPayment[w]) /\ Invocation(w)
  BY StructureTypes, Running
     DEF InsertPayLater, Proceed, Clean, CleanOnce, Once, Structure, history
<1> USE DEF InsertPayLater, Proceed, InsertRow, rows, razor, lambda, bus, history
<1>2. Counts(p)'
  BY <1>1, PaymentsAssumption DEF Tables, Counts, Capturer, Row, Invocation, Clean
<1>3. ASSUME NEW v \in Worker PROVE Capturer(p, v)'
  <2>1. CASE v = w
    BY <1>1, <2>1, PaymentsAssumption DEF Tables, Registers, Capturer, Counts, Clean
  <2>2. CASE v # w
    <3>1. onPayment[v] # onPayment[w]
      BY <2>2, MakerAlone
    <3> QED BY <1>1, <2>2, <3>1 DEF Tables, Registers, Capturer
  <2> QED BY <2>1, <2>2
<1>4. ASSUME NEW u \in Worker, NEW v \in Worker PROVE Alone(p, u, v)'
  BY <1>1, PaymentsAssumption DEF Registers, Alone, Capturing
<1> QED BY <1>2, <1>3, <1>4 DEF Once

\* The one request of a pay-later payment.
LEMMA OnceRequestPayLater ==
  ASSUME Structure, CleanOnce, NEW p \in Payment, Clean(p)',
         NEW w \in Worker, RequestPayLater(w)
  PROVE  Once(p)'
<1>1. /\ Tables /\ Registers /\ Row(p) /\ Clean(p)
      /\ Counts(p)
      /\ \A v \in Worker : Capturer(p, v)
      /\ \A u, v \in Worker : Alone(p, u, v)
      /\ onPayment[w] \in Payment /\ Row(onPayment[w]) /\ Invocation(w)
  BY StructureTypes, Running
     DEF RequestPayLater, Finish, Clean, CleanOnce, Once, Structure, history
<1> USE DEF RequestPayLater, Finish, Publish, UseFault, rows, razor, lambda, bus, history
<1>2. Counts(p)'
  BY <1>1, PaymentsAssumption DEF Tables, Counts, Capturer, Row, Invocation, Clean
<1>3. ASSUME NEW v \in Worker PROVE Capturer(p, v)'
  <2>1. CASE v = w
    BY <1>1, <2>1, PaymentsAssumption DEF Tables, Registers, Capturer, Counts, Clean
  <2>2. CASE v # w
    <3>1. onPayment[v] # onPayment[w]
      BY <2>2, MakerAlone
    <3> QED BY <1>1, <2>2, <3>1 DEF Tables, Registers, Capturer
  <2> QED BY <2>1, <2>2
<1>4. ASSUME NEW u \in Worker, NEW v \in Worker PROVE Alone(p, u, v)'
  BY <1>1, PaymentsAssumption DEF Registers, Alone, Capturing
<1> QED BY <1>2, <1>3, <1>4 DEF Once

\* The only capturer marks the row, and nothing was published before.
LEMMA OnceMarkCaptured ==
  ASSUME Structure, CleanOnce, NEW p \in Payment, Clean(p)',
         NEW w \in Worker, MarkCaptured(w)
  PROVE  Once(p)'
<1>1. /\ Tables /\ Registers /\ Row(p) /\ Clean(p)
      /\ Counts(p)
      /\ \A v \in Worker : Capturer(p, v)
      /\ \A u, v \in Worker : Alone(p, u, v)
      /\ onPayment[w] \in Payment /\ Row(onPayment[w]) /\ Invocation(w)
  BY StructureTypes, Running
     DEF MarkCaptured, Proceed, Clean, CleanOnce, Once, Structure, history
<1> USE DEF MarkCaptured, Proceed, rows, razor, lambda, bus, history
<1>2. Counts(p)'
  BY <1>1, PaymentsAssumption DEF Tables, Counts, Capturer, Row, Invocation, Clean
<1>3. ASSUME NEW v \in Worker PROVE Capturer(p, v)'
  <2>1. CASE v = w
    <3>1. SUFFICES ASSUME onPayment[w] = p
                   PROVE  payStatus'[p] = "captured" /\ requests[p] = 0 /\ paidEvents[p] = 0
      BY <1>1, <2>1 DEF Registers, Capturer
    <3>2. payStatus[p] # "captured" /\ provider[p] = "razorpay"
      BY <1>1, <3>1 DEF Capturer, Structure, Notification, Invocation, Capturing, Event
    <3>3. requests[p] = 0 /\ paidEvents[p] = 0
      BY <1>1, <3>2 DEF Counts, Tables
    <3> QED BY <1>1, <3>1, <3>3 DEF Tables
  <2>2. CASE v # w
    BY <1>1, <2>2 DEF Tables, Registers, Capturer, Alone, Capturing, Clean, Counts
  <2> QED BY <2>1, <2>2
<1>4. ASSUME NEW u \in Worker, NEW v \in Worker PROVE Alone(p, u, v)'
  BY <1>1, PaymentsAssumption DEF Registers, Alone, Capturing
<1> QED BY <1>2, <1>3, <1>4 DEF Once

\* Settling publishes nothing.
LEMMA OnceSettleOrder ==
  ASSUME Structure, CleanOnce, NEW p \in Payment, Clean(p)',
         NEW w \in Worker, SettleOrder(w)
  PROVE  Once(p)'
<1>1. /\ Tables /\ Registers /\ Row(p) /\ Clean(p)
      /\ Counts(p)
      /\ \A v \in Worker : Capturer(p, v)
      /\ \A u, v \in Worker : Alone(p, u, v)
      /\ onPayment[w] \in Payment /\ Row(onPayment[w]) /\ Invocation(w)
  BY StructureTypes, Running
     DEF SettleOrder, Proceed, Clean, CleanOnce, Once, Structure, history
<1> USE DEF SettleOrder, Proceed, rows, razor, lambda, bus, history
<1>2. Counts(p)'
  BY <1>1, PaymentsAssumption DEF Tables, Counts, Capturer, Row, Invocation, Clean
<1>3. ASSUME NEW v \in Worker PROVE Capturer(p, v)'
  <2>1. CASE v = w
    BY <1>1, <2>1, PaymentsAssumption DEF Tables, Registers, Capturer, Counts, Clean
  <2>2. CASE v # w
    BY <1>1, <2>2 DEF Tables, Registers, Capturer, Alone, Capturing, Clean, Counts
  <2> QED BY <2>1, <2>2
<1>4. ASSUME NEW u \in Worker, NEW v \in Worker PROVE Alone(p, u, v)'
  BY <1>1, PaymentsAssumption DEF Registers, Alone, Capturing
<1> QED BY <1>2, <1>3, <1>4 DEF Once

\* The only capturer announces, for the first time.
LEMMA OnceAnnouncePaid ==
  ASSUME Structure, CleanOnce, NEW p \in Payment, Clean(p)',
         NEW w \in Worker, AnnouncePaid(w)
  PROVE  Once(p)'
<1>1. /\ Tables /\ Registers /\ Row(p) /\ Clean(p)
      /\ Counts(p)
      /\ \A v \in Worker : Capturer(p, v)
      /\ \A u, v \in Worker : Alone(p, u, v)
      /\ onPayment[w] \in Payment /\ Row(onPayment[w]) /\ Invocation(w)
  BY StructureTypes, Running
     DEF AnnouncePaid, Proceed, Clean, CleanOnce, Once, Structure, history
<1> USE DEF AnnouncePaid, Proceed, Publish, UseFault, rows, razor, lambda, bus, history
<1>2. Counts(p)'
  BY <1>1, PaymentsAssumption DEF Tables, Counts, Capturer, Row, Invocation, Clean
<1>3. ASSUME NEW v \in Worker PROVE Capturer(p, v)'
  <2>1. CASE v = w
    BY <1>1, <2>1, PaymentsAssumption DEF Tables, Registers, Capturer, Counts, Clean
  <2>2. CASE v # w
    BY <1>1, <2>2 DEF Tables, Registers, Capturer, Alone, Capturing, Clean, Counts
  <2> QED BY <2>1, <2>2
<1>4. ASSUME NEW u \in Worker, NEW v \in Worker PROVE Alone(p, u, v)'
  BY <1>1, PaymentsAssumption DEF Registers, Alone, Capturing
<1> QED BY <1>2, <1>3, <1>4 DEF Once

\* The only capturer requests the stock, for the first time.
LEMMA OnceRequestDecrement ==
  ASSUME Structure, CleanOnce, NEW p \in Payment, Clean(p)',
         NEW w \in Worker, RequestDecrement(w)
  PROVE  Once(p)'
<1>1. /\ Tables /\ Registers /\ Row(p) /\ Clean(p)
      /\ Counts(p)
      /\ \A v \in Worker : Capturer(p, v)
      /\ \A u, v \in Worker : Alone(p, u, v)
      /\ onPayment[w] \in Payment /\ Row(onPayment[w]) /\ Invocation(w)
  BY StructureTypes, Running
     DEF RequestDecrement, Finish, Clean, CleanOnce, Once, Structure, history
<1> USE DEF RequestDecrement, Finish, Publish, UseFault, rows, razor, lambda, bus, history
<1>2. Counts(p)'
  BY <1>1, PaymentsAssumption DEF Tables, Counts, Capturer, Row, Invocation, Clean
<1>3. ASSUME NEW v \in Worker PROVE Capturer(p, v)'
  <2>1. CASE v = w
    BY <1>1, <2>1, PaymentsAssumption DEF Tables, Registers, Capturer, Counts, Clean
  <2>2. CASE v # w
    BY <1>1, <2>2 DEF Tables, Registers, Capturer, Alone, Capturing, Clean, Counts
  <2> QED BY <2>1, <2>2
<1>4. ASSUME NEW u \in Worker, NEW v \in Worker PROVE Alone(p, u, v)'
  BY <1>1, PaymentsAssumption DEF Registers, Alone, Capturing
<1> QED BY <1>2, <1>3, <1>4 DEF Once

\* A captured payment that is written failed becomes regressed.
LEMMA OnceMarkFailed ==
  ASSUME Structure, CleanOnce, NEW p \in Payment, Clean(p)',
         NEW w \in Worker, MarkFailed(w)
  PROVE  Once(p)'
<1>1. /\ Tables /\ Registers /\ Row(p) /\ Clean(p)
      /\ Counts(p)
      /\ \A v \in Worker : Capturer(p, v)
      /\ \A u, v \in Worker : Alone(p, u, v)
      /\ onPayment[w] \in Payment /\ Row(onPayment[w]) /\ Invocation(w)
  BY StructureTypes, Running
     DEF MarkFailed, Finish, Clean, CleanOnce, Once, Structure, history
<1> USE DEF MarkFailed, Finish, rows, razor, lambda, bus, history
<1>2. Counts(p)'
  BY <1>1, PaymentsAssumption DEF Tables, Counts, Capturer, Row, Invocation, Clean
<1>3. ASSUME NEW v \in Worker PROVE Capturer(p, v)'
  <2>1. CASE v = w
    BY <1>1, <2>1, PaymentsAssumption DEF Tables, Registers, Capturer, Counts, Clean
  <2>2. CASE v # w
    BY <1>1, <2>2 DEF Tables, Registers, Capturer, Alone, Capturing, Clean, Counts
  <2> QED BY <2>1, <2>2
<1>4. ASSUME NEW u \in Worker, NEW v \in Worker PROVE Alone(p, u, v)'
  BY <1>1, PaymentsAssumption DEF Registers, Alone, Capturing
<1> QED BY <1>2, <1>3, <1>4 DEF Once

\* A capturer that dies leaves at most one of each event behind.
LEMMA OnceCrash ==
  ASSUME Structure, CleanOnce, NEW p \in Payment, Clean(p)',
         NEW w \in Worker, Crash(w)
  PROVE  Once(p)'
<1>1. /\ Tables /\ Registers /\ Row(p) /\ Clean(p)
      /\ Counts(p)
      /\ \A v \in Worker : Capturer(p, v)
      /\ \A u, v \in Worker : Alone(p, u, v)
      /\ onPayment[w] \in Payment /\ Row(onPayment[w]) /\ Invocation(w)
  BY StructureTypes, Running
     DEF Crash, Finish, Clean, CleanOnce, Once, Structure, history
<1> USE DEF Crash, Finish, UseFault, rows, razor, lambda, bus, history
<1>2. Counts(p)'
  BY <1>1, PaymentsAssumption DEF Tables, Counts, Capturer, Row, Invocation, Clean
<1>3. ASSUME NEW v \in Worker PROVE Capturer(p, v)'
  <2>1. CASE v = w
    BY <1>1, <2>1, PaymentsAssumption DEF Tables, Registers, Capturer, Counts, Clean
  <2>2. CASE v # w
    BY <1>1, <2>2 DEF Tables, Registers, Capturer, Alone, Capturing, Clean, Counts
  <2> QED BY <2>1, <2>2
<1>4. ASSUME NEW u \in Worker, NEW v \in Worker PROVE Alone(p, u, v)'
  BY <1>1, PaymentsAssumption DEF Registers, Alone, Capturing
<1> QED BY <1>2, <1>3, <1>4 DEF Once

\* Every step preserves it, and the history only grows.
LEMMA StepOnce ==
  ASSUME Structure, CleanOnce, [Next]_vars
  PROVE  CleanOnce'
<1> SUFFICES ASSUME NEW p \in Payment, Clean(p)' PROVE Once(p)'
  BY DEF CleanOnce
<1>1. CASE UNCHANGED vars
  BY <1>1 DEF CleanOnce, Clean, Once, Counts, Capturer, Alone, vars, rows, lambda,
              bus, history
<1>2. CASE Next
  BY <1>2, OnceCreatePaymentOrder, OncePayLater, OnceCaptureAtGateway,
     OnceFailAtGateway, OnceIgnoreWebhook, OnceAcceptCaptured, OnceAcceptFailed,
     OnceCreateOrderAtGateway, OnceInsertRazorpayPayment, OnceInsertPayLater,
     OnceRequestPayLater, OnceMarkCaptured, OnceSettleOrder, OnceAnnouncePaid,
     OnceRequestDecrement, OnceMarkFailed, OnceCrash
     DEF Next, ReceiveWebhook, Continue
<1> QED BY <1>1, <1>2

\* At first nothing is published and nobody captures.
LEMMA InitOnce == Init => CleanOnce
BY DEF Init, CleanOnce, Once, Counts, Capturer, Alone, Capturing

\* The status check makes a payment announce its order and request its stock at
\* most once, unless two invocations passed it together or a late
\* payment.failed undid it.
THEOREM RepeatNeedsRaceOrRegressHolds == Spec => []RepeatNeedsRaceOrRegress
<1>1. CleanOnce => RepeatNeedsRaceOrRegress
  BY DEF CleanOnce, Once, Counts, RepeatNeedsRaceOrRegress
<1> QED BY <1>1, InitOnce, StructureInvariant, StepOnce, PTL DEF Spec

-----------------------------------------------------------------------------
(* The ledger *)

\* Nothing has happened that the status check does not protect against.
Undisturbed == raced \union regressed = {}

\* The initial states map to the ledger's.
LEMMA InitLedger == Init => Ledger!LInit
BY DEF Init, Ledger!LInit

\* A payment enters the ledger with its row.
LEMMA InsertRowPays ==
  ASSUME Structure, NEW w \in Worker, NEW kind, InsertRow(w, kind),
         pc[w] \in {"insert", "commit"},
         UNCHANGED <<orderStatus, paidEvents, requests>>
  PROVE  Ledger!LNext
<1> DEFINE p == onPayment[w]
<1>1. /\ onOrder[w] \in Order /\ p \in Payment /\ Row(p) /\ Invocation(w)
  BY Running
<1>2. payOrder[p] = None
  BY <1>1 DEF Row, Invocation
<1>3. Ledger!Pay(p, onOrder[w])
  BY <1>2 DEF InsertRow, Ledger!Pay
<1> QED BY <1>1, <1>3 DEF Ledger!LNext

\* The order that handleWebhook settles is its payment's.
LEMMA SettleOrderSettles ==
  ASSUME Structure, NEW w \in Worker, SettleOrder(w)
  PROVE  Ledger!LNext
<1> DEFINE p == onPayment[w]
<1>1. /\ onOrder[w] \in Order /\ p \in Payment /\ Invocation(w)
      /\ Tables
  BY Running, StructureTypes DEF SettleOrder, Proceed
<1>2. payOrder[p] = onOrder[w] /\ payOrder[p] # None
  BY <1>1, PaymentsAssumption DEF SettleOrder, Proceed, Invocation, Capturing
<1>3. {o \in Order : orderStatus'[o] = "paid"}
        = {o \in Order : orderStatus[o] = "paid"} \union {payOrder[p]}
  BY <1>1, <1>2 DEF SettleOrder, Tables
<1>4. Ledger!Settle(p)
  BY <1>2, <1>3 DEF SettleOrder, rows, bus, Ledger!Settle
<1> QED BY <1>1, <1>4 DEF Ledger!LNext, Ledger!Settle

\* OrderPaid is announced once, for an order that is settled.
LEMMA AnnouncePaidAnnounces ==
  ASSUME Structure, SettledFirst, CleanOnce, Undisturbed,
         NEW w \in Worker, AnnouncePaid(w)
  PROVE  Ledger!LNext \/ UNCHANGED <<payOrder, orderStatus, paidEvents, requests>>
<1> DEFINE p == onPayment[w]
<1>1. /\ onOrder[w] \in Order /\ p \in Payment /\ Invocation(w)
      /\ pc[w] = "announce"
  BY Running DEF AnnouncePaid, Proceed
<1>2. payOrder[p] \in {o \in Order : orderStatus[o] = "paid"}
  BY <1>1 DEF Invocation, Capturing, SettledFirst
<1>3. paidEvents[p] = 0
  BY <1>1 DEF Undisturbed, Clean, CleanOnce, Once, Capturer
<1>4. CASE paidEvents' = [paidEvents EXCEPT ![p] = @ + 1]
  <2>1. paidEvents' = [paidEvents EXCEPT ![p] = 1]
    BY <1>3, <1>4
  <2>2. Ledger!Announce(p)
    BY <1>2, <1>3, <2>1 DEF AnnouncePaid, rows, Ledger!Announce
  <2> QED BY <1>1, <2>2 DEF Ledger!LNext
<1>5. CASE UNCHANGED paidEvents
  BY <1>5 DEF AnnouncePaid, rows
<1> QED BY <1>4, <1>5 DEF AnnouncePaid, Publish

\* Stock is requested once per payment, paid now or later.
LEMMA PublishRequests ==
  ASSUME Structure, CleanOnce, Undisturbed, NEW w \in Worker,
         pc[w] \in {"collect", "request"}, Publish(requests, onPayment[w]),
         UNCHANGED <<payOrder, orderStatus, paidEvents>>
  PROVE  Ledger!LNext \/ UNCHANGED <<payOrder, orderStatus, paidEvents, requests>>
<1> DEFINE p == onPayment[w]
<1>1. p \in Payment /\ onOrder[w] \in Order /\ Invocation(w) /\ Row(p)
  BY Running
<1>2. payOrder[p] # None
  BY <1>1, PaymentsAssumption DEF Invocation, Capturing, Row
<1>3. requests[p] = 0
  BY <1>1 DEF Invocation, Undisturbed, Clean, CleanOnce, Once, Capturer
<1>4. CASE requests' = [requests EXCEPT ![p] = @ + 1]
  <2>1. requests' = [requests EXCEPT ![p] = 1]
    BY <1>3, <1>4
  <2>2. Ledger!Request(p)
    BY <1>2, <1>3, <2>1 DEF Ledger!Request
  <2> QED BY <1>1, <2>2 DEF Ledger!LNext
<1>5. CASE UNCHANGED requests
  BY <1>5
<1> QED BY <1>4, <1>5 DEF Publish

\* Every other statement leaves the ledger alone.
LEMMA StepLedger ==
  ASSUME Structure, SettledFirst, CleanOnce, Undisturbed, [Next]_vars
  PROVE  [Ledger!LNext]_<<payOrder, {o \in Order : orderStatus[o] = "paid"},
                          paidEvents, requests>>
<1> USE DEF rows, razor, lambda, bus, history
<1>0. ASSUME UNCHANGED <<payOrder, orderStatus, paidEvents, requests>>
      PROVE  [Ledger!LNext]_<<payOrder, {o \in Order : orderStatus[o] = "paid"},
                              paidEvents, requests>>
  BY <1>0
<1>1. ASSUME NEW w \in Worker, Continue(w)
      PROVE  Ledger!LNext \/ UNCHANGED <<payOrder, orderStatus, paidEvents, requests>>
  <2>1. CASE InsertRazorpayPayment(w) \/ InsertPayLater(w)
    BY <2>1, InsertRowPays
       DEF InsertRazorpayPayment, InsertPayLater, Finish, Proceed
  <2>2. CASE SettleOrder(w)
    BY <2>2, SettleOrderSettles
  <2>3. CASE AnnouncePaid(w)
    BY <2>3, AnnouncePaidAnnounces
  <2>4. CASE RequestDecrement(w) \/ RequestPayLater(w)
    BY <2>4, PublishRequests DEF RequestDecrement, RequestPayLater, Finish
  <2>5. CASE CreateOrderAtGateway(w) \/ MarkCaptured(w) \/ MarkFailed(w)
    BY <2>5 DEF CreateOrderAtGateway, MarkCaptured, MarkFailed
  <2> QED BY <1>1, <2>1, <2>2, <2>3, <2>4, <2>5 DEF Continue
<1>2. ASSUME NEW w \in Worker, Crash(w)
      PROVE  UNCHANGED <<payOrder, orderStatus, paidEvents, requests>>
  BY <1>2 DEF Crash
<1>3. ASSUME NEW w \in Worker, NEW p \in Payment, ReceiveWebhook(w, p)
      PROVE  UNCHANGED <<payOrder, orderStatus, paidEvents, requests>>
  BY <1>3 DEF ReceiveWebhook, IgnoreWebhook, AcceptCaptured, AcceptFailed
<1>4. ASSUME NEW p \in Payment, CaptureAtGateway(p) \/ FailAtGateway(p)
      PROVE  UNCHANGED <<payOrder, orderStatus, paidEvents, requests>>
  BY <1>4 DEF CaptureAtGateway, FailAtGateway
<1>5. ASSUME NEW w \in Worker, NEW o \in Order, NEW p \in Payment,
             CreatePaymentOrder(w, o, p) \/ PayLater(w, o, p)
      PROVE  UNCHANGED <<payOrder, orderStatus, paidEvents, requests>>
  BY <1>5 DEF CreatePaymentOrder, PayLater
<1>6. CASE UNCHANGED vars
  BY <1>6 DEF vars
<1> QED BY <1>0, <1>1, <1>2, <1>3, <1>4, <1>5, <1>6 DEF Next

\* Any number of invocations keep the ledger as long as no two capture one
\* payment together and no payment.failed comes after a capture.
THEOREM UndisturbedLedger == Spec /\ []Undisturbed => LedgerSpec
<1>1. Init => SettledFirst
  BY DEF Init, SettledFirst
<1> QED BY <1>1, InitLedger, InitOnce, StepSettled, StepOnce, StepLedger,
           StructureInvariant, PTL
        DEF Spec, LedgerSpec, Ledger!LSpec

\* With one invocation at a time and notifications in order, an invocation that
\* writes a payment failed does not find it captured.
Serial ==
  /\ Undisturbed
  /\ \A p \in Payment : payStatus[p] = "captured" => gateway[p] = "captured"
  /\ \A w \in Worker : pc[w] = "fail" => payStatus[onPayment[w]] # "captured"

\* Every step of the one invocation keeps it so.
LEMMA StepSerial ==
  ASSUME OrderedDelivery, \A v, w \in Worker : v = w,
         Structure, Serial, [Next]_vars
  PROVE  Serial'
<1> USE DEF rows, razor, lambda, bus, history
<1>1. Tables /\ Registers
  BY StructureTypes
<1>2. ASSUME NEW w \in Worker, MarkCaptured(w)
      PROVE  Serial'
  <2>1. gateway[onPayment[w]] = "captured"
    BY <1>2, Running
       DEF MarkCaptured, Proceed, Invocation, Notification, Capturing, Event
  <2> QED BY <1>1, <1>2, <2>1
          DEF MarkCaptured, Proceed, Serial, Undisturbed, Tables, Registers
<1>3. ASSUME NEW w \in Worker, MarkFailed(w)
      PROVE  Serial'
  <2>1. payStatus[onPayment[w]] # "captured"
    BY <1>3 DEF MarkFailed, Finish, Serial
  <2> QED BY <1>1, <1>3, <2>1
          DEF MarkFailed, Finish, Serial, Undisturbed, Tables, Registers
<1>4. ASSUME NEW w \in Worker, InsertRazorpayPayment(w) \/ InsertPayLater(w)
      PROVE  Serial'
  BY <1>1, <1>4 DEF InsertRazorpayPayment, InsertPayLater, InsertRow, Proceed,
     Finish, Serial, Undisturbed, Tables, Registers
<1>5. ASSUME NEW w \in Worker,
             \/ CreateOrderAtGateway(w) \/ RequestPayLater(w) \/ SettleOrder(w)
             \/ AnnouncePaid(w) \/ RequestDecrement(w) \/ Crash(w)
      PROVE  Serial'
  <2>1. CASE CreateOrderAtGateway(w)
    <3>1. payStatus[onPayment[w]] # "captured"
      BY <2>1, Running DEF CreateOrderAtGateway, Proceed, Invocation, Row
    <3> QED BY <1>1, <2>1, <3>1
            DEF CreateOrderAtGateway, Proceed, Serial, Undisturbed, Tables, Registers
  <2>2. CASE RequestPayLater(w) \/ RequestDecrement(w) \/ Crash(w)
    BY <1>1, <2>2 DEF RequestPayLater, RequestDecrement, Crash, Finish, Serial,
                      Undisturbed, Registers
  <2>3. CASE SettleOrder(w) \/ AnnouncePaid(w)
    BY <1>1, <2>3 DEF SettleOrder, AnnouncePaid, Proceed, Serial, Undisturbed,
                      Registers
  <2> QED BY <1>5, <2>1, <2>2, <2>3
<1>6. ASSUME NEW w \in Worker, NEW p \in Payment, AcceptCaptured(w, p)
      PROVE  Serial'
  <2>1. \A v \in Worker : pc[v] = "idle"
    BY <1>6 DEF AcceptCaptured, Start
  <2>2. ~ \E v \in Worker : Handling(v, <<p, "captured">>)
    BY <2>1 DEF Handling, Capturing
  <2> QED BY <1>1, <1>6, <2>2
          DEF AcceptCaptured, Start, Serial, Undisturbed, Registers
<1>7. ASSUME NEW w \in Worker, NEW p \in Payment, AcceptFailed(w, p)
      PROVE  Serial'
  <2>1. payStatus[p] # "captured"
    BY <1>7 DEF AcceptFailed, Deliver, Serial
  <2> QED BY <1>1, <1>7, <2>1
          DEF AcceptFailed, Start, Serial, Undisturbed, Registers
<1>8. ASSUME NEW w \in Worker, NEW p \in Payment, NEW e \in Event,
             IgnoreWebhook(w, p, e)
      PROVE  Serial'
  BY <1>8 DEF IgnoreWebhook, Serial, Undisturbed
<1>9. ASSUME NEW p \in Payment, CaptureAtGateway(p) \/ FailAtGateway(p)
      PROVE  Serial'
  BY <1>1, <1>9 DEF CaptureAtGateway, FailAtGateway, Serial, Undisturbed, Tables
<1>10. ASSUME NEW w \in Worker, NEW o \in Order, NEW p \in Payment,
              CreatePaymentOrder(w, o, p) \/ PayLater(w, o, p)
       PROVE  Serial'
  BY <1>1, <1>10 DEF CreatePaymentOrder, PayLater, Start, Serial, Undisturbed,
                     Registers
<1>11. CASE UNCHANGED vars
  BY <1>11 DEF vars, Serial, Undisturbed
<1> QED BY <1>2, <1>3, <1>4, <1>5, <1>6, <1>7, <1>8, <1>9, <1>10, <1>11
        DEF Next, Continue, ReceiveWebhook

\* One invocation at a time keeps the promise of SPEC-06 when notifications
\* arrive in order, whatever crashes and however often Razorpay repeats them.
THEOREM SerialLedger ==
  ASSUME OrderedDelivery, \A v, w \in Worker : v = w
  PROVE  Spec => LedgerSpec
<1>1. Init => Serial
  BY DEF Init, Serial, Undisturbed
<1>2. Serial => Undisturbed
  BY DEF Serial
<1>3. Structure /\ Serial /\ [Next]_vars => Serial'
  BY StepSerial
<1> QED BY <1>1, <1>2, <1>3, StructureInvariant, UndisturbedLedger, PTL DEF Spec

=============================================================================

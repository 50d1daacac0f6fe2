------------------------------- MODULE Admin -------------------------------
(***************************************************************************)
(* The store orders of apps/medusa's admin: the list of commerce.orders    *)
(* with its form for walk-in sales, and the page of one order. Both ask    *)
(* again when something changed, and neither takes back a request that is  *)
(* under way.                                                              *)
(***************************************************************************)
EXTENDS Integers, FiniteSets, SequencesExt

CONSTANTS
  OpeningOrders,  \* commerce.orders: sequence of [status, channel], oldest first
  Filter,         \* what the list can be filtered by: [status, channel], or ""
  AllOrders,
  StoreChannel, ShopBook,
  PickStatus,     \* statuses the administrator picks
  ListPageSize,
  NotShown,
  MaxLoads, MaxSales, MaxPicked, MaxRefusals, MaxActs  \* bounds

OrderStatus == {"draft", "pending_payment", "paid", "packed", "shipped", "delivered",
                "completed", "cancelled", "refunded", "returned"}
OrderChannel == {"online"} \union StoreChannel

ASSUME AdminAssumption ==
  /\ OpeningOrders \in Seq([status : OrderStatus, channel : OrderChannel])
  /\ OpeningOrders # <<>>
  /\ PickStatus \subseteq OrderStatus
  /\ AllOrders = [status |-> "", channel |-> ""] /\ AllOrders \in Filter
  /\ ListPageSize \in Nat \ {0}
  /\ MaxLoads \in Nat /\ MaxSales \in Nat /\ MaxPicked \in Nat
  /\ MaxRefusals \in Nat /\ MaxActs \in Nat

VARIABLES
  table,        \* commerce.orders and the number of their shipments
  orderList,    \* CommerceOrdersPage's state
  loads,        \* GETs of the list under way
  saleForm,     \* LogWalkInSaleForm's state, of the form opened last
  sales,        \* POSTs of walk-in sales under way
  refusals,     \* history: answers a form got that were no success
  detail,       \* CommerceOrderDetailPage's state, for the first order
  reloads,      \* GETs of that order under way
  act,          \* updateStatus or addShipment, at most one under way
  overlap,      \* history: did GETs of the list overlap, now or once
  detailHistory

orderListVars == <<orderList, loads, saleForm, sales, refusals, overlap>>
detailVars == <<detail, reloads, act, detailHistory>>
adminVars == <<table, orderListVars, detailVars>>

-----------------------------------------------------------------------------
(* commerce-orders.repository *)

Among(orders, filter) ==
  {i \in DOMAIN orders : /\ filter.status \in {"", orders[i].status}
                         /\ filter.channel \in {"", orders[i].channel}}
Matching(filter) == Among(table, filter)

\* The newest orders first; the table is in the order of created_at.
NewestFirst(orders, offset) ==
  LET newest == SetToSortSeq(orders, LAMBDA i, j : i > j) IN
  SubSeq(newest, offset + 1, Min({offset + ListPageSize, Len(newest)}))
ListOrders(filter, offset) == NewestFirst(Matching(filter), offset)

\* createStoreOrder: a sale in a store is completed at once.
CreateStoreSale(sale) ==
  table' = Append(table, [status |-> "completed", channel |-> sale.channel,
                          shipments |-> 0, form |-> sale.form])

-----------------------------------------------------------------------------
(* CommerceOrdersPage *)

\* The effect on [offset, status, channel, q, refreshKey]: another GET.
Load(page) ==
  /\ orderList' = [page EXCEPT !.loading = TRUE, !.error = FALSE, !.loaded = @ + 1]
  /\ loads' = loads \union {[n |-> orderList.loaded, step |-> "asked", filter |-> page.filter,
                             offset |-> page.offset, count |-> 0, rows |-> <<>>]}
  /\ overlap' = IF loads # {} THEN "now" ELSE IF overlap = "now" THEN "once" ELSE overlap

NoForm == [n |-> 0, items |-> [b \in {} |-> 0], pending |-> FALSE]

\* The list as it is opened, its first GET under way.
OrderListInit ==
  /\ orderList = [filter |-> AllOrders, offset |-> 0, rows |-> <<>>, count |-> 0,
                  loading |-> TRUE, error |-> FALSE, showForm |-> FALSE, loaded |-> 1]
  /\ loads = {[n |-> 0, step |-> "asked", filter |-> AllOrders, offset |-> 0,
               count |-> 0, rows |-> <<>>]}
  /\ saleForm = NoForm /\ sales = {} /\ refusals = [f \in 1..MaxSales |-> 0]
  /\ overlap = "never"

\* Mutant: the page number of the old filter is kept.
FilterKeepingOffset(filter) ==
  /\ orderList.loaded < MaxLoads
  /\ filter # orderList.filter
  /\ Load([orderList EXCEPT !.filter = filter])
  /\ UNCHANGED <<saleForm, sales, refusals>>

\* A select, or the search field, changes: back to the first page.
ChangeFilter(filter) ==
  /\ orderList.loaded < MaxLoads
  /\ filter # orderList.filter
  /\ Load([orderList EXCEPT !.filter = filter, !.offset = 0])
  /\ UNCHANGED <<saleForm, sales, refusals>>

\* Previous and Next stand under the table, with the count of the last answer.
Turn(offset) ==
  /\ orderList.loaded < MaxLoads
  /\ ~orderList.loading /\ ~orderList.error
  /\ \/ offset = orderList.offset - ListPageSize /\ offset >= 0
     \/ offset = orderList.offset + ListPageSize /\ offset < orderList.count
  /\ Load([orderList EXCEPT !.offset = offset])
  /\ UNCHANGED <<saleForm, sales, refusals>>

\* GET: listOrders counts and then reads, on two snapshots; a sale that comes
\* between makes the list load again.
ReadOrders ==
  /\ \E get \in loads :
       /\ get.step = "asked"
       /\ loads' = (loads \ {get})
            \union {[get EXCEPT !.step = "read", !.rows = ListOrders(get.filter, get.offset),
                                !.count = Cardinality(Matching(get.filter))]}
  /\ UNCHANGED <<orderList, saleForm, sales, refusals, overlap>>

\* An answer is shown whatever the page asks for by then.
ShowOrders ==
  /\ \E get \in loads :
       /\ loads' = loads \ {get}
       /\ \/ /\ get.step = "read"
             /\ orderList' = [orderList EXCEPT !.rows = get.rows, !.count = get.count,
                                               !.loading = FALSE]
          \/ /\ get.step = "asked"
             /\ orderList' = [orderList EXCEPT !.error = TRUE, !.loading = FALSE]
  /\ UNCHANGED <<saleForm, sales, refusals, overlap>>

-----------------------------------------------------------------------------
(* LogWalkInSaleForm *)

\* The button above the list: a new form, or Cancel.
ToggleForm ==
  /\ IF orderList.showForm
     THEN saleForm' = saleForm
     ELSE saleForm.n < MaxSales /\ saleForm' = [NoForm EXCEPT !.n = saleForm.n + 1]
  /\ orderList' = [orderList EXCEPT !.showForm = ~@]
  /\ UNCHANGED <<loads, sales, refusals, overlap>>

PickedCount ==
  LET picked == DOMAIN saleForm.items IN
  FoldFunctionOnSet(+, 0, saleForm.items, picked)

\* addItem, of a book the search has found: one more if it is there already.
AddItem(b) ==
  /\ orderList.showForm
  /\ PickedCount < MaxPicked
  /\ LET items == saleForm.items
         quantity == IF b \in DOMAIN items THEN items[b] + 1 ELSE 1 IN
     saleForm' = [saleForm EXCEPT !.items = [c \in DOMAIN items \union {b} |->
                    IF c = b THEN quantity ELSE items[c]]]
  /\ UNCHANGED <<orderList, loads, sales, refusals, overlap>>

RemovePicked(b) ==
  /\ orderList.showForm /\ b \in DOMAIN saleForm.items
  /\ saleForm' = [saleForm EXCEPT !.items = [c \in DOMAIN @ \ {b} |-> @[c]]]
  /\ UNCHANGED <<orderList, loads, sales, refusals, overlap>>

\* A form without books is not sent.
SendSale(channel) ==
  /\ saleForm.items # NoForm.items
  /\ saleForm' = [saleForm EXCEPT !.pending = TRUE]
  /\ sales' = sales \union {[form |-> saleForm.n, channel |-> channel,
                             items |-> saleForm.items, step |-> "sent"]}
  /\ UNCHANGED <<orderList, loads, refusals, overlap>>

\* Mutant: the button is not disabled while the sale is being saved.
LogSaleAgain(channel) == orderList.showForm /\ SendSale(channel)

\* submit: the button is disabled while a sale of this form is being saved.
LogSale(channel) == orderList.showForm /\ ~saleForm.pending /\ SendSale(channel)

RecordSale ==
  /\ \E sale \in sales :
       /\ CreateStoreSale(sale)
       /\ \/ /\ sale.step = "sent"
             /\ sales' = (sales \ {sale}) \union {[sale EXCEPT !.step = "recorded"]}
          \/ /\ sale.step = "unheard"
             /\ sales' = sales \ {sale}
  /\ UNCHANGED <<orderList, loads, saleForm, refusals, overlap>>

\* The answer is a success: onDone hides the form that is open, whichever it is,
\* and refreshKey makes the list load.
SaleDone ==
  /\ orderList.loaded < MaxLoads
  /\ \E sale \in sales :
       /\ sale.step = "recorded"
       /\ sales' = sales \ {sale}
       /\ Load([orderList EXCEPT !.showForm = FALSE])
  /\ UNCHANGED <<saleForm, refusals, table>>

\* The sale was not recorded, or it was and the stock request could not be
\* published, or the form stopped waiting: it shows an error, if it is there.
SaleRefused ==
  /\ \E sale \in sales :
       /\ sale.step # "unheard" /\ refusals[sale.form] < MaxRefusals
       /\ \/ sales' = sales \ {sale}
          \/ /\ sale.step = "sent"
             /\ sales' = (sales \ {sale}) \union {[sale EXCEPT !.step = "unheard"]}
       /\ refusals' = [refusals EXCEPT ![sale.form] = @ + 1]
       /\ saleForm' = IF sale.form = saleForm.n
                      THEN [saleForm EXCEPT !.pending = FALSE] ELSE saleForm
  /\ UNCHANGED <<orderList, loads, overlap>>

-----------------------------------------------------------------------------
(* CommerceOrderDetailPage *)

GET(n) == [n |-> n, step |-> "asked", status |-> "", shipments |-> 0]

DetailInit ==
  /\ detail = [order |-> NotShown, choice |-> "", pending |-> FALSE, error |-> FALSE,
               picked |-> FALSE, acts |-> 0]
  /\ reloads = {GET(0)}
  /\ act = {}
  /\ detailHistory = [overlap |-> FALSE, others |-> FALSE, failed |-> FALSE]

\* reload, with whatever else the handler does to the page.
Reload(page) ==
  /\ detail' = [page EXCEPT !.error = FALSE]
  /\ reloads' = reloads \union {GET(detail.acts)}
  /\ detailHistory' = [overlap |-> reloads # {}, others |-> FALSE, failed |-> FALSE]

\* getOrderDetail reads the order, then what belongs to it.
ReadOrder ==
  /\ \E get \in reloads :
       /\ get.step = "asked"
       /\ reloads' = (reloads \ {get})
            \union {[get EXCEPT !.step = "order", !.status = table[1].status]}
  /\ UNCHANGED <<table, detail, act, detailHistory>>

ReadShipments ==
  /\ \E get \in reloads :
       /\ get.step = "order"
       /\ reloads' = (reloads \ {get})
            \union {[get EXCEPT !.step = "read", !.shipments = table[1].shipments]}
  /\ UNCHANGED <<table, detail, act, detailHistory>>

\* The answer also resets the select to the order's status.
ShowOrder ==
  /\ \E get \in reloads :
       /\ get.step = "read" /\ reloads' = reloads \ {get}
       /\ detail' = [detail EXCEPT !.choice = get.status, !.picked = FALSE,
                       !.order = [status |-> get.status, shipments |-> get.shipments]]
  /\ UNCHANGED <<table, act, detailHistory>>

ReloadFails ==
  /\ \E get \in reloads : get.step = "asked" /\ reloads' = reloads \ {get}
  /\ detail' = [detail EXCEPT !.error = TRUE]
  /\ detailHistory' = [detailHistory EXCEPT !.failed = TRUE]
  /\ UNCHANGED <<table, act>>

\* The select.
Pick(status) ==
  /\ detail.order # NotShown /\ status # detail.choice
  /\ detail' = [detail EXCEPT !.choice = status, !.picked = TRUE]
  /\ UNCHANGED <<table, reloads, act, detailHistory>>

\* updateStatus and addShipment: the buttons are disabled while one is pending,
\* that of the status also when the order has it already.
Press(kind) ==
  /\ detail.order # NotShown /\ ~detail.pending /\ detail.acts < MaxActs
  /\ kind = "status" => detail.choice # detail.order.status
  /\ detail' = [detail EXCEPT !.pending = TRUE, !.error = FALSE, !.acts = @ + 1]
  /\ act' = {[kind |-> kind, status |-> detail.choice, done |-> FALSE,
              picked |-> detail.picked]}
  /\ UNCHANGED <<table, reloads, detailHistory>>

\* updateOrderStatus, or createShipment, which ships the order with it.
WriteOrder ==
  /\ \E a \in act :
       /\ ~a.done
       /\ act' = {[a EXCEPT !.done = TRUE]}
       /\ table' = [table EXCEPT ![1] =
            IF a.kind = "status" THEN [table[1] EXCEPT !.status = a.status]
            ELSE [table[1] EXCEPT !.status = "shipped", !.shipments = @ + 1]]
  /\ UNCHANGED <<detail, reloads, detailHistory>>

ActDone ==
  /\ \E a \in act : a.done /\ act' = {}
  /\ Reload([detail EXCEPT !.pending = FALSE])
  /\ UNCHANGED table

\* An error is shown; what was written stays.
ActFails ==
  /\ act # {} /\ act' = {}
  /\ detail' = [detail EXCEPT !.pending = FALSE, !.error = TRUE]
  /\ detailHistory' = [detailHistory EXCEPT !.failed = TRUE]
  /\ UNCHANGED <<table, reloads>>

\* The webhook, or another administrator, moves the order on.
OthersMove ==
  /\ table[1].status = "pending_payment"
  /\ table' = [table EXCEPT ![1].status = "paid"]
  /\ detailHistory' = [detailHistory EXCEPT !.others = TRUE]
  /\ UNCHANGED <<detail, reloads, act>>

-----------------------------------------------------------------------------

AdminInit ==
  /\ table = [i \in DOMAIN OpeningOrders |->
               [status |-> OpeningOrders[i].status, channel |-> OpeningOrders[i].channel,
                shipments |-> 0, form |-> 0]]
  /\ OrderListInit /\ DetailInit

Listing ==
  \/ \E filter \in Filter : ChangeFilter(filter)
  \/ \E turn \in {-1, 1} : Turn(orderList.offset + turn * ListPageSize)
  \/ ReadOrders \/ ShowOrders
  \/ ToggleForm
  \/ \E b \in ShopBook : AddItem(b) \/ RemovePicked(b)
  \/ \E channel \in StoreChannel : LogSale(channel)
  \/ SaleRefused

OrderListNext ==
  \/ Listing /\ UNCHANGED table
  \/ RecordSale \/ SaleDone

DetailNext ==
  \/ ReadOrder \/ ReadShipments \/ ShowOrder \/ ReloadFails
  \/ \E status \in PickStatus : Pick(status)
  \/ \E kind \in {"status", "shipment"} : Press(kind)
  \/ WriteOrder \/ ActDone \/ ActFails \/ OthersMove

OrderListStep == OrderListNext /\ UNCHANGED detailVars
DetailStep == DetailNext /\ UNCHANGED orderListVars

\* Each page for itself, and both open at once.
OrderListSpec == AdminInit /\ [][OrderListStep]_adminVars
DetailSpec == AdminInit /\ [][DetailStep]_adminVars
AdminSpec == AdminInit /\ [][OrderListStep \/ DetailStep]_adminVars

-----------------------------------------------------------------------------
(* Properties *)

Logged(f) == {i \in DOMAIN table : table[i].form = f}

\* A walk-in sale is logged once, though its form can be cancelled and opened
\* again while it is being saved: more orders than one come of a form only after
\* answers that were no success, and a form that was done has its order. Fewer
\* would lose a sale of the till, more would take its stock again.
SaleIsLoggedOnce ==
  \A f \in DOMAIN refusals :
    /\ Cardinality(Logged(f)) <= 1 + refusals[f]
    /\ f = saleForm.n /\ ~orderList.showForm /\ saleForm.pending /\ refusals[f] = 0
         => \/ Logged(f) # {}
            \/ \E sale \in sales : sale.form = f

ListAtRest ==
  /\ loads = {} /\ sales = {} /\ ~orderList.error /\ overlap # "now"
  /\ \A f \in DOMAIN refusals : refusals[f] = 0

DetailAtRest ==
  /\ detail.order # NotShown /\ reloads = {} /\ act = {}
  /\ detailHistory = [overlap |-> FALSE, others |-> FALSE, failed |-> FALSE]

\* A page of the administration that has come to rest shows the orders as they
\* are, unless its requests overlapped or failed or others changed an order: the
\* list those of its filter and page, the sale just logged among them, and a page
\* there is; an order's page the order after its own changes. And the status that
\* is written is what the administrator picked since that page last told him.
PagesShowTheOrders ==
  /\ ListAtRest =>
       /\ orderList.rows = ListOrders(orderList.filter, orderList.offset)
       /\ orderList.count = Cardinality(Matching(orderList.filter))
  /\ overlap = "never" /\ orderList.offset > 0
       => orderList.offset < Cardinality(Matching(orderList.filter))
  /\ DetailAtRest =>
       detail.order = [status |-> table[1].status, shipments |-> table[1].shipments]
  /\ \A a \in act : a.kind = "status" => a.picked
=============================================================================

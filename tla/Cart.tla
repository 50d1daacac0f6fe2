-------------------------------- MODULE Cart --------------------------------
(***************************************************************************)
(* Carts, their conversion into orders at checkout, and their hand-over to *)
(* a customer at registration: cart.service.ts, checkout.service.ts,       *)
(* customers.service.ts and the order list of orders.service.ts in         *)
(* apps/api-commerce/src.                                                  *)
(*                                                                         *)
(* A request is a Lambda invocation that finds the visitor's cart with one *)
(* statement and works on it with later ones; only the end of a checkout   *)
(* runs in a transaction. A visitor may have several requests under way    *)
(* (two tabs, a double click, a retry), and the registration's event is    *)
(* delivered by EventBridge whenever and as often as it likes.             *)
(***************************************************************************)
EXTENDS Naturals, FiniteSets

CONSTANTS
  Visitor,        \* X-Anonymous-Id values; a browser keeps its own for good
  User,           \* registered users
  Book,           \* published books with an inventory row
  Carts, Orders,  \* identities for rows (bound their number)
  Worker,         \* concurrent Lambda invocations
  None,
  MaxQuantity,    \* bound: copies of a book in a cart
  MaxDeliveries   \* bound: deliveries of the event of one registration

ASSUME CartAssumption ==
  /\ None \notin Visitor \union User \union Carts \union Orders
  /\ MaxQuantity \in Nat \ {0}
  /\ MaxDeliveries \in Nat

VARIABLES
  anonymousId, customerId, status,  \* commerce.cart
  lines,        \* commerce.cart_items: copies of each book, 0 for no row
  orderCart, orderLines,            \* commerce.orders and order_items
  pc,           \* the next statement of each invocation
  visitor,      \* whose request it is
  cart,         \* the cart its first statements found
  snapshot,     \* the items a checkout has read
  registered,   \* the visitor a registered user was
  deliveries,   \* deliveries of the registration's event
  reassigned,   \* history: carts those deliveries reassigned, per user
  placedBy,     \* history: the visitor whose checkout placed an order
  overlapped,   \* history: carts that two checkouts had found at once
  edited,       \* history: carts written behind a checkout's back
  handedOver    \* history: carts reassigned during a checkout

cartRows  == <<anonymousId, customerId, status, lines>>
orderRows == <<orderCart, orderLines, placedBy>>
request   == <<pc, visitor, cart, snapshot>>
merging   == <<registered, deliveries, reassigned>>
history   == <<overlapped, edited, handedOver>>
vars      == <<cartRows, orderRows, request, merging, history>>

Quantity == 0..MaxQuantity
Lines == [Book -> Quantity]
NoLines == [b \in Book |-> 0]

\* The constraints of migration 20260401000001: cart_owner_check and the two
\* partial unique indexes.
OneOwner(c) == (anonymousId[c] # None) # (customerId[c] # None)

OneActive(owner) ==
  \A c, d \in Carts :
    status[c] = "active" /\ status[d] = "active" /\ owner[c] # None
      /\ owner[c] = owner[d] => c = d

TypeOK ==
  /\ anonymousId \in [Carts -> Visitor \union {None}]
  /\ customerId \in [Carts -> User \union {None}]
  /\ status \in [Carts -> {"none", "active", "converted"}]
  /\ lines \in [Carts -> Lines]
  /\ orderCart \in [Orders -> Carts \union {None}]
  /\ orderLines \in [Orders -> Lines]
  /\ pc \in [Worker -> {"idle", "create", "edit", "read", "place"}]
  /\ visitor \in [Worker -> Visitor \union {None}]
  /\ cart \in [Worker -> Carts \union {None}]
  /\ snapshot \in [Worker -> Lines]
  /\ registered \in [User -> Visitor \union {None}]
  /\ deliveries \in [User -> 0..MaxDeliveries]
  /\ reassigned \in [User -> 0..MaxDeliveries]
  /\ placedBy \in [Orders -> Visitor \union {None}]
  /\ overlapped \subseteq Carts /\ edited \subseteq Carts
  /\ handedOver \subseteq Carts

Init ==
  /\ anonymousId = [c \in Carts |-> None]
  /\ customerId = [c \in Carts |-> None]
  /\ status = [c \in Carts |-> "none"]
  /\ lines = [c \in Carts |-> NoLines]
  /\ orderCart = [o \in Orders |-> None]
  /\ orderLines = [o \in Orders |-> NoLines]
  /\ pc = [w \in Worker |-> "idle"]
  /\ visitor = [w \in Worker |-> None]
  /\ cart = [w \in Worker |-> None]
  /\ snapshot = [w \in Worker |-> NoLines]
  /\ registered = [u \in User |-> None]
  /\ deliveries = [u \in User |-> 0]
  /\ reassigned = [u \in User |-> 0]
  /\ placedBy = [o \in Orders |-> None]
  /\ overlapped = {}
  /\ edited = {}
  /\ handedOver = {}

-----------------------------------------------------------------------------
(* getOrCreateCartId: the first statements of every request *)

ActiveCartsOf(v) ==
  {c \in Carts : anonymousId[c] = v /\ status[c] = "active"}

\* "read" begins a checkout, "edit" an upsertItem or removeItem.
Purpose == {"read", "edit"}

FindCart(w, v, purpose) ==
  /\ pc[w] = "idle"
  /\ visitor' = [visitor EXCEPT ![w] = v]
  /\ IF ActiveCartsOf(v) = {}
       THEN /\ pc' = [pc EXCEPT ![w] = "create"]
            /\ UNCHANGED cart
       ELSE \E c \in ActiveCartsOf(v) :
              /\ pc' = [pc EXCEPT ![w] = purpose]
              /\ cart' = [cart EXCEPT ![w] = c]
  /\ UNCHANGED <<cartRows, orderRows, snapshot, merging, history>>

\* The insert. A cart that another request has created meanwhile is refused by
\* the index and the request fails: see Fail. GET /cart ends here.
CreateCart(w, purpose) ==
  /\ pc[w] = "create"
  /\ ActiveCartsOf(visitor[w]) = {}
  /\ \E c \in Carts :
       /\ status[c] = "none"
       /\ status' = [status EXCEPT ![c] = "active"]
       /\ anonymousId' = [anonymousId EXCEPT ![c] = visitor[w]]
       /\ cart' = [cart EXCEPT ![w] = c]
  /\ pc' = [pc EXCEPT ![w] = purpose]
  /\ UNCHANGED <<customerId, lines, orderRows, visitor, snapshot, merging,
                 history>>

Finish(w) ==
  /\ pc' = [pc EXCEPT ![w] = "idle"]
  /\ visitor' = [visitor EXCEPT ![w] = None]
  /\ cart' = [cart EXCEPT ![w] = None]
  /\ snapshot' = [snapshot EXCEPT ![w] = NoLines]

\* The request ends without its next statement: the book is not published or
\* has no price in the market, the stock does not suffice, the cart is empty,
\* an index refuses a row, or the invocation dies.
Fail(w) ==
  /\ pc[w] # "idle"
  /\ Finish(w)
  /\ UNCHANGED <<cartRows, orderRows, merging, history>>

-----------------------------------------------------------------------------
(* upsertItem and removeItem *)

InCheckout(c) == \E v \in Worker : cart[v] = c /\ pc[v] = "place"

\* The statement names the cart that was active when it was looked up; neither
\* it nor the schema asks whether the cart still is. Quantity 0: the delete.
EditLine(w, b, quantity) ==
  /\ pc[w] = "edit"
  /\ lines' = [lines EXCEPT ![cart[w]][b] = quantity]
  /\ edited' = IF InCheckout(cart[w]) \/ status[cart[w]] = "converted"
                 THEN edited \union {cart[w]} ELSE edited
  /\ Finish(w)
  /\ UNCHANGED <<anonymousId, customerId, status, orderRows, merging,
                 overlapped, handedOver>>

-----------------------------------------------------------------------------
(* checkout *)

\* Mutant: an empty cart is not refused.
ReadAnyCart(w) ==
  /\ pc[w] = "read"
  /\ pc' = [pc EXCEPT ![w] = "place"]
  /\ snapshot' = [snapshot EXCEPT ![w] = lines[cart[w]]]
  /\ overlapped' = IF InCheckout(cart[w]) \/ status[cart[w]] = "converted"
                     THEN overlapped \union {cart[w]} ELSE overlapped
  /\ UNCHANGED <<cartRows, orderRows, visitor, cart, merging, edited,
                 handedOver>>

\* getActiveCartForCheckout reads the items, and validateInventory finds the
\* stock sufficient. Nothing is locked or reserved.
ReadCart(w) ==
  /\ pc[w] = "read"
  /\ lines[cart[w]] # NoLines
  /\ pc' = [pc EXCEPT ![w] = "place"]
  /\ snapshot' = [snapshot EXCEPT ![w] = lines[cart[w]]]
  /\ overlapped' = IF InCheckout(cart[w]) \/ status[cart[w]] = "converted"
                     THEN overlapped \union {cart[w]} ELSE overlapped
  /\ UNCHANGED <<cartRows, orderRows, visitor, cart, merging, edited,
                 handedOver>>

\* The order and its items as they were read.
InsertOrder(w, o) ==
  /\ orderCart[o] = None
  /\ orderCart' = [orderCart EXCEPT ![o] = cart[w]]
  /\ orderLines' = [orderLines EXCEPT ![o] = snapshot[w]]
  /\ placedBy' = [placedBy EXCEPT ![o] = visitor[w]]

\* Mutant: the cart stays active.
PlaceOrderOnly(w) ==
  /\ pc[w] = "place"
  /\ \E o \in Orders : InsertOrder(w, o)
  /\ Finish(w)
  /\ UNCHANGED <<cartRows, merging, history>>

\* The transaction. It does not look at the cart's status again.
PlaceOrder(w) ==
  /\ pc[w] = "place"
  /\ \E o \in Orders : InsertOrder(w, o)
  /\ status' = [status EXCEPT ![cart[w]] = "converted"]
  /\ Finish(w)
  /\ UNCHANGED <<anonymousId, customerId, lines, merging, history>>

-----------------------------------------------------------------------------
(* Registration and mergeAnonymousCart *)

\* POST /auth/register in apps/api-identity, which publishes UserRegistered
\* with the visitor's anonymous id.
Register(u, v) ==
  /\ registered[u] = None
  /\ registered' = [registered EXCEPT ![u] = v]
  /\ UNCHANGED <<cartRows, orderRows, request, deliveries, reassigned, history>>

\* A delivery of UserRegistered whose update the index on customer_id refuses
\* changes nothing but the customer's row, which is not modelled; Lambda
\* delivers the event again.
Collides(u) ==
  /\ ActiveCartsOf(registered[u]) # {}
  /\ \E c \in Carts : customerId[c] = u /\ status[c] = "active"

\* Mutant: the anonymous id is not cleared.
ReassignAndKeepId(u, matching) ==
  /\ deliveries[u] < MaxDeliveries
  /\ deliveries' = [deliveries EXCEPT ![u] = @ + 1]
  /\ customerId' =
       [c \in Carts |-> IF c \in matching THEN u ELSE customerId[c]]
  /\ reassigned' = [reassigned EXCEPT ![u] = @ + Cardinality(matching)]
  /\ UNCHANGED <<anonymousId, status, lines, orderRows, request, registered,
                 history>>

\* The update, for the rows its WHERE clause matches.
Reassign(u, matching) ==
  /\ deliveries[u] < MaxDeliveries
  /\ deliveries' = [deliveries EXCEPT ![u] = @ + 1]
  /\ anonymousId' =
       [c \in Carts |-> IF c \in matching THEN None ELSE anonymousId[c]]
  /\ customerId' =
       [c \in Carts |-> IF c \in matching THEN u ELSE customerId[c]]
  /\ reassigned' = [reassigned EXCEPT ![u] = @ + Cardinality(matching)]
  /\ handedOver' = handedOver \union
       {c \in matching : \E w \in Worker : cart[w] = c /\ pc[w] # "edit"}
  /\ UNCHANGED <<status, lines, orderRows, request, registered, overlapped,
                 edited>>

\* Mutant: carts of any status are reassigned.
MergeAnyCart(u) ==
  /\ registered[u] # None
  /\ ~Collides(u)
  /\ Reassign(u, {c \in Carts : anonymousId[c] = registered[u]})

MergeAnonymousCart(u) ==
  /\ registered[u] # None
  /\ ~Collides(u)
  /\ Reassign(u, ActiveCartsOf(registered[u]))

RefuseMerge(u) ==
  /\ registered[u] # None
  /\ deliveries[u] < MaxDeliveries
  /\ Collides(u)
  /\ deliveries' = [deliveries EXCEPT ![u] = @ + 1]
  /\ UNCHANGED <<cartRows, orderRows, request, registered, reassigned, history>>

-----------------------------------------------------------------------------

Next ==
  \/ \E w \in Worker :
       \/ \E v \in Visitor, purpose \in Purpose : FindCart(w, v, purpose)
       \/ \E purpose \in Purpose : CreateCart(w, purpose)
       \/ \E b \in Book, quantity \in Quantity : EditLine(w, b, quantity)
       \/ ReadCart(w) \/ PlaceOrder(w) \/ Fail(w)
  \/ \E u \in User :
       \/ \E v \in Visitor : Register(u, v)
       \/ MergeAnonymousCart(u) \/ RefuseMerge(u)

Spec == Init /\ [][Next]_vars

-----------------------------------------------------------------------------
(* Properties *)

Placed == {o \in Orders : orderCart[o] # None}

\* The constraints hold whatever requests race and however often a
\* registration is delivered: a cart belongs to a visitor or to a customer,
\* never to both, and neither has two active carts. The merge at
\* customers.service.ts:46 moves a cart from one index into the other and must
\* satisfy all three at once.
OneActiveCart ==
  /\ \A c \in Carts : status[c] # "none" => OneOwner(c)
  /\ OneActive(anonymousId)
  /\ OneActive(customerId)

\* An order holds, and goes on holding, exactly what its cart held: the
\* comment at cart.service.ts:98 "freeze them into order_items and mark the
\* cart 'converted' in one transaction". The items are read before that
\* transaction, so it takes a request that found the cart before its
\* conversion and wrote to it after the read to break this.
OrderFreezesCart ==
  \A o \in Placed :
    /\ orderLines[o] # NoLines
    /\ orderCart[o] \notin edited => orderLines[o] = lines[orderCart[o]]

\* One cart becomes one order, except if two checkouts had found it before
\* either placed its order. About the conversion, the only thing that keeps a
\* second submission of the checkout form from ordering again.
OneOrderPerCart ==
  \A o, q \in Placed :
    o # q /\ orderCart[o] = orderCart[q] => orderCart[o] \in overlapped

\* orders.service.ts:62 says every order's cart "does carry anonymous_id", and
\* lists a visitor's orders by it. So it does, also after the visitor has
\* registered, unless the cart was handed over in the middle of its checkout.
OrderIsListed ==
  \A o \in Placed :
    orderCart[o] \notin handedOver => anonymousId[orderCart[o]] = placedBy[o]

\* customers.service.ts:42: "a redelivered event finds anonymous_id already
\* cleared by the first delivery, so this UPDATE matches zero rows the second
\* time".
MergeMatchesOnce == \A u \in User : reassigned[u] <= 1
=============================================================================

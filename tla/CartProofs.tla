----------------------------- MODULE CartProofs -----------------------------
(***************************************************************************)
(* Proofs about Cart, for any visitors, users, books and requests at once. *)
(***************************************************************************)
EXTENDS Cart, FiniteSetTheorems, TLAPS

\* A request that has looked its visitor's cart up holds one that exists, and
\* a checkout that has read it saw something in it.
Looked ==
  \A w \in Worker :
    /\ pc[w] # "idle" => visitor[w] \in Visitor
    /\ pc[w] \in {"edit", "read", "place"} => cart[w] \in Carts /\ status[cart[w]] # "none"
    /\ pc[w] \in {"idle", "create"} => cart[w] = None
    /\ pc[w] = "place" => snapshot[w] # NoLines

\* A row that does not exist has no owner, and an order's cart is converted.
Rows ==
  /\ \A c \in Carts : status[c] = "none" => anonymousId[c] = None /\ customerId[c] = None
  /\ \A o \in Placed : status[orderCart[o]] = "converted" /\ orderLines[o] # NoLines

Structure == TypeOK /\ Looked /\ Rows

\* What a checkout has read is what its cart still holds, if nobody edited it.
Frozen ==
  /\ \A w \in Worker : pc[w] = "place" /\ cart[w] \notin edited => snapshot[w] = lines[cart[w]]
  /\ \A o \in Placed : orderCart[o] \notin edited => orderLines[o] = lines[orderCart[o]]

\* A cart that no two checkouts found at once has one about to place it, or was
\* placed, never both and never twice.
Single ==
  /\ \A w \in Worker : pc[w] = "place" /\ cart[w] \notin overlapped =>
       /\ status[cart[w]] # "converted"
       /\ \A v \in Worker : pc[v] = "place" /\ cart[v] = cart[w] => v = w
  /\ OneOrderPerCart

\* A checkout's cart is its visitor's, unless it was handed over meanwhile.
Owned ==
  /\ \A w \in Worker : pc[w] \in {"read", "place"} /\ cart[w] \notin handedOver
                         => anonymousId[cart[w]] = visitor[w]
  /\ OrderIsListed

CartInv == Structure /\ OneActiveCart /\ Frozen /\ Single /\ Owned
-----------------------------------------------------------------------------
(* Each action keeps it *)

LEMMA NoLinesType == NoLines \in Lines
BY CartAssumption DEF NoLines, Lines, Quantity

LEMMA InitCart == Init => CartInv
BY NoLinesType, CartAssumption DEF Init, CartInv, Structure, TypeOK, Looked, Rows, OneActiveCart, OneActive,
   Frozen, Single, Owned, OneOrderPerCart, OrderIsListed, Placed

LEMMA FindCartKeeps ==
  ASSUME CartInv, NEW w \in Worker, NEW v \in Visitor, NEW purpose \in Purpose,
         FindCart(w, v, purpose)
  PROVE  CartInv'
<1> USE DEF CartInv, FindCart, cartRows, orderRows, merging, history
<1>1. TypeOK'
  BY DEF Structure, TypeOK, ActiveCartsOf, Purpose
<1>2. (Looked /\ Rows)'
  BY DEF Structure, TypeOK, Looked, Rows, ActiveCartsOf, Purpose, Placed
<1>3. OneActiveCart'
  BY DEF OneActiveCart, OneActive, OneOwner
<1>4. Frozen'
  BY DEF Structure, TypeOK, Frozen, Purpose, Placed
<1>5. Single'
  BY DEF Structure, TypeOK, Single, Purpose, OneOrderPerCart, Placed
<1>6. Owned'
  BY DEF Structure, TypeOK, Owned, Purpose, OrderIsListed, Placed, ActiveCartsOf
<1> QED BY <1>1, <1>2, <1>3, <1>4, <1>5, <1>6 DEF Structure

LEMMA CreateCartKeeps ==
  ASSUME CartInv, NEW w \in Worker, NEW purpose \in Purpose, CreateCart(w, purpose)
  PROVE  CartInv'
<1> USE DEF CartInv
<1>0. PICK c \in Carts :
        /\ status[c] = "none"
        /\ status' = [status EXCEPT ![c] = "active"]
        /\ anonymousId' = [anonymousId EXCEPT ![c] = visitor[w]]
        /\ cart' = [cart EXCEPT ![w] = c]
  BY DEF CreateCart
<1>a. /\ pc[w] = "create" /\ ActiveCartsOf(visitor[w]) = {}
      /\ pc' = [pc EXCEPT ![w] = purpose]
      /\ UNCHANGED <<customerId, lines, orderRows, visitor, snapshot, merging, history>>
  BY DEF CreateCart
<1>b. visitor[w] \in Visitor /\ anonymousId[c] = None /\ customerId[c] = None /\ visitor[w] # None
  BY <1>0, <1>a, CartAssumption DEF Structure, Looked, Rows, TypeOK
<1> USE DEF orderRows, merging, history
<1>1. TypeOK'
  BY <1>0, <1>a, <1>b DEF Structure, TypeOK, Purpose
<1>2. Looked'
  BY <1>0, <1>a, <1>b DEF Structure, TypeOK, Looked, Purpose
<1>3. Rows'
  BY <1>0, <1>a, <1>b DEF Structure, TypeOK, Rows, Placed
<1>4. OneActiveCart'
  <2>1. \A d \in Carts : status'[d] # "none" => OneOwner(d)'
    BY <1>0, <1>a, <1>b DEF Structure, TypeOK, OneActiveCart, OneOwner
  <2>2. OneActive(anonymousId)'
    BY <1>0, <1>a, <1>b DEF Structure, TypeOK, OneActiveCart, OneActive, ActiveCartsOf
  <2>3. OneActive(customerId)'
    BY <1>0, <1>a, <1>b DEF Structure, TypeOK, OneActiveCart, OneActive
  <2> QED BY <2>1, <2>2, <2>3 DEF OneActiveCart
<1>5. Frozen'
  BY <1>0, <1>a DEF Structure, TypeOK, Frozen, Purpose, Placed
<1>6. Single'
  BY <1>0, <1>a DEF Structure, TypeOK, Looked, Single, Purpose, OneOrderPerCart, Placed
<1>7. Owned'
  BY <1>0, <1>a DEF Structure, TypeOK, Looked, Rows, Owned, Purpose, OrderIsListed, Placed
<1> QED BY <1>1, <1>2, <1>3, <1>4, <1>5, <1>6, <1>7 DEF Structure

LEMMA FailKeeps ==
  ASSUME CartInv, NEW w \in Worker, Fail(w)
  PROVE  CartInv'
<1> USE DEF CartInv, Fail, Finish, cartRows, orderRows, merging, history
<1>1. TypeOK'
  BY NoLinesType DEF Structure, TypeOK
<1>2. (Looked /\ Rows)'
  BY DEF Structure, TypeOK, Looked, Rows, Placed
<1>3. OneActiveCart'
  BY DEF OneActiveCart, OneActive, OneOwner
<1>4. (Frozen /\ Single /\ Owned)'
  BY DEF Structure, TypeOK, Frozen, Single, Owned, OneOrderPerCart, OrderIsListed, Placed
<1> QED BY <1>1, <1>2, <1>3, <1>4 DEF Structure

LEMMA EditLineKeeps ==
  ASSUME CartInv, NEW w \in Worker, NEW b \in Book, NEW quantity \in Quantity,
         EditLine(w, b, quantity)
  PROVE  CartInv'
<1> DEFINE c == cart[w]
<1> USE DEF CartInv, EditLine, Finish, orderRows, merging
<1>0. c \in Carts /\ pc[w] = "edit"
  BY DEF Structure, Looked
<1>1. TypeOK'
  BY <1>0, NoLinesType DEF Structure, TypeOK, Lines
<1>2. (Looked /\ Rows)'
  BY DEF Structure, TypeOK, Looked, Rows, Placed
<1>3. OneActiveCart'
  BY DEF OneActiveCart, OneActive, OneOwner
<1>4. Frozen'
  <2>1. \A d \in Carts : d # c => lines'[d] = lines[d]
    BY <1>0 DEF Structure, TypeOK
  <2>2. edited \subseteq edited'
    OBVIOUS
  <2>3. InCheckout(c) \/ status[c] = "converted" => c \in edited'
    OBVIOUS
  <2>4. \A v \in Worker : pc'[v] = "place" =>
          v # w /\ pc[v] = "place" /\ cart'[v] = cart[v] /\ snapshot'[v] = snapshot[v]
            /\ cart[v] \in Carts
    BY DEF Structure, TypeOK, Looked
  <2>5. \A v \in Worker : pc'[v] = "place" /\ cart'[v] \notin edited' => cart[v] # c
    BY <2>3, <2>4 DEF InCheckout
  <2>6. \A o \in Placed : orderCart[o] \in Carts /\ (orderCart[o] \notin edited' => orderCart[o] # c)
    BY <2>3 DEF Structure, TypeOK, Rows, Placed
  <2> QED BY <2>1, <2>2, <2>4, <2>5, <2>6 DEF Frozen, Placed
<1>5. (Single /\ Owned)'
  BY DEF Structure, TypeOK, Single, Owned, OneOrderPerCart, OrderIsListed, Placed
<1> QED BY <1>1, <1>2, <1>3, <1>4, <1>5 DEF Structure

LEMMA ReadCartKeeps ==
  ASSUME CartInv, NEW w \in Worker, ReadCart(w)
  PROVE  CartInv'
<1> USE DEF CartInv, ReadCart, cartRows, orderRows, merging
<1>0. cart[w] \in Carts /\ pc[w] = "read"
  BY DEF Structure, Looked
<1>1. TypeOK'
  BY <1>0 DEF Structure, TypeOK
<1>2. (Looked /\ Rows)'
  BY <1>0 DEF Structure, TypeOK, Looked, Rows, Placed
<1>3. OneActiveCart'
  BY DEF OneActiveCart, OneActive, OneOwner
<1>4. Frozen'
  BY DEF Structure, TypeOK, Frozen, Placed
<1>5. Single'
  BY DEF Structure, TypeOK, Single, InCheckout, OneOrderPerCart, Placed
<1>6. Owned'
  BY DEF Structure, TypeOK, Owned, OrderIsListed, Placed
<1> QED BY <1>1, <1>2, <1>3, <1>4, <1>5, <1>6 DEF Structure

LEMMA PlaceOrderKeeps ==
  ASSUME CartInv, NEW w \in Worker, PlaceOrder(w)
  PROVE  CartInv'
<1> DEFINE c == cart[w]
<1> USE DEF CartInv
<1>0. PICK q \in Orders : InsertOrder(w, q)
  BY DEF PlaceOrder
<1>a. /\ orderCart[q] = None
      /\ orderCart' = [orderCart EXCEPT ![q] = c]
      /\ orderLines' = [orderLines EXCEPT ![q] = snapshot[w]]
      /\ placedBy' = [placedBy EXCEPT ![q] = visitor[w]]
  BY <1>0 DEF InsertOrder
<1>b. /\ pc[w] = "place" /\ Finish(w)
      /\ status' = [status EXCEPT ![c] = "converted"]
      /\ UNCHANGED <<anonymousId, customerId, lines, merging, history>>
  BY DEF PlaceOrder
<1>c. c \in Carts /\ c # None /\ status[c] # "none" /\ visitor[w] \in Visitor /\ snapshot[w] # NoLines
  BY <1>b, CartAssumption DEF Structure, Looked
<1>d. Placed' = Placed \union {q} /\ q \notin Placed
      /\ \A o \in Placed : orderCart'[o] = orderCart[o] /\ orderLines'[o] = orderLines[o]
                             /\ placedBy'[o] = placedBy[o]
  BY <1>a, <1>c DEF Structure, TypeOK, Placed
<1>e. orderCart'[q] = c /\ orderLines'[q] = snapshot[w] /\ placedBy'[q] = visitor[w]
  BY <1>a DEF Structure, TypeOK
<1>f. \A v \in Worker : pc'[v] # "idle" =>
        v # w /\ pc'[v] = pc[v] /\ cart'[v] = cart[v] /\ snapshot'[v] = snapshot[v]
          /\ visitor'[v] = visitor[v]
  BY <1>b DEF Finish, Structure, TypeOK
<1> USE DEF merging, history
<1>1. TypeOK'
  BY <1>a, <1>b, <1>c, NoLinesType DEF Structure, TypeOK, Finish
<1>2. Looked'
  BY <1>b, <1>c DEF Structure, TypeOK, Looked, Finish
<1>3. Rows'
  BY <1>b, <1>c, <1>d, <1>e DEF Structure, TypeOK, Rows
<1>4. OneActiveCart'
  BY <1>b, <1>c DEF Structure, TypeOK, OneActiveCart, OneActive, OneOwner
<1>5. Frozen'
  BY <1>b, <1>d, <1>e, <1>f DEF Frozen
<1>6. Single'
  <2>1. \A v \in Worker : pc'[v] = "place" /\ cart'[v] \notin overlapped' =>
          /\ status'[cart'[v]] # "converted"
          /\ \A u \in Worker : pc'[u] = "place" /\ cart'[u] = cart'[v] => u = v
    BY <1>b, <1>f DEF Single, Structure, TypeOK
  <2>2. \A o \in Placed : orderCart[o] = c => c \in overlapped
    BY <1>b DEF Single, Structure, Rows
  <2>3. OneOrderPerCart'
    BY <1>b, <1>d, <1>e, <2>2 DEF OneOrderPerCart, Single
  <2> QED BY <2>1, <2>3 DEF Single
<1>7. Owned'
  BY <1>b, <1>d, <1>e, <1>f DEF Owned, OrderIsListed
<1> QED BY <1>1, <1>2, <1>3, <1>4, <1>5, <1>6, <1>7 DEF Structure

LEMMA RegisterKeeps ==
  ASSUME CartInv, NEW u \in User, NEW v \in Visitor, Register(u, v)
  PROVE  CartInv'
<1> USE DEF CartInv, Register, cartRows, orderRows, request, history
<1>1. TypeOK'
  BY DEF Structure, TypeOK
<1>2. (Looked /\ Rows /\ OneActiveCart)'
  BY DEF Structure, Looked, Rows, OneActiveCart, OneActive, OneOwner, Placed
<1>3. (Frozen /\ Single /\ Owned)'
  BY DEF Frozen, Single, Owned, OneOrderPerCart, OrderIsListed, Placed
<1> QED BY <1>1, <1>2, <1>3 DEF Structure

LEMMA RefuseMergeKeeps ==
  ASSUME CartInv, NEW u \in User, RefuseMerge(u)
  PROVE  CartInv'
<1> USE DEF CartInv, RefuseMerge, cartRows, orderRows, request, history
<1>1. TypeOK'
  BY CartAssumption DEF Structure, TypeOK
<1>2. (Looked /\ Rows /\ OneActiveCart)'
  BY DEF Structure, Looked, Rows, OneActiveCart, OneActive, OneOwner, Placed
<1>3. (Frozen /\ Single /\ Owned)'
  BY DEF Frozen, Single, Owned, OneOrderPerCart, OrderIsListed, Placed
<1> QED BY <1>1, <1>2, <1>3 DEF Structure

\* The index leaves a visitor one active cart at most.
LEMMA OneToReassign ==
  ASSUME OneActiveCart, NEW v, v # None
  PROVE  /\ IsFiniteSet(ActiveCartsOf(v)) /\ Cardinality(ActiveCartsOf(v)) \in 0..1
         /\ \A c, d \in ActiveCartsOf(v) : c = d
<1>1. \A c, d \in ActiveCartsOf(v) : c = d
  BY DEF OneActiveCart, OneActive, ActiveCartsOf
<1>2. CASE ActiveCartsOf(v) = {}
  BY <1>1, <1>2, FS_EmptySet
<1>3. CASE ActiveCartsOf(v) # {}
  <2>1. PICK c \in ActiveCartsOf(v) : ActiveCartsOf(v) = {c}
    BY <1>1, <1>3
  <2>2. IsFiniteSet({c}) /\ Cardinality({c}) = 1
    BY FS_Singleton
  <2> QED BY <1>1, <2>1, <2>2
<1> QED BY <1>2, <1>3

\* What a delivery has reassigned is counted by the deliveries.
Counted == \A u \in User : reassigned[u] <= deliveries[u]

LEMMA MergeAnonymousCartKeeps ==
  ASSUME CartInv, Counted, NEW u \in User, MergeAnonymousCart(u)
  PROVE  CartInv' /\ Counted'
<1> DEFINE v == registered[u]
           moved == ActiveCartsOf(v)
<1> USE DEF CartInv
<1>a. /\ v # None /\ v \in Visitor /\ ~Collides(u)
      /\ deliveries[u] < MaxDeliveries
      /\ deliveries' = [deliveries EXCEPT ![u] = @ + 1]
      /\ anonymousId' = [c \in Carts |-> IF c \in moved THEN None ELSE anonymousId[c]]
      /\ customerId' = [c \in Carts |-> IF c \in moved THEN u ELSE customerId[c]]
      /\ reassigned' = [reassigned EXCEPT ![u] = @ + Cardinality(moved)]
      /\ handedOver' = handedOver \union
           {c \in moved : \E w \in Worker : cart[w] = c /\ pc[w] # "edit"}
      /\ UNCHANGED <<status, lines, orderRows, request, registered, overlapped, edited>>
  BY DEF MergeAnonymousCart, Reassign, Structure, TypeOK
<1>b. /\ Cardinality(moved) \in 0..1
      /\ \A c, d \in moved : c = d
  BY <1>a, OneToReassign
<1>c. \A c \in moved : c \in Carts /\ status[c] = "active" /\ anonymousId[c] = v
  BY DEF ActiveCartsOf
<1>d. moved # {} => \A c \in Carts : ~(customerId[c] = u /\ status[c] = "active")
  BY <1>a DEF Collides
<1>e. u # None
  BY CartAssumption
<1> HIDE DEF moved
<1> USE DEF orderRows, request
<1>1. TypeOK' /\ Counted'
  <2>1. /\ deliveries[u] \in 0..MaxDeliveries /\ reassigned[u] \in 0..MaxDeliveries
        /\ reassigned[u] <= deliveries[u] /\ MaxDeliveries \in Nat
    BY CartAssumption DEF Structure, TypeOK, Counted
  <2>2. /\ deliveries[u] + 1 \in 0..MaxDeliveries
        /\ reassigned[u] + Cardinality(moved) \in 0..MaxDeliveries
        /\ reassigned[u] + Cardinality(moved) <= deliveries[u] + 1
    BY <1>a, <1>b, <2>1
  <2>3. /\ deliveries' \in [User -> 0..MaxDeliveries]
        /\ reassigned' \in [User -> 0..MaxDeliveries]
        /\ Counted'
    BY <1>a, <2>2 DEF Structure, TypeOK, Counted
  <2> QED BY <1>a, <1>c, <2>3 DEF Structure, TypeOK
<1>2. (Looked /\ Rows)'
  BY <1>a, <1>c DEF Structure, Looked, Rows, Placed
<1>3. OneActiveCart'
  <2>1. \A c \in Carts : status'[c] # "none" => OneOwner(c)'
    BY <1>a, <1>c, <1>e DEF OneActiveCart, OneOwner
  <2>2. OneActive(anonymousId)'
    BY <1>a DEF OneActiveCart, OneActive
  <2>3. OneActive(customerId)'
    BY <1>a, <1>b, <1>c, <1>d DEF OneActiveCart, OneActive
  <2> QED BY <2>1, <2>2, <2>3 DEF OneActiveCart
<1>4. (Frozen /\ Single)'
  BY <1>a DEF Frozen, Single, OneOrderPerCart, Placed
<1>5. Owned'
  <2>1. \A w \in Worker : pc[w] \in {"read", "place"} /\ cart[w] \in moved => cart[w] \in handedOver'
    BY <1>a
  <2>2. \A o \in Placed : orderCart[o] \in Carts \ moved
    BY <1>c DEF Structure, TypeOK, Rows, Placed
  <2> QED BY <1>a, <2>1, <2>2 DEF Structure, Looked, Owned, OrderIsListed, Placed
<1> QED BY <1>1, <1>2, <1>3, <1>4, <1>5 DEF Structure
-----------------------------------------------------------------------------
(* The theorems *)

\* The inductive invariant: what a request found, read and owned, and what the
\* carts and orders keep of it.
THEOREM CartInvariant == Spec => [](CartInv /\ Counted)
<1>1. Init => CartInv /\ Counted
  BY InitCart DEF Init, Counted
<1>2. CartInv /\ Counted /\ [Next]_vars => CartInv' /\ Counted'
  <2> SUFFICES ASSUME CartInv, Counted, [Next]_vars
               PROVE  CartInv' /\ Counted'
    OBVIOUS
  <2>1. ASSUME NEW w \in Worker, NEW v \in Visitor, NEW p \in Purpose, FindCart(w, v, p)
        PROVE  CartInv' /\ Counted'
    BY <2>1, FindCartKeeps DEF FindCart, merging, Counted
  <2>2. ASSUME NEW w \in Worker, NEW p \in Purpose, CreateCart(w, p)
        PROVE  CartInv' /\ Counted'
    BY <2>2, CreateCartKeeps DEF CreateCart, merging, Counted
  <2>3. ASSUME NEW w \in Worker, NEW b \in Book, NEW quantity \in Quantity, EditLine(w, b, quantity)
        PROVE  CartInv' /\ Counted'
    BY <2>3, EditLineKeeps DEF EditLine, merging, Counted
  <2>4. ASSUME NEW w \in Worker, ReadCart(w)
        PROVE  CartInv' /\ Counted'
    BY <2>4, ReadCartKeeps DEF ReadCart, merging, Counted
  <2>5. ASSUME NEW w \in Worker, PlaceOrder(w)
        PROVE  CartInv' /\ Counted'
    BY <2>5, PlaceOrderKeeps DEF PlaceOrder, merging, Counted
  <2>6. ASSUME NEW w \in Worker, Fail(w)
        PROVE  CartInv' /\ Counted'
    BY <2>6, FailKeeps DEF Fail, merging, Counted
  <2>7. ASSUME NEW u \in User, NEW v \in Visitor, Register(u, v)
        PROVE  CartInv' /\ Counted'
    BY <2>7, RegisterKeeps DEF Register, Counted
  <2>8. ASSUME NEW u \in User, MergeAnonymousCart(u)
        PROVE  CartInv' /\ Counted'
    BY <2>8, MergeAnonymousCartKeeps
  <2>9. ASSUME NEW u \in User, RefuseMerge(u)
        PROVE  CartInv' /\ Counted'
    <3>1. deliveries[u] <= deliveries'[u] /\ \A q \in User : q # u => deliveries'[q] = deliveries[q]
      BY <2>9, CartAssumption DEF RefuseMerge, CartInv, Structure, TypeOK
    <3>2. reassigned[u] \in Nat /\ deliveries[u] \in Nat /\ deliveries'[u] \in Nat
      BY <2>9, CartAssumption DEF RefuseMerge, CartInv, Structure, TypeOK
    <3>3. reassigned' = reassigned
      BY <2>9 DEF RefuseMerge
    <3>4. \A q \in User : reassigned'[q] <= deliveries'[q]
      BY <3>1, <3>2, <3>3 DEF Counted
    <3>5. CartInv'
      BY <2>9, RefuseMergeKeeps
    <3> QED BY <3>4, <3>5 DEF Counted
  <2>10. CASE UNCHANGED vars
    BY <2>10 DEF vars, cartRows, orderRows, request, merging, history, CartInv, Structure,
       TypeOK, Looked, Rows, OneActiveCart, OneActive, OneOwner, Frozen, Single, Owned,
       OneOrderPerCart, OrderIsListed, Placed, Counted
  <2> QED BY <2>1, <2>2, <2>3, <2>4, <2>5, <2>6, <2>7, <2>8, <2>9, <2>10 DEF Next
<1> QED BY <1>1, <1>2, PTL DEF Spec

\* Carts, orders, requests and deliveries have their types.
THEOREM CartTypes == Spec => []TypeOK
<1>1. CartInv /\ Counted => TypeOK
  BY DEF CartInv, Structure
<1> QED BY <1>1, CartInvariant, PTL

\* The merge: every cart belongs to a visitor or a customer, and neither has two
\* active ones, whatever requests race and however often it is delivered.
THEOREM OneActiveCartHolds == Spec => []OneActiveCart
<1>1. CartInv /\ Counted => OneActiveCart
  BY DEF CartInv
<1> QED BY <1>1, CartInvariant, PTL

\* checkout: an order holds what its cart held when nobody wrote to the cart
\* between the read and the conversion or after it.
THEOREM OrderFreezesCartHolds == Spec => []OrderFreezesCart
<1>1. CartInv /\ Counted => OrderFreezesCart
  BY DEF CartInv, Structure, Rows, Frozen, OrderFreezesCart
<1> QED BY <1>1, CartInvariant, PTL

\* checkout: a cart becomes one order, except under checkouts that overlap.
THEOREM OneOrderPerCartHolds == Spec => []OneOrderPerCart
<1>1. CartInv /\ Counted => OneOrderPerCart
  BY DEF CartInv, Single
<1> QED BY <1>1, CartInvariant, PTL

\* The order list: an order's cart carries the anonymous id of the visitor who
\* placed it, unless the merge took the cart in the middle of the checkout.
THEOREM OrderIsListedHolds == Spec => []OrderIsListed
<1>1. CartInv /\ Counted => OrderIsListed
  BY DEF CartInv, Owned
<1> QED BY <1>1, CartInvariant, PTL
=============================================================================

----------------------------- MODULE Storefront -----------------------------
(***************************************************************************)
(* One visitor's tab of apps/web from the book page over the cart to the   *)
(* confirmation. Its components call the API and go on before the answer   *)
(* is there; answers come in any order, to a component that may be gone,   *)
(* or not at all. The API is what the pages see of it: Cart and Payments   *)
(* model it.                                                               *)
(***************************************************************************)
EXTENDS Integers, FiniteSets

CONSTANTS
  Item,
  Call,        \* the calls in flight at once (bound)
  Nothing,
  MaxQuantity, \* bound: copies of an item
  MaxPayments, \* bound: payments tried at once
  MaxLosses    \* bound: calls refused or without an answer, scripts not loaded

VARIABLES
  cart,        \* the open cart, as stored
  order,       \* the order made of it, and how it is paid (bound: one order)
  page,        \* the page shown: "book", "cart", "checkout", "confirmation"
  shown,       \* the cart page's copy of the cart, Nothing while it loads
  pendingItem, \* ... the item whose buttons are disabled
  pending,     \* the button of the book page, or of the form, is disabled
  known,       \* the form has been answered an order
  call,        \* calls in flight; here: the component that made it is mounted,
               \* awaited: the browser has not given it up
  method,      \* the payment method chosen on the form
  script,      \* razorpay.ts's loadPromise
  opening,     \* payment orders that wait for the script
  widgets,     \* Razorpay widgets open
  overlapped,  \* history: cart calls were in flight together, or at Proceed
  intended,    \* history: the cart shown when the visitor proceeded
  losses

payment == <<method, script, opening, widgets>>
storefrontVars == <<cart, order, page, shown, pendingItem, pending, known, call,
                    payment, overlapped, intended, losses>>

Empty == [b \in Item |-> 0]
Carts == [Item -> 0..MaxQuantity]
Free == [op |-> "none", step |-> "none", book |-> Nothing, quantity |-> 0,
         here |-> FALSE, awaited |-> FALSE, answer |-> Nothing]
NoOrder == [lines |-> Empty, paid |-> "none"]

StorefrontInit ==
  /\ cart = Empty /\ order = NoOrder
  /\ page = "book" /\ shown = Nothing /\ pendingItem = Nothing
  /\ pending = FALSE /\ known = FALSE
  /\ call = [c \in Call |-> Free]
  /\ method \in {"razorpay", "pay_later"}
  /\ script = "absent" /\ opening = 0 /\ widgets = 0
  /\ overlapped = FALSE /\ intended = Nothing
  /\ losses = 0

InFlight == {c \in Call : call[c].op \in {"load", "upsert", "remove"}}

\* A call leaves on a free slot.
Sent(op, b, q) ==
  [op |-> op, step |-> "sent", book |-> b, quantity |-> q, here |-> TRUE,
   awaited |-> TRUE, answer |-> Nothing]
Sending(op, b, q) ==
  LET slot == CHOOSE c \in Call : call[c] = Free IN [call EXCEPT ![slot] = Sent(op, b, q)]
CanSend == \E c \in Call : call[c] = Free
Overlap == overlapped' = (overlapped \/ InFlight # {})

\* The components of the page that is left are gone.
Unmounted == [c \in Call |-> [call[c] EXCEPT !.here = FALSE]]

-----------------------------------------------------------------------------
(* The pages *)

\* AddToCartButton: a quantity of one, whatever the cart holds. (Bound: there
\* is no shopping after the order.)
AddToCartButton(b) ==
  /\ page = "book" /\ ~pending /\ CanSend /\ order = NoOrder
  /\ call' = Sending("upsert", b, 1) /\ pending' = TRUE
  /\ Overlap
  /\ UNCHANGED <<cart, order, page, shown, pendingItem, known, payment, intended, losses>>

\* The cart page loads the cart when it opens. This is the start of a visit
\* that the history looks at.
OpenCartPage ==
  /\ page \in {"book", "cart", "checkout"} /\ CanSend
  /\ page' = "cart"
  /\ call' = [c \in Call |-> IF call[c] = Free THEN Sending("load", Nothing, 0)[c]
                                                 ELSE Unmounted[c]]
  /\ shown' = Nothing /\ pendingItem' = Nothing /\ pending' = FALSE /\ known' = FALSE
  /\ overlapped' = (InFlight # {}) /\ intended' = Nothing
  /\ UNCHANGED <<cart, order, payment, losses>>

BackToBooks ==
  /\ page \in {"cart", "checkout"}
  /\ page' = "book" /\ call' = Unmounted
  /\ shown' = Nothing /\ pendingItem' = Nothing /\ pending' = FALSE /\ known' = FALSE
  /\ intended' = Nothing
  /\ UNCHANGED <<cart, order, payment, overlapped, losses>>

OnCartPage(b) ==
  /\ page = "cart" /\ shown # Nothing /\ pendingItem # b /\ CanSend
  /\ shown[b] > 0

\* changeQuantity and remove, by the page's copy of the item. Only this item's
\* buttons are disabled, and only until another's are.
ChangeQuantity(b, q) ==
  /\ OnCartPage(b)
  /\ q \in {shown[b] - 1, shown[b] + 1} /\ q \in 1..MaxQuantity
  /\ call' = Sending("upsert", b, q) /\ pendingItem' = b
  /\ Overlap
  /\ UNCHANGED <<cart, order, page, shown, pending, known, payment, intended, losses>>

RemoveItem(b) ==
  /\ OnCartPage(b)
  /\ call' = Sending("remove", b, 0) /\ pendingItem' = b
  /\ Overlap
  /\ UNCHANGED <<cart, order, page, shown, pending, known, payment, intended, losses>>

\* "Proceed to checkout" is never disabled.
Proceed ==
  /\ page = "cart" /\ shown \notin {Nothing, Empty}
  /\ page' = "checkout" /\ call' = Unmounted
  /\ intended' = shown /\ Overlap
  /\ shown' = Nothing /\ pendingItem' = Nothing /\ pending' = FALSE /\ known' = FALSE
  /\ UNCHANGED <<cart, order, payment, losses>>

-----------------------------------------------------------------------------
(* CheckoutForm *)

OnSubmitAddress ==
  /\ page = "checkout" /\ ~known /\ ~pending /\ CanSend
  /\ call' = Sending("checkout", Nothing, 0) /\ pending' = TRUE
  /\ UNCHANGED <<cart, order, page, shown, pendingItem, known, payment, overlapped,
                 intended, losses>>

\* payForOrder, which "Retry payment" calls, pending or not.
PayForOrder ==
  /\ page = "checkout" /\ known /\ CanSend
  /\ opening + widgets + Cardinality({c \in Call : call[c].op = "pay"}) < MaxPayments
  /\ call' = Sending("pay", Nothing, 0)
  /\ UNCHANGED <<cart, order, page, shown, pendingItem, pending, known, payment,
                 overlapped, intended, losses>>

\* loadRazorpayScript: the promise is made once and kept, rejected or not.
LoadRazorpayScript == script' = IF script = "absent" THEN "loading" ELSE script

ScriptEnds ==
  /\ script = "loading"
  /\ \/ script' = "loaded" /\ UNCHANGED losses
     \/ script' = "failed" /\ losses < MaxLosses /\ losses' = losses + 1
  /\ UNCHANGED <<cart, order, page, shown, pendingItem, pending, known, call, method,
                 opening, widgets, overlapped, intended>>

\* openRazorpayCheckout, for each payment order that waited; each error lets
\* the visitor retry, and the form's pending ends.
OpenRazorpayCheckout ==
  /\ opening > 0 /\ script \in {"loaded", "failed"}
  /\ widgets' = IF script = "loaded" THEN widgets + opening ELSE widgets
  /\ opening' = 0 /\ pending' = FALSE
  /\ UNCHANGED <<cart, order, page, shown, pendingItem, known, call, method,
                 script, overlapped, intended, losses>>

\* The widget's handler goes to the confirmation, whatever page is shown; its
\* ondismiss says so and leaves a retry.
CloseWidget(paid) ==
  /\ widgets > 0 /\ widgets' = widgets - 1
  /\ IF paid THEN /\ page' = "confirmation" /\ order' = [order EXCEPT !.paid = "gateway"]
                  /\ call' = Unmounted
             ELSE UNCHANGED <<page, order, call>>
  /\ UNCHANGED <<cart, shown, pendingItem, pending, known, method, script, opening,
                 overlapped, intended, losses>>

-----------------------------------------------------------------------------
(* The API *)

\* What a call does, and its answer: the cart for a cart call. An empty cart,
\* and by the bound a second order, is refused.
Execute(c) ==
  LET r == call[c]
      answered(a) == call' = [call EXCEPT ![c].step = "answered", ![c].answer = a] IN
  /\ r.step = "sent"
  /\ \/ /\ r.op = "load" /\ answered(cart)
        /\ UNCHANGED <<cart, order>>
     \/ /\ r.op \in {"upsert", "remove"}
        /\ cart' = [cart EXCEPT ![r.book] = r.quantity]
        /\ answered(cart') /\ UNCHANGED order
     \/ /\ r.op = "checkout"
        /\ cart # Empty /\ order = NoOrder
        /\ order' = [lines |-> cart, paid |-> "no"] /\ cart' = Empty
        /\ answered(Nothing)
     \/ /\ r.op = "checkout" /\ (cart = Empty \/ order # NoOrder)
        /\ call' = [call EXCEPT ![c].step = "refused"] /\ UNCHANGED <<cart, order>>
     \/ /\ r.op = "pay"
        /\ IF method = "pay_later" /\ order.paid # "no"
           THEN call' = [call EXCEPT ![c].step = "refused"] /\ UNCHANGED order
           ELSE /\ order' = IF method = "pay_later" THEN [order EXCEPT !.paid = "later"] ELSE order
                /\ answered(Nothing)
        /\ UNCHANGED cart
  /\ UNCHANGED <<page, shown, pendingItem, pending, known, payment, overlapped,
                 intended, losses>>

\* The API fails before it has done anything.
Fail(c) ==
  /\ call[c].step = "sent" /\ losses < MaxLosses
  /\ call' = [call EXCEPT ![c].step = "refused"] /\ losses' = losses + 1
  /\ UNCHANGED <<cart, order, page, shown, pendingItem, pending, known, payment,
                 overlapped, intended>>

\* Mutant: the cart page shows the error above the cart it has.
ShowErrorAbove(c) ==
  IF call[c].here THEN pendingItem' = Nothing /\ pending' = FALSE /\ UNCHANGED shown
                  ELSE UNCHANGED <<shown, pendingItem, pending>>

\* An error leaves the buttons enabled, and takes the cart off its page until
\* that is opened again.
ShowError(c) ==
  IF call[c].here THEN shown' = Nothing /\ pendingItem' = Nothing /\ pending' = FALSE
                  ELSE UNCHANGED <<shown, pendingItem, pending>>

\* The browser gets no answer, though the API may still be working.
GiveUp(c) ==
  /\ call[c].awaited /\ losses < MaxLosses /\ losses' = losses + 1
  /\ ShowError(c)
  /\ call' = [call EXCEPT ![c].awaited = FALSE, ![c].here = FALSE]
  /\ UNCHANGED <<cart, order, page, known, payment, overlapped, intended>>

\* The function that called goes on with the answer, its component mounted or
\* not: only the component's state is lost with it.
Heard(c) ==
  LET r == call[c] IN
  /\ r.awaited
  /\ \/ /\ r.step = "answered" /\ r.op \in {"load", "upsert", "remove"}
        /\ IF r.here /\ page = "cart"
           THEN /\ shown' = r.answer
                /\ pendingItem' = IF r.op = "load" THEN pendingItem ELSE Nothing
           ELSE UNCHANGED <<shown, pendingItem>>
        /\ pending' = (pending /\ ~r.here)
        /\ call' = [call EXCEPT ![c] = Free]
        /\ UNCHANGED <<page, known, payment>>
     \/ /\ r.step = "answered" /\ r.op = "checkout"
        /\ known' = (known \/ r.here)
        /\ call' = [call EXCEPT ![c].op = "pay", ![c].step = "sent"]
        /\ UNCHANGED <<page, shown, pendingItem, pending, payment>>
     \/ /\ r.step = "answered" /\ r.op = "pay" /\ method = "pay_later"
        /\ page' = "confirmation" /\ call' = [Unmounted EXCEPT ![c] = Free]
        /\ UNCHANGED <<shown, pendingItem, pending, known, payment>>
     \/ /\ r.step = "answered" /\ r.op = "pay" /\ method = "razorpay"
        /\ LoadRazorpayScript /\ opening' = opening + 1
        /\ call' = [call EXCEPT ![c] = Free]
        /\ UNCHANGED <<page, shown, pendingItem, pending, known, method, widgets>>
     \/ /\ r.step = "refused" /\ ShowError(c)
        /\ call' = [call EXCEPT ![c] = Free]
        /\ UNCHANGED <<page, known, payment>>
  /\ UNCHANGED <<cart, order, overlapped, intended, losses>>

Unheard(c) ==
  /\ ~call[c].awaited /\ call[c].step \in {"answered", "refused"}
  /\ call' = [call EXCEPT ![c] = Free]
  /\ UNCHANGED <<cart, order, page, shown, pendingItem, pending, known, payment,
                 overlapped, intended, losses>>

CartPage ==
  OpenCartPage \/ Proceed
    \/ \E b \in Item : RemoveItem(b) \/ \E q \in 1..MaxQuantity : ChangeQuantity(b, q)

CheckoutForm ==
  OnSubmitAddress \/ PayForOrder \/ ScriptEnds \/ OpenRazorpayCheckout
    \/ CloseWidget(TRUE) \/ CloseWidget(FALSE)

StorefrontNext ==
  \/ \E b \in Item : AddToCartButton(b)
  \/ BackToBooks \/ CartPage \/ CheckoutForm
  \/ \E c \in Call : Execute(c) \/ Fail(c) \/ GiveUp(c) \/ Heard(c) \/ Unheard(c)

StorefrontSpec == StorefrontInit /\ [][StorefrontNext]_storefrontVars

-----------------------------------------------------------------------------
(* Properties *)

\* The order is the cart the visitor saw when proceeding to the checkout,
\* whatever failed before, unless calls of the cart overlapped or were still
\* out: a failed change takes the whole cart off the page, and only a fresh
\* load brings it back.
OrderIsWhatWasShown ==
  order # NoOrder /\ known /\ intended # Nothing /\ ~overlapped => order.lines = intended
=============================================================================

--------------------------- MODULE InventorySync ---------------------------
(***************************************************************************)
(* How a sale takes its books out of catalog.inventory.                    *)
(*                                                                         *)
(* A sale publishes InventoryDecrementRequested. EventBridge hands the     *)
(* event to the relay Lambda (apps/api-commerce/src/                       *)
(* inventory-sync-handler.ts), which calls a Directus flow whose operation *)
(* (extensions/operations/decrement-inventory-stock) updates one row per   *)
(* item in one transaction. Nothing on the way carries an identity of the  *)
(* sale that Directus could recognise: a repeated call is a new decrement. *)
(* The relay may stop waiting while Directus still works on its call.      *)
(***************************************************************************)
EXTENDS Naturals, Sequences, FiniteSets

CONSTANTS
  Book,             \* books that have an inventory row
  Sale,             \* what asks for stock: payments and store orders
  Items,            \* the items of a sale: a sequence of [book, quantity]
  OpeningStock,     \* the inventory rows at the start
  OpeningState,     \* ... and their availability
  MaxRequests,      \* bound: events a sale publishes
  MaxDeliveries,    \* bound: times the bus hands an event of a sale over
  MaxAttempts,      \* invocations of the relay for one delivery
  MaxFaults         \* bound: answers lost, deliveries repeated

Availability == {"in_stock", "out_of_stock", "preorder", "discontinued"}

ASSUME InventoryAssumption ==
  /\ Items \in [Sale -> Seq([book : Book, quantity : Nat \ {0}])]
  /\ OpeningStock \in [Book -> Nat]
  /\ OpeningState \in [Book -> Availability]
  /\ {MaxRequests, MaxDeliveries, MaxFaults} \subseteq Nat
  /\ MaxAttempts \in Nat \ {0}

VARIABLES
  requests,      \* events the bus accepted, per sale
  deliveries,    \* times it handed one over
  relay,         \* state of a delivery: see Relay
  tries,         \* invocations of the relay for a delivery
  call,          \* state of the Directus transaction of each invocation
  updated,       \* rows that transaction has updated so far
  stock,         \* catalog.inventory.stock, committed
  availability,  \* catalog.inventory.availability, committed
  written,       \* the newest version of each row, as its locker sees it
  repeats,       \* history: deliveries repeated and answers missed, per sale
  faults

bus  == <<requests, deliveries>>
http == <<relay, tries>>
trx  == <<call, updated>>
rows == <<stock, availability, written>>
vars == <<bus, http, trx, rows, repeats, faults>>

Delivery == Sale \X (1..MaxDeliveries)
Call     == Delivery \X (1..MaxAttempts)
Row      == [stock : Nat, availability : Availability]

\* "queued": Lambda will invoke the relay. "waiting": fetch has not returned.
Relay == {"none", "queued", "waiting", "done", "dropped"}

TypeOK ==
  /\ requests \in [Sale -> Nat]
  /\ deliveries \in [Sale -> 0..MaxDeliveries]
  /\ relay \in [Delivery -> Relay]
  /\ tries \in [Delivery -> 0..MaxAttempts]
  /\ call \in [Call -> {"none", "open", "committed", "aborted"}]
  /\ updated \in [Call -> Nat]
  /\ stock \in [Book -> Nat]
  /\ availability \in [Book -> Availability]
  /\ written \in [Book -> Row]
  /\ repeats \in [Sale -> Nat]
  /\ faults \in 0..MaxFaults

Init ==
  /\ requests = [s \in Sale |-> 0]
  /\ deliveries = [s \in Sale |-> 0]
  /\ relay = [d \in Delivery |-> "none"]
  /\ tries = [d \in Delivery |-> 0]
  /\ call = [c \in Call |-> "none"]
  /\ updated = [c \in Call |-> 0]
  /\ stock = OpeningStock
  /\ availability = OpeningState
  /\ written = [b \in Book |-> [stock |-> OpeningStock[b],
                                availability |-> OpeningState[b]]]
  /\ repeats = [s \in Sale |-> 0]
  /\ faults = 0

UseFault ==
  /\ faults < MaxFaults
  /\ faults' = faults + 1

-----------------------------------------------------------------------------
(* EventBridge and Lambda's asynchronous invocation *)

\* A sale publishes InventoryDecrementRequested and the bus accepts it.
Request(s) ==
  /\ requests[s] < MaxRequests
  /\ requests' = [requests EXCEPT ![s] = @ + 1]
  /\ UNCHANGED <<deliveries, http, trx, rows, repeats, faults>>

\* The event is handed to Lambda once; more often is a fault of the bus.
Deliver(s) ==
  /\ requests[s] > 0
  /\ deliveries[s] < MaxDeliveries
  /\ deliveries' = [deliveries EXCEPT ![s] = @ + 1]
  /\ relay' = [relay EXCEPT ![<<s, deliveries[s] + 1>>] = "queued"]
  /\ IF deliveries[s] < requests[s]
       THEN UNCHANGED <<repeats, faults>>
       ELSE /\ repeats' = [repeats EXCEPT ![s] = @ + 1]
            /\ UseFault
  /\ UNCHANGED <<requests, tries, trx, rows>>

\* An invocation that throws is retried until MaxAttempts.
Requeue(d) ==
  relay' = [relay EXCEPT ![d] = IF tries[d] < MaxAttempts
                                  THEN "queued" ELSE "dropped"]

-----------------------------------------------------------------------------
(* The relay *)

CurrentCall(d) == <<d, tries[d]>>

\* The relay posts the items, and Directus begins a transaction for them.
Invoke(d) ==
  /\ relay[d] = "queued"
  /\ relay' = [relay EXCEPT ![d] = "waiting"]
  /\ tries' = [tries EXCEPT ![d] = @ + 1]
  /\ call' = [call EXCEPT ![<<d, tries[d] + 1>>] = "open"]
  /\ UNCHANGED <<bus, updated, rows, repeats, faults>>

\* Mutant: an answer that is not 2xx is taken as success.
AnswerAlwaysOk(d) ==
  /\ relay[d] = "waiting"
  /\ call[CurrentCall(d)] \in {"committed", "aborted"}
  /\ relay' = [relay EXCEPT ![d] = "done"]
  /\ UNCHANGED <<bus, tries, trx, rows, repeats, faults>>

\* Mutant: the answer's body is parsed, and an empty one makes the relay throw.
AnswerNeverOk(d) ==
  /\ relay[d] = "waiting"
  /\ call[CurrentCall(d)] \in {"committed", "aborted"}
  /\ Requeue(d)
  /\ UNCHANGED <<bus, tries, trx, rows, repeats, faults>>

\* response.ok ends the delivery; any other answer makes the relay throw.
Answer(d) ==
  /\ relay[d] = "waiting"
  /\ \/ /\ call[CurrentCall(d)] = "committed"
        /\ relay' = [relay EXCEPT ![d] = "done"]
     \/ /\ call[CurrentCall(d)] = "aborted"
        /\ Requeue(d)
  /\ UNCHANGED <<bus, tries, trx, rows, repeats, faults>>

\* fetch rejects or the relay's 10 seconds run out: the invocation fails
\* whatever becomes of its call.
GiveUp(d) ==
  /\ relay[d] = "waiting"
  /\ Requeue(d)
  /\ repeats' = [repeats EXCEPT ![d[1]] = @ + 1]
  /\ UseFault
  /\ UNCHANGED <<bus, tries, trx, rows>>

-----------------------------------------------------------------------------
(* The transaction of decrement-inventory-stock *)

ItemsOf(c) == Items[c[1][1]]
NextItem(c) == ItemsOf(c)[updated[c] + 1]
NextBook(c) == NextItem(c).book

Locks(c, b) ==
  /\ call[c] = "open"
  /\ \E i \in 1..updated[c] : ItemsOf(c)[i].book = b

WaitsFor(c, d) ==
  /\ call[c] = "open"
  /\ updated[c] < Len(ItemsOf(c))
  /\ c # d
  /\ Locks(d, NextBook(c))

\* GREATEST(m - n, 0)
Monus(m, n) == IF m > n THEN m - n ELSE 0

\* The SET clause of the UPDATE.
Decremented(row, quantity) ==
  [stock |-> Monus(row.stock, quantity),
   availability |-> IF Monus(row.stock, quantity) = 0
                      THEN "out_of_stock" ELSE row.availability]

\* Mutant: the updates run outside a transaction.
UpdateAndCommitRow(c) ==
  /\ call[c] = "open"
  /\ updated[c] < Len(ItemsOf(c))
  /\ \A d \in Call : ~WaitsFor(c, d)
  /\ LET b == NextBook(c)
         new == Decremented(written[b], NextItem(c).quantity)
     IN  /\ written' = [written EXCEPT ![b] = new]
         /\ stock' = [stock EXCEPT ![b] = new.stock]
         /\ availability' = [availability EXCEPT ![b] = new.availability]
  /\ updated' = [updated EXCEPT ![c] = @ + 1]
  /\ UNCHANGED <<bus, http, call, repeats, faults>>

\* One UPDATE. It waits for a transaction that wrote the row and sees the
\* version that one committed.
UpdateRow(c) ==
  /\ call[c] = "open"
  /\ updated[c] < Len(ItemsOf(c))
  /\ \A d \in Call : ~WaitsFor(c, d)
  /\ written' = [written EXCEPT ![NextBook(c)] =
                   Decremented(@, NextItem(c).quantity)]
  /\ updated' = [updated EXCEPT ![c] = @ + 1]
  /\ UNCHANGED <<bus, http, call, stock, availability, repeats, faults>>

Commit(c) ==
  /\ call[c] = "open"
  /\ updated[c] = Len(ItemsOf(c))
  /\ call' = [call EXCEPT ![c] = "committed"]
  /\ stock' = [b \in Book |->
                 IF Locks(c, b) THEN written[b].stock ELSE stock[b]]
  /\ availability' = [b \in Book |->
                 IF Locks(c, b) THEN written[b].availability
                                ELSE availability[b]]
  /\ UNCHANGED <<bus, http, updated, written, repeats, faults>>

\* Its rows go back to the committed versions.
Abort(c) ==
  /\ call' = [call EXCEPT ![c] = "aborted"]
  /\ written' = [b \in Book |->
                   IF Locks(c, b)
                     THEN [stock |-> stock[b], availability |-> availability[b]]
                     ELSE written[b]]
  /\ UNCHANGED <<bus, http, updated, stock, availability, repeats>>

\* Items are updated in the order of the event, so transactions can wait for
\* each other; PostgreSQL then aborts one of the cycle.
Deadlocked(c) ==
  \E cycle \in SUBSET {d \in Call : call[d] = "open"} :
    /\ c \in cycle
    /\ \A d \in cycle : \E e \in cycle : WaitsFor(d, e)

AbortDeadlocked(c) ==
  /\ call[c] = "open"
  /\ Deadlocked(c)
  /\ Abort(c)
  /\ UNCHANGED faults

\* Directus or the database fails during the transaction.
Fail(c) ==
  /\ call[c] = "open"
  /\ Abort(c)
  /\ UseFault

-----------------------------------------------------------------------------

RelayStep(d) == Invoke(d) \/ Answer(d) \/ GiveUp(d)

Transact(c) == UpdateRow(c) \/ Commit(c) \/ AbortDeadlocked(c) \/ Fail(c)

SyncNext ==
  \/ \E s \in Sale : Deliver(s)
  \/ \E d \in Delivery : RelayStep(d)
  \/ \E c \in Call : Transact(c)

Next == (\E s \in Sale : Request(s)) \/ SyncNext

Spec == Init /\ [][Next]_vars

\* EventBridge and Lambda hand every accepted event over, and Directus works
\* on every call. Nothing promises that a sale asks, or that something fails.
Progress ==
  \/ \E s \in Sale : deliveries[s] < requests[s] /\ Deliver(s)
  \/ \E d \in Delivery : Invoke(d) \/ Answer(d)
  \/ \E c \in Call : UpdateRow(c) \/ Commit(c) \/ AbortDeadlocked(c)

FairSpec == Spec /\ WF_vars(Progress)

-----------------------------------------------------------------------------
(* Properties *)

Committed(s) == {c \in Call : c[1][1] = s /\ call[c] = "committed"}

\* Every invocation for a delivery failed; no queue keeps the event.
Dropped(s) == \E n \in 1..MaxDeliveries : relay[<<s, n>>] = "dropped"

\* The units of a book that the first n items of a call ask for,
Units(c, n, b) ==
  UNION {{<<c, i, k>> : k \in 1..ItemsOf(c)[i].quantity} :
           i \in {j \in 1..n : ItemsOf(c)[j].book = b}}

\* ... and those that the committed transactions asked for.
TakenUnits(b) ==
  UNION {Units(c, Len(ItemsOf(c)), b) : c \in {d \in Call : call[d] = "committed"}}

Taken(b) == Cardinality(TakenUnits(b))

\* No decrement is lost, split or invented: the stock is what the committed
\* calls, each with all its items, leave of the opening stock, whatever ran
\* concurrently, was rolled back or deadlocked. About the transaction and
\* GREATEST of the decrement operation. Availability flips to 'out_of_stock'
\* exactly when the stock runs out (the comment in api.ts:47-53).
StockIsAccountedFor ==
  \A b \in Book :
    /\ stock[b] = Monus(OpeningStock[b], Taken(b))
    /\ availability[b] =
         IF stock[b] = 0 /\ Taken(b) > 0 THEN "out_of_stock" ELSE OpeningState[b]

\* A sale takes its stock once for each event it published, and again only
\* after the bus repeated a delivery or the relay missed an answer. About the
\* relay's only protection, its throw on an answer that is not 2xx.
RepeatNeedsMissedAnswer ==
  \A s \in Sale : Cardinality(Committed(s)) <= requests[s] + repeats[s]

\* An accepted request takes its stock or fails in all invocations Lambda
\* grants it: no lost answer, failed transaction or deadlock makes it be
\* forgotten. About the relay's throw and the retries it relies on.
RequestIsServed ==
  \A s \in Sale : requests[s] > 0 ~> (Committed(s) # {} \/ Dropped(s))
=============================================================================

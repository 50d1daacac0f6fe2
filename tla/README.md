# pk-literature in TLA+

This directory specifies pk-literature, a Tamil book catalogue and its shop:
payments, carts and checkout, the chain that takes a sold book out of stock, the
crawl of publishers' sites and the editors' way from a crawled book to the
catalogue, accounts and sessions, and the pages that search, browse and sell.
TLC checks the specifications on small instances; TLAPS proves nearly all of
their safety properties for every instance, that the payment service implements
its ledger, and what the composition of payments and stock keeps. `PROJECT.json`
relates every definition to the lines it models.

Paths below are relative to the repository's `apps/` unless they start with
`plan/`, `packages/` or `terraform/`.

## The system

| Component | State | Operations | Talks to |
| --- | --- | --- | --- |
| api-commerce: payments | `commerce.payments`, `commerce.orders.status` | create-order, pay-later, Razorpay's webhook | Razorpay, event bus |
| api-commerce: cart, checkout, orders | `commerce.cart`, `cart_items`, `orders`, `order_items` | get, upsert, remove, checkout, list | catalog tables (read), event bus |
| api-commerce: event handler | `commerce.cart`, `customers` | mergeAnonymousCart on UserRegistered | event bus |
| api-commerce: inventory relay | none; Lambda's retry count | forwards InventoryDecrementRequested | Directus flow (HTTP) |
| directus: decrement-inventory-stock | `catalog.inventory` | one transaction of updates | PostgreSQL |
| directus: promote-staging-book | `staging.staging_books`, `catalog.*`, covers in S3 | promotes an approved staging book, fired by a flow | PostgreSQL, S3 |
| directus: bootstrap script | Directus's own collections, flows, settings | creates what is missing, corrects what differs | Directus (HTTP) |
| medusa: commerce-orders administration | `commerce.orders.status`, `shipments` | list, order page, status, shipment, walk-in sale | event bus |
| api-publisher-import | `staging.import_runs`, `staging_books`, the publisher's cursor | start, submit, complete, cursor | event bus, S3 |
| publisher-crawler, adapter-sdk | position in a publisher's catalogue | a run: discover, fetch, normalize, submit | publishers' sites, api-publisher-import (HTTP) |
| api-identity | `identity.users`, `sessions`, `addresses`, `anonymous_profiles` | register, login, refresh, logout, addresses | event bus |
| api-feed | `discovery.interest_events`, `feed_shelves`, `banners` | feed, shelf page, like | catalog tables (read) |
| api-catalog, api-search | none (reads) | lists, details, search with facets | PostgreSQL |
| web | state of the open page | book, cart, checkout, search, reels, hearts | the APIs, Razorpay's script |
| migration-runner | schema versions, role passwords | up, down | PostgreSQL |
| packages, terraform | none | types, configuration | |

The APIs run in AWS Lambda, one request per invocation, any number at once.
They share one PostgreSQL database and talk through EventBridge, which
delivers at least once, in any order, to Lambdas that AWS retries. Directus
and Medusa are long-running services; the crawler and the set-up script are
jobs that anybody may start again.

What is hard in it:

* **Statements without a transaction.** `payments.service.ts` opens none:
  invocations interleave between its statements and may die between any two.
  Checkout reads the cart before the transaction that converts it; a refresh
  checks a session and revokes it in two statements.
* **Idempotence by reading first.** The webhook, the cart lookup, the promotion,
  the session rotation and every step of the set-up script read, decide, and
  write later.
* **Redelivery.** Razorpay repeats and reorders notifications; EventBridge and
  Lambda repeat events; the relay repeats calls whose answer it missed. The
  event and the call carry no identity Directus could recognise.
* **Locks.** The decrement updates rows in the order of the event's items; a
  default address is kept alone by row locks and a unique index together.
* **Two stores.** A promotion copies the cover in S3 inside a database
  transaction that may be rolled back.
* **One column, several writers.** The webhook and the administration both
  write an order's status, sales and promotions a book's stock, without looking
  at it.
* **Pages ahead of their answers.** The web and admin pages go on while
  requests are in flight, and cut lists by queries that the catalogue may change
  between.

What makes each component correct: a payment settles its own order, is
announced once, and takes stock once; what is announced is on record; a cart
becomes one order with the cart's items; stock is what sales left of it; nothing
that was paid for is forgotten; an import misses no book and overwrites no
editor's decision; a staging book becomes one catalogue book, and an approval is
heard; a refresh token is used once and a logout ends its session; a customer
has one default address; a page shows each book once and says what the shop will
charge.

## Modules

| Module | Models |
| --- | --- |
| `Payments` | `api-commerce/src/payments`, with Razorpay and the bus as environment |
| `PaymentLedger` | the abstract promise of the payment service |
| `InventorySync` | the bus, the relay and Directus's decrement transaction |
| `Fulfilment` | `Payments` + Medusa's routes + `InventorySync`, composed |
| `Cart` | cart, checkout, order list, registration's merge |
| `Import` | the crawler's runs, `api-publisher-import`, and the editors' approval |
| `Adapters` | the three publisher adapters and one crawl of a changing site |
| `Bootstrap` | `directus/scripts/bootstrap.ts`, call by call |
| `Promotion` | approvals, the promotion flow, its transaction and S3, re-crawls, sales |
| `Editorial` | `Bootstrap` + `Promotion`, composed |
| `Identity` | registration, login, refresh, logout |
| `Addresses` | the address book: API transactions and the page |
| `Storefront` | one tab from the book page to the confirmation |
| `Catalog` | what editors change and `api-catalog` reads |
| `Interest` | hearts and interest events |
| `Search` | `Catalog` + `Interest` + the pages of search, of all books and of a book |
| `Feed` | `Catalog` + `Interest` + the feed's shelves and the reels |
| `Admin` | the order list with its walk-in form, and the order page |
| `...Proofs` | theorems: Payments (and its ledger), Inventory(Sync), Fulfilment, Cart, Import, Account (`Identity`, `Addresses`), Editorial (the set-up script, the approvals, promotions), Pages (`Interest`, `Admin`, `Storefront`, `Search`, `Feed`) |
| `MC...` | instances for TLC; `MCParts` runs the parts that share no state |

Definitions whose comment begins with "Mutant" are variants that a plausible bug
would make of the next definition. They are used by no specification.

### Payments

A row of `commerce.payments` is identified with the Razorpay order it was
created for. The state is the two tables, Razorpay's view (`gateway`, `hooks`,
`acked`), the registers of each invocation (`pc`, `onOrder`, `onPayment`) and
the events the bus accepted. Every SQL statement, gateway call and `publish`
is an action; `pc` names the next one. The first read of a handler is joined
to the decision it leads to (`CreatePaymentOrder`, `PayLater`,
`AcceptCaptured`, `IgnoreWebhook`...), because nothing happens between them.
`Crash` ends an invocation before its next statement: the process dies or
times out, the database refuses, Razorpay answers non-2xx, or `client.send`
rejects. `Publish` also has the branch in which PutEvents answers with an
ErrorCode, which the code only logs.

Razorpay is the environment: it captures an open order once, may report failed
attempts before that, and repeats a notification until a 2xx. A delivery
beyond that is a duplicate and counted. `OrderedDelivery` restricts it to send
no `failed` after the capture.

`raced` and `regressed` are history: which payments two invocations captured
together, which were written failed after captured. Nothing reads them but the
properties.

`PaymentLedger` is what SPEC-06 promises ("Idempotent payment processing").
The payment service implements it (`Payments!Ledger`) as long as no two
invocations capture one payment together and no late `payment.failed` undoes a
capture, so with one invocation at a time and notifications in order whatever
crashes and is redelivered; `payments_once` and `RepeatNeedsRaceOrRegress` say
what happens otherwise.

### InventorySync and Fulfilment

`requests` counts the events a sale published. A delivery is one hand-over to
Lambda, with up to `MaxAttempts` invocations of the relay; each invocation
opens one Directus transaction (`call`). A transaction updates one row per
step, holds the rows it wrote until it ends (`Locks`), and sees the version
the previous holder committed, as PostgreSQL's READ COMMITTED does for
`UPDATE`. `stock` and `availability` are the committed columns, `written` the
newest version. A cycle of waiting transactions is broken by aborting a member
(`AbortDeadlocked`). `GiveUp` is the relay that stops waiting: its call goes
on and may still commit.

Assumed of what is outside `apps/`: Directus answers non-2xx when the flow's
operation throws, and 2xx otherwise (`bootstrap.ts` creates the flow as a
synchronous webhook); a failed asynchronous Lambda invocation is retried twice,
the default of AWS, which `terraform/environments/prod/api-commerce.tf` does not
change, and then dropped, since it configures no dead-letter queue.

`Fulfilment` extends `Payments` and instantiates `InventorySync` with the
payments and the walk-in sales as its sales; `Payments!requests` and
`storeRequests` are the instance's `requests`. The components share the order's
status and the budget of faults. Medusa's routes are actions: a walk-in sale is
committed in one transaction and published afterwards; the status route writes
any status; a shipment sets `shipped` whatever the status was. Because of that
second writer of `orders.status`, what makes an order paid is stated here
(`PaidNeedsCapture`) and not of `Payments` alone: a webhook, for a captured
payment of the order and once for each, or a store keeper, who by
`payments.service.ts:116-119` marks a pay-later order paid with no capture.

### Cart

An invocation finds the visitor's cart (`FindCart`), creates one if there is
none (`CreateCart`, which the unique index refuses when another request was
faster), and then edits a line or checks out (`ReadCart`, `PlaceOrder`). The
prices, addresses and the validation of the stock only decide whether a
request fails, and `Fail` may end it anywhere. `Register` publishes the
visitor's anonymous id, `MergeAnonymousCart` is one delivery of that event.
`overlapped`, `edited` and `handedOver` are history that records overlaps of
requests; `placedBy` is who checked out.

### Import and Adapters

`Import` has one publisher. `Catalogue` is his site as `discover()` pages
through it; it does not change. A run (`runImport`) is a process with the code's
own registers: `at` is `pageCursor` with `consumedThisPage`, `attempted` the
count the limit is compared with, `failing` is `sawAnyFailure`, and `processed`
whether `booksProcessed` is above zero. It takes up a book and either submits it
(`SubmitBook`) or fails before that (`SkipBook`, `withRetry` included).
`submission` is the API's side of a call: the upsert (`StoreRow`, `DeclineRow`),
the cover's object in S3 and the row that describes it (`PutCover`,
`RecordCover`), then the counters (`Count`), each a statement of its own and
without a transaction. Only the upsert looks at the row's status, and the
object's key is the same for every submission of a book. A run that misses an
answer goes on while the API still works on the book (`MissAnswer`).
`completeImportRun` is two statements, the run's row and the publisher's cursor.
`content` names the run whose submission a staging row holds, `object` and
`media` those of its cover; "open" stands for the three statuses a submission
may overwrite. What an editor decides on, and the catalogue gets, is all three
(`OnOffer`). `Approve` and `Promote` are one step each here; `Promotion` opens
them up.

Assumed: a site lists a book once. `MAX_BOOKS=0` means no limit to
`index.ts`, so a limit is positive. Nothing keeps runs of one publisher
apart (the workflow has no concurrency group), so they overlap freely.

`Adapters` has the other half: one run, a site that changes between pages, and
the adapters as they are. `discover` filters products and pages until a page is
empty, `fetchBook` takes the product from the cache of `discover` (the Shopify
adapters) or from its page, `normalize` and `validate` decide language, ISBN,
authors and issues. What a page says, parsed, is given as a record; `crawl.refs`
are the places, on the page that was discovered, of the refs still to do.

### Bootstrap, Promotion and Editorial

`Bootstrap` is `main()` of the script: each step reads what Directus has of a
name, and creates or corrects what it misses, one HTTP request per action. A
"flow" takes further requests (operations, links, entry), which are spared a
flow that is found; of the manual flows ("tuned") the location is corrected
where it is found to differ. Executions overlap and may die at any request; settings may
drift by hand. `copies` are the objects in Directus, with the execution that
made them, `wired` how complete they are.

In `Promotion` a staging row is approved (button, or a selection by the bulk
flow, which writes all rows in one event), rejected, crawled again, and promoted
by an operation that the approval fires. `ReadRow` is the operation's first
statement and early returns; then authors are looked up one by one, the book is
inserted or the match merged, the latest media row read (`ReadMedia`), the
object of the row's key copied (`CopyCover`), and `Commit` makes all rows
visible: those of the inventory only if the row that was read has a price. A
re-crawl goes on meanwhile in the three steps of `StagingBooksService.submit`:
the row, the object under the same key, its media row. PostgreSQL reads
committed rows, holds the merge's row locks and lets the ISBN's index wait and
refuse; `Abort` rolls back the rows, not the object in S3. `crossed`, `failed`,
`caught`, `interrupted`, `left`, `late`, `stockedBy`, `unfired` are history.

Assumed of `Match`: a row's match is given and stays, and is a book that is there
from the start. Several rows may have one match, since `detectDuplicate` takes a
book with a title that is merely alike.

`Editorial` joins them: an approval fires as many operations as there are whole
flows of the promotion's name. A behaviour either sets the workbench up
(`atWork = FALSE`, approvals may come at any time) or starts from what completed
executions leave, one alone or all at once, and has the editors at work.

### Identity and Addresses

A refresh token is the identity of its session. A request takes its steps by
statement: the registration's transaction, the check and revocation of a
rotation, the new session, the event, the answer that sets the cookie. Faults
end an invocation, refuse an event or lose an answer. `parent` records which
session a rotation replaced, `raced` which tokens two requests used at once.

`Addresses` has one request per device: the transaction's statements
(`clearDefaults`, insert or update, commit) with the row locks of the others and
the partial unique index, under which a second default waits and fails; then the
page's own list.

### Storefront, Search, Feed, Interest, Catalog, Admin

`Storefront` is one visitor's tab: calls of the cart are made while others are
in flight, answers come in any order to components that may be gone, the form
submits the cart as the API has it, and Razorpay's script loads once
(`loadPromise`). `Interest` has the optimistic hearts: a post carries the value
to set, and the pending flag keeps a heart's posts in order.

`Catalog` holds what editors change (status of works and books, stock) over
given rows. Lists are functions of the tables; where the code orders by a column
that is not unique, the list may come in any order that column allows
(`Orders`). That holds of a work's authors, too: two credits may have one
`sort_order`, and the list and the card read them by queries of their own
(`AuthorsByWork`). `Search` adds relevance, personalization, facets and paging, and a
visitor who walks the pages, follows a facet or opens a book; the reads of a page
(ids, count, facets) happen one by one while the catalogue changes. `Feed` adds
the composition of shelves, their further pages, and `fetchMore` of the reels.

`Admin` has the two pages of Medusa's admin: GETs in flight that nothing takes
back, the form for walk-in sales, which can be cancelled and opened again while
it is being saved, status and shipment of the first order.

## Runs

| Run | Question | Bounds |
| --- | --- | --- |
| `payments` | What survives concurrency, reordering, redelivery and a crash? | 1 order, 2 payments, 2 invocations, 1 duplicate, 1 fault |
| `payments_serial` | Is the service a correct ledger one invocation at a time? | 2 orders, 2 payments, 1 invocation, 2 duplicates, 1 fault, in order |
| `payments_once` | Is a redelivered webhook never a second OrderPaid? (no) | 1 invocation, 1 duplicate, no fault |
| `inventory` | Is stock conserved and no request forgotten? | 2 sales of 2 books in opposite orders, 2 deliveries, 3 invocations each, 1 fault |
| `fulfilment` | Does a payment take its books once, from end to end? | 1 order, 1 payment, 1 walk-in sale, 1 book, a store keeper who cancels or marks paid, 1 duplicate, 1 fault, 2 invocations of the relay |
| `cart` | What do concurrent cart requests, checkouts and merges break? | 1 visitor, 2 users, 1 book (up to 2 copies), 2 carts, 2 orders, 2 requests at once, 2 deliveries |
| `merge_redelivery` | Does a redelivered registration match no cart? (no) | the same |
| `import` | Do overlapping batches leave out a book, undo a decision, or miscount? | 2 runs, 3 books on 2 pages, limit 1 or none, 1 fault; 1 book with a cover, which the editors come to |
| `import_ends` | Does every run end? | 2 runs, 2 books on 2 pages, limit 1 or none, 1 fault |
| `stale_cursor` | Does a full crawl clear the cursor? (no) | the same |
| `editorial` | What does the set-up leave, is an approval heard, what does a promotion write? | 2 executions of 3 steps, 1 death, 1 drift; 4 rows (two with one match, two new by one author, one with an ISBN), 2 operations, a selection of 2, 1 row that is rejected or crawled again (with a cover, sold out or without a price), 1 copy, 1 sale, 1 failure |
| `parts` | What do the parts with state of their own promise? | see below |

Why the bounds suffice for what they show: a race needs two invocations, a
regress one reordered notification, a repeated announcement two deliveries of
one payment; two payments of one order show that they do not disturb each
other, two orders that a payment settles its own. A deadlock needs two
transactions with two rows each; the third invocation of a delivery is there
because deadlocks can use up the first two. In `cart`, two carts are a cart
and its successor, and two users the two registrations of one browser. In
`import`, a limit of one ends the first batch in the middle of a page and the
next at its end; two runs are a batch and its successor, or two that overlap
(they are symmetric, which the safety run uses). In `editorial`, two executions
are one that dies and its successor, or two that meet; a step of each of two
flows (one that is corrected, one that is not) and a setting stand for the
script's fourteen; the row that is crawled again is one of the two that match the
same book, has the cover and may be rejected, so that its submission, its
promotion and the other row's can meet; two operations are what two
flows of one name or two approvals fire. One fault at a time is what the code
claims to survive; the theorems hold for any number.

`parts` checks the modules that share no state in one run: the variable `part`
picks one, the others stay as they began, so the state space is the sum of
theirs (requests of `Identity` and devices of `Addresses` are symmetric).
Identity: 2 accounts in 1 browser, 2 requests at once, 3 sessions, 1 fault.
Addresses: 2 on 2 devices. Storefront: 1 book (up to 2 copies), 2 calls in
flight, 1 payment, 1 loss. Hearts: 3, two of them of one book, 4 clicks, 1 lost
post. Search: 4 books of 3 works (two editions of one, one without an inventory
row, one without an author; one work's author and translator share the first
place), liked or not, 2 queries, pages of 2, 3 visits, 1 edit. Reels: an
editorial shelf and new arrivals, with the two that are not stored, pages of 1,
fetches that may fail. Orders: 3 on pages of 2, 1 sale, 1 refusal, 3 GETs. Order
page: 2 acts. Crawl: a site of 5 products on pages of 2, the second page without
a book, each of the 3 adapters, 2 changes, 1 missed answer. The smallest numbers
at which each page has a successor, a request overlaps another, and a list has a
tie.

Deadlock checking is off: customers may stop ordering, the crawler's runs end,
and the bounded runs of TLC end with them.

### Fairness

`Payments!Fairness` gives weak fairness to each invocation's next statement
(Lambda runs an invocation to its end; dying is a fault) and to the delivery of
a notification that is not yet answered (Razorpay repeats it). In
`InventorySync`, weak fairness of `Progress`: the bus hands over what it
accepted, Lambda invokes, Directus works. In `Import`, a runner that has not
died goes on, and the API finishes what it was sent. In `Editorial`, an
operation that was fired goes on (`Advance`): Directus runs what it has started.
Customers, visitors, editors, set-up scripts and faults have none. Liveness
properties that a fault can defeat say so (`faults > 0`, `failed`).

## What the checks show

* `CapturedIsFinalized`, `CapturedTakesStock`: without a crash or a lost
  event, a captured payment gets its order paid and its books off the shelf.
* `RepeatNeedsRaceOrRegress`, `SaleTakesStockOnce`, `RepeatNeedsMissedAnswer`:
  repetition has four causes and no other: two webhooks that raced, a late
  `payment.failed`, a delivery the bus repeated, an answer the relay missed.
* `EventsFollowRecords`, `StockOnlyForSales`: nothing is announced before it is
  on record, no book leaves the shelf without a sale. `PaidNeedsCapture`: a
  webhook makes an order paid only for a captured payment of its own, and once
  for each, so a redelivery does not revive an order that was cancelled since;
  without a capture only a store keeper marks an order paid.
* `StockIsAccountedFor`: whatever deadlocks or fails, stock is the opening stock
  less the committed sales, not below zero, and availability flips exactly when
  it runs out. `RequestIsServed`: an accepted request takes its stock or has used
  up its invocations.
* `OneActiveCart`, `OrderFreezesCart`, `OneOrderPerCart`, `OrderIsListed`: what
  the cart's indexes and checkout guarantee, and the one overlap of requests that
  defeats each.
* `CursorSkipsNothing`: whatever batches overlap, fail or die, no book before
  the publisher's cursor was left out. `DecisionStands`: a re-crawl spares what
  an editor approved, and the catalogue gets that row. It gets that cover too,
  unless the approval fell between a submission's upsert and its cover's media
  row: then the submission still replaces the cover, approved or not.
* `NewBooksAreCreditedOnce`, `CompletedCountsAreFinal`: two runs never both
  count a book as new, and a completed run's counters move only if it missed
  an answer. `RunEnds`: a run stays "running" only if its runner died.
* `CrawlFindsEveryBook`: each missed answer and each change of the site costs a
  crawl one book at most.
* `CompletedLeavesWhole`, `ApprovalIsHeard`: a completed set-up leaves each
  object whole and once, but for an execution that died inside a flow or two that
  met; only then does an approval fire nothing. `ApprovedIsPromoted`: what is
  approved reaches the catalogue, if it was the first of its selection.
* `CreatedOnce`, `CoverMatchesRow`, `StockFollowsCrawl`, `RejectionStands`: what
  a promotion writes, and the overlap or failure that each needs to break. A
  cover and its description part behind a failure, or where a re-crawl replaces
  the staged object between a look at its media row and one at the object. Stock
  is what the publisher has by the row that was promoted last with a price, if
  several match the book; a row without a price leaves it as it is.
* `TokenIsSpentOnce`, `LogoutEndsSession`, `RegisteredIsAnnounced`,
  `DefaultStands`: sessions and addresses under overlapping requests.
* `OrderIsWhatWasShown`, `HeartIsLastLike`, `WalkSeesEachOnce`,
  `FacetLeadsToItsCount`, `CardsOpenAndCharge`, `ReelsShowEachOnce`,
  `SaleIsLoggedOnce`, `PagesShowTheOrders`: what the pages show agrees with what
  the tables hold, and what each page loses where requests overlap or fail.

Three claims of the code or its documents are violated, each with a run: the
webhook is not idempotent after a late `payment.failed` (`payments_once`); the
merge of a redelivered registration takes a later cart, or collides with the
index its comment says it cannot collide with (`merge_redelivery`); and the
importer's end-of-catalogue cursor `null` is sent as an absent field and not
written (`run-import.ts:71-75`, `sigv4-http-staging-ingest-client.ts:55`,
`import-runs.service.ts:53`), so after one batched run full crawls resume at
the batch's position (`stale_cursor`). A book that failed before that position is
then never submitted again: `CursorSkipsNothing` says a book was taken up, not
stored.

Disagreements found while modelling that have no run of their own; the
properties above hold with exactly these exceptions:

* The webhook updates payment and order in two statements; an invocation that
  dies between them leaves a captured payment whose order is never paid, since
  the redelivery returns early (`payments.service.ts:198-207`).
* `api-commerce/src/common/eventbridge.service.ts:4-9` says a publish must
  never fail the request; `client.send` rejects and nothing catches it.
* Migration `20260401000002_commerce_orders.sql:3-5` says the unique
  `idempotency_key` enforces idempotent processing; the key is a fresh UUID on
  every call, so an order can have any number of payments, and payLater called
  twice requests its stock twice.
* The webhook and `createShipment` set an order's status whatever it was:
  a cancelled or shipped order becomes `paid` again, which
  `plan/state-machines/order.md` does not have.
* Carts are found by `anonymous_id` only, so the cart a registration has handed
  over is out of its owner's reach.
* `bootstrap.ts:13-15` calls the script safe to re-run after a partial failure;
  a flow whose maker died half-way is found by its name and never completed.
* A bulk approval is one event with several keys, of which the promotion flow
  promotes `keys[0]` (`bootstrap.ts:926`).
* `razorpay.ts:39` keeps a rejected `loadPromise`: the form's Retry can never
  succeed in that tab.
* `reels-feed.tsx` moves its cursors on before a fetch that may throw: what was
  gathered is dropped, and the two shelves that are not stored always throw.
* `search.service.ts:167`: personalization counts as relevance, so a visitor
  with likes gets results for words that match nothing.
* A facet link replaces another value of the same facet (`search/page.tsx:26`).
* `session.service.ts:49-52` says a token is usable once; check and update are
  two statements.
* A second account registered in a browser takes over the first one's anonymous
  profile (`auth.service.ts:58-70`).
* The banner is the lowest `sort_order`, not the highest (`feed.service.ts:80`,
  `101`).
* Cards are built without the market, at INR prices (`books.service.ts:92`).
* A card and the book's page may name different first authors where two credits
  share the lowest `sort_order`, which is 0 unless somebody sets it
  (`api-search/src/common/book-card-builder.ts:88`, `works.service.ts:35`).
* `submit` guards its upsert by the status and then stores the cover without
  looking at it (`staging-books.service.ts:205-219`): a book approved in between
  gets a cover nobody reviewed. One key for all covers of a staging book
  (`media-storage.service.ts:31`) and a media row read before the copy
  (`promote-staging-book/src/api.ts:99-124`) let the catalogue hold one
  submission's image under another's checksum.

## What is proved

Each theorem holds for all values of the constants that satisfy the module's
assumptions (`...Assumption`: identifiers are distinct, bounds are naturals,
sequences are of what they should be). None of the invariants is inductive
alone; each proof module states the strengthening, shows that it holds initially
and that each action keeps it, and derives the properties.

`PaymentsProofs` (`TypeCorrect`, `EventsFollowRecordsHolds`,
`RepeatNeedsRaceOrRegressHolds`). `Structure` adds what a statement relies on
when it runs: `Row` (a row has an order and a provider together, a pay-later
payment has no Razorpay order and no OrderPaid), `Notification` (a notification
is about an inserted row, a `captured` one about a captured order), `Invocation`
(which row, notification and order status the executed statements of an
invocation leave it with) and `Exclusive` (a payment being made is known to its
invocation only). `EventsFollowRecords` then follows with `Monotone`: a payment
keeps its order and provider, captures and paid orders stay. For
`RepeatNeedsRaceOrRegress` the strengthening is `CleanOnce`: a payment that
neither raced nor regressed has at most one capturing invocation, that
invocation publishes while the row says `captured`, and nothing was published
before it.

The refinement: `UndisturbedLedger` says that a behaviour in which no payment
ever raced or regressed implements `PaymentLedger`, for any number of
invocations; each action maps to a step of the ledger or to a stutter.
An invocation announces after it has settled its order (`SettledFirst`), and once
(`CleanOnce`). `SerialLedger` adds that one invocation and `OrderedDelivery` are
such a case: who writes `failed` does not find the payment captured (`Serial`).

`FulfilmentProofs` (`FulfilmentInvariant`, `StockOnlyForSalesHolds`,
`SaleTakesStockOnceHolds`, `PaidNeedsCaptureHolds`, `ShelfIsAccountedFor`)
composes. Medusa writes order
statuses behind the back of `Payments`, so what is kept of that is the part which
relies on no order's status (`Paying`: `Structure`, `CleanOnce`, and that what is
requested is captured or collected later); `SettledFirst`, which does rely on it,
is left out. `InventorySync` keeps `SyncInv` and `StockInv` with the payments and
the walk-in sales as its sales: to it a request of either is a step of its own
environment. `DeliveredIsRequested` joins the two: a delivery belongs to a sale
that requested its stock. `WhoSettles` says which statement of `Payments` makes an
order paid, and what `Structure` and `CleanOnce` then know of its payment; what
else writes the status is Medusa's route.

`CartProofs` (`CartTypes`, `OneActiveCartHolds`, `OrderFreezesCartHolds`,
`OneOrderPerCartHolds`, `OrderIsListedHolds`). `CartInv` says what an invocation
knows of its cart at each step, that an ordered cart's lines are frozen but for
requests that had found it (`Frozen`), that two orders of a cart need two
invocations that both held it (`Single`), and whose id a cart carries (`Owned`);
`Counted` bounds the deliveries of a registration.

`InventoryProofs` (`SyncTypes`, `RepeatNeedsMissedAnswerHolds`,
`StockIsAccountedForHolds`). For the stock (`StockInv`), one row at a time: its
one locker sees the committed version less what it has taken, and the committed
version is the opening row less the units of the committed calls. Units are
counted as elements of a set, one per copy, since no sum over a set can be
proved about here. For the repeats calls are counted: those that are committed or may still commit, and deliveries that owe
one, are together at most the requests and repeats. The proof counts finite sets,
so it uses the library's theorems on cardinality.

`ImportProofs` (`TypeCorrect`, `NothingSkipped`, `EditorsDecide`,
`CountsAreFinal`, `CreditedOnce`). For the cursor the strengthening is `Covered`: the same holds
of every run's own position, which `PersistCursor` may store and `Begin` may
start from; the lemmas on positions carry it (`BeforeNextBook`,
`BeforeNextPage`). `Decision` adds that only a protected row was decided on, that
it holds the row that was (`Settled`), and that unless it was `unsettled` no
submission has a cover of it left to store, hence the cover stays as well;
`Waiting` that the API works on a submission only while its run
waits for that very book, died waiting for it, or has missed an answer. For the
counters, credits and rows are sets again (`Credited`, `Uncounted`, `Rows`), and
`Accounted` says that they balance.

It also holds `CrawlFindsEveryBookHolds`, under `AdaptersSpec`. `CrawlInv` divides
the site's places by the border of what was read (`WasRead`): before it each book
is still to do and not submitted, or submitted once; behind it there is nothing of
it yet (`InOrder`). The books for which that fails are `Astray`, and `CrawlCounts`
bounds their number in every state, not only at the end: a missed answer adds the
one book the crawl was at, a change of the site the one product that it moves over
the border, and no other step adds any. `HandlesApart` and `CrawlIsAt` tie a
submission to the ref it came from. Assumed: the site's products are a sequence,
each with a handle of its own, and the new one has another.

`AccountProofs`, of `Identity` (`IdentityTypes`, `SpentOnce`, `LogoutHolds`,
`RegistrationHolds`): `Sessions` says who is between the check of a session and
its revocation, that a second such request makes the token `raced`, and which
session a browser or an answer on its way holds. Of `Addresses`
(`AddressesTypes`, `DefaultStandsHolds`): `Excluded`: two
transactions never hold one row, the index lets one write a default, and that one
has cleared every other; `Chosen`: a default that was chosen stands alone.

`EditorialProofs` (`BootstrapTypes`, `CompletedLeavesWholeHolds`,
`ApprovalIsHeardHolds`), for scripts of any length and any number of executions.
`Position`: what an execution has not come to yet it has not made; `Made`: an
object is whole, or its maker is at it or died over it; `Past`: what an execution
has left behind it is whole, or someone died over it, or two met there; `Alone`:
without an overlap one execution makes an object.

It also holds the promotions (`PromotionTypes`, `CreatedOnceHolds`,
`CoverMatchesRowHolds`, `StockFollowsCrawlHolds`, `RejectionStandsHolds`), under
`EditorialSpec`, so for any number of flows that approvals fire. `Together`:
operations that run at once are `crossed`, so a row that is found promoted by a
running operation (`Judged`), an author found missing twice (`Named`) and a
second book of a row (`MadeOnce`) have a crossed operation behind them.
`Recorded`: unless a cover was replaced between two looks (`interrupted`) the
staged object is the submission that is next to be described, or is described.
With that and `Exclusive`, by which the merge's locks keep one book to one
transaction, what an operation copies is what it will describe, and the book's
object and row part only at one place (`Covered`). `Stocked`, row by row: what a
row lists, and what an operation has read of it, is what the publisher has left,
or a copy was sold since; the row a book's stock is of was promoted to it and
will not be again, so that another row of the same match takes its place and
never shares it.

`PagesProofs`, of the pages, each for its own specification:

* `HeartIsLastLikeHolds` (`HeartsInv`): a heart with a post out is pending, has no
  other and shows what the post says (`PostedOnce`); once it is recorded, the
  heart shows what its book's last event says (`Recorded`).
* `SaleIsLoggedOnceHolds` (`SalesInv`): the orders of a form, there or coming, are
  at most the answers that were no success and the press it still waits for
  (`Pressed`). It counts the orders, so the order page's steps, which rewrite
  them, are shown to leave each form's alone.
* `OrderListShowsTheOrders` (`ListInv`) and `OrderPageShowsTheOrder`
  (`DetailInv`): unless requests overlapped one is under way at most (`OneLoad`,
  `OneAct`), and what it read, or what is shown without one, is what the table
  has (`ListCurrent`, `DetailCurrent`). The page turned to is there because the
  orders of a filter only become more (`PageIsThere`).
* `OrderIsWhatWasShownHolds` (`StoreInv`): unless calls of the cart overlapped the
  page shows the cart or nothing (`CartIsShown`), and from Proceed on only a
  checkout touches it, one of which makes an order (`CartIsIntended`).
* `WalkSeesEachOnceHolds`, `FacetLeadsToItsCountHolds`,
  `CardsOpenAndChargeHolds` (`SearchInv`). The walk rests on `OneOrder`: a
  relation that decides between any two books leaves one sequence of them, so two
  pages that were read at different moments are pages of the same sequence, and
  `WalkInv` can say that what was walked is its start. That one sequence exists
  needs no proof: a page that was read is a page of one. `SearchSpec` allows more
  than the run: any likes at the start, and likes that change meanwhile.
* `ReelsShowEachOnceHolds` (`ReelsInv`), under `FeedSpec`, which starts from any
  likes. A shelf that is not tied gives each of its books a place, and what its
  first `n` pages show is the books of the first places (`Reached`). GET /feed
  leaves out what other shelves showed, so that its page of a shelf ends further
  on than the first page of the whole shelf and never before it (`FirstPage`);
  the pages that follow leave nothing out, and go on from there (`FurtherPage`).
  `Reading` says so of every cursor, and that a shelf without one was shown by
  the others; `CursorInv` that what the reels have passed has nothing more;
  `GatheredInv` that no book is gathered twice and, unless a fetch failed, none
  that was seen is lost.

What these assume of the constants beyond their types: `Book` is finite and its
ids, titles, arrivals and places in a collection are numbers (sort keys), a work's
authors and themes are finitely many, a shelf has one of the types of
`discovery.shelf_type` and an editorial one a collection; the two names that stand for
pages without words are no query, and `AnyValue` is no value of a facet.

## What is only model-checked, and what is not modelled

Beyond the prover and left to TLC: liveness under fairness
(`CapturedIsFinalized`, `RequestIsServed`, `CapturedTakesStock`, `RunEnds`,
`ApprovedIsPromoted`), which needs ENABLED. Every invariant that a run expects to
hold is a theorem.

Not modelled:

* medusa's order-placed subscriber: no order of this repository raises its event;
* eventbridge-put-event: one call without state; OrderCreated: no rule in
  `terraform/` has a target for it;
* the migration runner: one invocation by an operator, with a library's own
  bookkeeping;
* autocomplete and browse lists, authors', publishers' and themes' lists: reads
  that follow the ones modelled;
* the account, login and register pages: they call `Identity`'s operations and
  keep their fields only;
* displays, rendering, packages of types, terraform (what the behaviour depends
  on is quoted above);
* data that no property tells apart: amounts beyond a card's price, currencies,
  signatures, password hashes, JWT contents, texts; of the import, a staging
  book's inventory and validation rows, which no code reads back, and the search
  for a match.

## Plan

Done: all modules above. What remains, in this order:

1. The submission's other writes in `Import`: match and validation, joined to
   `Promotion`, whose `Match` is given; a site that changes during batched runs,
   joining `Adapters`.
2. An abstract import for `Import` to implement: every book of the catalogue is
   taken up between two full crawls.

------------------------------ MODULE Catalog ------------------------------
(***************************************************************************)
(* The catalogue and what apps/api-catalog reads of it. Its rows are given *)
(* but for what editors and sales change: the status of works and books,   *)
(* and the availability. A list the code orders by a column that is not    *)
(* unique may come in any order that the column allows.                    *)
(***************************************************************************)
EXTENDS Integers, FiniteSets, SequencesExt

CONSTANTS
  Book,        \* ids, which Postgres orders: numbers
  Work, Publisher,
  BookRow,     \* [Book -> work, publisher, title and arrival (sort keys: numbers),
               \*          price (NoPrice: no inventory row), priceSgd]
  WorkRow,     \* [Work -> credits (its rows of work_authors: author, role and
               \*          sort_order), themes]
  Collection,  \* catalog.collections ...
  BookCollections, \* [Collection -> [its books -> sort_order]]
  Published,   \* ... the collections that are published
  NoPrice,
  MaxEdits     \* bound: editorial changes and sales

ASSUME CatalogAssumption ==
  /\ Book \subseteq Nat /\ IsFiniteSet(Book)
  /\ \A b \in Book : /\ BookRow[b].work \in Work /\ BookRow[b].publisher \in Publisher
                     /\ BookRow[b].title \in Nat /\ BookRow[b].arrival \in Nat
  /\ \A w \in Work : /\ IsFiniteSet(WorkRow[w].credits) /\ IsFiniteSet(WorkRow[w].themes)
                     /\ \A c \in WorkRow[w].credits : c.sortOrder \in Int
  /\ \A c \in Collection : /\ DOMAIN BookCollections[c] \subseteq Book
                           /\ \A b \in DOMAIN BookCollections[c] : BookCollections[c][b] \in Int
  /\ Published \subseteq Collection
  /\ MaxEdits \in Nat

VARIABLES
  workStatus,  \* catalog.works.status
  published,   \* catalog.books with status 'published'
  inStock,     \* catalog.inventory with availability 'in_stock'
  edits,
  demoted      \* history: works an editor took back by hand

catalogVars == <<workStatus, published, inStock, edits, demoted>>

CatalogInit ==
  /\ workStatus \in [Work -> {"draft", "approved", "published"}]
  /\ published = {b \in Book : workStatus[BookRow[b].work] = "published"}
  /\ inStock = {b \in Book : BookRow[b].price # NoPrice}
  /\ edits = 0 /\ demoted = {}

Edit == edits < MaxEdits /\ edits' = edits + 1

\* Mutant: the book is published alone.
PublishAlone(b) ==
  /\ Edit /\ workStatus[BookRow[b].work] \in {"approved", "published"}
  /\ published' = published \union {b}
  /\ UNCHANGED <<workStatus, inStock, demoted>>

\* The toggle writes the opposite of what its page last saw, so either status.
\* enforce_book_work_status refuses a book whose work is not approved, and
\* publishes the work with the book.
Publish(b) ==
  LET w == BookRow[b].work IN
  /\ Edit
  /\ workStatus[w] \in {"approved", "published"}
  /\ published' = published \union {b}
  /\ workStatus' = [workStatus EXCEPT ![w] = "published"]
  /\ demoted' = demoted \ {w}
  /\ UNCHANGED inStock

Unpublish(b) ==
  /\ Edit
  /\ published' = published \ {b}
  /\ UNCHANGED <<workStatus, inStock, demoted>>

\* An editor sets a work's status in Directus: nothing looks at its books.
SetWorkStatus(w, status) ==
  /\ Edit
  /\ workStatus' = [workStatus EXCEPT ![w] = status]
  /\ demoted' = IF status = "published" THEN demoted \ {w} ELSE demoted \union {w}
  /\ UNCHANGED <<published, inStock>>

\* The last copy is sold, or new ones come in.
SetAvailability(b) ==
  /\ Edit
  /\ BookRow[b].price # NoPrice
  /\ inStock' = IF b \in inStock THEN inStock \ {b} ELSE inStock \union {b}
  /\ UNCHANGED <<workStatus, published, demoted>>

CatalogNext ==
  \/ \E b \in Book : Publish(b) \/ Unpublish(b) \/ SetAvailability(b)
  \/ \E w \in Work, status \in {"draft", "approved", "published"} : SetWorkStatus(w, status)

-----------------------------------------------------------------------------
(* Lists and pages *)

\* The orders a query may return S in, where ORDER BY puts some rows before
\* others.
Orders(S, Before(_, _)) ==
  {s \in SetToSeqs(S) : \A i, j \in DOMAIN s : i < j => ~Before(s[j], s[i])}

\* PaginationDto: LIMIT size OFFSET (page - 1) * size.
Page(rows, page, size) ==
  SubSeq(rows, (page - 1) * size + 1, IF page * size < Len(rows) THEN page * size ELSE Len(rows))

\* paginate: totalPages.
TotalPages(total, size) == (total + size - 1) \div size

-----------------------------------------------------------------------------
(* BooksService and WorksService *)

\* A price_sgd that is absent is as no inventory at all.
ToInventory(b, market) ==
  LET row == BookRow[b]
      price == IF market = "SG" THEN row.priceSgd ELSE row.price IN
  IF row.price = NoPrice \/ price = NoPrice THEN NoPrice
  ELSE [price |-> price, currency |-> IF market = "SG" THEN "SGD" ELSE "INR"]

Authors(w) == {c.author : c \in WorkRow[w].credits}

\* What the query for the credits of works may answer: it orders by sort_order
\* alone, 0 unless set, and two credits of a work may have the same.
CreditOrders(w) ==
  LET Before(c, d) == c.sortOrder < d.sortOrder IN Orders(WorkRow[w].credits, Before)
AuthorsByWork ==
  {answer \in [Work -> UNION {CreditOrders(w) : w \in Work}] :
     \A w \in Work : answer[w] \in CreditOrders(w)}

\* Two authors come first.
FirstIsShared(w) ==
  \E c, d \in WorkRow[w].credits :
    /\ c.author # d.author
    /\ \A e \in WorkRow[w].credits : c.sortOrder <= e.sortOrder /\ d.sortOrder <= e.sortOrder

\* The summary is of any work, whatever its status.
Summary(w, answer) == [id |-> w, authors |-> answer[w]]

CollectionsByBook(b) == {c \in Published : b \in DOMAIN BookCollections[c]}

\* GET /books: the rows of a page, in the order of titles, and the count.
ByTitle(b, c) == BookRow[b].title < BookRow[c].title
ListRows(page, size) == {Page(s, page, size) : s \in Orders(published, ByTitle)}
ListCount == Cardinality(published)

BookListItem(b, market, answer) ==
  [id |-> b, work |-> Summary(BookRow[b].work, answer), inventory |-> ToInventory(b, market)]

NotFound == [status |-> 404]

\* GET /books/{id}; the work's summary is any of "work".
GetBook(b, market) ==
  IF b \notin published THEN NotFound
  ELSE [status |-> 200, id |-> b,
        work |-> {Summary(BookRow[b].work, answer) : answer \in AuthorsByWork},
        collections |-> CollectionsByBook(b), inventory |-> ToInventory(b, market)]

\* GET /works/{id}; the list of authors is any of "authors".
GetWork(w) ==
  IF workStatus[w] # "published" THEN NotFound
  ELSE [status |-> 200, id |-> w, authors |-> CreditOrders(w), themes |-> WorkRow[w].themes]

\* BookCardBuilder.build, in api-search and in api-feed: any book by its id, at
\* the price of the home market. Its query for the authors is another one than
\* WorksService's, and as little ordered.
PrimaryAuthor(credits) == IF credits = <<>> THEN {} ELSE {credits[1].author}
BuildCard(b, answer) ==
  [id |-> b, author |-> PrimaryAuthor(answer[BookRow[b].work]),
   price |-> IF BookRow[b].price = NoPrice THEN NoPrice
             ELSE [price |-> BookRow[b].price, currency |-> "INR"]]
Build(ids, answer) == [i \in DOMAIN ids |-> BuildCard(ids[i], answer)]

-----------------------------------------------------------------------------
(* CartService.upsertItem prices a book by a query of its own. *)

Charged(b, market) ==
  LET row == BookRow[b]
      price == IF market = "SG" THEN row.priceSgd ELSE row.price IN
  IF b \notin published \/ row.price = NoPrice \/ price = NoPrice THEN NoPrice
  ELSE [price |-> price, currency |-> IF market = "SG" THEN "SGD" ELSE "INR"]
=============================================================================

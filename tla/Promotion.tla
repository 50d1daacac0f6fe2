------------------------------ MODULE Promotion ------------------------------
(***************************************************************************)
(* From a staging book to the catalogue: the approvals of the editors      *)
(* (approve-button, the bulk flow of bootstrap.ts), the flow they fire and *)
(* its operation promote-staging-book, which runs as one transaction but   *)
(* copies the cover in S3 on the way. Meanwhile the publisher is crawled   *)
(* again and books are sold. A submission of a crawl is three steps: the   *)
(* row, the object of its cover under a key that is the row's alone, and   *)
(* the media row that describes it; the last two look at no status.        *)
(*                                                                         *)
(* PostgreSQL reads committed rows: what an operation writes is seen by    *)
(* others at its commit, what it read may have changed by then.            *)
(***************************************************************************)
EXTENDS Naturals, Sequences, FiniteSets, SequencesExt

CONSTANTS
  Row,         \* rows of staging.staging_books
  Firing,      \* executions of the promotion flow
  Existing,    \* books in the catalogue
  Match,       \* matched_book_id of a row, or None; with its matched_work_id.
               \* Titles need only be alike: several rows may match one book
  Authors,     \* author_names of a row
  HasIsbn,     \* rows with an isbn13, which catalog.books keeps unique
  HasCover,    \* rows whose submissions come with a cover
  Incomplete,  \* rows without a title or a language
  Selection,   \* selections of rows that an editor approves at once
  None,        \* no match, no cover, or no price
  Doubtful,    \* bound: rows that an editor may reject
  MaxStock,    \* bound: copies of one book
  Listing,     \* bound: what a publisher's site lists at a later crawl
  MaxCrawls,   \* bound: submissions of each row
  MaxSales,    \* bound: copies sold of one book
  MaxFailures  \* bound: operations that a fault ends

Name == UNION {ToSet(Authors[r]) : r \in Row}

\* A new book has the identity of the operation that inserts it.
Book == Existing \union Firing

ASSUME PromotionAssumption ==
  /\ Existing \intersect Firing = {} /\ None \notin Book \union Row \union Nat
  /\ Match \in [Row -> Existing \union {None}]
  /\ HasIsbn \subseteq Row /\ HasCover \subseteq Row /\ Incomplete \subseteq Row
  /\ Doubtful \subseteq Row /\ Listing \subseteq (0..MaxStock) \union {None}
  /\ \A r \in Row : Authors[r] \in Seq(Name)
  /\ \A s \in Selection : s # <<>> /\ s \in Seq(Row) /\ IsInjective(s)
  /\ MaxCrawls \in [Row -> Nat \ {0}]
  /\ {MaxStock, MaxSales, MaxFailures} \subseteq Nat

VARIABLES
  status,      \* staging_books: status; "open" for what a crawl may overwrite
  promoted,    \* ... promoted_book_id
  crawl,       \* ... the submission it holds, counted
  listed,      \* ... stock, None where it has no price
  toPut,       \* submissions <<row, number>> whose cover has yet to be stored
  toRecord,    \* ... whose cover has no row of staging_media yet
  object,      \* staging/<row>/cover-original in S3: the submission it is of
  described,   \* the latest row of staging_media: the submission it is of
  source,      \* catalog.books: the row each new book was made from
  authors,     \* catalog.authors: how many rows have the name
  stock,       \* catalog.inventory: stock
  cover,       \* the object covers/<book>/cover-original in S3: its submission
  media,       \* catalog.media_assets: the submission whose cover it describes
  step, row,   \* an operation: its next step, the row it works for
  seen,        \* ... the stock it read of that row
  found,       \* ... the submission of the media row it read, 0 if there is none
  names, born, \* ... author names to go, authors it inserts
  on,          \* ... the book it writes
  unfired,     \* history: why the last approval of a row fired nothing for it
  crossed,     \* history: operations that ran while another one did
  failed,      \* history: operations that failed
  caught,      \* history: rows rejected while an operation worked for them
  interrupted, \* history: rows whose cover was replaced between a look at its
               \* media row and one at the object
  left,        \* history: copies of a row's book, by its crawl and the sales
  late,        \* history: rows whose book was sold between crawl and promotion
  stockedBy,   \* history: the row whose promotion a book's stock is of
  sales, failures

staging   == <<status, promoted, crawl, listed>>
uploads   == <<toPut, toRecord, object, described, interrupted>>
catalogue == <<source, authors, stock, media>>
operation == <<step, row, seen, found, names, born, on>>
shop      == <<left, late, stockedBy, sales>>
marks     == <<unfired, crossed, failed, caught, failures>>
promotionVars == <<staging, uploads, catalogue, cover, operation, marks, shop>>

Status == {"open", "approved", "promoted", "rejected"}
OperationStep == {"idle", "fired", "link", "insert", "merge", "media", "copy", "write",
                  "done"}

Stock == 0..MaxStock
Submission == Row \X Nat

\* A transaction is open.
Running(f) == step[f] \notin {"idle", "fired", "done"}

PromotionTypeOK ==
  /\ status \in [Row -> Status]
  /\ promoted \in [Row -> Book \union {None}]
  /\ crawl \in [Row -> Nat] /\ \A r \in Row : crawl[r] <= MaxCrawls[r]
  /\ listed \in [Row -> Stock \union {None}]
  /\ toPut \subseteq Submission /\ toRecord \subseteq Submission
  /\ object \in [Row -> Nat] /\ described \in [Row -> Nat] /\ interrupted \subseteq Row
  /\ source \in [Firing -> Row \union {None}]
  /\ authors \in [Name -> Nat]
  /\ stock \in [Book -> Stock]
  /\ cover \in [Book -> Submission \union {None}]
  /\ media \in [Book -> Submission \union {None}]
  /\ step \in [Firing -> OperationStep]
  /\ row \in [Firing -> Row \union {None}]
  /\ seen \in [Firing -> Stock \union {None}] /\ found \in [Firing -> Nat]
  /\ names \in [Firing -> Seq(Name)] /\ born \in [Firing -> SUBSET Name]
  /\ on \in [Firing -> Book \union {None}]
  /\ unfired \in [Row -> {"no", "behind", "no flow"}]
  /\ crossed \subseteq Firing /\ failed \subseteq Firing /\ caught \subseteq Row
  /\ left \in [Row -> Stock] /\ late \subseteq Row
  /\ stockedBy \in [Existing -> Row \union {None}]
  /\ sales \in [Existing -> 0..MaxSales] /\ failures \in 0..MaxFailures

PromotionInit ==
  /\ status = [r \in Row |-> "open"]
  /\ promoted = [r \in Row |-> None]
  /\ crawl = [r \in Row |-> 1]
  /\ listed = [r \in Row |-> MaxStock]
  /\ toPut = {} /\ toRecord = {} /\ interrupted = {}
  /\ object = [r \in Row |-> IF r \in HasCover THEN 1 ELSE 0] /\ described = object
  /\ source = [f \in Firing |-> None]
  /\ authors = [n \in Name |-> 0]
  /\ stock = [b \in Book |-> IF b \in Existing THEN MaxStock ELSE 0]
  /\ cover = [b \in Book |-> None]
  /\ media = [b \in Book |-> None]
  /\ step = [f \in Firing |-> "idle"]
  /\ row = [f \in Firing |-> None]
  /\ seen = [f \in Firing |-> None] /\ found = [f \in Firing |-> 0]
  /\ names = [f \in Firing |-> <<>>]
  /\ born = [f \in Firing |-> {}]
  /\ on = [f \in Firing |-> None]
  /\ unfired = [r \in Row |-> "no"]
  /\ crossed = {} /\ failed = {} /\ caught = {} /\ failures = 0
  /\ left = [r \in Row |-> MaxStock]
  /\ late = {}
  /\ stockedBy = [b \in Existing |-> None]
  /\ sales = [b \in Existing |-> 0]

-----------------------------------------------------------------------------
(* Editors, crawler and shop *)

\* Mutant: the last row of the event.
TriggerLastKey(selected) == selected[Len(selected)]

\* The row an items.update event is about: $trigger.keys[0].
TriggerKey(selected) == selected[1]

\* 'approved' is written over any status, by the button of the detail page or
\* for a selection; the update of a selection is one event. "by" are the
\* operations it starts: one for each flow that waits for the event.
Approve(selected, by) ==
  /\ \A f \in by : step[f] = "idle"
  /\ status' = [r \in Row |-> IF r \in ToSet(selected) THEN "approved" ELSE status[r]]
  /\ step' = [f \in Firing |-> IF f \in by THEN "fired" ELSE step[f]]
  /\ row' = [f \in Firing |-> IF f \in by THEN TriggerKey(selected) ELSE row[f]]
  /\ unfired' = [r \in Row |-> IF r \notin ToSet(selected) THEN unfired[r]
                               ELSE IF by = {} THEN "no flow"
                               ELSE IF r = selected[1] THEN "no" ELSE "behind"]
  /\ UNCHANGED <<promoted, crawl, listed, uploads, catalogue, cover, seen, found, names,
                 born, on, crossed, failed, caught, failures, shop>>

\* An editor takes the decision back.
Reject(r) ==
  /\ status[r] \in {"open", "approved"} /\ promoted[r] = None
  /\ status' = [status EXCEPT ![r] = "rejected"]
  /\ caught' = caught \union {q \in {r} : \E f \in Firing : Running(f) /\ row[f] = r}
  /\ UNCHANGED <<promoted, crawl, listed, uploads, catalogue, cover, operation, unfired,
                 crossed, failed, failures, shop>>

\* StagingBooksService.submit: its upsert spares approved and promoted rows.
\* The site lists what the publisher has, or no price.
CrawlAgain(r, n) ==
  /\ status[r] \in {"open", "rejected"}
  /\ crawl[r] < MaxCrawls[r]
  /\ crawl' = [crawl EXCEPT ![r] = @ + 1]
  /\ listed' = [listed EXCEPT ![r] = n]
  /\ status' = [status EXCEPT ![r] = "open"]
  /\ toPut' = IF r \in HasCover THEN toPut \union {<<r, crawl[r] + 1>>} ELSE toPut
  /\ left' = IF n = None THEN left ELSE [left EXCEPT ![r] = n]
  /\ late' = late \ {r}
  /\ UNCHANGED <<promoted, toRecord, object, described, interrupted, catalogue, cover,
                 operation, marks, stockedBy, sales>>

\* storeCover, for submission n of r: the object first. A request may fail at
\* either step, and another may overtake it.
PutCover(r, n) ==
  /\ <<r, n>> \in toPut
  /\ toPut' = toPut \ {<<r, n>>}
  /\ toRecord' = toRecord \union {<<r, n>>}
  /\ object' = [object EXCEPT ![r] = n]
  /\ interrupted' = interrupted \union
       {q \in {r} : \/ \E u \in toRecord : u[1] = r
                    \/ \E f \in Firing : row[f] = r /\ step[f] = "copy"}
  /\ UNCHANGED <<staging, described, catalogue, cover, operation, marks, shop>>

\* ... then the row of staging_media.
RecordCover(r, n) ==
  /\ <<r, n>> \in toRecord
  /\ toRecord' = toRecord \ {<<r, n>>}
  /\ described' = [described EXCEPT ![r] = n]
  /\ UNCHANGED <<staging, toPut, object, interrupted, catalogue, cover, operation, marks, shop>>

\* decrement-inventory-stock, for one copy.
Less(n) == IF n > 0 THEN n - 1 ELSE 0
Sell(b) ==
  /\ sales[b] < MaxSales
  /\ sales' = [sales EXCEPT ![b] = @ + 1]
  /\ left' = [r \in Row |-> IF Match[r] = b THEN Less(left[r]) ELSE left[r]]
  /\ stock' = [stock EXCEPT ![b] = Less(@)]
  /\ late' = late \union {r \in Row : Match[r] = b /\ promoted[r] = None}
  /\ UNCHANGED <<staging, uploads, source, authors, media, cover, operation, marks, stockedBy>>

-----------------------------------------------------------------------------
(* promote-staging-book *)

Goto(f, from, to) ==
  /\ step[f] = from
  /\ step' = [step EXCEPT ![f] = to]

\* Mutant: a row is judged by its promoted_book_id alone.
PromotedIdAllows(r) == promoted[r] = None

\* A row with a promoted_book_id is skipped, one that is not approved refused.
MayPromote(r) == promoted[r] = None /\ status[r] = "approved"

\* The operation reads its row. To merge into a match it needs no title.
ReadRow(f) ==
  LET r == row[f] IN
  /\ Goto(f, "fired",
       IF ~MayPromote(r) \/ (Match[r] = None /\ r \in Incomplete) THEN "done"
       ELSE IF Match[r] # None THEN "merge"
       ELSE IF Authors[r] = <<>> THEN "insert" ELSE "link")
  /\ seen' = [seen EXCEPT ![f] = listed[r]]
  /\ names' = [names EXCEPT ![f] = Authors[r]]
  /\ LET others == {g \in Firing \ {f} : Running(g)} IN
     crossed' = IF others = {} THEN crossed ELSE crossed \union others \union {f}
  /\ UNCHANGED <<staging, uploads, catalogue, cover, row, found, born, on, unfired, failed,
                 caught, failures, shop>>

\* Mutant: the author is inserted without a look.
LinkNewAuthor(f) ==
  LET n == Head(names[f]) IN
  /\ Goto(f, "link", IF Len(names[f]) = 1 THEN "insert" ELSE "link")
  /\ names' = [names EXCEPT ![f] = Tail(@)]
  /\ born' = [born EXCEPT ![f] = @ \union {n}]
  /\ UNCHANGED <<staging, uploads, catalogue, cover, row, seen, found, on, marks, shop>>

\* linkAuthors, one name: the author is found, or inserted.
LinkAuthor(f) ==
  LET n == Head(names[f]) IN
  /\ Goto(f, "link", IF Len(names[f]) = 1 THEN "insert" ELSE "link")
  /\ names' = [names EXCEPT ![f] = Tail(@)]
  /\ born' = [born EXCEPT ![f] = IF authors[n] = 0 THEN @ \union {n} ELSE @]
  /\ UNCHANGED <<staging, uploads, catalogue, cover, row, seen, found, on, marks, shop>>

\* The unique index makes the second insert of an ISBN wait for the first
\* one's transaction, and refuses it if that commits.
IsbnTaken(f) == row[f] \in HasIsbn /\ \E g \in Firing : source[g] = row[f]
IsbnLocked(f) ==
  row[f] \in HasIsbn /\ \E g \in Firing \ {f} :
    row[g] = row[f] /\ step[g] \in {"media", "copy", "write"}

InsertBook(f) ==
  /\ Goto(f, "insert", IF IsbnTaken(f) THEN "done" ELSE "media")
  /\ ~IsbnLocked(f)
  /\ on' = [on EXCEPT ![f] = f]
  /\ failed' = IF IsbnTaken(f) THEN failed \union {f} ELSE failed
  /\ UNCHANGED <<staging, uploads, catalogue, cover, row, seen, found, names, born, unfired,
                 crossed, caught, failures, shop>>

\* The merge's UPDATEs take the locks of the matched work and book.
MergeBook(f) ==
  LET b == Match[row[f]] IN
  /\ Goto(f, "merge", "media")
  /\ \A g \in Firing \ {f} : ~(on[g] = b /\ Running(g))
  /\ on' = [on EXCEPT ![f] = b]
  /\ UNCHANGED <<staging, uploads, catalogue, cover, row, seen, found, names, born, marks, shop>>

\* promoteMedia looks for the latest row that describes an uploaded cover.
ReadMedia(f) ==
  LET r == row[f] IN
  /\ Goto(f, "media", IF described[r] = 0 THEN "write" ELSE "copy")
  /\ found' = [found EXCEPT ![f] = described[r]]
  /\ interrupted' = interrupted \union {q \in {r} : \E u \in toRecord : u[1] = r}
  /\ UNCHANGED <<staging, toPut, toRecord, object, described, catalogue, cover, row, seen,
                 names, born, on, marks, shop>>

\* ... and copies what the row's key holds by then, which no rollback takes back.
CopyCover(f) ==
  /\ Goto(f, "copy", "write")
  /\ cover' = [cover EXCEPT ![on[f]] = <<row[f], object[row[f]]>>]
  /\ UNCHANGED <<staging, uploads, catalogue, row, seen, found, names, born, on, marks, shop>>

\* Mutants: the row of an earlier cover stays as it is; without a price there is
\* no stock.
DescribeFirstCover(f) ==
  IF found[f] # 0 /\ media[on[f]] = None
  THEN [media EXCEPT ![on[f]] = <<row[f], found[f]>>] ELSE media
StockWithoutPrice(f) ==
  [stock EXCEPT ![on[f]] = IF seen[f] = None THEN 0 ELSE seen[f]]

DescribeCover(f) ==
  IF found[f] # 0 THEN [media EXCEPT ![on[f]] = <<row[f], found[f]>>] ELSE media

\* Without a price the inventory stays as it is.
PromoteInventory(f) ==
  IF seen[f] = None THEN stock ELSE [stock EXCEPT ![on[f]] = seen[f]]

\* The rest of the transaction, with promoteRelationships, and its commit.
Commit(f) ==
  /\ Goto(f, "write", "done")
  /\ media' = DescribeCover(f)
  /\ stock' = PromoteInventory(f)
  /\ source' = IF on[f] = f THEN [source EXCEPT ![f] = row[f]] ELSE source
  /\ authors' = [n \in Name |-> authors[n] + (IF n \in born[f] THEN 1 ELSE 0)]
  /\ status' = [status EXCEPT ![row[f]] = "promoted"]
  /\ promoted' = [promoted EXCEPT ![row[f]] = on[f]]
  /\ stockedBy' = [b \in Existing |-> IF b = on[f] /\ seen[f] # None THEN row[f] ELSE stockedBy[b]]
  /\ UNCHANGED <<crawl, listed, uploads, cover, row, seen, found, names, born, on, marks,
                 left, late, sales>>

\* The operation fails or its process dies: the transaction is rolled back.
Abort(f) ==
  /\ step[f] \notin {"idle", "done"}
  /\ failures < MaxFailures /\ failures' = failures + 1
  /\ step' = [step EXCEPT ![f] = "done"]
  /\ failed' = failed \union {f}
  /\ UNCHANGED <<staging, uploads, catalogue, cover, row, seen, found, names, born, on, unfired,
                 crossed, caught, shop>>

Advance(f) ==
  \/ ReadRow(f) \/ LinkAuthor(f) \/ InsertBook(f) \/ MergeBook(f)
  \/ ReadMedia(f) \/ CopyCover(f) \/ Commit(f)

Meanwhile ==
  \/ \E r \in Doubtful : Reject(r)
  \/ \E r \in Row, n \in Listing : CrawlAgain(r, n)
  \/ \E u \in toPut : PutCover(u[1], u[2])
  \/ \E u \in toRecord : RecordCover(u[1], u[2])
  \/ \E b \in Existing : Sell(b)
  \/ \E f \in Firing : Abort(f)

-----------------------------------------------------------------------------
(* Properties *)

Crossed(fs) == \E f \in fs : f \in crossed

\* A staging row becomes one catalogue book and a name one author, however
\* often rows are approved and flows fire, unless two operations ran at once:
\* they read promoted_book_id and the author without a lock. The ISBN's index
\* stops even those.
CreatedOnce ==
  /\ \A r \in Row :
       LET made == {f \in Firing : source[f] = r} IN
       Cardinality(made) > 1 => Crossed(made) /\ r \notin HasIsbn
  /\ \A n \in Name : authors[n] > 1 => Crossed({f \in Firing : n \in born[f]})

\* What an editor has rejected stays out of the catalogue, although the event
\* of an approval before that may still be on its way; only an operation that
\* had read the row by then promotes it.
RejectionStands ==
  [][\A r \in Row : status[r] = "rejected" /\ status'[r] = "promoted"
                     => r \in caught]_promotionVars

\* The row that describes a book's cover describes the object that is stored,
\* unless an operation is between the two or has failed behind the copy: S3
\* takes no part in the rollback. Or a crawl has come between: the staging
\* object has one key, which a submission fills before it writes the media row,
\* and an operation reads the row before it copies by the key.
CoverMatchesRow ==
  \A b \in Book :
    cover[b] # media[b] =>
      \E f \in Firing :
        on[f] = b /\ (step[f] = "write" \/ f \in failed \/ row[f] \in interrupted)

\* A book's stock is what there was less what was sold, until the promotion of a
\* row with a price; then it is what the publisher has left by that row,
\* whatever other rows match the book, unless copies were sold between its crawl
\* and its promotion, or while a second operation ran for it: the crawled number
\* is written over the decremented one. A third way: the row is rejected and
\* crawled again behind the operation's read.
StockFollowsCrawl ==
  \A b \in Existing :
    LET r == stockedBy[b] IN
    IF r = None THEN stock[b] = IF sales[b] < MaxStock THEN MaxStock - sales[b] ELSE 0
    ELSE \/ stock[b] = left[r] \/ r \in late \/ r \in caught
         \/ Crossed({f \in Firing : row[f] = r})
=============================================================================

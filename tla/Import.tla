------------------------------- MODULE Import -------------------------------
(***************************************************************************)
(* The import of one publisher's catalogue: runs of apps/publisher-crawler *)
(* (run-import.ts), the API they call (apps/api-publisher-import) and the  *)
(* editors who decide on what it stages (apps/directus).                   *)
(*                                                                         *)
(* A run resumes at the publisher's cursor, submits book after book, and   *)
(* leaves a new cursor when a limit cuts it short. Nothing keeps two runs  *)
(* of one publisher apart, and a submission whose answer the crawler has   *)
(* missed goes on in the API.                                              *)
(***************************************************************************)
EXTENDS Naturals, Sequences, FiniteSets

CONSTANTS
  Book,        \* the refs of the publisher's site
  Catalogue,   \* its pages, as discover() lists them: sequences of books
  Run,         \* runs of the crawler
  Limit,       \* values of maxBooks; None for no limit
  WithCover,   \* submissions, as <<run, book>>, that bring a cover image
  Reviewed,    \* bound: books the editors come to
  None,
  MaxFaults    \* bound: failures of the site, the API or the crawler

ASSUME ImportAssumption ==
  /\ Catalogue \in Seq(Seq(Book)) /\ Catalogue # <<>>
  /\ \A i, j \in DOMAIN Catalogue :
       \A k \in DOMAIN Catalogue[i], l \in DOMAIN Catalogue[j] :
         Catalogue[i][k] = Catalogue[j][l] => i = j /\ k = l
  /\ None \notin Run
  /\ Limit \subseteq (Nat \ {0}) \union {None}
  /\ WithCover \subseteq Run \X Book
  /\ Reviewed \subseteq Book
  /\ MaxFaults \in Nat

VARIABLES
  pc,          \* the next step of each run
  limit,       \* its maxBooks
  at,          \* its pageCursor and consumedThisPage
  attempted,   \* books it has taken up
  processed,   \* whether a submission of it has been answered
  failing,     \* sawAnyFailure
  runStatus,   \* staging.import_runs: status
  newBooks, updatedBooks,  \* ... new_books, updated_books
  cursor,      \* catalog.publishers.last_import_cursor
  staged,      \* staging.staging_books: status
  content,     \* ... the run whose submission it holds
  object,      \* S3's staging/<id>/cover-original: the run it comes from
  media,       \* staging.staging_media: the run of the latest 'uploaded' row
  catalogued,  \* what was promoted of the book (promoted_book_id)
  submission,  \* the API's work on a run's submission of a book
  upload,      \* ... and on the cover it brings
  tried,       \* history: books that some run has taken up
  decided,     \* history: what was on offer when an editor approved the book
  unsettled,   \* history: books approved with a cover still to be stored
  missed,      \* history: runs that missed an answer
  faults

crawler  == <<pc, limit, at, attempted, processed, failing>>
runRows  == <<runStatus, newBooks, updatedBooks>>
covers   == <<object, media, upload>>
bookRows == <<staged, content, covers, catalogued>>
history  == <<tried, decided, unsettled, missed>>
vars     == <<crawler, runRows, cursor, bookRows, submission, history, faults>>

\* A cursor: the token of a page, 0 for null, and how many refs of that page
\* are done. serializeResumeCursor writes Fresh as null, and parseResumeCursor
\* reads null as Fresh.
Position == [page : 0..Len(Catalogue), skip : Nat]
Fresh == [page |-> 0, skip |-> 0]

\* discover(null) lists the first page; nextPageCursor is null on the last.
PageNumber(token) == IF token = 0 THEN 1 ELSE token
Refs(token) == Catalogue[PageNumber(token)]
NextToken(token) ==
  IF PageNumber(token) < Len(Catalogue) THEN PageNumber(token) + 1 ELSE 0

\* staging_book_status. "open" stands for pending_validation, needs_review and
\* rejected, which a submission may overwrite; "absent" for no row.
StagingStatus == {"absent", "open", "approved", "promoted"}
Protected == {"approved", "promoted"}

RunStatus == {"none", "running", "completed", "partially_failed", "failed"}
Step == {"none", "start", "discover", "refs", "wait", "complete", "persist",
         "abort", "done", "dead"}

\* "inserted", "updated": the upsert is done, the run's counters are not.
Submission == {"none", "sent", "inserted", "updated", "answered", "failed"}
Stored == {"inserted", "updated"}

\* What an editor sees of a staged book, and promote-staging-book copies: the
\* row, the object under its cover key and the row describing that object.
Offer ==
  [row : Run \union {None}, cover : Run \union {None}, media : Run \union {None}]
Nothing == [row |-> None, cover |-> None, media |-> None]
OnOffer(b) == [row |-> content[b], cover |-> object[b], media |-> media[b]]

TypeOK ==
  /\ pc \in [Run -> Step]
  /\ limit \in [Run -> Limit \union {None}]
  /\ at \in [Run -> Position]
  /\ attempted \in [Run -> Nat]
  /\ processed \in [Run -> BOOLEAN]
  /\ failing \in [Run -> BOOLEAN]
  /\ runStatus \in [Run -> RunStatus]
  /\ newBooks \in [Run -> Nat]
  /\ updatedBooks \in [Run -> Nat]
  /\ cursor \in Position
  /\ staged \in [Book -> StagingStatus]
  /\ content \in [Book -> Run \union {None}]
  /\ object \in [Book -> Run \union {None}]
  /\ media \in [Book -> Run \union {None}]
  /\ catalogued \in [Book -> Offer]
  /\ submission \in [Run \X Book -> Submission]
  /\ upload \in [Run \X Book -> {"none", "put", "recorded"}]
  /\ tried \subseteq Book
  /\ decided \in [Book -> Offer]
  /\ unsettled \subseteq Book
  /\ missed \subseteq Run
  /\ faults \in 0..MaxFaults

Init ==
  /\ pc = [r \in Run |-> "none"]
  /\ limit = [r \in Run |-> None]
  /\ at = [r \in Run |-> Fresh]
  /\ attempted = [r \in Run |-> 0]
  /\ processed = [r \in Run |-> FALSE]
  /\ failing = [r \in Run |-> FALSE]
  /\ runStatus = [r \in Run |-> "none"]
  /\ newBooks = [r \in Run |-> 0]
  /\ updatedBooks = [r \in Run |-> 0]
  /\ cursor = Fresh
  /\ staged = [b \in Book |-> "absent"]
  /\ content = [b \in Book |-> None]
  /\ object = [b \in Book |-> None]
  /\ media = [b \in Book |-> None]
  /\ catalogued = [b \in Book |-> Nothing]
  /\ submission = [s \in Run \X Book |-> "none"]
  /\ upload = [s \in Run \X Book |-> "none"]
  /\ tried = {}
  /\ decided = [b \in Book |-> Nothing]
  /\ unsettled = {}
  /\ missed = {}
  /\ faults = 0

UseFault ==
  /\ faults < MaxFaults
  /\ faults' = faults + 1

Goto(r, from, to) ==
  /\ pc[r] = from
  /\ pc' = [pc EXCEPT ![r] = to]

-----------------------------------------------------------------------------
(* runImport: begin and page through the catalogue *)

\* client.getCursor and parseResumeCursor.
Begin(r, maxBooks) ==
  /\ Goto(r, "none", "start")
  /\ limit' = [limit EXCEPT ![r] = maxBooks]
  /\ at' = [at EXCEPT ![r] = cursor]
  /\ UNCHANGED <<attempted, processed, failing, runRows, cursor, bookRows,
                 submission, history, faults>>

\* client.startImportRun, ImportRunsService.start.
StartImportRun(r) ==
  /\ Goto(r, "start", "discover")
  /\ runStatus' = [runStatus EXCEPT ![r] = "running"]
  /\ UNCHANGED <<limit, at, attempted, processed, failing, newBooks,
                 updatedBooks, cursor, bookRows, submission, history, faults>>

Discover(r) ==
  /\ Goto(r, "discover", "refs")
  /\ UNCHANGED <<limit, at, attempted, processed, failing, runRows, cursor,
                 bookRows, submission, history, faults>>

\* discover() fails in all attempts of withRetry.
DiscoverFails(r) ==
  /\ Goto(r, "discover", "abort")
  /\ UseFault
  /\ UNCHANGED <<limit, at, attempted, processed, failing, runRows, cursor,
                 bookRows, submission, history>>

PageDone(r) == at[r].skip >= Len(Refs(at[r].page))
LimitReached(r) == limit[r] # None /\ attempted[r] >= limit[r]

NextPage(r) ==
  LET next == NextToken(at[r].page) IN
  /\ PageDone(r)
  /\ Goto(r, "refs", IF next = 0 THEN "complete" ELSE "discover")
  /\ at' = [at EXCEPT ![r] = [page |-> next, skip |-> 0]]
  /\ UNCHANGED <<limit, attempted, processed, failing, runRows, cursor,
                 bookRows, submission, history, faults>>

\* Mutant: a book is counted as consumed before the limit is looked at.
StopAfterConsuming(r) ==
  /\ ~PageDone(r)
  /\ LimitReached(r)
  /\ Goto(r, "refs", "complete")
  /\ at' = [at EXCEPT ![r].skip = @ + 1]
  /\ UNCHANGED <<limit, attempted, processed, failing, runRows, cursor,
                 bookRows, submission, history, faults>>

\* The limit is looked at only when there is another book to take up.
StopAtLimit(r) ==
  /\ ~PageDone(r)
  /\ LimitReached(r)
  /\ Goto(r, "refs", "complete")
  /\ UNCHANGED <<limit, at, attempted, processed, failing, runRows, cursor,
                 bookRows, submission, history, faults>>

TakeUp(r) ==
  /\ ~PageDone(r)
  /\ ~LimitReached(r)
  /\ attempted' = [attempted EXCEPT ![r] = @ + 1]
  /\ at' = [at EXCEPT ![r].skip = @ + 1]
  /\ tried' = tried \union {Refs(at[r].page)[at[r].skip + 1]}

\* The book is fetched, and client.submitBook called.
SubmitBook(r) ==
  /\ Goto(r, "refs", "wait")
  /\ TakeUp(r)
  /\ submission' = [submission EXCEPT
       ![<<r, Refs(at[r].page)[at[r].skip + 1]>>] = "sent"]
  /\ UNCHANGED <<limit, processed, failing, runRows, cursor, bookRows,
                 decided, unsettled, missed, faults>>

\* fetchBook, fetchInventory or downloadCover fails in all attempts.
SkipBook(r) ==
  /\ Goto(r, "refs", "refs")
  /\ TakeUp(r)
  /\ failing' = [failing EXCEPT ![r] = TRUE]
  /\ UseFault
  /\ UNCHANGED <<limit, processed, runRows, cursor, bookRows, submission,
                 decided, unsettled, missed>>

\* The submission a run waits for is that of the last book it took up.
Pending(r) == <<r, Refs(at[r].page)[at[r].skip]>>

\* Mutant: the crawler does not await submitBook.
AnswerEarly(r) ==
  /\ Goto(r, "wait", "refs")
  /\ processed' = [processed EXCEPT ![r] = TRUE]
  /\ UNCHANGED <<limit, at, attempted, failing, runRows, cursor, bookRows,
                 submission, history, faults>>

Answer(r) ==
  /\ Goto(r, "wait", "refs")
  /\ \/ /\ submission[Pending(r)] = "answered"
        /\ processed' = [processed EXCEPT ![r] = TRUE]
        /\ UNCHANGED failing
     \/ /\ submission[Pending(r)] = "failed"
        /\ failing' = [failing EXCEPT ![r] = TRUE]
        /\ UNCHANGED processed
  /\ UNCHANGED <<limit, at, attempted, runRows, cursor, bookRows, submission,
                 history, faults>>

\* The request times out or its connection breaks. submitBook is not retried.
MissAnswer(r) ==
  /\ Goto(r, "wait", "refs")
  /\ failing' = [failing EXCEPT ![r] = TRUE]
  /\ missed' = missed \union {r}
  /\ UseFault
  /\ UNCHANGED <<limit, at, attempted, processed, runRows, cursor, bookRows,
                 submission, tried, decided, unsettled>>

-----------------------------------------------------------------------------
(* The end of a run: completeImportRun, ImportRunsService.complete *)

FinalStatus(r) ==
  CASE failing[r] /\ processed[r] -> "partially_failed"
    [] failing[r] /\ ~processed[r] -> "failed"
    [] OTHER -> "completed"

Complete(r) ==
  /\ Goto(r, "complete", "persist")
  /\ runStatus' = [runStatus EXCEPT ![r] = FinalStatus(r)]
  /\ UNCHANGED <<limit, at, attempted, processed, failing, newBooks,
                 updatedBooks, cursor, bookRows, submission, history, faults>>

\* A null cursor is left out of the request, and complete() then writes none.
PersistCursor(r) ==
  /\ Goto(r, "persist", "done")
  /\ cursor' = IF runStatus[r] # "failed" /\ at[r] # Fresh THEN at[r] ELSE cursor
  /\ UNCHANGED <<limit, at, attempted, processed, failing, runRows, bookRows,
                 submission, history, faults>>

\* Mutant: the crawler returns without completing the run.
AbortSilently(r) ==
  /\ Goto(r, "abort", "done")
  /\ UNCHANGED <<limit, at, attempted, processed, failing, runRows, cursor,
                 bookRows, submission, history, faults>>

Abort(r) ==
  /\ Goto(r, "abort", "done")
  /\ runStatus' = [runStatus EXCEPT ![r] = "failed"]
  /\ UNCHANGED <<limit, at, attempted, processed, failing, newBooks,
                 updatedBooks, cursor, bookRows, submission, history, faults>>

\* The runner is lost, or a call that is not guarded fails: the run's row
\* stays as it is. At "persist" it is the API that fails.
Die(r) ==
  /\ pc[r] \notin {"none", "done", "dead"}
  /\ pc' = [pc EXCEPT ![r] = "dead"]
  /\ UseFault
  /\ UNCHANGED <<limit, at, attempted, processed, failing, runRows, cursor,
                 bookRows, submission, history>>

-----------------------------------------------------------------------------
(* StagingBooksService.submit, for the submission of book b by run r *)

\* The row is new, or its status is not protected.
StoreRow(r, b) ==
  /\ staged[b] \notin Protected
  /\ staged' = [staged EXCEPT ![b] = "open"]
  /\ content' = [content EXCEPT ![b] = r]
  /\ submission' = [submission EXCEPT ![<<r, b>>] =
       IF staged[b] = "absent" THEN "inserted" ELSE "updated"]

\* Mutant: a declined submission goes on like an accepted one.
DeclineNothing(r, b) ==
  /\ staged[b] \in Protected
  /\ submission' = [submission EXCEPT ![<<r, b>>] = "updated"]
  /\ UNCHANGED <<staged, content>>

DeclineRow(r, b) ==
  /\ staged[b] \in Protected
  /\ submission' = [submission EXCEPT ![<<r, b>>] = "answered"]
  /\ UNCHANGED <<staged, content>>

Upsert(r, b) ==
  /\ submission[<<r, b>>] = "sent"
  /\ StoreRow(r, b) \/ DeclineRow(r, b)
  /\ UNCHANGED <<crawler, runRows, cursor, covers, catalogued, history, faults>>

\* A stored submission has a cover to store before it is counted.
CoverPending(r, b) ==
  /\ <<r, b>> \in WithCover
  /\ submission[<<r, b>>] \in Stored
  /\ upload[<<r, b>>] # "recorded"

\* storeCover follows the upsert and asks for no status, of the row or of the
\* object it replaces: the key is the same for every submission of the book.
PutCover(r, b) ==
  /\ CoverPending(r, b)
  /\ upload[<<r, b>>] = "none"
  /\ object' = [object EXCEPT ![b] = r]
  /\ upload' = [upload EXCEPT ![<<r, b>>] = "put"]
  /\ UNCHANGED <<crawler, runRows, cursor, staged, content, media, catalogued,
                 submission, history, faults>>

\* The staging_media row; cover_s3_key, set next, only repeats the key.
RecordCover(r, b) ==
  /\ CoverPending(r, b)
  /\ upload[<<r, b>>] = "put"
  /\ media' = [media EXCEPT ![b] = r]
  /\ upload' = [upload EXCEPT ![<<r, b>>] = "recorded"]
  /\ UNCHANGED <<crawler, runRows, cursor, staged, content, object, catalogued,
                 submission, history, faults>>

\* Mutant: every stored submission is credited as a new book.
CountAsNew(r, b) ==
  /\ submission[<<r, b>>] \in Stored
  /\ ~CoverPending(r, b)
  /\ newBooks' = [newBooks EXCEPT ![r] = @ + 1]
  /\ submission' = [submission EXCEPT ![<<r, b>>] = "answered"]
  /\ UNCHANGED <<crawler, runStatus, updatedBooks, cursor, bookRows, history,
                 faults>>

\* updateRunCounters, and the answer.
Count(r, b) ==
  /\ ~CoverPending(r, b)
  /\ \/ /\ submission[<<r, b>>] = "inserted"
        /\ newBooks' = [newBooks EXCEPT ![r] = @ + 1]
        /\ UNCHANGED updatedBooks
     \/ /\ submission[<<r, b>>] = "updated"
        /\ updatedBooks' = [updatedBooks EXCEPT ![r] = @ + 1]
        /\ UNCHANGED newBooks
  /\ submission' = [submission EXCEPT ![<<r, b>>] = "answered"]
  /\ UNCHANGED <<crawler, runStatus, cursor, bookRows, history, faults>>

\* The database or S3 fails: nothing is rolled back.
SubmitFails(r, b) ==
  /\ submission[<<r, b>>] \in Stored \union {"sent"}
  /\ submission' = [submission EXCEPT ![<<r, b>>] = "failed"]
  /\ UseFault
  /\ UNCHANGED <<crawler, runRows, cursor, bookRows, history>>

-----------------------------------------------------------------------------
(* The editors, in Directus *)

\* The Approve button, or the bulk flow, which also takes a promoted row.
Approve(b) ==
  /\ b \in Reviewed
  /\ staged[b] \in {"open", "promoted"}
  /\ staged' = [staged EXCEPT ![b] = "approved"]
  /\ decided' = [decided EXCEPT ![b] = OnOffer(b)]
  /\ unsettled' = IF \E r \in Run : CoverPending(r, b)
                    THEN unsettled \union {b} ELSE unsettled
  /\ UNCHANGED <<crawler, runRows, cursor, content, covers, catalogued,
                 submission, tried, missed, faults>>

\* promote-staging-book in one step, which Promotion opens up. A row that has
\* been promoted before is skipped.
Promote(b) ==
  /\ staged[b] = "approved"
  /\ catalogued[b] = Nothing
  /\ staged' = [staged EXCEPT ![b] = "promoted"]
  /\ catalogued' = [catalogued EXCEPT ![b] = OnOffer(b)]
  /\ UNCHANGED <<crawler, runRows, cursor, content, covers, submission, history,
                 faults>>

-----------------------------------------------------------------------------
Crawl(r) ==
  \/ StartImportRun(r) \/ Discover(r) \/ NextPage(r) \/ StopAtLimit(r)
  \/ SubmitBook(r) \/ Answer(r) \/ Complete(r) \/ PersistCursor(r) \/ Abort(r)

Fault(r) == DiscoverFails(r) \/ SkipBook(r) \/ MissAnswer(r) \/ Die(r)

Submit(r, b) ==
  Upsert(r, b) \/ PutCover(r, b) \/ RecordCover(r, b) \/ Count(r, b)

Next ==
  \/ \E r \in Run, maxBooks \in Limit : Begin(r, maxBooks)
  \/ \E r \in Run : Crawl(r) \/ Fault(r)
  \/ \E r \in Run, b \in Book : Submit(r, b) \/ SubmitFails(r, b)
  \/ \E b \in Book : Approve(b) \/ Promote(b)

Spec == Init /\ [][Next]_vars

\* A runner that has not died goes on, and so does the API. Nobody needs to
\* start a run, or to approve a book.
FairSpec ==
  /\ Spec
  /\ \A r \in Run : WF_vars(Crawl(r))
  /\ \A r \in Run, b \in Book : WF_vars(Submit(r, b))

-----------------------------------------------------------------------------
(* Properties *)

\* The books that come before a position in the catalogue.
Before(p) ==
  {b \in Book : \E i \in DOMAIN Catalogue : \E k \in DOMAIN Catalogue[i] :
     /\ Catalogue[i][k] = b
     /\ i < PageNumber(p.page) \/ (i = PageNumber(p.page) /\ k <= p.skip)}

\* A cut-off run's cursor never leaves out a book: each book before it has
\* been taken up by some run, whatever runs overlap, fail or die, so the next
\* run may start there (run-import.ts:120-131, 187-202).
CursorSkipsNothing == Before(cursor) \subseteq tried

\* What an editor approved is not replaced: a row stays approved or promoted
\* and holds the submission the editor approved, and that is what the catalogue
\* gets, although a re-crawl may submit the book at any time
\* (staging-books.service.ts:54-63, 139-161). Its cover stays as well, but for
\* one case: a submission past its guarded upsert stores its cover without
\* asking (205-219), so a book approved just then may get another one.
DecisionStands ==
  \A b \in Book :
    /\ decided[b] # Nothing =>
         /\ staged[b] \in Protected
         /\ content[b] = decided[b].row
         /\ OnOffer(b) = decided[b] \/ b \in unsettled
    /\ catalogued[b] # Nothing =>
         /\ decided[b] # Nothing
         /\ catalogued[b].row = decided[b].row
         /\ catalogued[b] = decided[b] \/ b \in unsettled

Rows == {b \in Book : staged[b] # "absent"}
Uncounted == {s \in DOMAIN submission : submission[s] = "inserted"}

\* The new books of all runs, the n-th of run r as <<r, n>>.
Credited == UNION {{r} \X (1..newBooks[r]) : r \in Run}

\* However runs overlap, a book of the publisher is credited as new to one
\* run; it is credited to none only if its submission failed between the
\* upsert and the counters (staging-books.service.ts:163-167, 311-322).
NewBooksAreCreditedOnce ==
  LET credited == Cardinality(Credited) + Cardinality(Uncounted) IN
  /\ credited <= Cardinality(Rows)
  /\ faults = 0 => credited = Cardinality(Rows)

Credits(r) == <<newBooks[r], updatedBooks[r]>>

\* Once a run is completed its counters are final, as ImportCompleted
\* publishes them, unless it has missed an answer: the submission may then
\* still be at work (import-runs.service.ts:61-70).
CompletedCountsAreFinal ==
  [][\A r \in Run \ missed :
       runStatus[r] \notin {"none", "running"} => UNCHANGED Credits(r)]_vars

\* A run that has started is completed with some status, or its runner died
\* (run-import.ts:179-204).
RunEnds ==
  \A r \in Run :
    runStatus[r] = "running" ~> runStatus[r] # "running" \/ pc[r] = "dead"

\* The comment at run-import.ts:71-75: a run that reaches the end of the
\* catalogue persists null, and the next run starts over from page 1.
EndClearsCursor ==
  [][\A r \in Run :
       PersistCursor(r) /\ runStatus[r] # "failed" /\ at[r] = Fresh =>
         cursor' = Fresh]_vars
=============================================================================

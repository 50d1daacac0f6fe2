---------------------------- MODULE ImportProofs ----------------------------
(***************************************************************************)
(* Proofs of the safety properties of Import, for every catalogue, every   *)
(* set of runs and limits and every number of faults; and, of Adapters,    *)
(* what a crawl of a changing site submits, for every site, every size of  *)
(* its pages and every number of changes and of missed answers.            *)
(***************************************************************************)
EXTENDS Import, Adapters, FiniteSetTheorems, TLAPS

\* Each position that is held, by a run or by the publisher, has behind it
\* only books that were taken up.
Covered ==
  /\ Before(cursor) \subseteq tried
  /\ \A r \in Run : Before(at[r]) \subseteq tried

\* Only a protected row has been decided on.
Undecided(b) ==
  /\ decided[b] = Nothing /\ catalogued[b] = Nothing
  /\ staged[b] = "open" => content[b] # None

\* It holds what was decided, and unless a cover was still to be stored at that
\* time none is now.
Settled(b) ==
  /\ decided[b] # Nothing
  /\ content[b] # None /\ content[b] = decided[b].row
  /\ b \notin unsettled =>
       OnOffer(b) = decided[b] /\ \A r \in Run : ~CoverPending(r, b)
  /\ catalogued[b] # Nothing =>
       /\ catalogued[b].row = decided[b].row
       /\ catalogued[b] = decided[b] \/ b \in unsettled

Decision(b) == IF staged[b] \in Protected THEN Settled(b) ELSE Undecided(b)

\* Where a run is, its row says.
RunRow(r) ==
  /\ pc[r] \in {"discover", "refs", "wait", "complete", "abort"} =>
       runStatus[r] = "running"
  /\ pc[r] \in {"none", "start"} => runStatus[r] = "none"

\* The API is at work on a submission only while the run waits for it, or
\* died waiting, or has missed an answer.
AtWork == {"sent", "inserted", "updated"}
Awaited(r, b) ==
  submission[<<r, b>>] \in AtWork /\ r \notin missed =>
    \/ pc[r] = "wait" /\ <<r, b>> = Pending(r)
    \/ pc[r] = "dead" /\ runStatus[r] = "running"

-----------------------------------------------------------------------------
(* Positions *)

\* A page that discover() returns is one of the catalogue, and so is the next.
LEMMA Tokens ==
  ASSUME NEW t \in 0..Len(Catalogue)
  PROVE  /\ PageNumber(t) \in DOMAIN Catalogue
         /\ PageNumber(t) \in 1..Len(Catalogue)
         /\ Refs(t) \in Seq(Book)
         /\ NextToken(t) \in 0..Len(Catalogue)
         /\ NextToken(t) # 0 => NextToken(t) = PageNumber(t) + 1
<1>1. Catalogue \in Seq(Seq(Book)) /\ Len(Catalogue) \in Nat \ {0}
  BY ImportAssumption
<1>2. DOMAIN Catalogue = 1..Len(Catalogue)
  BY <1>1
<1>3. PageNumber(t) \in 1..Len(Catalogue)
  BY <1>1 DEF PageNumber
<1> QED BY <1>1, <1>2, <1>3 DEF Refs, NextToken, PageNumber

\* The numbers of a page and of a book on it.
LEMMA Places ==
  ASSUME NEW i \in DOMAIN Catalogue, NEW k \in DOMAIN Catalogue[i]
  PROVE  /\ i \in Nat \ {0} /\ k \in Nat \ {0}
         /\ Len(Catalogue[i]) \in Nat /\ k <= Len(Catalogue[i])
BY ImportAssumption

\* Nothing comes before the beginning.
LEMMA BeforeFresh == Before(Fresh) = {}
BY Places DEF Before, Fresh, PageNumber

\* Moving on by a book leads to a position.
LEMMA NextPosition ==
  ASSUME NEW p \in Position
  PROVE  [p EXCEPT !.skip = @ + 1] \in Position
<1>1. [p EXCEPT !.skip = @ + 1] = [page |-> p.page, skip |-> p.skip + 1]
  BY DEF Position
<1> QED BY <1>1 DEF Position

\* Taking up a book moves the position past that book and no other.
LEMMA BeforeNextBook ==
  ASSUME NEW p \in Position, NEW q \in Position,
         q = [p EXCEPT !.skip = @ + 1]
  PROVE  Before(q) \subseteq Before(p) \union {Refs(p.page)[p.skip + 1]}
<1>1. /\ p.page \in 0..Len(Catalogue) /\ p.skip \in Nat
      /\ q.page = p.page /\ q.skip = p.skip + 1
      /\ PageNumber(p.page) \in Nat
  BY Tokens DEF Position
<1>2. SUFFICES ASSUME NEW i \in DOMAIN Catalogue,
                      NEW k \in DOMAIN Catalogue[i],
                      \/ i < PageNumber(p.page)
                      \/ i = PageNumber(p.page) /\ k <= p.skip + 1,
                      Catalogue[i][k] \notin Before(p), Catalogue[i][k] \in Book
               PROVE  Catalogue[i][k] = Refs(p.page)[p.skip + 1]
  BY <1>1 DEF Before
<1>3. ~(i < PageNumber(p.page) \/ (i = PageNumber(p.page) /\ k <= p.skip))
  BY <1>2 DEF Before
<1>4. k \in Nat
  BY Places
<1>5. i = PageNumber(p.page) /\ k = p.skip + 1
  BY <1>1, <1>2, <1>3, <1>4
<1> QED BY <1>5 DEF Refs

\* Turning the page after its last book moves the position past no book.
LEMMA BeforeNextPage ==
  ASSUME NEW p \in Position, p.skip >= Len(Refs(p.page))
  PROVE  Before([page |-> NextToken(p.page), skip |-> 0]) \subseteq Before(p)
<1> DEFINE n == NextToken(p.page)
<1>1. p.page \in 0..Len(Catalogue) /\ p.skip \in Nat
      /\ PageNumber(p.page) \in Nat
  BY Tokens DEF Position
<1>2. CASE n = 0
  BY <1>2, BeforeFresh DEF Fresh
<1>3. CASE n # 0
  <2>1. PageNumber(n) = PageNumber(p.page) + 1
    BY <1>1, <1>3, Tokens DEF PageNumber
  <2>2. SUFFICES ASSUME NEW i \in DOMAIN Catalogue,
                        NEW k \in DOMAIN Catalogue[i],
                        \/ i < PageNumber(n)
                        \/ i = PageNumber(n) /\ k <= 0,
                        Catalogue[i][k] \in Book
                 PROVE  Catalogue[i][k] \in Before(p)
    BY DEF Before
  <2>3. i <= PageNumber(p.page)
    BY <1>1, <2>1, <2>2, Places
  <2>4. i < PageNumber(p.page) \/ (i = PageNumber(p.page) /\ k <= p.skip)
    BY <1>1, <2>3, Places DEF Refs
  <2> QED BY <2>2, <2>4 DEF Before
<1> QED BY <1>2, <1>3

-----------------------------------------------------------------------------
(* Types *)

\* The book a run takes up is one of the publisher's.
LEMMA BookTakenUp ==
  ASSUME TypeOK, NEW r \in Run, ~PageDone(r)
  PROVE  /\ Refs(at[r].page)[at[r].skip + 1] \in Book
         /\ at[r].skip + 1 \in DOMAIN Refs(at[r].page)
<1>1. at[r].page \in 0..Len(Catalogue) /\ at[r].skip \in Nat
  BY DEF TypeOK, Position
<1>2. Refs(at[r].page) \in Seq(Book)
  BY <1>1, Tokens
<1> QED BY <1>1, <1>2 DEF PageDone

\* The initial state has the types.
LEMMA InitTypes == Init => TypeOK
<1>1. Fresh \in Position
  BY ImportAssumption DEF Fresh, Position
<1>2. MaxFaults \in Nat
  BY ImportAssumption
<1>3. Nothing \in Offer
  BY DEF Nothing, Offer
<1> QED BY <1>1, <1>2, <1>3 DEF Init, TypeOK, Step, RunStatus, StagingStatus, Submission

\* Every step keeps the types.
LEMMA StepTypes == TypeOK /\ [Next]_vars => TypeOK'
<1> SUFFICES ASSUME TypeOK, [Next]_vars PROVE TypeOK'
  OBVIOUS
<1> USE DEF TypeOK, UseFault, Goto, crawler, runRows, bookRows, covers, history
<1>0. MaxFaults \in Nat
  BY ImportAssumption
<1>1. ASSUME NEW r \in Run, NEW maxBooks \in Limit, Begin(r, maxBooks)
      PROVE  TypeOK'
  BY <1>1 DEF Begin, Step
<1>2. ASSUME NEW r \in Run, Crawl(r)
      PROVE  TypeOK'
  <2>1. CASE StartImportRun(r)
    BY <2>1 DEF StartImportRun, Step, RunStatus
  <2>2. CASE Discover(r)
    BY <2>2 DEF Discover, Step
  <2>3. CASE NextPage(r)
    <3>1. at[r].page \in 0..Len(Catalogue)
      BY DEF Position
    <3>2. [page |-> NextToken(at[r].page), skip |-> 0] \in Position
      BY <3>1, Tokens DEF Position
    <3> QED BY <2>3, <3>2 DEF NextPage, Step
  <2>4. CASE StopAtLimit(r)
    BY <2>4 DEF StopAtLimit, Step
  <2>5. CASE SubmitBook(r)
    <3>1. [at[r] EXCEPT !.skip = @ + 1] \in Position
      BY NextPosition
    <3>2. Refs(at[r].page)[at[r].skip + 1] \in Book
      BY <2>5, BookTakenUp DEF SubmitBook, TakeUp
    <3> QED BY <2>5, <3>1, <3>2 DEF SubmitBook, TakeUp, Step, Submission
  <2>6. CASE Answer(r)
    BY <2>6 DEF Answer, Step
  <2>7. CASE Complete(r)
    <3>1. FinalStatus(r) \in RunStatus
      BY DEF FinalStatus, RunStatus
    <3> QED BY <2>7, <3>1 DEF Complete, Step
  <2>8. CASE PersistCursor(r)
    BY <2>8 DEF PersistCursor, Step
  <2>9. CASE Abort(r)
    BY <2>9 DEF Abort, Step, RunStatus
  <2> QED BY <1>2, <2>1, <2>2, <2>3, <2>4, <2>5, <2>6, <2>7, <2>8, <2>9
          DEF Crawl
<1>3. ASSUME NEW r \in Run, Fault(r)
      PROVE  TypeOK'
  <2>1. CASE DiscoverFails(r)
    BY <1>0, <2>1 DEF DiscoverFails, Step
  <2>2. CASE SkipBook(r)
    <3>1. [at[r] EXCEPT !.skip = @ + 1] \in Position
      BY NextPosition
    <3>2. Refs(at[r].page)[at[r].skip + 1] \in Book
      BY <2>2, BookTakenUp DEF SkipBook, TakeUp
    <3> QED BY <1>0, <2>2, <3>1, <3>2 DEF SkipBook, TakeUp, Step
  <2>3. CASE MissAnswer(r)
    BY <1>0, <2>3 DEF MissAnswer, Step
  <2>4. CASE Die(r)
    BY <1>0, <2>4 DEF Die, Step
  <2> QED BY <1>3, <2>1, <2>2, <2>3, <2>4 DEF Fault
<1>4. ASSUME NEW r \in Run, NEW b \in Book, Submit(r, b) \/ SubmitFails(r, b)
      PROVE  TypeOK'
  <2>1. CASE Upsert(r, b)
    <3>1. CASE StoreRow(r, b)
      BY <2>1, <3>1 DEF Upsert, StoreRow, Submission, StagingStatus
    <3>2. CASE DeclineRow(r, b)
      BY <2>1, <3>2 DEF Upsert, DeclineRow, Submission, StagingStatus
    <3> QED BY <2>1, <3>1, <3>2 DEF Upsert
  <2>2. CASE Count(r, b)
    <3>1. newBooks' \in [Run -> Nat] /\ updatedBooks' \in [Run -> Nat]
      BY <2>2 DEF Count
    <3>2. submission' \in [Run \X Book -> Submission]
      BY <2>2 DEF Count, Submission
    <3> QED BY <2>2, <3>1, <3>2 DEF Count
  <2>3. CASE SubmitFails(r, b)
    BY <1>0, <2>3 DEF SubmitFails, Submission
  <2>4. CASE PutCover(r, b)
    BY <2>4 DEF PutCover
  <2>5. CASE RecordCover(r, b)
    BY <2>5 DEF RecordCover
  <2> QED BY <1>4, <2>1, <2>2, <2>3, <2>4, <2>5 DEF Submit
<1>5. ASSUME NEW b \in Book, Approve(b) \/ Promote(b)
      PROVE  TypeOK'
  <2>1. OnOffer(b) \in Offer
    BY DEF OnOffer, Offer
  <2>2. CASE Approve(b)
    BY <2>1, <2>2 DEF Approve, StagingStatus
  <2>3. CASE Promote(b)
    BY <2>1, <2>3 DEF Promote, StagingStatus
  <2> QED BY <1>5, <2>2, <2>3
<1>6. CASE UNCHANGED vars
  BY <1>6 DEF vars
<1> QED BY <1>1, <1>2, <1>3, <1>4, <1>5, <1>6 DEF Next

\* Type correctness of every behaviour of the import.
THEOREM TypeCorrect == Spec => []TypeOK
BY InitTypes, StepTypes, PTL DEF Spec

-----------------------------------------------------------------------------
(* The cursor *)

\* Taking up a book keeps what is covered covered, and covers the book.
LEMMA StepTakeUp ==
  ASSUME TypeOK, Covered, NEW r \in Run, TakeUp(r), cursor' = cursor
  PROVE  Covered'
<1> DEFINE p == at[r]
           q == [at[r] EXCEPT !.skip = @ + 1]
<1>1. p \in Position /\ q \in Position
  BY NextPosition DEF TypeOK
<1>2. Before(q) \subseteq Before(p) \union {Refs(p.page)[p.skip + 1]}
  BY <1>1, BeforeNextBook
<1>3. Before(q) \subseteq tried'
  BY <1>2 DEF Covered, TakeUp
<1>4. \A s \in Run : at'[s] = IF s = r THEN q ELSE at[s]
  BY DEF TypeOK, TakeUp
<1>5. tried \subseteq tried'
  BY DEF TakeUp
<1>6. \A s \in Run : Before(at'[s]) \subseteq tried'
  BY <1>3, <1>4, <1>5 DEF Covered
<1>7. Before(cursor') \subseteq tried'
  BY <1>5 DEF Covered
<1>8. Before(cursor)' = Before(cursor')
      /\ \A s \in Run : Before(at[s])' = Before(at'[s])
  BY DEF Before
<1> QED BY <1>6, <1>7, <1>8 DEF Covered

\* A step covers what it moves a position past.
LEMMA StepCovered == TypeOK /\ Covered /\ [Next]_vars => Covered'
<1> SUFFICES ASSUME TypeOK, Covered, [Next]_vars PROVE Covered'
  OBVIOUS
<1>0. ASSUME UNCHANGED <<at, cursor, tried>>
      PROVE  Covered'
  BY <1>0 DEF Covered, Before
<1>1. ASSUME NEW r \in Run, NEW maxBooks \in Limit, Begin(r, maxBooks)
      PROVE  Covered'
  <2>1. \A s \in Run : at'[s] = IF s = r THEN cursor ELSE at[s]
    BY <1>1 DEF Begin, TypeOK
  <2>2. cursor' = cursor /\ tried' = tried
    BY <1>1 DEF Begin, history
  <2> QED BY <2>1, <2>2 DEF Covered, Before
<1>2. ASSUME NEW r \in Run, NextPage(r)
      PROVE  Covered'
  <2> DEFINE p == at[r]
             q == [page |-> NextToken(p.page), skip |-> 0]
  <2>1. Before(q) \subseteq Before(p)
    BY <1>2, BeforeNextPage DEF NextPage, PageDone, TypeOK
  <2>2. \A s \in Run : at'[s] = IF s = r THEN q ELSE at[s]
    BY <1>2 DEF NextPage, TypeOK
  <2>3. cursor' = cursor /\ tried' = tried
    BY <1>2 DEF NextPage, history
  <2>4. \A s \in Run : Before(at'[s]) \subseteq tried'
    BY <2>1, <2>2, <2>3 DEF Covered
  <2>5. Before(cursor)' = Before(cursor)
        /\ \A s \in Run : Before(at[s])' = Before(at'[s])
    BY <2>3 DEF Before
  <2> QED BY <2>3, <2>4, <2>5 DEF Covered
<1>3. ASSUME NEW r \in Run, SubmitBook(r) \/ SkipBook(r)
      PROVE  Covered'
  BY <1>3, StepTakeUp DEF SubmitBook, SkipBook
<1>4. ASSUME NEW r \in Run, PersistCursor(r)
      PROVE  Covered'
  <2>1. cursor' = cursor \/ cursor' = at[r]
    BY <1>4 DEF PersistCursor
  <2>2. at' = at /\ tried' = tried
    BY <1>4 DEF PersistCursor, history
  <2> QED BY <2>1, <2>2 DEF Covered, Before
<1>5. ASSUME NEW r \in Run, Crawl(r) \/ Fault(r)
      PROVE  Covered'
  <2>1. CASE NextPage(r) \/ SubmitBook(r) \/ SkipBook(r) \/ PersistCursor(r)
    BY <1>2, <1>3, <1>4, <2>1
  <2>2. CASE StartImportRun(r) \/ Discover(r) \/ StopAtLimit(r) \/ Answer(r)
    BY <1>0, <2>2 DEF StartImportRun, Discover, StopAtLimit, Answer, history
  <2>3. CASE Complete(r) \/ Abort(r)
    BY <1>0, <2>3 DEF Complete, Abort, history
  <2>4. CASE DiscoverFails(r) \/ MissAnswer(r) \/ Die(r)
    BY <1>0, <2>4 DEF DiscoverFails, MissAnswer, Die, history
  <2> QED BY <1>5, <2>1, <2>2, <2>3, <2>4 DEF Crawl, Fault
<1>6. ASSUME NEW r \in Run, NEW b \in Book, Submit(r, b) \/ SubmitFails(r, b)
      PROVE  Covered'
  BY <1>0, <1>6 DEF Submit, Upsert, PutCover, RecordCover, Count, SubmitFails,
                    crawler, history
<1>7. ASSUME NEW b \in Book, Approve(b) \/ Promote(b)
      PROVE  Covered'
  BY <1>0, <1>7 DEF Approve, Promote, crawler, history
<1>8. CASE UNCHANGED vars
  BY <1>0, <1>8 DEF vars, crawler, history
<1> QED BY <1>1, <1>5, <1>6, <1>7, <1>8 DEF Next

\* For every catalogue and whatever runs overlap, fail or die, the publisher's
\* cursor leaves out no book that no run has taken up.
THEOREM NothingSkipped == Spec => []CursorSkipsNothing
<1>1. Init => Covered
  BY BeforeFresh DEF Init, Covered
<1>2. Covered => CursorSkipsNothing
  BY DEF Covered, CursorSkipsNothing
<1> QED BY <1>1, <1>2, TypeCorrect, StepCovered, PTL DEF Spec

-----------------------------------------------------------------------------
(* The editors' decisions *)

Decided == \A b \in Book : Decision(b)

\* A step that stores no row or cover, promotes nothing and starts no work on a
\* cover leaves the decisions as they are.
LEMMA SameDecisions ==
  ASSUME Decided,
         UNCHANGED <<staged, content, object, media, catalogued, decided, unsettled>>,
         \A r \in Run, b \in Book : CoverPending(r, b)' => CoverPending(r, b)
  PROVE  Decided'
<1> SUFFICES ASSUME NEW b \in Book PROVE Decision(b)'
  BY DEF Decided
<1>1. Decision(b) /\ OnOffer(b)' = OnOffer(b)
  BY DEF Decided, OnOffer
<1>2. Undecided(b) => Undecided(b)'
  BY DEF Undecided
<1>3. Settled(b) => Settled(b)'
  BY <1>1 DEF Settled
<1> QED BY <1>1, <1>2, <1>3 DEF Decision

\* Work on the covers of one book settles or unsettles no other.
LEMMA OtherBooks ==
  ASSUME Decided, NEW b \in Book, Decision(b)',
         \A c \in Book \ {b} :
           /\ UNCHANGED <<staged[c], content[c], object[c], media[c]>>
           /\ UNCHANGED <<catalogued[c], decided[c]>>
           /\ c \in unsettled' <=> c \in unsettled
           /\ \A r \in Run : CoverPending(r, c)' <=> CoverPending(r, c)
  PROVE  Decided'
<1> SUFFICES ASSUME NEW c \in Book, c # b PROVE Decision(c)'
  BY DEF Decided
<1>1. Decision(c) /\ OnOffer(c)' = OnOffer(c)
  BY DEF Decided, OnOffer
<1>2. Undecided(c) => Undecided(c)'
  BY DEF Undecided
<1>3. Settled(c) => Settled(c)'
  BY <1>1 DEF Settled
<1>4. staged'[c] = staged[c]
  OBVIOUS
<1> QED BY <1>1, <1>2, <1>3, <1>4 DEF Decision

\* The steps of the API on a submission.
LEMMA SubmitDecided ==
  ASSUME TypeOK, Decided, NEW r \in Run, NEW b \in Book,
         Submit(r, b) \/ SubmitFails(r, b)
  PROVE  Decided'
<1>0. r # None
  BY ImportAssumption
<1>1. CASE Upsert(r, b) /\ StoreRow(r, b)
  <2>1. staged'[b] = "open" /\ content'[b] = r
    BY <1>1 DEF StoreRow, TypeOK
  <2>2. Undecided(b)
    BY <1>1 DEF StoreRow, Decided, Decision
  <2>3. Decision(b)'
    BY <1>0, <1>1, <2>1, <2>2
       DEF Upsert, history, Decision, Undecided, Nothing, Protected
  <2>4. /\ UNCHANGED <<object, media, upload, catalogued, decided, unsettled>>
        /\ \A c \in Book \ {b} : /\ staged'[c] = staged[c] /\ content'[c] = content[c]
                                 /\ \A q \in Run : submission'[<<q, c>>] = submission[<<q, c>>]
    BY <1>1 DEF Upsert, StoreRow, history, covers, TypeOK
  <2> QED BY <2>3, <2>4, OtherBooks DEF CoverPending
<1>2. CASE \/ Upsert(r, b) /\ DeclineRow(r, b)
           \/ Count(r, b) \/ SubmitFails(r, b)
  <2>1. UNCHANGED <<staged, content, object, media, upload, catalogued, decided, unsettled>>
    BY <1>2 DEF Upsert, DeclineRow, Count, SubmitFails, bookRows, covers, history
  <2>2. submission' \in {[submission EXCEPT ![<<r, b>>] = "answered"],
                         [submission EXCEPT ![<<r, b>>] = "failed"]}
    BY <1>2 DEF Upsert, DeclineRow, Count, SubmitFails
  <2>3. \A q \in Run, c \in Book :
          submission'[<<q, c>>] \in Stored => submission[<<q, c>>] \in Stored
    BY <2>2 DEF TypeOK, Stored
  <2> QED BY <2>1, <2>3, SameDecisions DEF CoverPending
<1>3. CASE PutCover(r, b) \/ RecordCover(r, b)
  <2>1. /\ UNCHANGED <<staged, content, catalogued, decided, unsettled, submission>>
        /\ \A c \in Book \ {b} : /\ object'[c] = object[c] /\ media'[c] = media[c]
                                 /\ \A q \in Run : upload'[<<q, c>>] = upload[<<q, c>>]
    BY <1>3 DEF PutCover, RecordCover, history, TypeOK
  <2>2. \A q \in Run, c \in Book \ {b} : CoverPending(q, c)' <=> CoverPending(q, c)
    BY <2>1 DEF CoverPending
  <2>3. CASE staged[b] \in Protected /\ b \notin unsettled
    BY <1>3, <2>3 DEF Decided, Decision, Settled, PutCover, RecordCover
  <2>4. CASE ~(staged[b] \in Protected /\ b \notin unsettled)
    <3>1. Decision(b)'
      BY <2>1, <2>4 DEF Decided, Decision, Settled, Undecided
    <3> QED BY <2>1, <2>2, <3>1, OtherBooks
  <2> QED BY <2>3, <2>4
<1> QED BY <1>1, <1>2, <1>3 DEF Submit, Upsert

\* The editor's.
LEMMA ApproveDecided ==
  ASSUME TypeOK, Decided, NEW b \in Book, Approve(b)
  PROVE  Decided'
<1>1. /\ UNCHANGED <<content, object, media, upload, submission, catalogued>>
      /\ OnOffer(b)' = OnOffer(b)
  BY DEF Approve, covers, OnOffer
<1>2. /\ staged'[b] = "approved" /\ decided'[b] = OnOffer(b)
      /\ \A c \in Book \ {b} : staged'[c] = staged[c] /\ decided'[c] = decided[c]
  BY DEF Approve, TypeOK
<1>3. /\ unsettled' \in {unsettled, unsettled \union {b}}
      /\ b \notin unsettled' => \A r \in Run : ~CoverPending(r, b)
      /\ unsettled \subseteq unsettled'
  BY DEF Approve
<1>4. \A r \in Run, c \in Book : CoverPending(r, c)' <=> CoverPending(r, c)
  BY <1>1 DEF CoverPending
<1>5. content[b] # None
  BY DEF Approve, Decided, Decision, Settled, Undecided, Protected
<1>6. OnOffer(b).row = content[b] /\ OnOffer(b) # Nothing
  BY <1>5 DEF OnOffer, Nothing
<1>7. ASSUME catalogued[b] # Nothing
      PROVE  /\ catalogued[b].row = content[b]
             /\ b \notin unsettled' => catalogued[b] = OnOffer(b)
  <2>1. Settled(b)
    BY <1>7 DEF Decided, Decision, Undecided
  <2> QED BY <1>3, <1>7, <2>1 DEF Settled
<1>8. Settled(b)'
  BY <1>1, <1>2, <1>3, <1>4, <1>5, <1>6, <1>7 DEF Settled
<1>9. Decision(b)'
  BY <1>2, <1>8 DEF Decision, Protected
<1> QED BY <1>1, <1>2, <1>3, <1>4, <1>9, OtherBooks

\* The promotion's.
LEMMA PromoteDecided ==
  ASSUME TypeOK, Decided, NEW b \in Book, Promote(b)
  PROVE  Decided'
<1>1. /\ UNCHANGED <<content, object, media, upload, submission, decided, unsettled>>
      /\ OnOffer(b)' = OnOffer(b)
  BY DEF Promote, covers, history, OnOffer
<1>2. /\ staged'[b] = "promoted" /\ catalogued'[b] = OnOffer(b)
      /\ \A c \in Book \ {b} : staged'[c] = staged[c] /\ catalogued'[c] = catalogued[c]
  BY DEF Promote, TypeOK
<1>3. Settled(b)
  BY DEF Promote, Decided, Decision, Protected
<1>4. \A r \in Run, c \in Book : CoverPending(r, c)' <=> CoverPending(r, c)
  BY <1>1 DEF CoverPending
<1>5. OnOffer(b).row = content[b]
  BY DEF OnOffer
<1>6. Settled(b)'
  BY <1>1, <1>2, <1>3, <1>4, <1>5 DEF Settled
<1>7. Decision(b)'
  BY <1>2, <1>6 DEF Decision, Protected
<1> QED BY <1>1, <1>2, <1>4, <1>7, OtherBooks

\* Every step keeps, for each book, what was decided about it.
LEMMA StepDecided == TypeOK /\ Decided /\ [Next]_vars => Decided'
<1> SUFFICES ASSUME TypeOK, Decided, [Next]_vars PROVE Decided'
  OBVIOUS
<1>0. ASSUME UNCHANGED <<bookRows, decided, unsettled>>,
             \A q \in Run, c \in Book :
               submission'[<<q, c>>] \in Stored => submission[<<q, c>>] \in Stored
      PROVE  Decided'
  <2>1. UNCHANGED <<staged, content, object, media, upload, catalogued, decided, unsettled>>
    BY <1>0 DEF bookRows, covers
  <2> QED BY <1>0, <2>1, SameDecisions DEF CoverPending
<1>1. ASSUME NEW r \in Run, NEW maxBooks \in Limit, Begin(r, maxBooks)
      PROVE  Decided'
  BY <1>0, <1>1 DEF Begin, history
<1>2. ASSUME NEW r \in Run, SubmitBook(r)
      PROVE  Decided'
  <2>1. UNCHANGED <<bookRows, decided, unsettled>>
    BY <1>2 DEF SubmitBook
  <2>2. \A q \in Run, c \in Book :
          submission'[<<q, c>>] \in Stored => submission[<<q, c>>] \in Stored
    BY <1>2 DEF SubmitBook, TypeOK, Stored
  <2> QED BY <1>0, <2>1, <2>2
<1>3. ASSUME NEW r \in Run, Crawl(r) \/ Fault(r)
      PROVE  Decided'
  <2>1. CASE SubmitBook(r)
    BY <1>2, <2>1
  <2>2. CASE Crawl(r) /\ ~SubmitBook(r)
    <3>1. UNCHANGED <<bookRows, decided, unsettled, submission>>
      BY <2>2 DEF Crawl, StartImportRun, Discover, NextPage, StopAtLimit, Answer,
                  Complete, PersistCursor, Abort, history
    <3> QED BY <1>0, <3>1
  <2>3. CASE Fault(r)
    <3>1. UNCHANGED <<bookRows, decided, unsettled, submission>>
      BY <2>3 DEF Fault, DiscoverFails, SkipBook, MissAnswer, Die, history
    <3> QED BY <1>0, <3>1
  <2> QED BY <1>3, <2>1, <2>2, <2>3
<1>4. CASE UNCHANGED vars
  BY <1>0, <1>4 DEF vars, history
<1> QED BY <1>1, <1>3, <1>4, SubmitDecided, ApproveDecided, PromoteDecided DEF Next

\* What an editor approved stays, row and status whatever runs submit the book
\* again, and the cover as well unless one was still being stored.
THEOREM EditorsDecide == Spec => []DecisionStands
<1>1. Init => Decided
  BY DEF Init, Decided, Decision, Undecided, Protected
<1>2. ASSUME Decided, NEW b \in Book
      PROVE  /\ decided[b] # Nothing =>
                  /\ staged[b] \in Protected
                  /\ content[b] = decided[b].row
                  /\ OnOffer(b) = decided[b] \/ b \in unsettled
             /\ catalogued[b] # Nothing =>
                  /\ decided[b] # Nothing
                  /\ catalogued[b].row = decided[b].row
                  /\ catalogued[b] = decided[b] \/ b \in unsettled
  BY <1>2 DEF Decided, Decision, Settled, Undecided
<1>3. Decided => DecisionStands
  BY <1>2 DEF DecisionStands
<1> QED BY <1>1, <1>3, TypeCorrect, StepDecided, PTL DEF Spec

-----------------------------------------------------------------------------
(* The counters of a completed run *)

Waiting == \A r \in Run : RunRow(r) /\ \A b \in Book : Awaited(r, b)

\* A step of one run leaves what holds of the others.
LEMMA OtherRuns ==
  ASSUME TypeOK, Waiting, NEW r \in Run,
         \A s \in Run \ {r} :
           /\ pc'[s] = pc[s] /\ at'[s] = at[s] /\ runStatus'[s] = runStatus[s]
           /\ s \notin missed' => s \notin missed
           /\ \A b \in Book : submission'[<<s, b>>] = submission[<<s, b>>],
         RunRow(r)', \A b \in Book : Awaited(r, b)'
  PROVE  Waiting'
<1>1. ASSUME NEW s \in Run, s # r
      PROVE  RunRow(s)' /\ \A b \in Book : Awaited(s, b)'
  <2>1. RunRow(s)'
    BY <1>1 DEF Waiting, RunRow
  <2>2. ASSUME NEW b \in Book
        PROVE  Awaited(s, b)'
    <3>1. Awaited(s, b)
      BY <1>1 DEF Waiting
    <3>2. Pending(s)' = Pending(s)
      BY <1>1 DEF Pending
    <3> QED BY <1>1, <3>1, <3>2 DEF Awaited
  <2> QED BY <2>1, <2>2
<1> QED BY <1>1 DEF Waiting

\* Every step keeps the API's work awaited.
LEMMA StepWaiting == TypeOK /\ Waiting /\ [Next]_vars => Waiting'
<1> SUFFICES ASSUME TypeOK, Waiting, [Next]_vars PROVE Waiting'
  OBVIOUS
<1>0. ASSUME UNCHANGED <<pc, at, runStatus, submission, missed>>
      PROVE  Waiting'
  BY <1>0 DEF Waiting, RunRow, Awaited, Pending
<1>1. ASSUME NEW r \in Run, NEW maxBooks \in Limit, Begin(r, maxBooks)
      PROVE  Waiting'
  <2>1. RunRow(r)' /\ \A b \in Book : Awaited(r, b)'
    BY <1>1 DEF Begin, Goto, TypeOK, Waiting, RunRow, Awaited, AtWork, runRows,
                history
  <2> QED BY <1>1, <2>1, OtherRuns DEF Begin, Goto, TypeOK, runRows, history
<1>2. ASSUME NEW r \in Run,
             \/ StartImportRun(r) \/ Discover(r) \/ NextPage(r)
             \/ StopAtLimit(r) \/ Complete(r) \/ PersistCursor(r)
             \/ Abort(r) \/ DiscoverFails(r)
      PROVE  Waiting'
  <2>1. /\ pc[r] \notin {"wait", "dead"}
        /\ submission' = submission /\ missed' = missed
        /\ \A s \in Run \ {r} : /\ pc'[s] = pc[s] /\ at'[s] = at[s]
                                /\ runStatus'[s] = runStatus[s]
    BY <1>2 DEF StartImportRun, Discover, NextPage, StopAtLimit, Complete,
                PersistCursor, Abort, DiscoverFails, Goto, TypeOK, runRows,
                history
  <2>2. RunRow(r)'
    BY <1>2 DEF StartImportRun, Discover, NextPage, StopAtLimit, Complete,
                PersistCursor, Abort, DiscoverFails, Goto, TypeOK, runRows,
                Waiting, RunRow
  <2>3. \A b \in Book : Awaited(r, b)'
    BY <2>1 DEF Waiting, Awaited
  <2> QED BY <2>1, <2>2, <2>3, OtherRuns
<1>3. ASSUME NEW r \in Run, SubmitBook(r)
      PROVE  Waiting'
  <2> DEFINE taken == Refs(at[r].page)[at[r].skip + 1]
  <2>1. /\ pc[r] = "refs" /\ pc' = [pc EXCEPT ![r] = "wait"]
        /\ runStatus' = runStatus /\ missed' = missed
        /\ at' = [at EXCEPT ![r].skip = @ + 1]
        /\ submission' = [submission EXCEPT ![<<r, taken>>] = "sent"]
    BY <1>3 DEF SubmitBook, TakeUp, Goto, runRows
  <2>2. RunRow(r)'
    BY <2>1 DEF TypeOK, Waiting, RunRow
  <2>3. Pending(r)' = <<r, taken>>
    BY <2>1 DEF Pending, TypeOK, Position
  <2>4. ASSUME NEW b \in Book PROVE Awaited(r, b)'
    <3>1. CASE b = taken
      BY <2>1, <2>3, <3>1 DEF Awaited, TypeOK
    <3>2. CASE b # taken
      <4>1. submission'[<<r, b>>] = submission[<<r, b>>]
        BY <2>1, <3>2 DEF TypeOK
      <4> QED BY <2>1, <4>1 DEF Waiting, Awaited
    <3> QED BY <3>1, <3>2
  <2>5. \A s \in Run \ {r} :
          /\ pc'[s] = pc[s] /\ at'[s] = at[s]
          /\ \A b \in Book : submission'[<<s, b>>] = submission[<<s, b>>]
    BY <2>1 DEF TypeOK
  <2> QED BY <2>1, <2>2, <2>4, <2>5, OtherRuns
<1>4. ASSUME NEW r \in Run, SkipBook(r)
      PROVE  Waiting'
  <2>1. /\ pc[r] = "refs" /\ pc' = [pc EXCEPT ![r] = "refs"]
        /\ runStatus' = runStatus /\ missed' = missed
        /\ at' = [at EXCEPT ![r].skip = @ + 1]
        /\ submission' = submission
    BY <1>4 DEF SkipBook, TakeUp, Goto, runRows
  <2>2. RunRow(r)' /\ \A b \in Book : Awaited(r, b)'
    BY <2>1 DEF TypeOK, Waiting, RunRow, Awaited
  <2>3. \A s \in Run \ {r} : pc'[s] = pc[s] /\ at'[s] = at[s]
    BY <2>1 DEF TypeOK
  <2> QED BY <2>1, <2>2, <2>3, OtherRuns
<1>5. ASSUME NEW r \in Run, Answer(r) \/ MissAnswer(r)
      PROVE  Waiting'
  <2>1. /\ pc[r] = "wait" /\ pc' = [pc EXCEPT ![r] = "refs"]
        /\ UNCHANGED <<at, runStatus, submission>>
        /\ missed' = missed \/ missed' = missed \union {r}
        /\ submission[Pending(r)] \in AtWork => r \in missed'
    BY <1>5 DEF Answer, MissAnswer, Goto, runRows, history, AtWork
  <2>2. RunRow(r)'
    BY <2>1 DEF TypeOK, Waiting, RunRow
  <2>3. \A b \in Book : Awaited(r, b)'
    BY <2>1 DEF TypeOK, Waiting, Awaited
  <2>4. \A s \in Run \ {r} : pc'[s] = pc[s]
    BY <2>1 DEF TypeOK
  <2> QED BY <2>1, <2>2, <2>3, <2>4, OtherRuns
<1>6. ASSUME NEW r \in Run, Die(r)
      PROVE  Waiting'
  <2>1. /\ pc' = [pc EXCEPT ![r] = "dead"]
        /\ UNCHANGED <<at, runStatus, submission, missed>>
    BY <1>6 DEF Die, runRows, history
  <2>2. RunRow(r)' /\ \A b \in Book : Awaited(r, b)'
    BY <2>1 DEF TypeOK, Waiting, RunRow, Awaited
  <2>3. \A s \in Run \ {r} : pc'[s] = pc[s]
    BY <2>1 DEF TypeOK
  <2> QED BY <2>1, <2>2, <2>3, OtherRuns
<1>7. ASSUME NEW r \in Run, NEW b \in Book, Submit(r, b) \/ SubmitFails(r, b)
      PROVE  Waiting'
  <2>1. /\ UNCHANGED <<pc, at, runStatus, missed>>
        /\ submission[<<r, b>>] \in AtWork
        /\ \A t \in Run \X Book :
             t # <<r, b>> => submission'[t] = submission[t]
    BY <1>7 DEF Submit, Upsert, StoreRow, DeclineRow, PutCover, RecordCover, Count,
                SubmitFails, CoverPending, crawler, runRows, history, AtWork,
                Stored, TypeOK
  <2>2. ASSUME NEW s \in Run, NEW c \in Book
        PROVE  Awaited(s, c)'
    <3>1. Awaited(s, c) /\ Pending(s)' = Pending(s)
      BY <2>1 DEF Waiting, Pending
    <3>2. submission'[<<s, c>>] \in AtWork => submission[<<s, c>>] \in AtWork
      BY <2>1
    <3> QED BY <2>1, <3>1, <3>2 DEF Awaited
  <2>3. \A s \in Run : RunRow(s)'
    BY <2>1 DEF Waiting, RunRow
  <2> QED BY <2>2, <2>3 DEF Waiting
<1>8. ASSUME NEW b \in Book, Approve(b) \/ Promote(b)
      PROVE  Waiting'
  BY <1>0, <1>8 DEF Approve, Promote, crawler, runRows, history
<1>9. CASE UNCHANGED vars
  BY <1>0, <1>9 DEF vars, crawler, runRows, history
<1>10. ASSUME NEW r \in Run, Crawl(r) \/ Fault(r)
       PROVE  Waiting'
  BY <1>2, <1>3, <1>4, <1>5, <1>6, <1>10 DEF Crawl, Fault
<1> QED BY <1>1, <1>7, <1>8, <1>9, <1>10 DEF Next

\* A step credits a book only to a run that is running, or has missed an answer.
LEMMA StepCredits ==
  ASSUME TypeOK, Waiting, [Next]_vars,
         NEW r \in Run, r \notin missed, runStatus[r] \notin {"none", "running"}
  PROVE  UNCHANGED Credits(r)
<1>0. ASSUME UNCHANGED <<newBooks, updatedBooks>>
      PROVE  UNCHANGED Credits(r)
  BY <1>0 DEF Credits
<1>1. ASSUME NEW s \in Run, NEW b \in Book, Count(s, b)
      PROVE  UNCHANGED Credits(r)
  <2>1. s # r
    BY <1>1 DEF Count, Waiting, RunRow, Awaited, AtWork
  <2> QED BY <1>1, <2>1 DEF Count, TypeOK, Credits
<1>2. ASSUME NEW s \in Run, NEW b \in Book,
             Upsert(s, b) \/ PutCover(s, b) \/ RecordCover(s, b) \/ SubmitFails(s, b)
      PROVE  UNCHANGED Credits(r)
  BY <1>0, <1>2 DEF Upsert, PutCover, RecordCover, SubmitFails, runRows
<1>3. ASSUME NEW s \in Run, Crawl(s)
      PROVE  UNCHANGED Credits(r)
  BY <1>0, <1>3 DEF Crawl, StartImportRun, Discover, NextPage, StopAtLimit,
                    SubmitBook, Answer, Complete, PersistCursor, Abort, runRows
<1>4. ASSUME NEW s \in Run, Fault(s)
      PROVE  UNCHANGED Credits(r)
  BY <1>0, <1>4 DEF Fault, DiscoverFails, SkipBook, MissAnswer, Die, runRows
<1>5. ASSUME NEW s \in Run, NEW maxBooks \in Limit, Begin(s, maxBooks)
      PROVE  UNCHANGED Credits(r)
  BY <1>0, <1>5 DEF Begin, runRows
<1>6. ASSUME NEW b \in Book, Approve(b) \/ Promote(b)
      PROVE  UNCHANGED Credits(r)
  BY <1>0, <1>6 DEF Approve, Promote, runRows
<1>7. CASE UNCHANGED vars
  BY <1>0, <1>7 DEF vars, runRows
<1> QED BY <1>1, <1>2, <1>3, <1>4, <1>5, <1>6, <1>7 DEF Next, Submit

\* The counters a completed run announces do not change any more, unless the
\* run missed an answer.
THEOREM CountsAreFinal == Spec => CompletedCountsAreFinal
<1>1. Init => Waiting
  BY DEF Init, Waiting, RunRow, Awaited, AtWork
<1>2. TypeOK /\ Waiting /\ [Next]_vars =>
        [\A r \in Run \ missed :
           runStatus[r] \notin {"none", "running"} => UNCHANGED Credits(r)]_vars
  BY StepCredits
<1> QED BY <1>1, <1>2, TypeCorrect, StepWaiting, PTL
        DEF Spec, CompletedCountsAreFinal
-----------------------------------------------------------------------------
(* The books credited as new *)

\* There are finitely many rows and credits, as many as the property says, and
\* nobody has missed an answer before the first fault.
Accounted ==
  /\ IsFiniteSet(Credited) /\ IsFiniteSet(Uncounted) /\ IsFiniteSet(Rows)
  /\ NewBooksAreCreditedOnce
  /\ faults = 0 => missed = {}

\* The sets counted, without the union.
LEMMA CreditedUnits ==
  ASSUME newBooks \in [Run -> Nat]
  PROVE  Credited = {u \in Run \X (Nat \ {0}) : u[2] <= newBooks[u[1]]}
<1>1. \A r \in Run : \A n : n \in 1..newBooks[r] <=>
                          n \in Nat \ {0} /\ n <= newBooks[r]
  OBVIOUS
<1> QED BY <1>1 DEF Credited

\* A credit more for a run is a credit more for all.
LEMMA OneMoreCredit ==
  ASSUME newBooks \in [Run -> Nat], newBooks' \in [Run -> Nat], NEW r \in Run,
         newBooks' = [newBooks EXCEPT ![r] = @ + 1]
  PROVE  \E u : u \notin Credited /\ Credited' = Credited \union {u}
<1> DEFINE n == newBooks[r] + 1
<1>1. /\ Credited = {u \in Run \X (Nat \ {0}) : u[2] <= newBooks[u[1]]}
      /\ Credited' = {u \in Run \X (Nat \ {0}) : u[2] <= newBooks'[u[1]]}
  <2>1. Credited' = (UNION {{s} \X (1..newBooks[s]) : s \in Run})'
    BY DEF Credited
  <2>2. \A s \in Run : \A k : k \in 1..newBooks'[s] <=>
                            k \in Nat \ {0} /\ k <= newBooks'[s]
    OBVIOUS
  <2> QED BY <2>2, CreditedUnits DEF Credited
<1>2. <<r, n>> \notin Credited
  BY <1>1
<1>3. \A u \in Run \X (Nat \ {0}) :
        u[2] <= newBooks'[u[1]] <=> u[2] <= newBooks[u[1]] \/ u = <<r, n>>
  <2>1. SUFFICES ASSUME NEW s \in Run, NEW k \in Nat \ {0}
                 PROVE  k <= newBooks'[s] <=>
                          k <= newBooks[s] \/ (s = r /\ k = n)
    OBVIOUS
  <2> QED BY <2>1
<1>4. <<r, n>> \in Run \X (Nat \ {0})
  OBVIOUS
<1>5. Credited' = Credited \union {<<r, n>>}
  BY <1>1, <1>3, <1>4
<1> QED BY <1>2, <1>5

\* What is accounted for stays so when nothing that is counted changes.
LEMMA SameAccounts ==
  ASSUME Accounted, UNCHANGED <<newBooks, submission, staged, missed>>,
         faults \in Nat, faults' \in {faults, faults + 1}
  PROVE  Accounted'
<1>1. faults' = 0 => faults = 0
  OBVIOUS
<1> QED BY <1>1 DEF Accounted, NewBooksAreCreditedOnce, Credited, Uncounted, Rows

\* A submission that is dropped leaves books uncredited, and is a failure.
LEMMA FewerUncounted ==
  ASSUME Accounted, UNCHANGED <<newBooks, staged>>,
         Uncounted' \subseteq Uncounted,
         faults' = 0 => faults = 0 /\ Uncounted' = Uncounted /\ missed' = {}
  PROVE  Accounted'
<1>1. Credited' = Credited /\ Rows' = Rows
  BY DEF Credited, Rows
<1>2. /\ IsFiniteSet(Uncounted')
      /\ Cardinality(Uncounted') <= Cardinality(Uncounted)
  BY FS_Subset DEF Accounted
<1>3. /\ Cardinality(Uncounted') \in Nat /\ Cardinality(Uncounted) \in Nat
      /\ Cardinality(Credited) \in Nat /\ Cardinality(Rows) \in Nat
  BY <1>2, FS_CardinalityType DEF Accounted
<1> QED BY <1>1, <1>2, <1>3 DEF Accounted, NewBooksAreCreditedOnce

\* The first submission of a book makes its row, and is still to be counted.
LEMMA RowInserted ==
  ASSUME TypeOK, Accounted, NEW r \in Run, NEW b \in Book,
         submission[<<r, b>>] = "sent", staged[b] = "absent",
         staged' = [staged EXCEPT ![b] = "open"],
         submission' = [submission EXCEPT ![<<r, b>>] = "inserted"],
         UNCHANGED <<newBooks, missed, faults>>
  PROVE  Accounted'
<1>1. Rows' = Rows \union {b} /\ b \notin Rows
  BY DEF Rows, TypeOK
<1>2. Uncounted' = Uncounted \union {<<r, b>>} /\ <<r, b>> \notin Uncounted
  BY DEF Uncounted, TypeOK
<1>3. Credited' = Credited
  BY DEF Credited
<1>4. /\ IsFiniteSet(Rows') /\ Cardinality(Rows') = Cardinality(Rows) + 1
      /\ IsFiniteSet(Uncounted')
      /\ Cardinality(Uncounted') = Cardinality(Uncounted) + 1
  BY <1>1, <1>2, FS_AddElement DEF Accounted
<1>5. /\ Cardinality(Uncounted) \in Nat /\ Cardinality(Credited) \in Nat
      /\ Cardinality(Rows) \in Nat
  BY FS_CardinalityType DEF Accounted
<1> QED BY <1>3, <1>4, <1>5 DEF Accounted, NewBooksAreCreditedOnce

\* Counting it credits the run.
LEMMA InsertedCounted ==
  ASSUME TypeOK, TypeOK', Accounted, NEW r \in Run, NEW b \in Book,
         submission[<<r, b>>] = "inserted",
         submission' = [submission EXCEPT ![<<r, b>>] = "answered"],
         newBooks' = [newBooks EXCEPT ![r] = @ + 1],
         UNCHANGED <<staged, missed, faults>>
  PROVE  Accounted'
<1>1. PICK u : u \notin Credited /\ Credited' = Credited \union {u}
  BY OneMoreCredit DEF TypeOK
<1>2. Uncounted' = Uncounted \ {<<r, b>>} /\ <<r, b>> \in Uncounted
  BY DEF Uncounted, TypeOK
<1>3. Rows' = Rows
  BY DEF Rows
<1>4. /\ IsFiniteSet(Credited')
      /\ Cardinality(Credited') = Cardinality(Credited) + 1
      /\ IsFiniteSet(Uncounted')
      /\ Cardinality(Uncounted') = Cardinality(Uncounted) - 1
  BY <1>1, <1>2, FS_AddElement, FS_RemoveElement DEF Accounted
<1>5. /\ Cardinality(Uncounted) \in Nat /\ Cardinality(Credited) \in Nat
      /\ Cardinality(Rows) \in Nat
  BY FS_CardinalityType DEF Accounted
<1> QED BY <1>3, <1>4, <1>5 DEF Accounted, NewBooksAreCreditedOnce

\* Every step keeps the accounts.
LEMMA StepAccounted ==
  TypeOK /\ TypeOK' /\ Waiting /\ Accounted /\ [Next]_vars => Accounted'
<1> SUFFICES ASSUME TypeOK, TypeOK', Waiting, Accounted, [Next]_vars
             PROVE  Accounted'
  OBVIOUS
<1> USE DEF UseFault, crawler, runRows, bookRows, history
<1>0. faults \in Nat
  BY ImportAssumption DEF TypeOK
<1>1. ASSUME NEW r \in Run, NEW maxBooks \in Limit, Begin(r, maxBooks)
      PROVE  Accounted'
  BY <1>0, <1>1, SameAccounts DEF Begin
<1>2. ASSUME NEW r \in Run, SubmitBook(r)
      PROVE  Accounted'
  <2> DEFINE s == <<r, Refs(at[r].page)[at[r].skip + 1]>>
  <2>1. s \in Run \X Book
    BY <1>2, BookTakenUp DEF SubmitBook, TakeUp
  <2>2. submission' = [submission EXCEPT ![s] = "sent"]
    BY <1>2 DEF SubmitBook
  <2>3. Uncounted' = Uncounted \ {s}
    BY <2>1, <2>2 DEF Uncounted, TypeOK
  <2>4. faults = 0 => submission[s] # "inserted"
    BY <1>2, <2>1 DEF SubmitBook, Goto, Accounted, Waiting, Awaited, AtWork
  <2>5. faults = 0 => Uncounted' = Uncounted
    BY <2>3, <2>4 DEF Uncounted
  <2> QED BY <1>2, <2>3, <2>5, FewerUncounted DEF SubmitBook, Accounted
<1>3. ASSUME NEW r \in Run, MissAnswer(r)
      PROVE  Accounted'
  <2>1. Uncounted' = Uncounted
    BY <1>3 DEF MissAnswer, Uncounted
  <2> QED BY <1>0, <1>3, <2>1, FewerUncounted DEF MissAnswer
<1>4. ASSUME NEW r \in Run, Crawl(r)
      PROVE  Accounted'
  <2>1. CASE \/ StartImportRun(r) \/ Discover(r) \/ NextPage(r)
             \/ StopAtLimit(r) \/ Answer(r) \/ Complete(r)
             \/ PersistCursor(r) \/ Abort(r)
    BY <1>0, <2>1, SameAccounts
       DEF StartImportRun, Discover, NextPage, StopAtLimit, Answer, Complete,
           PersistCursor, Abort
  <2> QED BY <1>2, <1>4, <2>1 DEF Crawl
<1>5. ASSUME NEW r \in Run, Fault(r)
      PROVE  Accounted'
  <2>1. CASE DiscoverFails(r) \/ SkipBook(r) \/ Die(r)
    BY <1>0, <2>1, SameAccounts DEF DiscoverFails, SkipBook, TakeUp, Die
  <2> QED BY <1>3, <1>5, <2>1 DEF Fault
<1>6. ASSUME NEW r \in Run, NEW b \in Book, Upsert(r, b)
      PROVE  Accounted'
  <2>1. CASE StoreRow(r, b) /\ staged[b] = "absent"
    BY <1>6, <2>1, RowInserted DEF Upsert, StoreRow
  <2>2. CASE StoreRow(r, b) /\ staged[b] # "absent"
    <3>0. /\ staged' = [staged EXCEPT ![b] = "open"]
          /\ submission' = [submission EXCEPT ![<<r, b>>] = "updated"]
          /\ submission[<<r, b>>] = "sent"
          /\ newBooks' = newBooks
      BY <1>6, <2>2 DEF Upsert, StoreRow
    <3>a. /\ \A c \in Book : staged'[c] # "absent" <=> staged[c] # "absent"
          /\ DOMAIN submission' = DOMAIN submission
          /\ \A t \in DOMAIN submission :
               submission'[t] = "inserted" <=> submission[t] = "inserted"
      BY <2>2, <3>0 DEF TypeOK
    <3>1. Rows' = Rows /\ Uncounted' = Uncounted /\ Credited' = Credited
      BY <3>0, <3>a DEF Rows, Uncounted, Credited
    <3> QED BY <1>6, <3>1 DEF Upsert, Accounted, NewBooksAreCreditedOnce
  <2>3. CASE DeclineRow(r, b)
    <3>1. Uncounted' = Uncounted
      BY <1>6, <2>3 DEF Upsert, DeclineRow, Uncounted, TypeOK
    <3> QED BY <1>6, <2>3, <3>1, FewerUncounted DEF Upsert, DeclineRow, Accounted
  <2> QED BY <1>6, <2>1, <2>2, <2>3 DEF Upsert
<1>7. ASSUME NEW r \in Run, NEW b \in Book, Count(r, b)
      PROVE  Accounted'
  <2>1. CASE submission[<<r, b>>] = "inserted"
    BY <1>7, <2>1, InsertedCounted DEF Count
  <2>2. CASE submission[<<r, b>>] # "inserted"
    <3>1. Uncounted' = Uncounted
      BY <1>7, <2>2 DEF Count, Uncounted, TypeOK
    <3> QED BY <1>7, <2>2, <3>1, FewerUncounted DEF Count, Accounted
  <2> QED BY <2>1, <2>2
<1>8. ASSUME NEW r \in Run, NEW b \in Book, SubmitFails(r, b)
      PROVE  Accounted'
  <2>1. Uncounted' = Uncounted \ {<<r, b>>}
    BY <1>8 DEF SubmitFails, Uncounted, TypeOK
  <2> QED BY <1>0, <1>8, <2>1, FewerUncounted DEF SubmitFails
<1>9. ASSUME NEW b \in Book, Approve(b) \/ Promote(b)
      PROVE  Accounted'
  <2>1. Rows' = Rows /\ Uncounted' = Uncounted /\ Credited' = Credited
    BY <1>9 DEF Approve, Promote, Rows, Uncounted, Credited, TypeOK
  <2> QED BY <1>9, <2>1 DEF Approve, Promote, Accounted, NewBooksAreCreditedOnce
<1>10. CASE UNCHANGED vars
  BY <1>0, <1>10, SameAccounts DEF vars
<1>11. ASSUME NEW r \in Run, NEW b \in Book, PutCover(r, b) \/ RecordCover(r, b)
       PROVE  Accounted'
  BY <1>0, <1>11, SameAccounts DEF PutCover, RecordCover
<1> QED BY <1>1, <1>4, <1>5, <1>6, <1>7, <1>8, <1>9, <1>10, <1>11 DEF Next, Submit

\* Nothing is counted at first.
LEMMA InitAccounted == Init => Accounted
<1> SUFFICES ASSUME Init PROVE Accounted
  OBVIOUS
<1>1. Rows = {} /\ Uncounted = {}
  BY DEF Init, Rows, Uncounted
<1>2. \A r \in Run : {r} \X (1..newBooks[r]) = {}
  BY DEF Init
<1>3. Credited = {}
  BY <1>2 DEF Credited
<1> QED BY <1>1, <1>3, FS_EmptySet DEF Init, Accounted, NewBooksAreCreditedOnce

\* Whatever runs overlap, fail or die, no book of the publisher is credited as
\* new to two runs, and while nothing fails each is credited to one.
THEOREM CreditedOnce == Spec => []NewBooksAreCreditedOnce
<1>1. Init => Waiting
  BY DEF Init, Waiting, RunRow, Awaited, AtWork
<1>2. Accounted => NewBooksAreCreditedOnce
  BY DEF Accounted
<1> QED BY <1>1, <1>2, InitAccounted, TypeCorrect, StepWaiting, StepAccounted, PTL
        DEF Spec

-----------------------------------------------------------------------------
(* The crawl of a site (Adapters) *)

\* What the site may hold, and what normalize() makes of it.
Offered == Range(Products) \union {NewProduct}
Normalized ==
  {NormalizeEthirveliyeedu(p, html) : p \in Offered, html \in Offered}
    \union {NormalizeYaavarum(p, html) : p \in Offered, html \in Offered}
    \union {NormalizeKalachuvadu(p, html) : p \in Offered, html \in Offered}
CrawlSubmission == {[book |-> b, issues |-> ValidateBookFields(b)] : b \in Normalized}

CrawlType ==
  /\ adapter \in {"ethirveliyeedu", "yaavarum", "kalachuvadu"}
  /\ site \in Seq(Offered) /\ cache \subseteq Offered
  /\ crawl \in [page : {crawl.page}, next : Nat, refs : SUBSET Nat,
                step : {"discover", "book", "inventory", "cover", "submit"},
                book : Normalized \union {Absent}]
  /\ crawl.refs \subseteq DOMAIN crawl.page
  /\ \A i \in DOMAIN crawl.page : i \in Nat /\ crawl.page[i] \in Offered
  /\ submissions \in Seq(CrawlSubmission)
  /\ siteChanges \in Nat /\ unanswered \in Nat

\* No two products of the site, or of a page of it, have the same handle.
HandlesApart ==
  /\ \A i, j \in DOMAIN site : site[i].handle = site[j].handle => i = j
  /\ \A i, j \in DOMAIN crawl.page :
       crawl.page[i].handle = crawl.page[j].handle => i = j

\* What a crawl is to submit is in the cache, and the book it is at is of the
\* ref it is at.
CrawlIsAt ==
  /\ crawl.step = "discover" => crawl.refs = {}
  /\ \A i \in crawl.refs : \E p \in cache : p.handle = crawl.page[i].handle
  /\ crawl.step \in {"inventory", "cover", "submit"} =>
       /\ crawl.book \in Normalized
       /\ \A i \in crawl.refs : IsAt(i) => crawl.book.ref = crawl.page[i].handle

\* The places of the site that the crawl has read. A book there is still to do
\* or was submitted, once; of a book further on there is nothing yet.
WasRead(i) == crawl.next = 0 \/ i <= (crawl.next - 1) * SitePageSize
ToDo(handle) == \E i \in crawl.refs : crawl.page[i].handle = handle
DoneOnce(handle) ==
  IF ToDo(handle) THEN Submitted(handle) = {} ELSE \E i : Submitted(handle) = {i}
Untouched(handle) == ~ToDo(handle) /\ Submitted(handle) = {}
InOrder(i) == IF WasRead(i) THEN DoneOnce(site[i].handle) ELSE Untouched(site[i].handle)

\* The books for which that is not so. Each was paid for with a missed answer or
\* a change of the site.
Astray ==
  {p \in Range(Products) : IsBook(p) /\ \E i \in DOMAIN site : site[i] = p /\ ~InOrder(i)}
CrawlCounts == Cardinality(Astray) <= unanswered + siteChanges

CrawlInv == CrawlType /\ HandlesApart /\ CrawlIsAt /\ CrawlCounts

\* The products are finitely many, and have handles of their own.
LEMMA ProductsApart ==
  /\ Products \in Seq(Offered) /\ Range(Products) \subseteq Offered
  /\ \A i, j \in DOMAIN Products : Products[i].handle = Products[j].handle => i = j
  /\ \A p \in Range(Products) : p.handle # NewProduct.handle
  /\ \A p, q \in Range(Products) : p.handle = q.handle => p = q
  /\ IsFiniteSet(Range(Products))
<1>1. Products \in Seq(Range(Products))
  BY AdaptersAssumption
<1>2. Range(Products) \subseteq Offered
  BY DEF Offered
<1>3. Products \in Seq(Offered)
  BY <1>1, <1>2
<1>4. ASSUME NEW i \in DOMAIN Products, NEW j \in DOMAIN Products,
             Products[i].handle = Products[j].handle
      PROVE  i = j
  BY <1>4, AdaptersAssumption DEF IsInjective
<1>5. ASSUME NEW p \in Range(Products)
      PROVE  p.handle # NewProduct.handle
  BY AdaptersAssumption DEF Range
<1>6. ASSUME NEW p \in Range(Products), NEW q \in Range(Products), p.handle = q.handle
      PROVE  p = q
  BY <1>4, <1>6 DEF Range
<1>7. /\ Len(Products) \in Nat
      /\ DOMAIN Products = 1..Len(Products)
      /\ Products \in [1..Len(Products) -> Range(Products)]
  BY <1>1
<1>8. Products \in Surjection(1..Len(Products), Range(Products))
  BY <1>7 DEF Surjection, Range
<1>9. IsFiniteSet(1..Len(Products))
  BY <1>7, FS_Interval
<1>10. IsFiniteSet(Range(Products))
  BY <1>8, <1>9, FS_Surjection
<1> QED BY <1>2, <1>3, <1>4, <1>5, <1>6, <1>10

\* The start: nothing is read and nothing is done.
LEMMA CrawlStarts == AdaptersInit => CrawlInv
<1> SUFFICES ASSUME AdaptersInit PROVE CrawlInv
  OBVIOUS
<1>1. /\ adapter \in {"ethirveliyeedu", "yaavarum", "kalachuvadu"}
      /\ site = Products /\ cache = {} /\ submissions = <<>>
      /\ crawl = [page |-> <<>>, next |-> 1, refs |-> {}, step |-> "discover",
                  book |-> Absent]
      /\ siteChanges = 0 /\ unanswered = 0
  BY DEF AdaptersInit
<1>2. /\ crawl.page = <<>> /\ crawl.next = 1 /\ crawl.refs = {}
      /\ crawl.step = "discover" /\ crawl.book = Absent
  BY <1>1
<1>3. CrawlType
  BY <1>1, <1>2, ProductsApart DEF CrawlType
<1>4. HandlesApart
  BY <1>1, <1>2, ProductsApart DEF HandlesApart
<1>5. CrawlIsAt
  BY <1>2 DEF CrawlIsAt
<1>6. ASSUME NEW i \in DOMAIN site
      PROVE  InOrder(i)
  <2>1. i \in Nat /\ i # 0
    BY <1>1, ProductsApart
  <2>2. ~WasRead(i)
    <3>1. (1 - 1) * SitePageSize = 0
      BY AdaptersAssumption
    <3> QED BY <1>2, <2>1, <3>1 DEF WasRead
  <2>3. ~ToDo(site[i].handle) /\ Submitted(site[i].handle) = {}
    BY <1>1, <1>2 DEF ToDo, Submitted
  <2> QED BY <2>2, <2>3 DEF InOrder, Untouched
<1>7. Astray = {}
  BY <1>6 DEF Astray
<1>8. CrawlCounts
  BY <1>1, <1>7, FS_EmptySet DEF CrawlCounts
<1> QED BY <1>3, <1>4, <1>5, <1>8 DEF CrawlInv

-----------------------------------------------------------------------------
(* What the operators of the crawl return *)

\* A page holds the products at its places of the site; its books are kept, and
\* only when the site has no product further on is there no next page.
Listed(n, products, found) ==
  /\ DOMAIN products = {k \in 1..SitePageSize : (n - 1) * SitePageSize + k <= Len(site)}
  /\ \A k \in DOMAIN products : products[k] = site[(n - 1) * SitePageSize + k]
  /\ found.refs \subseteq DOMAIN products
  /\ \A k \in DOMAIN products : IsBook(products[k]) => k \in found.refs
  /\ found.next \in {0, n + 1}
  /\ found.next = 0 => Len(site) <= n * SitePageSize

\* That is what a page that discover() returns is like.
LEMMA PageFound ==
  ASSUME CrawlType, NEW n \in Nat \ {0}, NEW products, NEW found,
         products = PageOf(n), found = DiscoverPage(n, products)
  PROVE  Listed(n, products, found)
<1>1. SitePageSize \in Nat \ {0} /\ Len(site) \in Nat
  BY AdaptersAssumption DEF CrawlType
<1>2. PICK before \in Nat : before = (n - 1) * SitePageSize
  BY <1>1
<1>3. n * SitePageSize = before + SitePageSize
  BY <1>1, <1>2
<1>4. products = [i \in {k \in 1..SitePageSize : before + k <= Len(site)} |-> site[before + i]]
  BY <1>2 DEF PageOf
<1>5. DOMAIN products = {k \in 1..SitePageSize : before + k <= Len(site)}
  BY <1>4
<1>6. \A k \in DOMAIN products : products[k] = site[before + k]
  BY <1>4, <1>5
<1>7. DOMAIN products = {} => Len(site) <= before + SitePageSize
  <2> SUFFICES ASSUME DOMAIN products = {} PROVE Len(site) <= before + SitePageSize
    OBVIOUS
  <2>1. 1 \in 1..SitePageSize
    BY <1>1
  <2>2. ~(before + 1 <= Len(site))
    BY <1>5, <2>1
  <2> QED BY <1>1, <1>2, <2>2
<1>8. /\ found.refs \subseteq DOMAIN products
      /\ \A k \in DOMAIN products : IsBook(products[k]) => k \in found.refs
      /\ found.next \in {0, n + 1}
      /\ found.next = 0 => Len(site) <= n * SitePageSize
  <2>1. CASE adapter = "ethirveliyeedu"
    <3>1. found = DiscoverEthirveliyeedu(n, products)
      BY <2>1 DEF DiscoverPage
    <3>2. \A p : IsBook(p) <=> p.type = "Books"
      BY <2>1 DEF IsBook
    <3>3. found.refs = {i \in DOMAIN products : products[i].type = "Books"}
      BY <3>1 DEF DiscoverEthirveliyeedu
    <3>4. found.next = IF DOMAIN products # {} THEN n + 1 ELSE 0
      BY <3>1 DEF DiscoverEthirveliyeedu
    <3>5. found.refs \subseteq DOMAIN products
      BY <3>3
    <3>6. \A k \in DOMAIN products : IsBook(products[k]) => k \in found.refs
      BY <3>2, <3>3
    <3>7. found.next \in {0, n + 1}
      BY <3>4
    <3>8. n + 1 # 0
      OBVIOUS
    <3>9. found.next = 0 => DOMAIN products = {}
      BY <3>4, <3>8, Zenon
    <3> QED BY <1>3, <1>7, <3>5, <3>6, <3>7, <3>9
  <2>2. CASE adapter = "yaavarum"
    <3>1. found = DiscoverYaavarum(n, products)
      BY <2>2 DEF DiscoverPage
    <3>2. \A p : IsBook(p) <=> p.type # ""
      BY <2>2, Zenon DEF IsBook
    <3>3. PICK rs, nx :
            /\ found = [refs |-> rs, next |-> nx]
            /\ rs = {i \in DOMAIN products : products[i].type # ""}
            /\ nx = IF DOMAIN products # {} THEN n + 1 ELSE 0
      BY <3>1, Zenon DEF DiscoverYaavarum
    <3>4. \A k : k \in rs <=> k \in DOMAIN products /\ IsBook(products[k])
      BY <3>2, <3>3, Zenon
    <3>5. found = [refs |-> rs, next |-> nx]
      BY <3>3, Zenon
    <3>6. found.refs = rs /\ found.next = nx
      BY <3>5
    <3>7. nx = IF DOMAIN products # {} THEN n + 1 ELSE 0
      BY <3>3, Zenon
    <3>8. n + 1 # 0
      OBVIOUS
    <3>9. nx = 0 => DOMAIN products = {}
      BY <3>7, <3>8, Zenon
    <3>10. nx \in {0, n + 1}
      BY <3>7
    <3> QED BY <1>3, <1>7, <3>4, <3>6, <3>9, <3>10
  <2>3. CASE adapter = "kalachuvadu"
    <3>1. found = DiscoverKalachuvadu(n, products)
      BY <2>3 DEF DiscoverPage
    <3>2. n * SitePageSize \in Nat
      BY <1>1
    <3> QED BY <1>1, <3>1, <3>2 DEF DiscoverKalachuvadu
  <2> QED BY <2>1, <2>2, <2>3 DEF CrawlType
<1> QED BY <1>2, <1>5, <1>6, <1>8 DEF Listed

\* The cache has each product that is still to do.
LEMMA Resolved ==
  ASSUME CrawlType, CrawlIsAt, NEW i \in crawl.refs
  PROVE  /\ Resolve(crawl.page[i].handle) \in Offered
         /\ Resolve(crawl.page[i].handle).handle = crawl.page[i].handle
<1>1. \E p \in cache : p.handle = crawl.page[i].handle
  BY DEF CrawlIsAt
<1>2. /\ Resolve(crawl.page[i].handle) \in cache
      /\ Resolve(crawl.page[i].handle).handle = crawl.page[i].handle
  BY <1>1 DEF Resolve
<1> QED BY <1>2 DEF CrawlType

\* Of a product an adapter makes a book with its handle.
LEMMA NormalizeIs ==
  ASSUME CrawlType, NEW p \in Offered, NEW html \in Offered
  PROVE  Normalize(p, html) \in Normalized /\ Normalize(p, html).ref = p.handle
<1>1. CASE adapter = "ethirveliyeedu"
  <2>1. Normalize(p, html) = NormalizeEthirveliyeedu(p, html)
    BY <1>1 DEF Normalize
  <2>2. NormalizeEthirveliyeedu(p, html).ref = p.handle
    BY DEF NormalizeEthirveliyeedu
  <2> QED BY <2>1, <2>2 DEF Normalized
<1>2. CASE adapter = "yaavarum"
  <2>1. Normalize(p, html) = NormalizeYaavarum(p, html)
    BY <1>2 DEF Normalize
  <2>2. NormalizeYaavarum(p, html).ref = p.handle
    BY DEF NormalizeYaavarum
  <2> QED BY <2>1, <2>2 DEF Normalized
<1>3. CASE adapter = "kalachuvadu"
  <2>1. Normalize(p, html) = NormalizeKalachuvadu(p, html)
    BY <1>3 DEF Normalize
  <2>2. NormalizeKalachuvadu(p, html).ref = p.handle
    BY DEF NormalizeKalachuvadu
  <2> QED BY <2>1, <2>2 DEF Normalized
<1> QED BY <1>1, <1>2, <1>3 DEF CrawlType

\* The crawl is a record, whatever step of it is next.
LEMMA CrawlFields ==
  ASSUME CrawlType
  PROVE  crawl = [page |-> crawl.page, next |-> crawl.next, refs |-> crawl.refs,
                  step |-> crawl.step, book |-> crawl.book]
BY DEF CrawlType

\* On to the next book.
LEMMA NextBookIs ==
  ASSUME CrawlType, NEW i
  PROVE  NextBook(i) =
           [page |-> crawl.page, next |-> crawl.next, refs |-> crawl.refs \ {i},
            step |-> IF crawl.refs \ {i} = {} THEN "discover" ELSE "book",
            book |-> Absent]
<1>1. PICK pg, n, rs, st, b :
        crawl = [page |-> pg, next |-> n, refs |-> rs, step |-> st, book |-> b]
  BY CrawlFields
<1>2. NextBook(i) = [crawl EXCEPT !.refs = crawl.refs \ {i}, !.book = Absent,
                                  !.step = IF crawl.refs \ {i} = {} THEN "discover" ELSE "book"]
  BY Zenon DEF NextBook
<1>3. crawl.page = pg /\ crawl.next = n /\ crawl.refs = rs
  BY <1>1
<1> QED BY <1>1, <1>2, <1>3

\* Of a part of what was astray there is no more than of the whole, and one more
\* book is one more.
LEMMA NoneLost ==
  ASSUME NEW A \in SUBSET Range(Products), NEW B \in SUBSET A
  PROVE  Cardinality(B) <= Cardinality(A) /\ Cardinality(A) \in Nat /\ Cardinality(B) \in Nat
<1>1. IsFiniteSet(A)
  BY ProductsApart, FS_Subset
<1>2. IsFiniteSet(B) /\ Cardinality(B) <= Cardinality(A)
  BY <1>1, FS_Subset
<1> QED BY <1>1, <1>2, FS_CardinalityType

LEMMA OneLost ==
  ASSUME NEW A \in SUBSET Range(Products), NEW x, NEW B \in SUBSET (A \union {x})
  PROVE  /\ Cardinality(B) <= Cardinality(A) + 1
         /\ Cardinality(A) \in Nat /\ Cardinality(B) \in Nat
<1>1. IsFiniteSet(A)
  BY ProductsApart, FS_Subset
<1>2. Cardinality(A) \in Nat
  BY <1>1, FS_CardinalityType
<1>3. /\ IsFiniteSet(A \union {x})
      /\ Cardinality(A \union {x}) = IF x \in A THEN Cardinality(A) ELSE Cardinality(A) + 1
  BY <1>1, FS_AddElement
<1>4. IsFiniteSet(B) /\ Cardinality(B) <= Cardinality(A \union {x})
  BY <1>3, FS_Subset
<1>5. Cardinality(B) \in Nat
  BY <1>4, FS_CardinalityType
<1>6. Cardinality(A \union {x}) <= Cardinality(A) + 1
  BY <1>2, <1>3
<1>7. Cardinality(A \union {x}) \in Nat
  BY <1>3, FS_CardinalityType
<1> QED BY <1>2, <1>4, <1>5, <1>6, <1>7

\* A step after which no more is astray keeps the count; and so does one that
\* sends one book astray and is paid for.
LEMMA NoneMore ==
  ASSUME CrawlType, CrawlCounts, Astray' \subseteq Astray,
         unanswered' = unanswered, siteChanges' = siteChanges
  PROVE  CrawlCounts'
<1>1. Astray \in SUBSET Range(Products) /\ Astray' \in SUBSET Astray
  BY DEF Astray
<1>2. PICK A, B : A = Astray /\ B = Astray'
  OBVIOUS
<1>3. /\ Cardinality(B) <= Cardinality(A)
      /\ Cardinality(A) \in Nat /\ Cardinality(B) \in Nat
  BY <1>1, <1>2, NoneLost
<1>4. Cardinality(A) <= unanswered + siteChanges
  BY <1>2 DEF CrawlCounts
<1>5. unanswered \in Nat /\ siteChanges \in Nat
  BY DEF CrawlType
<1>6. Cardinality(B) <= unanswered + siteChanges
  BY <1>3, <1>4, <1>5
<1> QED BY <1>2, <1>6 DEF CrawlCounts

LEMMA OneMore ==
  ASSUME CrawlType, CrawlCounts, NEW x, Astray' \subseteq Astray \union {x},
         \/ unanswered' = unanswered + 1 /\ siteChanges' = siteChanges
         \/ unanswered' = unanswered /\ siteChanges' = siteChanges + 1
  PROVE  CrawlCounts'
<1>1. Astray \in SUBSET Range(Products) /\ Astray' \in SUBSET (Astray \union {x})
  BY DEF Astray
<1>2. PICK A, B : A = Astray /\ B = Astray'
  OBVIOUS
<1>3. /\ Cardinality(B) <= Cardinality(A) + 1
      /\ Cardinality(A) \in Nat /\ Cardinality(B) \in Nat
  BY <1>1, <1>2, OneLost
<1>4. Cardinality(A) <= unanswered + siteChanges
  BY <1>2 DEF CrawlCounts
<1>5. unanswered \in Nat /\ siteChanges \in Nat
  BY DEF CrawlType
<1>6. unanswered' + siteChanges' = unanswered + siteChanges + 1
  BY <1>5
<1>7. Cardinality(B) <= unanswered' + siteChanges'
  BY <1>3, <1>4, <1>5, <1>6
<1> QED BY <1>2, <1>7 DEF CrawlCounts

-----------------------------------------------------------------------------
(* The steps that submit nothing and lose nothing *)

\* As long as the page, the refs, the site and the submissions stay, what was
\* astray is astray and nothing else is.
LEMMA SamePlaces ==
  ASSUME CrawlInv,
         UNCHANGED <<adapter, site, submissions, siteChanges, unanswered>>,
         crawl'.page = crawl.page, crawl'.refs = crawl.refs, crawl'.next = crawl.next
  PROVE  HandlesApart' /\ CrawlCounts'
<1>1. /\ adapter' = adapter /\ site' = site /\ submissions' = submissions
      /\ siteChanges' = siteChanges /\ unanswered' = unanswered
  OBVIOUS
<1>2. \A h : ToDo(h)' <=> ToDo(h)
  BY DEF ToDo
<1>3. \A h : Submitted(h)' = Submitted(h)
  BY <1>1 DEF Submitted
<1>4. \A h : (DoneOnce(h)' <=> DoneOnce(h)) /\ (Untouched(h)' <=> Untouched(h))
  BY <1>2, <1>3, Zenon DEF DoneOnce, Untouched
<1>5. \A i : WasRead(i)' <=> WasRead(i)
  BY DEF WasRead
<1>6. \A i : InOrder(i)' <=> InOrder(i)
  BY <1>1, <1>4, <1>5, Zenon DEF InOrder
<1>7. \A p : IsBook(p)' <=> IsBook(p)
  BY <1>1, Zenon DEF IsBook
<1>8. Astray' = Astray
  BY <1>1, <1>6, <1>7, Zenon DEF Astray
<1>9. CrawlCounts'
  BY <1>1, <1>8, Zenon DEF CrawlCounts, CrawlInv
<1>10. HandlesApart'
  BY <1>1 DEF HandlesApart, CrawlInv
<1> QED BY <1>9, <1>10

LEMMA CrawlStutters ==
  ASSUME CrawlInv, UNCHANGED adaptersVars
  PROVE  CrawlInv'
<1>1. /\ adapter' = adapter /\ site' = site /\ siteChanges' = siteChanges
      /\ cache' = cache /\ crawl' = crawl /\ submissions' = submissions
      /\ unanswered' = unanswered
  BY DEF adaptersVars, siteVars
<1>2. HandlesApart' /\ CrawlCounts'
  BY <1>1, SamePlaces
<1>3. CrawlType'
  BY <1>1 DEF CrawlInv, CrawlType
<1>4. \A i : IsAt(i)' <=> IsAt(i)
  BY <1>1 DEF IsAt
<1>5. CrawlIsAt'
  BY <1>1, <1>4, Zenon DEF CrawlInv, CrawlIsAt
<1> QED BY <1>2, <1>3, <1>5 DEF CrawlInv

LEMMA FetchBookKeeps ==
  ASSUME CrawlInv, FetchBook
  PROVE  CrawlInv'
<1>1. /\ crawl.step = "book"
      /\ UNCHANGED <<adapter, siteVars, cache, submissions, unanswered>>
  BY DEF FetchBook
<1>2. /\ adapter' = adapter /\ site' = site /\ siteChanges' = siteChanges
      /\ cache' = cache /\ submissions' = submissions /\ unanswered' = unanswered
  BY <1>1 DEF siteVars
<1>3. CrawlType /\ CrawlIsAt /\ HandlesApart
  BY DEF CrawlInv
<1>4. PICK i \in crawl.refs :
        /\ IsAt(i)
        /\ \E html \in IF adapter = "ethirveliyeedu" THEN {Resolve(crawl.page[i].handle)}
                       ELSE OnSite(Resolve(crawl.page[i].handle).handle) :
             crawl' = [crawl EXCEPT !.book = Normalize(Resolve(crawl.page[i].handle), html),
                                    !.step = "inventory"]
  BY Zenon DEF FetchBook
<1>5. PICK cached : cached = Resolve(crawl.page[i].handle)
  OBVIOUS
<1>6. cached \in Offered /\ cached.handle = crawl.page[i].handle
  BY <1>3, <1>5, Resolved
<1>7. PICK html \in IF adapter = "ethirveliyeedu" THEN {cached} ELSE OnSite(cached.handle) :
        crawl' = [crawl EXCEPT !.book = Normalize(cached, html), !.step = "inventory"]
  BY <1>4, <1>5, Zenon
<1>8. html \in Offered
  <2>1. Range(site) \subseteq Offered
    BY <1>3 DEF CrawlType, Range
  <2>2. OnSite(cached.handle) \subseteq Range(site)
    BY DEF OnSite
  <2> QED BY <1>6, <1>7, <2>1, <2>2, Zenon
<1>9. PICK book : book = Normalize(cached, html)
  OBVIOUS
<1>10. book \in Normalized /\ book.ref = cached.handle
  BY <1>3, <1>6, <1>8, <1>9, NormalizeIs
<1>11. crawl' = [crawl EXCEPT !.book = book, !.step = "inventory"]
  BY <1>7, <1>9, Zenon
<1>12. PICK pg, n, rs, st, b :
        crawl = [page |-> pg, next |-> n, refs |-> rs, step |-> st, book |-> b]
  BY <1>3, CrawlFields
<1>13. crawl' = [page |-> pg, next |-> n, refs |-> rs, step |-> "inventory", book |-> book]
  BY <1>11, <1>12
<1>14. /\ crawl'.page = crawl.page /\ crawl'.refs = crawl.refs /\ crawl'.next = crawl.next
       /\ crawl'.step = "inventory" /\ crawl'.book = book
  BY <1>12, <1>13
<1>15. HandlesApart' /\ CrawlCounts'
  BY <1>2, <1>14, SamePlaces
<1>16. CrawlType'
  <2>1. /\ n \in Nat /\ rs \subseteq Nat /\ rs \subseteq DOMAIN pg
        /\ \A k \in DOMAIN pg : k \in Nat /\ pg[k] \in Offered
    BY <1>3, <1>12 DEF CrawlType
  <2>2. crawl' \in [page : {crawl'.page}, next : Nat, refs : SUBSET Nat,
                    step : {"discover", "book", "inventory", "cover", "submit"},
                    book : Normalized \union {Absent}]
    BY <1>10, <1>13, <2>1
  <2>3. /\ crawl'.refs \subseteq DOMAIN crawl'.page
        /\ \A k \in DOMAIN crawl'.page : k \in Nat /\ crawl'.page[k] \in Offered
    BY <1>3, <1>14 DEF CrawlType
  <2> QED BY <1>2, <1>3, <2>2, <2>3 DEF CrawlType
<1>17. CrawlIsAt'
  <2>1. \A j \in crawl.refs : IsAt(j)' => j = i
    BY <1>3, <1>4, <1>14 DEF IsAt, CrawlType
  <2>2. \A j \in crawl'.refs : IsAt(j)' => crawl'.book.ref = crawl'.page[j].handle
    BY <1>6, <1>10, <1>14, <2>1
  <2>3. \A j \in crawl'.refs : \E p \in cache' : p.handle = crawl'.page[j].handle
    BY <1>2, <1>3, <1>14 DEF CrawlIsAt
  <2> QED BY <1>10, <1>14, <2>2, <2>3 DEF CrawlIsAt
<1> QED BY <1>15, <1>16, <1>17 DEF CrawlInv

\* Two steps that only move on with the book.
LEMMA StepKeeps ==
  ASSUME CrawlInv, NEW next \in {"inventory", "cover", "submit"},
         crawl.step \in {"inventory", "cover"},
         crawl' = [page |-> crawl.page, next |-> crawl.next, refs |-> crawl.refs,
                   step |-> next, book |-> crawl.book],
         UNCHANGED <<adapter, siteVars, cache, submissions, unanswered>>
  PROVE  CrawlInv'
<1>1. /\ adapter' = adapter /\ site' = site /\ siteChanges' = siteChanges
      /\ cache' = cache /\ submissions' = submissions /\ unanswered' = unanswered
  BY DEF siteVars
<1>2. CrawlType /\ CrawlIsAt /\ HandlesApart
  BY DEF CrawlInv
<1>3. PICK pg, n, rs, st, b :
        crawl = [page |-> pg, next |-> n, refs |-> rs, step |-> st, book |-> b]
  BY <1>2, CrawlFields
<1>4. crawl' = [page |-> pg, next |-> n, refs |-> rs, step |-> next, book |-> b]
  BY <1>3
<1>5. /\ crawl'.page = crawl.page /\ crawl'.refs = crawl.refs /\ crawl'.next = crawl.next
      /\ crawl'.step = next /\ crawl'.book = crawl.book
  BY <1>3, <1>4
<1>6. HandlesApart' /\ CrawlCounts'
  BY <1>1, <1>5, SamePlaces
<1>7. CrawlType'
  <2>1. n \in Nat /\ rs \subseteq Nat /\ b \in Normalized \union {Absent}
    BY <1>2, <1>3 DEF CrawlType
  <2>4. next \in {"discover", "book", "inventory", "cover", "submit"}
    OBVIOUS
  <2>5. crawl'.page = pg
    BY <1>4
  <2>2. crawl' \in [page : {crawl'.page}, next : Nat, refs : SUBSET Nat,
                    step : {"discover", "book", "inventory", "cover", "submit"},
                    book : Normalized \union {Absent}]
    BY <1>4, <2>1, <2>4, <2>5
  <2>3. /\ crawl'.refs \subseteq DOMAIN crawl'.page
        /\ \A k \in DOMAIN crawl'.page : k \in Nat /\ crawl'.page[k] \in Offered
    BY <1>2, <1>5 DEF CrawlType
  <2> QED BY <1>1, <1>2, <2>2, <2>3 DEF CrawlType
<1>8. CrawlIsAt'
  <2>1. \A j : IsAt(j)' <=> IsAt(j)
    BY <1>5 DEF IsAt
  <2>2. crawl.step \in {"inventory", "cover", "submit"}
    OBVIOUS
  <2> QED BY <1>1, <1>2, <1>5, <2>1, <2>2 DEF CrawlIsAt
<1> QED BY <1>6, <1>7, <1>8 DEF CrawlInv

LEMMA FetchInventoryKeeps ==
  ASSUME CrawlInv, FetchInventory
  PROVE  CrawlInv'
<1>1. /\ crawl.step = "inventory"
      /\ crawl' = [crawl EXCEPT !.step = IF crawl.book.cover THEN "cover" ELSE "submit"]
      /\ UNCHANGED <<adapter, siteVars, cache, submissions, unanswered>>
  BY Zenon DEF FetchInventory
<1>2. PICK next : next = IF crawl.book.cover THEN "cover" ELSE "submit"
  BY Zenon
<1>3. next \in {"inventory", "cover", "submit"} /\ crawl' = [crawl EXCEPT !.step = next]
  BY <1>1, <1>2, Zenon
<1>4. PICK pg, n, rs, st, b :
        crawl = [page |-> pg, next |-> n, refs |-> rs, step |-> st, book |-> b]
  BY CrawlFields DEF CrawlInv
<1>5. crawl' = [page |-> pg, next |-> n, refs |-> rs, step |-> next, book |-> b]
  BY <1>3, <1>4
<1>6. crawl' = [page |-> crawl.page, next |-> crawl.next, refs |-> crawl.refs,
                step |-> next, book |-> crawl.book]
  BY <1>4, <1>5
<1> QED BY <1>1, <1>3, <1>6, StepKeeps

LEMMA DownloadCoverKeeps ==
  ASSUME CrawlInv, DownloadCover
  PROVE  CrawlInv'
<1>1. /\ crawl.step = "cover" /\ crawl' = [crawl EXCEPT !.step = "submit"]
      /\ UNCHANGED <<adapter, siteVars, cache, submissions, unanswered>>
  BY Zenon DEF DownloadCover
<1>2. PICK pg, n, rs, st, b :
        crawl = [page |-> pg, next |-> n, refs |-> rs, step |-> st, book |-> b]
  BY CrawlFields DEF CrawlInv
<1>3. crawl' = [page |-> pg, next |-> n, refs |-> rs, step |-> "submit", book |-> b]
  BY <1>1, <1>2
<1>4. crawl' = [page |-> crawl.page, next |-> crawl.next, refs |-> crawl.refs,
                step |-> "submit", book |-> crawl.book]
  BY <1>2, <1>3
<1> QED BY <1>1, <1>4, StepKeeps

-----------------------------------------------------------------------------
(* A page of the listing: what is on it becomes what there is to do. *)

LEMMA DiscoverKeeps ==
  ASSUME CrawlInv, DiscoverNext
  PROVE  CrawlInv'
<1>1. /\ crawl.step = "discover" /\ crawl.next # 0
      /\ adapter' = adapter /\ site' = site /\ siteChanges' = siteChanges
      /\ submissions' = submissions /\ unanswered' = unanswered
  BY DEF DiscoverNext, siteVars
<1>2. CrawlType /\ CrawlIsAt /\ HandlesApart /\ CrawlCounts
  BY DEF CrawlInv
<1>3. crawl.next \in Nat \ {0} /\ crawl.refs = {}
  BY <1>1, <1>2 DEF CrawlType, CrawlIsAt
<1> DEFINE P == PageOf(crawl.next)
           F == DiscoverPage(crawl.next, P)
           S == {P[i] : i \in F.refs}
<1>41. /\ crawl' = [crawl EXCEPT !.page = P, !.refs = F.refs, !.next = F.next,
                                 !.step = IF F.refs = {} THEN "discover" ELSE "book"]
       /\ cache' = {p \in cache : \A q \in S : q.handle # p.handle} \union S
  BY Zenon DEF DiscoverNext
<1>42. P = PageOf(crawl.next) /\ F = DiscoverPage(crawl.next, P) /\ S = {P[i] : i \in F.refs}
  OBVIOUS
<1> HIDE DEF P, F, S
<1>43. PICK products, found, seen : products = P /\ found = F /\ seen = S
  OBVIOUS
<1>4. /\ products = PageOf(crawl.next)
      /\ found = DiscoverPage(crawl.next, products)
      /\ seen = {products[i] : i \in found.refs}
      /\ crawl' = [crawl EXCEPT !.page = products, !.refs = found.refs,
                                !.next = found.next,
                                !.step = IF found.refs = {} THEN "discover" ELSE "book"]
      /\ cache' = {p \in cache : \A q \in seen : q.handle # p.handle} \union seen
  BY <1>41, <1>42, <1>43, Zenon
<1>5. PICK refs, next, step :
        /\ refs = found.refs /\ next = found.next
        /\ step = IF found.refs = {} THEN "discover" ELSE "book"
  OBVIOUS
<1>6. crawl' = [crawl EXCEPT !.page = products, !.refs = refs, !.next = next, !.step = step]
  BY <1>4, <1>5, Zenon
<1>7. PICK pg, n, rs, st, b :
        crawl = [page |-> pg, next |-> n, refs |-> rs, step |-> st, book |-> b]
  BY <1>2, CrawlFields
<1>8. crawl' = [page |-> products, next |-> next, refs |-> refs, step |-> step, book |-> b]
  BY <1>6, <1>7
<1>9. /\ crawl'.page = products /\ crawl'.refs = refs /\ crawl'.next = next
      /\ crawl'.step = step /\ crawl'.book = b
  BY <1>8
<1>10. n \in Nat \ {0} /\ crawl.next = n /\ b \in Normalized \union {Absent}
  BY <1>2, <1>3, <1>7 DEF CrawlType
<1>11. SitePageSize \in Nat \ {0} /\ Len(site) \in Nat /\ DOMAIN site = 1..Len(site)
  BY <1>2, AdaptersAssumption DEF CrawlType
<1>12. PICK before \in Nat : before = (n - 1) * SitePageSize
  BY <1>10, <1>11
<1>13. n * SitePageSize = before + SitePageSize
  BY <1>10, <1>11, <1>12
<1>14. products = PageOf(n) /\ found = DiscoverPage(n, products)
  BY <1>4, <1>10
<1>15. /\ DOMAIN products = {k \in 1..SitePageSize : before + k <= Len(site)}
       /\ \A k \in DOMAIN products : products[k] = site[before + k]
       /\ refs \subseteq DOMAIN products
       /\ \A k \in DOMAIN products : IsBook(products[k]) => k \in refs
       /\ next \in {0, n + 1}
       /\ next = 0 => Len(site) <= before + SitePageSize
  <2>1. Listed(n, products, found)
    BY <1>2, <1>10, <1>14, PageFound
  <2> QED BY <1>5, <1>12, <1>13, <2>1 DEF Listed
<1>16. \A k \in DOMAIN products : k \in Nat /\ before + k \in DOMAIN site
  BY <1>11, <1>12, <1>15
<1>17. \A k \in DOMAIN products : products[k] \in Offered
  BY <1>2, <1>15, <1>16 DEF CrawlType
<1>18. CrawlType'
  <2>1. seen \subseteq Offered
    BY <1>4, <1>5, <1>15, <1>17
  <2>2. cache' \subseteq Offered
    BY <1>2, <1>4, <2>1 DEF CrawlType
  <2>3. step \in {"discover", "book", "inventory", "cover", "submit"}
    BY <1>5
  <2>4. refs \in SUBSET Nat /\ next \in Nat
    BY <1>10, <1>15, <1>16
  <2>5. crawl' \in [page : {crawl'.page}, next : Nat, refs : SUBSET Nat,
                    step : {"discover", "book", "inventory", "cover", "submit"},
                    book : Normalized \union {Absent}]
    BY <1>8, <1>9, <1>10, <2>3, <2>4
  <2>6. /\ crawl'.refs \subseteq DOMAIN crawl'.page
        /\ \A k \in DOMAIN crawl'.page : k \in Nat /\ crawl'.page[k] \in Offered
    BY <1>9, <1>15, <1>16, <1>17
  <2> QED BY <1>1, <1>2, <2>2, <2>5, <2>6 DEF CrawlType
<1>19. \A i, j \in DOMAIN site : site[i].handle = site[j].handle => i = j
  BY <1>2 DEF HandlesApart
<1>20. \A i, j \in DOMAIN products : products[i].handle = products[j].handle => i = j
  <2> SUFFICES ASSUME NEW i \in DOMAIN products, NEW j \in DOMAIN products,
                      products[i].handle = products[j].handle
               PROVE  i = j
    OBVIOUS
  <2>1. before + i = before + j
    BY <1>15, <1>16, <1>19
  <2> QED BY <1>12, <1>16, <2>1
<1>21. HandlesApart'
  BY <1>1, <1>9, <1>19, <1>20 DEF HandlesApart
<1>22. CrawlIsAt'
  <2>1. step = "discover" => refs = {}
    BY <1>5
  <2>2. step \notin {"inventory", "cover", "submit"}
    BY <1>5
  <2>3. \A i \in refs : products[i] \in cache'
    BY <1>4, <1>5
  <2> QED BY <1>9, <2>1, <2>2, <2>3 DEF CrawlIsAt
<1>23. \A h : ~ToDo(h)
  BY <1>3 DEF ToDo
<1>24. \A h : ToDo(h)' <=> \E k \in refs : products[k].handle = h
  BY <1>9 DEF ToDo
<1>25. \A h : Submitted(h)' = Submitted(h)
  BY <1>1 DEF Submitted
<1>26. \A p : IsBook(p)' <=> IsBook(p)
  BY <1>1, Zenon DEF IsBook
<1>27. \A i : WasRead(i) <=> i <= before
  BY <1>3, <1>10, <1>12 DEF WasRead
<1>28. \A i \in DOMAIN site : WasRead(i)' <=> i <= before + SitePageSize
  <2> SUFFICES ASSUME NEW i \in DOMAIN site
               PROVE  WasRead(i)' <=> i <= before + SitePageSize
    OBVIOUS
  <2>1. WasRead(i)' <=> next = 0 \/ i <= (next - 1) * SitePageSize
    BY <1>9 DEF WasRead
  <2>2. CASE next = 0
    <3>1. Len(site) <= before + SitePageSize
      BY <1>15, <2>2
    <3>2. i \in Nat /\ i <= Len(site)
      BY <1>11
    <3>3. i <= before + SitePageSize
      BY <1>11, <1>12, <3>1, <3>2
    <3> QED BY <2>1, <2>2, <3>3
  <2>3. CASE next = n + 1
    <3>1. next - 1 = n /\ next # 0
      BY <1>10, <2>3
    <3> QED BY <1>13, <2>1, <3>1
  <2> QED BY <1>15, <2>2, <2>3
<1>29. \* A place that was in order still is.
       ASSUME NEW i \in DOMAIN site, IsBook(site[i]), InOrder(i)
       PROVE  InOrder(i)'
  <2>1. PICK h : h = site[i].handle
    OBVIOUS
  <2>2. i \in Nat
    BY <1>11
  <2>3. \A k \in refs : products[k].handle = h => i = before + k
    BY <1>15, <1>16, <1>19, <2>1
  <2>4. InOrder(i)' <=> IF WasRead(i)' THEN DoneOnce(h)' ELSE Untouched(h)'
    BY <1>1, <2>1, Zenon DEF InOrder
  <2>5. DoneOnce(h)' <=> IF ToDo(h)' THEN Submitted(h) = {} ELSE \E k : Submitted(h) = {k}
    BY <1>25, Zenon DEF DoneOnce
  <2>6. Untouched(h)' <=> ~ToDo(h)' /\ Submitted(h) = {}
    BY <1>25, Zenon DEF Untouched
  <2>7. CASE i <= before
    <3>1. WasRead(i) /\ WasRead(i)'
      BY <1>11, <1>12, <1>27, <1>28, <2>2, <2>7
    <3>2. DoneOnce(h)
      BY <1>29, <2>1, <3>1, Zenon DEF InOrder
    <3>3. \E k : Submitted(h) = {k}
      BY <1>23, <3>2, Zenon DEF DoneOnce
    <3>4. ~ToDo(h)'
      <4> SUFFICES ASSUME ToDo(h)' PROVE FALSE
        OBVIOUS
      <4>1. PICK k \in refs : products[k].handle = h
        BY <1>24
      <4>2. i = before + k /\ k \in 1..SitePageSize
        BY <1>15, <2>3, <4>1
      <4> QED BY <1>11, <1>12, <2>7, <4>2
    <3> QED BY <2>4, <2>5, <3>1, <3>3, <3>4, Zenon
  <2>8. CASE ~(i <= before)
    <3>1. ~WasRead(i)
      BY <1>27, <2>8
    <3>2. Untouched(h)
      BY <1>29, <2>1, <3>1, Zenon DEF InOrder
    <3>3. Submitted(h) = {}
      BY <3>2, Zenon DEF Untouched
    <3>4. CASE i <= before + SitePageSize
      <4>1. i - before \in 1..SitePageSize /\ before + (i - before) = i /\ i <= Len(site)
        BY <1>11, <1>12, <2>2, <2>8, <3>4
      <4>2. PICK k \in 1..SitePageSize : before + k = i /\ before + k <= Len(site)
        BY <4>1
      <4>3. k \in DOMAIN products /\ products[k] = site[i]
        BY <1>15, <4>2
      <4>4. k \in refs
        BY <1>15, <1>29, <4>3
      <4>5. ToDo(h)'
        BY <1>24, <2>1, <4>3, <4>4
      <4>6. WasRead(i)'
        BY <1>28, <3>4
      <4> QED BY <2>4, <2>5, <3>3, <4>5, <4>6, Zenon
    <3>5. CASE ~(i <= before + SitePageSize)
      <4>1. ~WasRead(i)'
        BY <1>28, <3>5
      <4>2. ~ToDo(h)'
        <5>1. \A k \in refs : k \in 1..SitePageSize
          BY <1>15
        <5> QED BY <1>11, <1>12, <1>24, <2>2, <2>3, <3>5, <5>1
      <4> QED BY <2>4, <2>6, <3>3, <4>1, <4>2, Zenon
    <3> QED BY <3>4, <3>5
  <2> QED BY <2>7, <2>8
<1>30. Astray' \subseteq Astray
  <2> SUFFICES ASSUME NEW p \in Astray' PROVE p \in Astray
    OBVIOUS
  <2>1. p \in Range(Products) /\ IsBook(p)
    BY <1>26, Zenon DEF Astray
  <2>2. PICK i \in DOMAIN site : site[i] = p /\ ~InOrder(i)'
    BY <1>1, Zenon DEF Astray
  <2>3. ~InOrder(i)
    BY <1>29, <2>1, <2>2, Zenon
  <2> QED BY <2>1, <2>2, <2>3, Zenon DEF Astray
<1>31. CrawlCounts'
  BY <1>1, <1>2, <1>30, NoneMore
<1> QED BY <1>18, <1>21, <1>22, <1>31 DEF CrawlInv

-----------------------------------------------------------------------------
(* On to the next book: with this one submitted, or lost *)

\* What moving on leaves as it was; the book moved on from is not to do any more.
MovedOn(i) ==
  /\ crawl' \in [page : {crawl'.page}, next : Nat, refs : SUBSET Nat,
                 step : {"discover", "book", "inventory", "cover", "submit"},
                 book : Normalized \union {Absent}]
  /\ crawl'.refs \subseteq DOMAIN crawl'.page
  /\ \A k \in DOMAIN crawl'.page : k \in Nat /\ crawl'.page[k] \in Offered
  /\ HandlesApart' /\ CrawlIsAt'
  /\ \A h : ToDo(h)' <=> ToDo(h) /\ h # crawl.page[i].handle
  /\ ToDo(crawl.page[i].handle)
  /\ \A k : WasRead(k)' <=> WasRead(k)

LEMMA NextBookMoves ==
  ASSUME CrawlInv, NEW i \in crawl.refs, crawl' = NextBook(i),
         site' = site, cache' = cache
  PROVE  MovedOn(i)
<1>1. CrawlType /\ CrawlIsAt /\ HandlesApart
  BY DEF CrawlInv
<1>2. PICK pg, n, rs, st, b :
        crawl = [page |-> pg, next |-> n, refs |-> rs, step |-> st, book |-> b]
  BY <1>1, CrawlFields
<1>3. PICK rest, step : rest = rs \ {i} /\ step = IF rest = {} THEN "discover" ELSE "book"
  OBVIOUS
<1>4. crawl' = [page |-> pg, next |-> n, refs |-> rest, step |-> step, book |-> Absent]
  <2>1. NextBook(i) =
          [page |-> crawl.page, next |-> crawl.next, refs |-> crawl.refs \ {i},
           step |-> IF crawl.refs \ {i} = {} THEN "discover" ELSE "book",
           book |-> Absent]
    BY <1>1, NextBookIs
  <2>2. crawl.page = pg /\ crawl.next = n /\ crawl.refs = rs
    BY <1>2
  <2> QED BY <1>3, <2>1, <2>2, Zenon
<1>5. /\ crawl.page = pg /\ crawl.next = n /\ crawl.refs = rs
      /\ crawl'.page = pg /\ crawl'.next = n /\ crawl'.refs = rest
      /\ crawl'.step = step /\ crawl'.book = Absent
  BY <1>2, <1>4
<1>6. /\ n \in Nat /\ rs \subseteq Nat /\ rs \subseteq DOMAIN pg
      /\ \A k \in DOMAIN pg : k \in Nat /\ pg[k] \in Offered
  BY <1>1, <1>5 DEF CrawlType
<1>7. step \in {"discover", "book", "inventory", "cover", "submit"}
  BY <1>3
<1>8. rest \in SUBSET Nat /\ rest \subseteq DOMAIN pg
  BY <1>3, <1>6
<1>9. crawl' \in [page : {crawl'.page}, next : Nat, refs : SUBSET Nat,
                  step : {"discover", "book", "inventory", "cover", "submit"},
                  book : Normalized \union {Absent}]
  BY <1>4, <1>5, <1>6, <1>7, <1>8
<1>10. /\ crawl'.refs \subseteq DOMAIN crawl'.page
       /\ \A k \in DOMAIN crawl'.page : k \in Nat /\ crawl'.page[k] \in Offered
  BY <1>5, <1>6, <1>8
<1>11. \A k, j \in DOMAIN pg : pg[k].handle = pg[j].handle => k = j
  BY <1>1, <1>5 DEF HandlesApart
<1>12. HandlesApart'
  BY <1>1, <1>5, <1>11 DEF HandlesApart
<1>13. CrawlIsAt'
  <2>1. step = "discover" => rest = {}
    BY <1>3
  <2>2. step \notin {"inventory", "cover", "submit"}
    BY <1>3
  <2>3. \A k \in rest : \E p \in cache : p.handle = pg[k].handle
    BY <1>1, <1>3, <1>5 DEF CrawlIsAt
  <2> QED BY <1>5, <2>1, <2>2, <2>3 DEF CrawlIsAt
<1>14. \A h : ToDo(h)' <=> \E k \in rest : pg[k].handle = h
  BY <1>5 DEF ToDo
<1>15. \A h : ToDo(h) <=> \E k \in rs : pg[k].handle = h
  BY <1>5 DEF ToDo
<1>16. i \in rs /\ i \in DOMAIN pg
  BY <1>5, <1>6
<1>17. \A k \in rs : k # i => pg[k].handle # pg[i].handle
  BY <1>6, <1>11, <1>16
<1>18. \A h : ToDo(h)' <=> ToDo(h) /\ h # pg[i].handle
  BY <1>3, <1>14, <1>15, <1>16, <1>17
<1>19. ToDo(pg[i].handle)
  BY <1>15, <1>16
<1>20. \A k : WasRead(k)' <=> WasRead(k)
  BY <1>5 DEF WasRead
<1> QED BY <1>5, <1>9, <1>10, <1>12, <1>13, <1>18, <1>19, <1>20 DEF MovedOn

LEMMA SubmitKeeps ==
  ASSUME CrawlInv, SubmitCanonical
  PROVE  CrawlInv'
<1>1. /\ crawl.step = "submit"
      /\ submissions' = Append(submissions, [book |-> crawl.book,
                                             issues |-> ValidateBookFields(crawl.book)])
      /\ \E i \in crawl.refs : IsAt(i) /\ crawl' = NextBook(i)
      /\ adapter' = adapter /\ site' = site /\ siteChanges' = siteChanges
      /\ cache' = cache /\ unanswered' = unanswered
  BY Zenon DEF SubmitCanonical, siteVars
<1>2. CrawlType /\ CrawlIsAt /\ HandlesApart /\ CrawlCounts
  BY DEF CrawlInv
<1>3. PICK i \in crawl.refs : IsAt(i) /\ crawl' = NextBook(i)
  BY <1>1, Zenon
<1>4. MovedOn(i)
  BY <1>1, <1>3, NextBookMoves
<1>5. PICK handle : handle = crawl.page[i].handle
  OBVIOUS
<1>6. crawl.book \in Normalized /\ crawl.book.ref = handle
  BY <1>1, <1>2, <1>3, <1>5 DEF CrawlIsAt
<1>7. PICK new : new = [book |-> crawl.book, issues |-> ValidateBookFields(crawl.book)]
  OBVIOUS
<1>8. new \in CrawlSubmission /\ new.book.ref = handle
  BY <1>6, <1>7 DEF CrawlSubmission
<1>9. submissions' = Append(submissions, new)
  BY <1>1, <1>7, Zenon
<1>10. PICK last \in Nat : last = Len(submissions)
  BY <1>2 DEF CrawlType
<1>11. /\ DOMAIN submissions = 1..last /\ DOMAIN submissions' = 1..(last + 1)
       /\ \A k \in 1..last : submissions'[k] = submissions[k]
       /\ submissions'[last + 1] = new
       /\ submissions' \in Seq(CrawlSubmission)
  BY <1>2, <1>8, <1>9, <1>10 DEF CrawlType
<1>12. CrawlType'
  BY <1>1, <1>2, <1>4, <1>11, Zenon DEF CrawlType, MovedOn
<1>13. \A h : h # handle => Submitted(h)' = Submitted(h)
  <2> SUFFICES ASSUME NEW h, h # handle
               PROVE  Submitted(h)' = Submitted(h)
    OBVIOUS
  <2>1. Submitted(h)' = {k \in 1..(last + 1) : submissions'[k].book.ref = h}
    BY <1>11 DEF Submitted
  <2>2. Submitted(h) = {k \in 1..last : submissions[k].book.ref = h}
    BY <1>11 DEF Submitted
  <2>3. \A k : k \in 1..(last + 1) <=> k \in 1..last \/ k = last + 1
    BY <1>10
  <2>4. submissions'[last + 1].book.ref # h
    BY <1>8, <1>11
  <2> QED BY <1>11, <2>1, <2>2, <2>3, <2>4
<1>14. Submitted(handle) = {} => Submitted(handle)' = {last + 1}
  <2>1. Submitted(handle)' = {k \in 1..(last + 1) : submissions'[k].book.ref = handle}
    BY <1>11 DEF Submitted
  <2>2. Submitted(handle) = {k \in 1..last : submissions[k].book.ref = handle}
    BY <1>11 DEF Submitted
  <2>3. \A k : k \in 1..(last + 1) <=> k \in 1..last \/ k = last + 1
    BY <1>10
  <2>4. submissions'[last + 1].book.ref = handle
    BY <1>8, <1>11
  <2> QED BY <1>11, <2>1, <2>2, <2>3, <2>4
<1>15. /\ \A h : ToDo(h)' <=> ToDo(h) /\ h # handle
       /\ ToDo(handle)
       /\ \A k : WasRead(k)' <=> WasRead(k)
  BY <1>4, <1>5, Zenon DEF MovedOn
<1>16. ASSUME NEW h, DoneOnce(h)
       PROVE  DoneOnce(h)'
  <2>1. CASE h = handle
    <3>1. Submitted(h) = {}
      BY <1>15, <1>16, <2>1, Zenon DEF DoneOnce
    <3>2. ~ToDo(h)' /\ Submitted(h)' = {last + 1}
      BY <1>14, <1>15, <2>1, <3>1, Zenon
    <3> QED BY <3>2, Zenon DEF DoneOnce
  <2>2. CASE h # handle
    BY <1>13, <1>15, <1>16, <2>2, Zenon DEF DoneOnce
  <2> QED BY <2>1, <2>2
<1>17. ASSUME NEW h, Untouched(h)
       PROVE  Untouched(h)'
  <2>1. h # handle
    BY <1>15, <1>17, Zenon DEF Untouched
  <2> QED BY <1>13, <1>15, <1>17, <2>1, Zenon DEF Untouched
<1>18. \A k : InOrder(k) => InOrder(k)'
  BY <1>1, <1>15, <1>16, <1>17, Zenon DEF InOrder
<1>19. \A p : IsBook(p)' <=> IsBook(p)
  BY <1>1, Zenon DEF IsBook
<1>20. Astray' \subseteq Astray
  BY <1>1, <1>18, <1>19, Zenon DEF Astray
<1>21. CrawlCounts'
  BY <1>1, <1>2, <1>20, NoneMore
<1> QED BY <1>4, <1>12, <1>21, Zenon DEF CrawlInv, MovedOn

LEMMA FetchFailsKeeps ==
  ASSUME CrawlInv, FetchFails
  PROVE  CrawlInv'
<1>1. /\ adapter' = adapter /\ site' = site /\ siteChanges' = siteChanges
      /\ cache' = cache /\ submissions' = submissions
  BY DEF FetchFails, siteVars
<1>2. CrawlType /\ CrawlIsAt /\ HandlesApart /\ CrawlCounts
  BY DEF CrawlInv
<1>3. PICK i \in crawl.refs :
        /\ IsAt(i)
        /\ \/ unanswered < MaxUnanswered /\ unanswered' = unanswered + 1
           \/ /\ crawl.step = "book" /\ adapter # "ethirveliyeedu" /\ UNCHANGED unanswered
              /\ OnSite(crawl.page[i].handle) = {}
           \/ /\ crawl.step = "inventory" /\ adapter = "kalachuvadu" /\ UNCHANGED unanswered
              /\ OnSite(crawl.book.ref) = {}
        /\ crawl' = NextBook(i)
  BY Zenon DEF FetchFails
<1>4. MovedOn(i)
  BY <1>1, <1>3, NextBookMoves
<1>5. PICK handle : handle = crawl.page[i].handle
  OBVIOUS
<1>6. /\ \A h : ToDo(h)' <=> ToDo(h) /\ h # handle
      /\ ToDo(handle)
      /\ \A k : WasRead(k)' <=> WasRead(k)
  BY <1>4, <1>5, Zenon DEF MovedOn
<1>7. \A h : Submitted(h)' = Submitted(h)
  BY <1>1 DEF Submitted
<1>8. ASSUME NEW h, h # handle
      PROVE  (DoneOnce(h) => DoneOnce(h)') /\ (Untouched(h) => Untouched(h)')
  BY <1>6, <1>7, <1>8, Zenon DEF DoneOnce, Untouched
<1>9. \A k : InOrder(k) /\ site[k].handle # handle => InOrder(k)'
  BY <1>1, <1>6, <1>8, Zenon DEF InOrder
<1>10. \A p : IsBook(p)' <=> IsBook(p)
  BY <1>1, Zenon DEF IsBook
<1>11. ASSUME NEW p \in Astray', p \notin Astray
       PROVE  p.handle = handle /\ p \in Range(site) /\ p \in Range(Products)
  <2>1. p \in Range(Products) /\ IsBook(p)
    BY <1>10, Zenon DEF Astray
  <2>2. PICK k \in DOMAIN site : site[k] = p /\ ~InOrder(k)'
    BY <1>1, Zenon DEF Astray
  <2>3. InOrder(k)
    BY <1>11, <2>1, <2>2, Zenon DEF Astray
  <2>4. p \in Range(site)
    BY <2>2 DEF Range
  <2> QED BY <1>9, <2>1, <2>2, <2>3, <2>4
<1>12. CASE unanswered' = unanswered + 1
  <2>1. unanswered' \in Nat
    BY <1>2, <1>12 DEF CrawlType
  <2>2. CrawlType'
    BY <1>1, <1>2, <1>4, <2>1, Zenon DEF CrawlType, MovedOn
  <2>3. PICK x : \A p \in Range(Products) : p.handle = handle => p = x
    <3>1. CASE \E q \in Range(Products) : q.handle = handle
      BY <3>1, ProductsApart
    <3>2. CASE ~\E q \in Range(Products) : q.handle = handle
      BY <3>2
    <3> QED BY <3>1, <3>2
  <2>4. Astray' \subseteq Astray \union {x}
    BY <1>11, <2>3
  <2>5. CrawlCounts'
    BY <1>1, <1>2, <1>12, <2>4, OneMore
  <2> QED BY <1>4, <2>2, <2>5, Zenon DEF CrawlInv, MovedOn
<1>13. CASE unanswered' = unanswered
  <2>1. unanswered \in Nat
    BY <1>2 DEF CrawlType
  <2>2. CrawlType'
    BY <1>1, <1>2, <1>4, <1>13, Zenon DEF CrawlType, MovedOn
  <2>3. OnSite(handle) = {}
    <3>1. unanswered' # unanswered + 1
      BY <1>13, <2>1
    <3>2. crawl.step = "inventory" => crawl.book.ref = handle
      BY <1>2, <1>3, <1>5 DEF CrawlIsAt
    <3> QED BY <1>3, <1>5, <3>1, <3>2, Zenon
  <2>4. \A p \in Range(site) : p.handle # handle
    BY <2>3 DEF OnSite
  <2>5. Astray' \subseteq Astray
    BY <1>11, <2>4
  <2>6. CrawlCounts'
    BY <1>1, <1>2, <1>13, <2>5, NoneMore
  <2> QED BY <1>4, <2>2, <2>6, Zenon DEF CrawlInv, MovedOn
<1> QED BY <1>3, <1>12, <1>13, Zenon

-----------------------------------------------------------------------------
(* The publisher changes the site: one product at most passes the border of    *)
(* what was read.                                                              *)

OnePasses(x) ==
  /\ UNCHANGED <<adapter, cache, crawl, submissions, unanswered>>
  /\ siteChanges' = siteChanges + 1
  /\ site' \in Seq(Offered)
  /\ \A i, j \in DOMAIN site' : site'[i].handle = site'[j].handle => i = j
  /\ \A j \in DOMAIN site' :
       \/ site'[j] = NewProduct
       \/ \E k \in DOMAIN site :
            site'[j] = site[k] /\ (site[k] = x \/ (WasRead(j) <=> WasRead(k)))

\* That costs no more than that one.
LEMMA SiteMoves ==
  ASSUME CrawlInv, NEW x, OnePasses(x)
  PROVE  CrawlInv'
<1>0. /\ UNCHANGED <<adapter, cache, crawl, submissions, unanswered>>
      /\ siteChanges' = siteChanges + 1
      /\ site' \in Seq(Offered)
      /\ \A i, j \in DOMAIN site' : site'[i].handle = site'[j].handle => i = j
      /\ \A j \in DOMAIN site' :
           \/ site'[j] = NewProduct
           \/ \E k \in DOMAIN site :
                site'[j] = site[k] /\ (site[k] = x \/ (WasRead(j) <=> WasRead(k)))
  BY DEF OnePasses
<1>1. /\ adapter' = adapter /\ cache' = cache /\ crawl' = crawl
      /\ submissions' = submissions /\ unanswered' = unanswered
  BY <1>0
<1>2. CrawlType /\ CrawlIsAt /\ HandlesApart /\ CrawlCounts
  BY DEF CrawlInv
<1>3. siteChanges' \in Nat
  BY <1>0, <1>2 DEF CrawlType
<1>4. CrawlType'
  BY <1>0, <1>1, <1>2, <1>3, Zenon DEF CrawlType
<1>5. HandlesApart'
  BY <1>0, <1>1, <1>2 DEF HandlesApart
<1>6. \A k : IsAt(k)' <=> IsAt(k)
  BY <1>1 DEF IsAt
<1>7. CrawlIsAt'
  BY <1>1, <1>2, <1>6, Zenon DEF CrawlIsAt
<1>8. \A h : ToDo(h)' <=> ToDo(h)
  BY <1>1 DEF ToDo
<1>9. \A h : Submitted(h)' = Submitted(h)
  BY <1>1 DEF Submitted
<1>10. \A h : (DoneOnce(h)' <=> DoneOnce(h)) /\ (Untouched(h)' <=> Untouched(h))
  BY <1>8, <1>9, Zenon DEF DoneOnce, Untouched
<1>11. \A k : WasRead(k)' <=> WasRead(k)
  BY <1>1 DEF WasRead
<1>12. \A p : IsBook(p)' <=> IsBook(p)
  BY <1>1, Zenon DEF IsBook
<1>13. ASSUME NEW j, NEW h, h = site'[j].handle
       PROVE  InOrder(j)' <=> IF WasRead(j) THEN DoneOnce(h) ELSE Untouched(h)
  <2>1. InOrder(j)' <=> IF WasRead(j)' THEN DoneOnce(h)' ELSE Untouched(h)'
    BY <1>13, Zenon DEF InOrder
  <2> QED BY <1>10, <1>11, <2>1, Zenon
<1>14. ASSUME NEW p \in Astray', p \notin Astray
       PROVE  p = x
  <2>1. p \in Range(Products) /\ IsBook(p)
    BY <1>12, Zenon DEF Astray
  <2>2. PICK j \in DOMAIN site' : site'[j] = p /\ ~InOrder(j)'
    BY Zenon DEF Astray
  <2>3. p # NewProduct
    BY <2>1, ProductsApart
  <2>4. PICK k \in DOMAIN site :
          site'[j] = site[k] /\ (site[k] = x \/ (WasRead(j) <=> WasRead(k)))
    BY <1>0, <2>2, <2>3
  <2>5. InOrder(k)
    BY <1>14, <2>1, <2>2, <2>4, Zenon DEF Astray
  <2>6. ~(WasRead(j) <=> WasRead(k))
    <3>1. PICK h : h = p.handle
      OBVIOUS
    <3>2. h = site'[j].handle
      BY <2>2, <3>1
    <3>3. InOrder(j)' <=> IF WasRead(j) THEN DoneOnce(h) ELSE Untouched(h)
      BY <1>13, <3>2
    <3>4. InOrder(k) <=> IF WasRead(k) THEN DoneOnce(h) ELSE Untouched(h)
      BY <2>2, <2>4, <3>1, Zenon DEF InOrder
    <3> QED BY <2>2, <2>5, <3>3, <3>4
  <2> QED BY <2>2, <2>4, <2>6
<1>15. Astray' \subseteq Astray \union {x}
  BY <1>14
<1>16. CrawlCounts'
  BY <1>0, <1>1, <1>2, <1>15, OneMore
<1> QED BY <1>4, <1>5, <1>7, <1>16 DEF CrawlInv

LEMMA ChangeSiteKeeps ==
  ASSUME CrawlInv, ChangeSite
  PROVE  CrawlInv'
<1>1. /\ siteChanges' = siteChanges + 1
      /\ UNCHANGED <<adapter, cache, crawl, submissions, unanswered>>
      /\ \/ NewProduct \notin Range(site) /\ site' = <<NewProduct>> \o site
         \/ \E i \in DOMAIN site : site' = RemoveAt(site, i)
  BY DEF ChangeSite
<1>0. /\ siteChanges' = siteChanges + 1
      /\ UNCHANGED <<adapter, cache, crawl, submissions, unanswered>>
  BY <1>1
<1>2. CrawlType /\ HandlesApart
  BY DEF CrawlInv
<1>3. PICK len \in Nat : len = Len(site)
  BY <1>2 DEF CrawlType
<1>4. site \in Seq(Offered) /\ DOMAIN site = 1..len
  BY <1>2, <1>3 DEF CrawlType
<1>5. \A i, j \in 1..len : site[i].handle = site[j].handle => i = j
  BY <1>2, <1>4 DEF HandlesApart
<1>6. PICK border \in Int :
        \A i \in Nat : WasRead(i) <=> crawl.next = 0 \/ i <= border
  <2>1. crawl.next \in Nat /\ SitePageSize \in Nat
    BY <1>2, AdaptersAssumption DEF CrawlType
  <2>2. (crawl.next - 1) * SitePageSize \in Int
    BY <2>1
  <2> QED BY <2>2 DEF WasRead
<1>7. CASE NewProduct \notin Range(site) /\ site' = <<NewProduct>> \o site
  <2>1. NewProduct \in Offered
    BY DEF Offered
  <2>2. /\ site' \in Seq(Offered) /\ Len(site') = len + 1
        /\ DOMAIN site' = 1..(len + 1) /\ site'[1] = NewProduct
        /\ \A j \in 2..(len + 1) : site'[j] = site[j - 1]
    BY <1>3, <1>4, <1>7, <2>1
  <2>3. \A k \in 1..len : site[k] \in Range(Products)
    <3>1. \A k \in 1..len : site[k] \in Offered /\ site[k] # NewProduct
      BY <1>4, <1>7 DEF Range
    <3> QED BY <3>1 DEF Offered
  <2>4. \A k \in 1..len : site[k].handle # NewProduct.handle
    BY <2>3, ProductsApart
  <2>5. \A j \in 1..(len + 1) : j = 1 \/ (j \in 2..(len + 1) /\ j - 1 \in 1..len)
    BY <1>3
  <2>6. ASSUME NEW i \in DOMAIN site', NEW j \in DOMAIN site',
               site'[i].handle = site'[j].handle
        PROVE  i = j
    <3>1. i = 1 \/ (i \in 2..(len + 1) /\ i - 1 \in 1..len /\ site'[i] = site[i - 1])
      BY <2>2, <2>5
    <3>2. j = 1 \/ (j \in 2..(len + 1) /\ j - 1 \in 1..len /\ site'[j] = site[j - 1])
      BY <2>2, <2>5
    <3>3. CASE i = 1 \/ j = 1
      BY <2>2, <2>4, <2>6, <3>1, <3>2, <3>3
    <3>4. CASE i # 1 /\ j # 1
      <4>1. i - 1 = j - 1
        BY <1>5, <2>6, <3>1, <3>2, <3>4
      <4> QED BY <3>1, <3>2, <3>4, <4>1
    <3> QED BY <3>3, <3>4
  <2>7. PICK x : x = site[border]
    OBVIOUS
  <2>8. ASSUME NEW j \in DOMAIN site', site'[j] # NewProduct
        PROVE  \E k \in DOMAIN site :
                 site'[j] = site[k] /\ (site[k] = x \/ (WasRead(j) <=> WasRead(k)))
    <3>1. /\ j \in 2..(len + 1) /\ j - 1 \in 1..len /\ site'[j] = site[j - 1]
      BY <2>2, <2>5, <2>8
    <3>2. PICK k \in 1..len : k = j - 1
      BY <3>1
    <3>3. j \in Nat /\ k \in Nat /\ j = k + 1
      BY <1>3, <3>1, <3>2
    <3>4. k = border \/ (j <= border <=> k <= border)
      BY <1>6, <3>3
    <3>5. site[k] = x \/ (WasRead(j) <=> WasRead(k))
      BY <1>6, <2>7, <3>3, <3>4
    <3> QED BY <1>4, <3>1, <3>2, <3>5
  <2>9. \A i, j \in DOMAIN site' : site'[i].handle = site'[j].handle => i = j
    BY <2>6
  <2>10. \A j \in DOMAIN site' :
           \/ site'[j] = NewProduct
           \/ \E k \in DOMAIN site :
                site'[j] = site[k] /\ (site[k] = x \/ (WasRead(j) <=> WasRead(k)))
    BY <2>8
  <2>11. site' \in Seq(Offered)
    BY <2>2
  <2>12. OnePasses(x)
    BY <1>0, <2>9, <2>10, <2>11, Zenon DEF OnePasses
  <2> QED BY <2>12, SiteMoves
<1>8. CASE \E i \in DOMAIN site : site' = RemoveAt(site, i)
  <2>1. PICK i \in 1..len : site' = RemoveAt(site, i)
    BY <1>4, <1>8
  <2>2. site' = SubSeq(site, 1, i - 1) \o SubSeq(site, i + 1, len)
    BY <1>3, <2>1 DEF RemoveAt
  <2>3. PICK before, after : before = SubSeq(site, 1, i - 1) /\ after = SubSeq(site, i + 1, len)
    OBVIOUS
  <2>4. /\ before \in Seq(Offered) /\ Len(before) = i - 1
        /\ \A j \in 1..(i - 1) : before[j] = site[j]
    BY <1>3, <1>4, <2>3
  <2>5. /\ after \in Seq(Offered) /\ Len(after) = len - i
        /\ \A j \in 1..(len - i) : after[j] = site[j + i]
    BY <1>3, <1>4, <2>3
  <2>6. /\ site' \in Seq(Offered) /\ DOMAIN site' = 1..(len - 1)
        /\ \A j \in 1..(i - 1) : site'[j] = before[j]
        /\ \A j \in i..(len - 1) : site'[j] = after[j - (i - 1)]
    <3>1. site' = before \o after
      BY <2>2, <2>3
    <3>2. len - i \in Nat /\ i - 1 \in Nat /\ (i - 1) + (len - i) = len - 1
      BY <1>3
    <3>3. site' \in Seq(Offered) /\ Len(site') = len - 1
      <4>1. PICK s : s = before \o after
        OBVIOUS
      <4>2. before \in Seq(Offered) /\ after \in Seq(Offered)
        BY <2>4, <2>5
      <4>3. s \in Seq(Offered) /\ Len(s) = Len(before) + Len(after)
        BY <4>1, <4>2
      <4> QED BY <2>4, <2>5, <3>1, <3>2, <4>1, <4>3
    <3>4. DOMAIN site' = 1..(len - 1)
      BY <3>3
    <3>5. \A j \in 1..(i - 1) : site'[j] = before[j]
      BY <1>3, <2>4, <2>5, <3>1, <3>2
    <3>6. \A j \in i..(len - 1) : site'[j] = after[j - (i - 1)]
      BY <1>3, <2>4, <2>5, <3>1, <3>2
    <3> QED BY <3>3, <3>4, <3>5, <3>6
  <2>7. \A j \in 1..(len - 1) :
          \/ j \in 1..len /\ j < i /\ site'[j] = site[j]
          \/ j + 1 \in 1..len /\ j >= i /\ site'[j] = site[j + 1]
    <3> SUFFICES ASSUME NEW j \in 1..(len - 1)
                 PROVE  \/ j \in 1..len /\ j < i /\ site'[j] = site[j]
                        \/ j + 1 \in 1..len /\ j >= i /\ site'[j] = site[j + 1]
      OBVIOUS
    <3>1. CASE j < i
      BY <1>3, <2>4, <2>6, <3>1
    <3>2. CASE j >= i
      <4>1. /\ j - (i - 1) \in 1..(len - i) /\ (j - (i - 1)) + i = j + 1
            /\ j \in i..(len - 1)
        BY <1>3, <3>2
      <4>2. site'[j] = after[j - (i - 1)]
        BY <2>6, <4>1
      <4>3. after[j - (i - 1)] = site[j + 1]
        BY <2>5, <4>1
      <4> QED BY <1>3, <3>2, <4>2, <4>3
    <3> QED BY <3>1, <3>2
  <2>8. ASSUME NEW h \in DOMAIN site', NEW j \in DOMAIN site',
               site'[h].handle = site'[j].handle
        PROVE  h = j
    <3>1. PICK k \in 1..len : site'[h] = site[k] /\ ((k = h /\ h < i) \/ (k = h + 1 /\ h >= i))
      BY <2>6, <2>7
    <3>2. PICK l \in 1..len : site'[j] = site[l] /\ ((l = j /\ j < i) \/ (l = j + 1 /\ j >= i))
      BY <2>6, <2>7
    <3>3. k = l
      BY <1>5, <2>8, <3>1, <3>2
    <3>4. h \in Int /\ j \in Int /\ i \in Int
      BY <1>3, <2>6
    <3>5. (k = h /\ h < i) \/ (k = h + 1 /\ h >= i)
      BY <3>1
    <3>6. (k = j /\ j < i) \/ (k = j + 1 /\ j >= i)
      BY <3>2, <3>3
    <3> QED BY <3>4, <3>5, <3>6
  <2>9. PICK x : x = site[border + 1]
    OBVIOUS
  <2>10. ASSUME NEW j \in DOMAIN site'
         PROVE  \E k \in DOMAIN site :
                  site'[j] = site[k] /\ (site[k] = x \/ (WasRead(j) <=> WasRead(k)))
    <3>1. PICK k \in 1..len : site'[j] = site[k] /\ (k = j \/ k = j + 1)
      BY <2>6, <2>7
    <3>2. j \in Nat /\ k \in Nat
      BY <1>3, <2>6
    <3>3. k = border + 1 \/ (j <= border <=> k <= border)
      BY <1>6, <3>1, <3>2
    <3>4. site[k] = x \/ (WasRead(j) <=> WasRead(k))
      BY <1>6, <2>9, <3>2, <3>3
    <3> QED BY <1>4, <3>1, <3>4
  <2>11. \A h, j \in DOMAIN site' : site'[h].handle = site'[j].handle => h = j
    BY <2>8
  <2>12. \A j \in DOMAIN site' :
           \/ site'[j] = NewProduct
           \/ \E k \in DOMAIN site :
                site'[j] = site[k] /\ (site[k] = x \/ (WasRead(j) <=> WasRead(k)))
    BY <2>10
  <2>13. site' \in Seq(Offered)
    BY <2>6
  <2>14. OnePasses(x)
    BY <1>0, <2>11, <2>12, <2>13, Zenon DEF OnePasses
  <2> QED BY <2>14, SiteMoves
<1> QED BY <1>1, <1>7, <1>8

-----------------------------------------------------------------------------
(* The theorem *)

LEMMA CrawlSteps ==
  ASSUME CrawlInv, [AdaptersNext]_adaptersVars
  PROVE  CrawlInv'
<1>1. CASE UNCHANGED adaptersVars
  BY <1>1, CrawlStutters
<1>2. CASE DiscoverNext
  BY <1>2, DiscoverKeeps
<1>3. CASE FetchBook
  BY <1>3, FetchBookKeeps
<1>4. CASE FetchInventory
  BY <1>4, FetchInventoryKeeps
<1>5. CASE DownloadCover
  BY <1>5, DownloadCoverKeeps
<1>6. CASE SubmitCanonical
  BY <1>6, SubmitKeeps
<1>7. CASE FetchFails
  BY <1>7, FetchFailsKeeps
<1>8. CASE ChangeSite
  BY <1>8, ChangeSiteKeeps
<1> QED BY <1>1, <1>2, <1>3, <1>4, <1>5, <1>6, <1>7, <1>8, Zenon DEF AdaptersNext

\* What a crawl that has ended says of each book of the site.
LEMMA CrawlAccounts ==
  ASSUME CrawlInv
  PROVE  CrawlFindsEveryBook
<1>1. CrawlType /\ CrawlIsAt /\ CrawlCounts
  BY DEF CrawlInv
<1>2. ASSUME Ended
      PROVE  Cardinality({p \in Range(Products) \intersect Range(site) :
                            IsBook(p) /\ Cardinality(Submitted(p.handle)) # 1})
               <= unanswered + siteChanges
  <2>1. crawl.refs = {} /\ crawl.next = 0
    BY <1>1, <1>2 DEF Ended, CrawlIsAt
  <2>2. PICK others :
          others = {p \in Range(Products) \intersect Range(site) :
                       IsBook(p) /\ Cardinality(Submitted(p.handle)) # 1}
    OBVIOUS
  <2>3. ASSUME NEW p \in Range(Products), p \in Range(site), IsBook(p),
               Cardinality(Submitted(p.handle)) # 1
        PROVE  p \in Astray
    <3>1. PICK i \in DOMAIN site : site[i] = p
      BY <2>3 DEF Range
    <3>2. WasRead(i) /\ ~ToDo(p.handle)
      BY <2>1 DEF WasRead, ToDo
    <3>3. \A k : Submitted(p.handle) # {k}
      BY <2>3, FS_Singleton
    <3>4. ~DoneOnce(p.handle)
      BY <3>2, <3>3, Zenon DEF DoneOnce
    <3>5. ~InOrder(i)
      BY <3>1, <3>2, <3>4, Zenon DEF InOrder
    <3> QED BY <2>3, <3>1, <3>5, Zenon DEF Astray
  <2>4. others \in SUBSET Astray
    BY <2>2, <2>3
  <2>5. Astray \in SUBSET Range(Products)
    BY DEF Astray
  <2>6. PICK A : A = Astray
    OBVIOUS
  <2>7. /\ Cardinality(others) <= Cardinality(A)
        /\ Cardinality(A) \in Nat /\ Cardinality(others) \in Nat
    BY <2>4, <2>5, <2>6, NoneLost
  <2>8. Cardinality(A) <= unanswered + siteChanges
    BY <1>1, <2>6 DEF CrawlCounts
  <2>9. unanswered \in Nat /\ siteChanges \in Nat
    BY <1>1 DEF CrawlType
  <2>10. Cardinality(others) <= unanswered + siteChanges
    BY <2>7, <2>8, <2>9
  <2> QED BY <2>2, <2>10
<1>3. ASSUME NEW i \in DOMAIN submissions, submissions[i].issues = {}
      PROVE  /\ submissions[i].book.title # Absent
             /\ submissions[i].book.language # Absent
             /\ submissions[i].book.authors # {}
  <2>1. submissions[i] \in CrawlSubmission
    BY <1>1 DEF CrawlType
  <2>2. PICK b \in Normalized : submissions[i] = [book |-> b, issues |-> ValidateBookFields(b)]
    BY <2>1 DEF CrawlSubmission
  <2>3. submissions[i].book = b /\ ValidateBookFields(b) = {}
    BY <1>3, <2>2
  <2>4. /\ "missing_title" \notin ValidateBookFields(b)
        /\ "missing_author" \notin ValidateBookFields(b)
        /\ "missing_language" \notin ValidateBookFields(b)
    BY <2>3
  <2>5. b.title # Absent /\ b.language # Absent /\ b.authors # {}
    BY <2>4 DEF ValidateBookFields
  <2> QED BY <2>3, <2>5
<1> QED BY <1>2, <1>3, Zenon DEF CrawlFindsEveryBook

\* A crawl of a site of any size, on pages of any size, with each of the
\* adapters, submits every book of the site once, but for one at most for each
\* answer it did not get and for each change of the site; and a book submitted
\* without errors has a title, a language and an author.
THEOREM CrawlFindsEveryBookHolds == AdaptersSpec => []CrawlFindsEveryBook
<1>1. AdaptersInit => CrawlInv
  BY CrawlStarts
<1>2. CrawlInv /\ [AdaptersNext]_adaptersVars => CrawlInv'
  BY CrawlSteps
<1>3. CrawlInv => CrawlFindsEveryBook
  BY CrawlAccounts
<1> QED BY <1>1, <1>2, <1>3, PTL DEF AdaptersSpec
=============================================================================

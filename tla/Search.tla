------------------------------- MODULE Search -------------------------------
(***************************************************************************)
(* A visitor walks the pages of a search or of all books, and follows the  *)
(* facets (apps/web's search and browse pages over api-search and          *)
(* api-catalog). A page takes several reads, each of the catalogue as it   *)
(* is then, in any order; editors and sales go on between them.            *)
(***************************************************************************)
EXTENDS Catalog, Interest, FiniteSetsExt

CONSTANTS
  Query, NoQuery,  \* the searches; NoQuery is the page of all books
  Text,            \* [Query -> [Book -> Nat]]: how well the words match, 0 for not
  PersonalWeight,  \* WEIGHTS.personalization
  Personalized,    \* FEATURE_PERSONALIZED_RANKING
  PageSize, MaxSimilar,
  MaxVisits        \* bound: pages opened

AnyValue == "any"    \* a facet that is not narrowed
BookPage == "book"  \* the page of one book, in the place of a query

ASSUME SearchAssumption ==
  /\ {NoQuery, BookPage} \cap Query = {} /\ NoQuery # BookPage
  /\ \A b \in Book : AnyValue \notin {BookRow[b].publisher} \union WorkRow[BookRow[b].work].themes
  /\ PersonalWeight \in Nat
  /\ PageSize \in Nat \ {0} /\ MaxSimilar \in Nat \ {0} /\ MaxVisits \in Nat
  /\ \A q \in Query, b \in Book : Text[q][b] \in Nat

VARIABLES
  visit,       \* the page: its query, filters, number, reads still out, result
  walked,      \* history: the books of the pages so far, in order
  expected,    \* history: the count of the facet that was followed
  changed,     \* history: the catalogue changed since the walk began
  visits

searchVars == <<visit, walked, expected, changed, visits>>

\* Facets (bound: genreId is as themeId, language as publisherId).
Key == {"publisherId", "themeId", "availability"}
NoFilter == [k \in Key |-> AnyValue]
NoVisit == [open |-> FALSE, query |-> NoQuery, filter |-> NoFilter, page |-> 1, reads |-> {},
            ids |-> <<>>, count |-> 0, facets |-> [k \in Key |-> <<>>], cards |-> <<>>]

\* What a book has of a facet.
ValuesOf(k, b) ==
  CASE k = "publisherId"  -> {BookRow[b].publisher}
    [] k = "themeId"      -> WorkRow[BookRow[b].work].themes
    [] k = "availability" -> IF BookRow[b].price = NoPrice THEN {}
                             ELSE IF b \in inStock THEN {"in_stock"} ELSE {"out_of_stock"}

-----------------------------------------------------------------------------
(* SearchService *)

\* personalizationSignals: of every book liked once.
Signals ==
  [authors |-> UNION {Authors(BookRow[b].work) : b \in EverLiked},
   themes |-> UNION {WorkRow[BookRow[b].work].themes : b \in EverLiked},
   publishers |-> {BookRow[b].publisher : b \in EverLiked}]

IsPersonal(b) ==
  /\ Personalized
  /\ \/ Authors(BookRow[b].work) \cap Signals.authors # {}
     \/ WorkRow[BookRow[b].work].themes \cap Signals.themes # {}
     \/ BookRow[b].publisher \in Signals.publishers

\* The greatest of what the words and the likes give, not their sum.
Relevance(q, b) == Max({Text[q][b], IF IsPersonal(b) THEN PersonalWeight ELSE 0})

FilterClause(filter, b) ==
  b \in published /\ \A k \in Key : filter[k] = AnyValue \/ filter[k] \in ValuesOf(k, b)

Matched(q, filter) == {b \in Book : FilterClause(filter, b) /\ Relevance(q, b) > 0}

\* Mutant: the order is of relevance alone.
MatchedByRelevance(q, filter, page) ==
  {Page(s, page, PageSize) :
     s \in Orders(Matched(q, filter), LAMBDA b, c : Relevance(q, b) > Relevance(q, c))}

\* A page of ids, by score (here the relevance) and then by id.
Ranks(score, b, c) == score[b] > score[c] \/ (score[b] = score[c] /\ b < c)
MatchedBookIds(q, filter, page) ==
  LET score == [b \in Book |-> Relevance(q, b)]
      Before(b, c) == Ranks(score, b, c) IN
  {Page(s, page, PageSize) : s \in Orders(Matched(q, filter), Before)}

CountMatches(q, filter) == Cardinality(Matched(q, filter))

\* The values of each facet, and how many of the books have each.
Facets(M) ==
  [k \in Key |-> [v \in UNION {ValuesOf(k, b) : b \in M} |->
                    Cardinality({b \in M : v \in ValuesOf(k, b)})]]

\* Mutant: the facets are of the query alone.
FacetsOfQuery(q, filter) == Facets(Matched(q, NoFilter))

\* computeFacets: five queries, together (their reads are one here).
ComputeFacets(q, filter) == Facets(Matched(q, filter))

\* bookListItemToCard, for the page of all books.
BookListItemToCard(item) ==
  [id |-> item.id, author |-> PrimaryAuthor(item.work.authors), price |-> item.inventory]

\* SimilarBooksService.similarTo: the first of three times as many candidates
\* (by how much they share, so that those that share anything come first: each
\* credit of a shared author counts), other editions of the work left out.
MatchScore(b, c) ==
  LET v == BookRow[b].work  w == BookRow[c].work IN
  (IF BookRow[b].publisher = BookRow[c].publisher THEN 1 ELSE 0)
    + Cardinality({k \in WorkRow[w].credits : k.author \in Authors(v)})
    + Cardinality(WorkRow[v].themes \cap WorkRow[w].themes)
SimilarTo(b) ==
  LET others == {c \in published \ {b} : BookRow[c].work # BookRow[b].work}
      score == [c \in others |-> MatchScore(b, c)]
      Before(c, d) == Ranks(score, c, d)
      Ranked(rows) == Cardinality({i \in DOMAIN rows : score[rows[i]] > 0})
      First(rows) == SubSeq(rows, 1, IF MaxSimilar < Ranked(rows) THEN MaxSimilar ELSE Ranked(rows))
  IN  IF b \in published THEN {First(Page(s, 1, MaxSimilar * 3)) : s \in Orders(others, Before)}
      ELSE {<<>>}

-----------------------------------------------------------------------------
(* The pages *)

SearchInit ==
  /\ visit = NoVisit /\ walked = <<>> /\ expected = {} /\ changed = FALSE /\ visits = 0

\* A page is requested: its reads leave together.
Open(q, filter, page) ==
  /\ visits < MaxVisits /\ visits' = visits + 1
  /\ visit' = [NoVisit EXCEPT !.open = TRUE, !.query = q, !.filter = filter, !.page = page,
                 !.reads = {"ids", "count"} \union IF q = NoQuery THEN {} ELSE {"facets"}]

Rendered == visit.open /\ visit.reads = {} /\ Len(visit.cards) = Len(visit.ids)

\* A new search, or the page of all books.
Enter(q) ==
  /\ Open(q, NoFilter, 1)
  /\ walked' = <<>> /\ expected' = {} /\ changed' = FALSE

ReadIds ==
  /\ "ids" \in visit.reads
  /\ \E ids \in IF visit.query = NoQuery THEN ListRows(visit.page, PageSize)
                ELSE MatchedBookIds(visit.query, visit.filter, visit.page) :
       visit' = [visit EXCEPT !.reads = @ \ {"ids"}, !.ids = ids]
  /\ UNCHANGED <<walked, expected, changed, visits>>

ReadCount ==
  /\ "count" \in visit.reads
  /\ visit' = [visit EXCEPT !.reads = @ \ {"count"},
                 !.count = IF visit.query = NoQuery THEN ListCount
                           ELSE CountMatches(visit.query, visit.filter)]
  /\ UNCHANGED <<walked, expected, changed, visits>>

ReadFacets ==
  /\ "facets" \in visit.reads
  /\ visit' = [visit EXCEPT !.reads = @ \ {"facets"},
                            !.facets = ComputeFacets(visit.query, visit.filter)]
  /\ UNCHANGED <<walked, expected, changed, visits>>

\* The cards are read when all else is there.
BuildCards ==
  /\ visit.open /\ visit.reads = {} /\ visit.cards = <<>> /\ visit.ids # <<>>
  /\ \E answer \in AuthorsByWork :
       visit' = [visit EXCEPT !.cards =
                   IF visit.query = NoQuery
                   THEN [i \in DOMAIN visit.ids |->
                           BookListItemToCard(BookListItem(visit.ids[i], "IN", answer))]
                   ELSE Build(visit.ids, answer)]
  /\ walked' = IF visit.query = BookPage THEN walked ELSE walked \o visit.ids
  /\ UNCHANGED <<expected, changed, visits>>

\* The link of a card: a page of one book, if that is there, and the books like
\* it, which a failure leaves out.
OpenBook(b) ==
  /\ Rendered /\ b \in Range(visit.ids)
  /\ visits < MaxVisits /\ visits' = visits + 1
  /\ visit' = IF GetBook(b, "IN").status = 404 THEN NoVisit
              ELSE [NoVisit EXCEPT !.open = TRUE, !.query = BookPage, !.page = b,
                                   !.reads = {"similar"}]
  /\ expected' = {} /\ UNCHANGED <<walked, changed>>

ReadSimilar ==
  /\ "similar" \in visit.reads
  /\ \E ids \in SimilarTo(visit.page) : visit' = [visit EXCEPT !.reads = {}, !.ids = ids]
  /\ UNCHANGED <<walked, expected, changed, visits>>

NextPage ==
  /\ Rendered /\ visit.query # BookPage /\ visit.page < TotalPages(visit.count, PageSize)
  /\ Open(visit.query, visit.filter, visit.page + 1)
  /\ expected' = {} /\ UNCHANGED <<walked, changed>>

PreviousPage ==
  /\ Rendered /\ visit.query # BookPage /\ visit.page > 1
  /\ Open(visit.query, visit.filter, visit.page - 1)
  /\ walked' = SubSeq(walked, 1, (visit.page - 2) * PageSize)
  /\ expected' = {} /\ UNCHANGED changed

\* buildSearchHref: a value takes the place of the one its facet had. The
\* history expects its count only where there was none, or the same.
FollowFacet(k, v) ==
  /\ Rendered /\ v \in DOMAIN visit.facets[k]
  /\ Open(visit.query, [visit.filter EXCEPT ![k] = v], 1)
  /\ walked' = <<>>
  /\ expected' = IF visit.filter[k] \in {AnyValue, v} THEN {visit.facets[k][v]} ELSE {}
  /\ UNCHANGED changed

SearchPage ==
  \/ \E q \in Query : Enter(q)
  \/ NextPage \/ PreviousPage
  \/ \E k \in Key : \E v \in DOMAIN visit.facets[k] : FollowFacet(k, v)

\* Browse all: the list, which has no query.
BrowsePage == Enter(NoQuery)

SearchNext ==
  \/ SearchPage \/ BrowsePage \/ \E b \in Book : OpenBook(b)
  \/ ReadIds \/ ReadCount \/ ReadFacets \/ ReadSimilar \/ BuildCards

\* The catalogue changes, or the likes, while the visitor looks.
ChangedMeanwhile == changed' = TRUE /\ UNCHANGED <<visit, walked, expected, visits>>

\* The likes are any to begin with.
SearchSpec ==
  /\ CatalogInit /\ SearchInit
  /\ [][\/ SearchNext /\ UNCHANGED <<catalogVars, interestVars>>
        \/ CatalogNext /\ ChangedMeanwhile /\ UNCHANGED interestVars
        \/ InterestNext /\ ChangedMeanwhile /\ UNCHANGED catalogVars
       ]_<<catalogVars, interestVars, searchVars>>

-----------------------------------------------------------------------------
(* Properties *)

\* While nothing changes, a walk to the last page has shown every book that
\* the query and its filters match, each once. (The page of all books orders
\* by titles alone: not where two are equal.)
WalkSeesEachOnce ==
  Rendered /\ visit.query # BookPage /\ ~changed /\ visit.page >= TotalPages(visit.count, PageSize)
    => LET all == IF visit.query = NoQuery THEN published
                  ELSE Matched(visit.query, visit.filter) IN
       \/ visit.query = NoQuery
          /\ \E b, c \in published : b # c /\ BookRow[b].title = BookRow[c].title
       \/ Range(walked) = all /\ Len(walked) = Cardinality(all)

\* A facet that says n leads to n results, while nothing changes and it does
\* not replace another value of the same facet.
FacetLeadsToItsCount ==
  Rendered /\ ~changed => \A n \in expected : visit.count = n

\* Every card on a page, of a search, of all books or of those like a book,
\* opens while nothing changes, says what the cart will charge in the home
\* market and names the author that the book's page puts first, but for a work
\* with two authors in the first place: each query may choose another. The work
\* of a book that opens does too, unless an editor took it back.
CardsOpenAndCharge ==
  /\ Rendered /\ ~changed => \A card \in Range(visit.cards) :
       LET book == GetBook(card.id, "IN") IN
       /\ book.status = 200
       /\ \/ FirstIsShared(BookRow[card.id].work)
          \/ \A work \in book.work : card.author = PrimaryAuthor(work.authors)
       /\ card.price = Charged(card.id, "IN") /\ card.price = book.inventory
  /\ \A b \in published : \/ BookRow[b].work \in demoted
                          \/ GetWork(BookRow[b].work).status = 200
=============================================================================
